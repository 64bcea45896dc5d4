------------------------------ MODULE FlowSpec ------------------------------
(***************************************************************************)
(* What go-taskflow promises for flows without condition tasks and without *)
(* panics: each call of Run executes every task of the flow once, after    *)
(* the tasks it succeeds; a subflow task first executes its handler, then  *)
(* every task of the flow it built, and only then counts as executed.      *)
(*                                                                         *)
(* Nothing is said of goroutines, queues or locks.  Executor.tla           *)
(* implements this specification.                                          *)
(***************************************************************************)
EXTENDS Naturals

CONSTANTS
  Nodes, Callers,
  pred,      \* pred[n]: the tasks that n succeeds
  caller,    \* caller[n]: whose flow n belongs to, for a task of no subflow
  owner,     \* owner[n]: the subflow task that n belongs to, or None
  None,
  Subflows,  \* the tasks that are subflows
  MaxRuns

VARIABLES
  runs,      \* how often each caller has called Run
  started,   \* how often each task has been started,
  opened,    \* ... each subflow task has built its flow,
  finished   \* ... each task has been completed

flowVars == <<runs, started, opened, finished>>

\* How often n has been asked for.
Due(n) == IF owner[n] = None THEN runs[caller[n]] ELSE opened[owner[n]]

Init ==
  /\ runs = [c \in Callers |-> 0]
  /\ started = [n \in Nodes |-> 0]
  /\ opened = [n \in Nodes |-> 0]
  /\ finished = [n \in Nodes |-> 0]

Inner(n) == {m \in Nodes : owner[m] = n}

Run(c) ==
  /\ runs[c] < MaxRuns
  /\ \A n \in Nodes : owner[n] = None /\ caller[n] = c => finished[n] = runs[c]
  /\ runs' = [runs EXCEPT ![c] = @ + 1]
  /\ UNCHANGED <<started, opened, finished>>

Start(n) ==
  /\ started[n] < Due(n)
  /\ finished[n] = started[n]
  /\ \A p \in pred[n] : finished[p] > started[n]
  /\ started' = [started EXCEPT ![n] = @ + 1]
  /\ UNCHANGED <<runs, opened, finished>>

Open(n) ==
  /\ n \in Subflows
  /\ opened[n] < started[n]
  /\ opened' = [opened EXCEPT ![n] = started[n]]
  /\ UNCHANGED <<runs, started, finished>>

Finish(n) ==
  /\ finished[n] < started[n]
  /\ n \in Subflows => opened[n] = started[n] /\ \A m \in Inner(n) : finished[m] = opened[n]
  /\ finished' = [finished EXCEPT ![n] = @ + 1]
  /\ UNCHANGED <<runs, started, opened>>

Step(n) == Start(n) \/ Open(n) \/ Finish(n)

Next ==
  \/ \E c \in Callers : Run(c)
  \/ \E n \in Nodes : Step(n)

\* Every task that may start, or complete, does so.
Spec == Init /\ [][Next]_flowVars /\ \A n \in Nodes : WF_flowVars(Step(n))
=============================================================================
