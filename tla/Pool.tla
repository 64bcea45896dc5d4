-------------------------------- MODULE Pool --------------------------------
(***************************************************************************)
(* What a goroutine pool (utils/copool.go) promises its user: jobs start   *)
(* in the order they were submitted, each submission runs once, and at     *)
(* most cap of them run at any moment.                                     *)
(*                                                                         *)
(* Copool.tla implements this specification; Executor.tla uses its three   *)
(* actions in place of the pool's own steps.                               *)
(***************************************************************************)
EXTENDS Naturals, Sequences, FiniteSets

CONSTANTS
  Jobs,      \* what can be submitted; a job may be submitted more than once
  Workers,   \* goroutines that may run a job
  None,      \* "no job"
  cap        \* the bound on jobs running at once

VARIABLES
  taskQ,     \* jobs submitted and not yet started, oldest first
  slot       \* the job a worker is running, or None

poolVars == <<taskQ, slot>>

Running == {w \in Workers : slot[w] /= None}

TypeOK ==
  /\ taskQ \in Seq(Jobs)
  /\ slot \in [Workers -> Jobs \cup {None}]

Init ==
  /\ taskQ = <<>>
  /\ slot = [w \in Workers |-> None]

\* Copool.Go(f): the caller never blocks.
Submit(j) ==
  /\ taskQ' = Append(taskQ, j)
  /\ UNCHANGED slot

\* A free worker takes the oldest job.
Start(w) ==
  /\ slot[w] = None
  /\ taskQ /= <<>>
  /\ Cardinality(Running) < cap
  /\ slot' = [slot EXCEPT ![w] = Head(taskQ)]
  /\ taskQ' = Tail(taskQ)

\* The job returned (or its panic was recovered).
Finish(w) ==
  /\ slot[w] /= None
  /\ slot' = [slot EXCEPT ![w] = None]
  /\ UNCHANGED taskQ

Next ==
  \/ \E j \in Jobs : Submit(j)
  \/ \E w \in Workers : Start(w) \/ Finish(w)

Spec == Init /\ [][Next]_poolVars
=============================================================================
