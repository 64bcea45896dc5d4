------------------------------- MODULE Traced -------------------------------
(***************************************************************************)
(* The scheduler with a tracer and a profiler: Executor.tla, and the       *)
(* observer's openSpan and closeSpan around every closure (profiler.go,    *)
(* tracer.go).                                                             *)
(*                                                                         *)
(* A closure opens its span when it begins, and closes it first of all in  *)
(* its deferred function, in two critical sections: the profiler's AddSpan *)
(* and the tracer's AddEvent.  A worker that has a span to close takes no  *)
(* step of Executor meanwhile; everybody else does.                        *)
(*                                                                         *)
(* The span of a worker is that of its slot; parent[w] is the task of the  *)
(* span it points to.  Durations are counted in executions: each costs 1.  *)
(* The tasks of a flow have different names, the elements of Nodes.  The   *)
(* trace is a bag of tasks: properties of the order and of the parents of  *)
(* its events are stated of the states in which an event enters it.        *)
(***************************************************************************)
EXTENDS Executor, SequencesExt

Validation == INSTANCE Validator

CONSTANTS
  hasProfiler,   \* WithProfiler was given
  hasTracer      \* WithTracer was given

ASSUME ObserverAssumption == hasProfiler \in BOOLEAN /\ hasTracer \in BOOLEAN

VARIABLES
  parents,       \* the parentSpan captured by each closure in taskQ
  parent,        \* the parent of the span of a worker's closure
  stage,         \* "none" (nothing to close), "open", "added" (to the profiler)
  panicked,      \* recover() returned something in the worker's closure
  events,        \* tracer.events: how many of each task
  spans          \* profiler.spans: the cost of each task, 0 when it has none

obsVars == <<parents, parent, stage, panicked, events, spans>>
tracedVars == <<vars, obsVars>>

TracedInit ==
  /\ Init
  /\ parents = <<>>
  /\ parent = [w \in Workers |-> None]
  /\ stage = [w \in Workers |-> "none"]
  /\ panicked = [w \in Workers |-> FALSE]
  /\ events = [n \in Nodes |-> 0]
  /\ spans = [n \in Nodes |-> 0]

-----------------------------------------------------------------------------
Observing == hasProfiler \/ hasTracer

\* The parentSpan of the loop that thread t runs, nil for a caller: the span of
\* the subflow whose closure t executes.
parentSpan(t) == IF t \in Callers \/ ~Observing THEN None ELSE slot[t]

\* Mutant: the span is closed at the end of the closure.
ClosingLate(w) == stage[w] /= "none" /\ pc[w] = "done"

\* The closure of w has entered its deferred function and not closed its span.
Closing(w) == stage[w] /= "none" /\ slot[w] /= None /\ pc[w] = Deferred(slot[w])

\* invokeNode: the closure captures the parentSpan of the loop that popped the
\* node, whatever graph the node belongs to.
Submit(t) ==
  /\ InvokeNode(t)
  /\ parents' = Append(parents, parentSpan(t))
  /\ UNCHANGED <<parent, stage, panicked, events, spans>>

\* The rest of scheduleGraph and invokeGraph.
Drive(t) ==
  /\ t \in Workers => ~Closing(t)
  /\ \/ Reset(t) \/ Setup(t) \/ ScheduleStep(t) \/ GraphReturn(t)
     \/ InvokeLoop(t) \/ InvokeLeave(t) \/ InvokePop(t)
  /\ UNCHANGED obsVars

\* A closure starts, with the parentSpan it was given.
Take(w) ==
  /\ TakeTask(w)
  /\ parents' = Tail(parents)
  /\ parent' = [parent EXCEPT ![w] = Head(parents)]
  /\ UNCHANGED <<stage, panicked, events, spans>>

\* openSpan, then the first test of canceled.
Open(w) ==
  /\ Begin(w)
  /\ stage' = [stage EXCEPT ![w] = IF Observing THEN "open" ELSE "none"]
  /\ UNCHANGED <<parents, parent, panicked, events, spans>>

Panicking(w) ==
  /\ ChoosePanic(w) \/ HandlerPanic(w)
  /\ panicked' = [panicked EXCEPT ![w] = TRUE]
  /\ UNCHANGED <<parents, parent, stage, events, spans>>

\* The rest of the closure.
Proceed(w) ==
  /\ ~Closing(w)
  /\ \/ ReturnStatic(w) \/ ReturnSubflow(w) \/ ReturnCondition(w)
     \/ Drop(w) \/ CheckSuccessor(w) \/ Resetup(w) \/ Deref(w)
  /\ UNCHANGED obsVars

\* The closure ends, its local variables with it.
End(w) ==
  /\ ~Closing(w)
  /\ Done(w)
  /\ parent' = [parent EXCEPT ![w] = None]
  /\ panicked' = [panicked EXCEPT ![w] = FALSE]
  /\ UNCHANGED <<parents, stage, events, spans>>

-----------------------------------------------------------------------------
\* Mutants: the cost of the earlier spans is not carried over; it is subtracted.
CostAlone(n) == 1
CostDifference(n) == spans[n] - 1

\* AddSpan's sum: the cost of this span and of those recorded before.
CostWith(n) == spans[n] + 1

\* closeSpan's first half: the profiler keeps the span if nothing panicked.
AddSpan(w) ==
  LET n == slot[w] IN
  /\ Closing(w) /\ stage[w] = "open"
  /\ spans' = IF hasProfiler /\ ~panicked[w] THEN [spans EXCEPT ![n] = CostWith(n)] ELSE spans
  /\ stage' = [stage EXCEPT ![w] = "added"]
  /\ UNCHANGED <<vars, parents, parent, panicked, events>>

\* Its second half: the tracer records every closure; the event names parent[w].
AddEvent(w) ==
  /\ Closing(w) /\ stage[w] = "added"
  /\ events' = IF hasTracer THEN [events EXCEPT ![slot[w]] = @ + 1] ELSE events
  /\ stage' = [stage EXCEPT ![w] = "none"]
  /\ UNCHANGED <<vars, parents, parent, panicked, spans>>

ObservedStep(w) ==
  Take(w) \/ Open(w) \/ Panicking(w) \/ Proceed(w) \/ End(w) \/ AddSpan(w) \/ AddEvent(w)

TracedNext ==
  \/ \E c \in Callers : (Run(c) \/ Wait(c)) /\ UNCHANGED obsVars
  \/ \E t \in Threads : Submit(t) \/ Drive(t)
  \/ \E w \in Workers : ObservedStep(w)
  \/ Terminated /\ UNCHANGED obsVars

TracedSpec == TracedInit /\ [][TracedNext]_tracedVars

-----------------------------------------------------------------------------
(***************************************************************************)
(* Properties.                                                             *)
(***************************************************************************)

\* Every variable of the observer has its type; a closure has a parentSpan as
\* long as it is queued, whoever submits and takes at the same time.
TracedTypeOK ==
  /\ parents \in Seq(Nodes \cup {None}) /\ Len(parents) = Len(taskQ)
  /\ parent \in [Workers -> Nodes \cup {None}]
  /\ stage \in [Workers -> {"none", "open", "added"}]
  /\ panicked \in [Workers -> BOOLEAN]
  /\ events \in [Nodes -> Nat]
  /\ spans \in [Nodes -> Nat]

\* At every moment the trace shows no more executions of a task than of each of
\* its predecessors, and of a task of a subflow than of the subflow: closeSpan
\* comes before anything that lets another task start.  (Not of tasks that a
\* condition may choose.)
TraceOrder ==
  \A n \in Nodes :
    /\ (\A p \in pred[n] : Typ[p] /= "condition") => \A p \in pred[n] : events[n] <= events[p]
    /\ unconditional[n] /\ owner[n] /= None => events[n] <= events[owner[n]]

\* The events about to enter the trace are those of Recording.
Recording == {w \in Workers : Closing(w) /\ stage[w] = "added"}

\* An event that enters the trace names as its parent a subflow that is in the
\* trace already, even when the loop of a subflow executes other graphs' tasks.
ParentsFirst ==
  \A w \in Recording : parent[w] /= None => Typ[parent[w]] = "subflow" /\ events[parent[w]] > 0

\* eGraph.walk: the nodes of a flow and of its instantiated subflows.
walk(c) ==
  LET visited[n \in Nodes] ==
        \/ graphOf[n] = root[c]
        \/ owner[n] /= None /\ instantiated[graphOf[n]] /\ visited[owner[n]]
  IN {n \in Nodes : visited[n]}

Completed(c) == pc[c] = "returned" /\ ~canceled[root[c]]

\* When Run returns without a panic, the trace has one event for each execution
\* of each task of the flow: nothing is recorded after the end of the flow.
EventPerExecution ==
  \A c \in Callers : Completed(c) => \A n \in walk(c) : events[n] = ran[n]

\* The profiler has accumulated one cost for each execution that did not panic,
\* whichever workers close spans of the same task in between.
ProfileExact ==
  \A n \in Nodes :
    LET closed == events[n] + Cardinality({w \in Recording : slot[w] = n}) IN
    /\ spans[n] <= closed
    /\ ~canceled[graphOf[n]] => spans[n] = closed

\* What the validator expects of the flow of c, and the map it builds from the
\* trace.
Expected(c) ==
  [n \in walk(c) |->
     LET edges == SetToSeq(dependents[n]) IN
     [i \in DOMAIN edges |-> [name |-> edges[i][1], Typ |-> Typ[edges[i][1]]]]]
Executed ==
  [n \in {m \in Nodes : events[m] > 0} |->
     LET edges == SetToSeq(dependents[n]) IN [i \in DOMAIN edges |-> edges[i][1]]]

\* The validator accepts the trace of a flow that Run has completed without a
\* panic, though a branch that ran in one run is skipped in the next.  (Not of
\* every flow: when a condition takes one branch in one run and another in the
\* next, a task that joins the two has run in neither, and is missing to the
\* validator, which finds both of its predecessors in the trace.)
TraceValid == \A c \in Callers : Completed(c) => Validation!Valid(Executed, Expected(c))

\* The parent of an event is the subflow that contains the task, if there is one.
ParentIsOwner == \A w \in Recording : parent[w] = owner[slot[w]]
=============================================================================
