---------------------------- MODULE TracedProof -----------------------------
(***************************************************************************)
(* The observer of Traced.tla only watches: the observed scheduler takes   *)
(* the steps of Executor.tla, so what is proved of Executor holds of it.   *)
(* What the trace and the profile contain: each execution once, parents    *)
(* before their tasks, predecessors before their successors.               *)
(***************************************************************************)
EXTENDS Traced, FlowProof

USE ThreadsAssumption DEF Threads, Driving

\* An action of Executor, by whichever thread.
LEMMA GraphSteps ==
  ASSUME NEW t \in Threads, Submit(t) \/ Drive(t)
  PROVE  Next
<1>1. GraphStep(t)
  BY DEF Submit, Drive, GraphStep, InvokeStep
<1> QED
  BY <1>1 DEF Next

LEMMA WorkerSteps ==
  ASSUME NEW w \in Workers, ObservedStep(w)
  PROVE  [Next]_vars
<1>1. CASE Take(w) \/ Open(w) \/ Panicking(w) \/ Proceed(w) \/ End(w)
  <2>1. WorkerStep(w)
    BY <1>1 DEF Take, Open, Panicking, Proceed, End, WorkerStep, HandlerStep
  <2> QED
    BY <2>1 DEF Next
<1>2. CASE AddSpan(w) \/ AddEvent(w)
  BY <1>2 DEF AddSpan, AddEvent
<1> QED
  BY <1>1, <1>2 DEF ObservedStep

\* Every behaviour of the observed scheduler is one of the scheduler: recording
\* neither lets a step happen that could not happen without it nor changes one.
THEOREM ObserverPassive == TracedSpec => Spec
<1>1. TracedInit => Init
  BY DEF TracedInit
<1>2. [TracedNext]_tracedVars => [Next]_vars
  <2> SUFFICES ASSUME [TracedNext]_tracedVars
               PROVE  [Next]_vars
    OBVIOUS
  <2>1. ASSUME NEW c \in Callers, Run(c) \/ Wait(c)
        PROVE  Next
    BY <2>1 DEF Next
  <2>2. CASE Terminated
    BY <2>2 DEF Next
  <2>3. CASE UNCHANGED tracedVars
    BY <2>3 DEF tracedVars
  <2> QED
    BY <2>1, <2>2, <2>3, GraphSteps, WorkerSteps DEF TracedNext
<1> QED
  BY <1>1, <1>2, PTL DEF TracedSpec, Spec

-----------------------------------------------------------------------------
LEMMA TracedTypeInit == TracedInit => TracedTypeOK
BY DEF TracedInit, TracedTypeOK, Init, GoPool!Init

\* The steps that neither queue nor start a closure.
LEMMA QueueStays ==
  ASSUME TypeOK, TracedTypeOK, taskQ' = taskQ, parents' = parents
  PROVE  parents' \in Seq(Nodes \cup {None}) /\ Len(parents') = Len(taskQ')
BY DEF TracedTypeOK

LEMMA TypeOfSubmit ==
  ASSUME TypeOK, TracedTypeOK, NEW t \in Threads, Submit(t)
  PROVE  TracedTypeOK'
<1>1. taskQ \in Seq(Nodes) /\ hand[t] \in Nodes \cup {None} /\ slot \in [Workers -> Nodes \cup {None}]
  BY DEF TypeOK, QueueTypes, ThreadTypes, GoPool!TypeOK
<1>2. taskQ' = Append(taskQ, hand[t])
  BY DEF Submit, InvokeNode, GoPool!Submit
<1>3. parentSpan(t) \in Nodes \cup {None}
  BY <1>1 DEF parentSpan, Threads
<1>4. parents' \in Seq(Nodes \cup {None}) /\ Len(parents') = Len(parents) + 1
  BY <1>3 DEF Submit, TracedTypeOK
<1>5. Len(taskQ') = Len(taskQ) + 1
  BY <1>1, <1>2
<1> QED
  BY <1>4, <1>5 DEF TracedTypeOK, Submit

LEMMA TypeOfTake ==
  ASSUME TypeOK, TracedTypeOK, NEW w \in Workers, Take(w)
  PROVE  TracedTypeOK'
<1>1. taskQ \in Seq(Nodes)
  BY DEF TypeOK, QueueTypes, GoPool!TypeOK
<1>2. taskQ /= <<>> /\ taskQ' = Tail(taskQ)
  BY DEF Take, TakeTask, GoPool!Start
<1>3. parents \in Seq(Nodes \cup {None}) /\ parents /= <<>>
  BY <1>1, <1>2 DEF TracedTypeOK
<1>4. Head(parents) \in Nodes \cup {None} /\ Tail(parents) \in Seq(Nodes \cup {None})
  BY <1>3
<1>5. Len(Tail(parents)) = Len(Tail(taskQ))
  BY <1>1, <1>2, <1>3 DEF TracedTypeOK
<1> QED
  BY <1>2, <1>4, <1>5 DEF TracedTypeOK, Take

LEMMA TypeOfClose ==
  ASSUME TypeOK, TracedTypeOK, NEW w \in Workers, AddSpan(w) \/ AddEvent(w)
  PROVE  TracedTypeOK'
<1>1. slot[w] \in Nodes
  BY DEF TypeOK, QueueTypes, GoPool!TypeOK, AddSpan, AddEvent, Closing
<1>2. taskQ' = taskQ /\ parents' = parents
  BY DEF AddSpan, AddEvent, vars, poolVars
<1>3. CASE AddSpan(w)
  <2>1. spans' \in [Nodes -> Nat]
    BY <1>1, <1>3 DEF AddSpan, TracedTypeOK, CostWith
  <2> QED
    BY <1>2, <1>3, <2>1 DEF AddSpan, TracedTypeOK
<1>4. CASE AddEvent(w)
  <2>1. events' \in [Nodes -> Nat]
    BY <1>1, <1>4 DEF AddEvent, TracedTypeOK
  <2> QED
    BY <1>2, <1>4, <2>1 DEF AddEvent, TracedTypeOK
<1> QED
  BY <1>3, <1>4

LEMMA TypeOfOthers ==
  ASSUME TypeOK, TracedTypeOK, NEW w \in Workers, Open(w) \/ Panicking(w) \/ Proceed(w) \/ End(w)
  PROVE  TracedTypeOK'
<1>1. CASE Open(w)
  BY <1>1 DEF Open, Begin, TracedTypeOK, poolVars
<1>2. CASE Panicking(w)
  BY <1>2 DEF Panicking, ChoosePanic, HandlerPanic, TracedTypeOK, poolVars
<1>3. CASE Proceed(w)
  <2>1. taskQ' = taskQ
    BY <1>3 DEF Proceed, ReturnStatic, ReturnSubflow, ReturnCondition, Drop, CheckSuccessor, Resetup,
                Deref, poolVars
  <2> QED
    BY <1>3, <2>1 DEF Proceed, obsVars, TracedTypeOK
<1>4. CASE End(w)
  BY <1>4 DEF End, Done, GoPool!Finish, TracedTypeOK
<1> QED
  BY <1>1, <1>2, <1>3, <1>4

LEMMA TypeOfDrive ==
  ASSUME TypeOK, TracedTypeOK, NEW t \in Threads, Drive(t)
  PROVE  TracedTypeOK'
<1>1. taskQ' = taskQ
  BY DEF Drive, Reset, Setup, ScheduleStep, ScheduleAdd, ScheduleRef, SchedulePush, ScheduleCanceled,
         GraphReturn, InvokeLoop, InvokeLeave, InvokePop, poolVars
<1> QED
  BY <1>1 DEF Drive, obsVars, TracedTypeOK

LEMMA TracedTypeNext == TypeOK /\ TracedTypeOK /\ [TracedNext]_tracedVars => TracedTypeOK'
<1> SUFFICES ASSUME TypeOK, TracedTypeOK, [TracedNext]_tracedVars
             PROVE  TracedTypeOK'
  OBVIOUS
<1>1. ASSUME NEW c \in Callers, (Run(c) \/ Wait(c)) /\ UNCHANGED obsVars
      PROVE  TracedTypeOK'
  BY <1>1 DEF Run, Wait, poolVars, obsVars, TracedTypeOK
<1>2. ASSUME UNCHANGED vars, UNCHANGED obsVars
      PROVE  TracedTypeOK'
  BY <1>2 DEF vars, poolVars, obsVars, TracedTypeOK
<1>3. ASSUME NEW w \in Workers, ObservedStep(w)
      PROVE  TracedTypeOK'
  BY <1>3, TypeOfTake, TypeOfClose, TypeOfOthers DEF ObservedStep
<1> QED
  BY <1>1, <1>2, <1>3, TypeOfSubmit, TypeOfDrive DEF TracedNext, Terminated, tracedVars

\* Every variable of the observer keeps its type for every flow, and each queued
\* closure has the parentSpan it was submitted with, in the same order.
THEOREM ObserverTypeCorrect == TracedSpec => []TracedTypeOK
<1>1. TracedSpec => []TypeOK
  BY ObserverPassive, TypeCorrect, PTL
<1> QED
  BY <1>1, TracedTypeInit, TracedTypeNext, PTL DEF TracedSpec

\* executor.wg counts the same nodes when the executor has a tracer or a profiler.
THEOREM ObservedWgCounts == TracedSpec => []WgAccounting
BY ObserverPassive, WgCounts, PTL

-----------------------------------------------------------------------------
(***************************************************************************)
(* The span of a closure.                                                  *)
(***************************************************************************)

\* A span is open from the first step of the closure to its deferred function;
\* later the closure is in the trace.  A loop run by a worker is that of a subflow.
Spanned(w) ==
  /\ stage[w] /= "none" =>
       /\ slot[w] /= None
       /\ \/ pc[w] = "handle"
          \/ pc[w] = Deferred(slot[w])
          \/ Typ[slot[w]] = "condition" /\ Publishing(w)
       /\ stage[w] = "added" => pc[w] = Deferred(slot[w])
  /\ Observing /\ pc[w] = "handle" => stage[w] = "open"
  /\ hasTracer /\ stage[w] = "none" /\ pc[w] \notin {"idle", "begin", "handle"} =>
       events[slot[w]] > 0
  /\ Driving(w) => Typ[slot[w]] = "subflow"

AllSpanned == \A w \in Workers : Spanned(w)

\* Worker w stays in its closure and has no span to close.
LEMMA UnspannedStep ==
  ASSUME IInv, NEW w \in Workers, Spanned(w), slot'[w] = slot[w],
         stage[w] = "none", stage'[w] = "none", events' = events,
         pc[w] \notin {"idle", "begin", "handle"}, pc'[w] /= "handle",
         Driving(w)' => Typ[slot[w]] = "subflow"
  PROVE  Spanned(w)'
BY DEF Spanned

\* A step of another thread.
LEMMA OtherSpanned ==
  ASSUME IInv, NEW t \in Threads, NEW l, Steps(t, l), NEW w \in Workers \ {t}, Spanned(w),
         stage'[w] = stage[w], \A n \in Nodes : events'[n] \in Nat /\ events'[n] >= events[n],
         TracedTypeOK
  PROVE  Spanned(w)'
<1>1. /\ pc'[w] = pc[w] \/ (pc[w] = "waiting" /\ pc'[w] = "loop")
      /\ Driving(w)' <=> Driving(w)
      /\ Publishing(w)' <=> Publishing(w)
  BY OthersStay
<1>2. slot'[w] = slot[w]
  BY DEF Steps
<1>3. stage[w] /= "none" => slot[w] \in Nodes
  BY DEF Spanned, IInv, TypeOK, QueueTypes, GoPool!TypeOK
<1>4. stage[w] /= "none" /\ pc[w] = Deferred(slot[w]) => pc[w] /= "waiting"
  BY <1>3, DeferredByType
<1>5. ASSUME stage[w] /= "none"
      PROVE  /\ slot'[w] /= None
             /\ \/ pc'[w] = "handle"
                \/ pc'[w] = Deferred(slot'[w])
                \/ Typ[slot'[w]] = "condition" /\ Publishing(w)'
             /\ stage[w] = "added" => pc'[w] = Deferred(slot'[w])
  BY <1>1, <1>2, <1>4, <1>5 DEF Spanned
<1>6. Observing /\ pc'[w] = "handle" => stage[w] = "open"
  BY <1>1 DEF Spanned
<1>7. ASSUME hasTracer, stage[w] = "none", pc'[w] \notin {"idle", "begin", "handle"}
      PROVE  events'[slot'[w]] > 0
  <2>1. pc[w] \notin {"idle", "begin", "handle"}
    BY <1>1, <1>7
  <2>2. events[slot[w]] > 0 /\ slot[w] \in Nodes
    BY <1>7, <2>1, SlotIsNode DEF Spanned
  <2>3. events[slot[w]] \in Nat
    BY <2>2 DEF TracedTypeOK
  <2>4. QED
    BY <1>2, <2>2, <2>3
<1>8. Driving(w)' => Typ[slot'[w]] = "subflow"
  BY <1>1, <1>2 DEF Spanned
<1>9. QED
  BY <1>1, <1>2, <1>5, <1>6, <1>7, <1>8 DEF Spanned, Observing

LEMMA StepSpanned ==
  ASSUME IInv, TracedTypeOK, AllSpanned, NEW t \in Threads, NEW l, Steps(t, l),
         \A w \in Workers \ {t} : stage'[w] = stage[w],
         \A n \in Nodes : events'[n] \in Nat /\ events'[n] >= events[n],
         t \in Workers => Spanned(t)'
  PROVE  AllSpanned'
<1> SUFFICES ASSUME NEW w \in Workers, w /= t PROVE Spanned(w)'
  BY DEF AllSpanned
<1> QED
  BY OtherSpanned DEF AllSpanned

\* A step that opens and closes no span.
LEMMA SameEvents ==
  ASSUME TracedTypeOK, events' = events
  PROVE  \A n \in Nodes : events'[n] \in Nat /\ events'[n] >= events[n]
BY DEF TracedTypeOK

\* A loop has no span to close once its first step has been taken.
LEMMA NoSpan ==
  ASSUME TracedTypeOK, NEW w \in Workers, Spanned(w), ~Closing(w), pc[w] /= "handle",
         Publishing(w) => Typ[slot[w]] /= "condition"
  PROVE  stage[w] = "none"
BY DEF Spanned, Closing, TracedTypeOK

\* The steps of scheduleGraph, made by the worker of a subflow.
LEMMA LoopSpanned ==
  ASSUME IInv, TracedTypeOK, NEW w \in Workers, Spanned(w), ~Closing(w), Driving(w),
         slot' = slot, stage' = stage, events' = events, pc'[w] /= "handle"
  PROVE  Spanned(w)'
<1>1. Typ[slot[w]] = "subflow" /\ pc[w] \notin {"idle", "begin", "handle"}
  BY DEF Spanned
<1>2. stage[w] = "none"
  BY <1>1, NoSpan
<1>3. QED
  BY <1>1, <1>2, UnspannedStep

\* The steps of schedule() after an execution; that of a condition comes before
\* its deferred function.
LEMMA PublishSpanned ==
  ASSUME IInv, TracedTypeOK, NEW w \in Workers, Spanned(w), ~Closing(w), ~Driving(w), Publishing(w),
         slot' = slot, stage' = stage, events' = events, ret' = ret,
         Publishing(w)' \/ pc'[w] = "deref"
  PROVE  Spanned(w)'
<1>1. pc[w] \notin {"idle", "begin", "handle"} /\ pc'[w] /= "handle"
  BY DEF Publishing
<1>2. ~Driving(w)'
  BY DEF Publishing
<1>3. CASE stage[w] = "none"
  BY <1>1, <1>2, <1>3, UnspannedStep
<1>4. CASE stage[w] /= "none"
  <2>1. slot[w] \in Nodes
    BY <1>1, SlotIsNode
  <2>2. Typ[slot[w]] = "condition" /\ Deferred(slot[w]) = "deref"
    BY <1>1, <1>4, <2>1, DeferredByType DEF Spanned, Closing
  <2>3. stage[w] /= "added"
    BY <2>2, <1>4 DEF Spanned, Publishing
  <2>4. Publishing(w)' \/ pc'[w] = Deferred(slot[w])
    BY <2>2
  <2>5. QED
    BY <1>1, <1>2, <1>4, <2>1, <2>2, <2>3, <2>4 DEF Spanned, TypeOK, ThreadTypes
<1>5. QED
  BY <1>3, <1>4

LEMMA DriveSpanned ==
  ASSUME IInv, TracedTypeOK, AllSpanned, NEW t \in Threads, Drive(t)
  PROVE  AllSpanned'
<1>1. UNCHANGED obsVars /\ (t \in Workers => Spanned(t) /\ ~Closing(t))
  BY DEF Drive, AllSpanned
<1>2. \A n \in Nodes : events'[n] \in Nat /\ events'[n] >= events[n]
  BY <1>1, SameEvents DEF obsVars
<1>3. ASSUME Reset(t) \/ Setup(t) \/ InvokeLoop(t) \/ InvokeLeave(t) \/ InvokePop(t) \/ GraphReturn(t)
      PROVE  AllSpanned'
  <2>1. Driving(t) /\ slot' = slot
    BY <1>3 DEF Reset, Setup, InvokeLoop, InvokeLeave, InvokePop, GraphReturn, poolVars
  <2>2. Steps(t, pc'[t]) /\ pc'[t] /= "handle"
    BY <1>3, ResetSteps, SetupSteps, InvokeLoopSteps, InvokeLeaveSteps, InvokePopSteps, GraphReturnSteps
  <2>3. t \in Workers => Spanned(t)'
    BY <1>1, <2>1, <2>2, LoopSpanned DEF obsVars
  <2>4. QED
    BY <1>1, <1>2, <2>2, <2>3, StepSpanned DEF obsVars
<1>4. ASSUME ScheduleStep(t)
      PROVE  AllSpanned'
  <2>1. Publishing(t) /\ slot' = slot /\ ret' = ret
    BY <1>4 DEF ScheduleStep, ScheduleAdd, ScheduleRef, SchedulePush, ScheduleCanceled, poolVars, Publishing
  <2>2. Steps(t, pc'[t]) /\ pc'[t] \in {"schedule", "ref", "push", ret[t]} /\ ret[t] \in {"loop", "deref"}
    <3>1. ret[t] \in {"loop", "deref"}
      BY DEF IInv, TypeOK, ThreadTypes
    <3>2. QED
      BY <1>4, <3>1, ScheduleAddSteps, ScheduleRefSteps, SchedulePushSteps, ScheduleCanceledSteps DEF ScheduleStep
  <2>3. ASSUME t \in Workers
        PROVE  Spanned(t)'
    <3>1. CASE ret[t] = "loop"
      <4>1. Driving(t) /\ pc'[t] /= "handle"
        BY <2>1, <2>2, <3>1 DEF Publishing
      <4>2. QED
        BY <1>1, <2>1, <2>3, <4>1, LoopSpanned DEF obsVars
    <3>2. CASE ret[t] = "deref"
      <4>1. ~Driving(t) /\ (Publishing(t)' \/ pc'[t] = "deref")
        BY <2>1, <2>2, <3>2 DEF Publishing
      <4>2. QED
        BY <1>1, <2>1, <2>3, <4>1, PublishSpanned DEF obsVars
    <3>3. QED
      BY <2>2, <3>1, <3>2
  <2>4. QED
    BY <1>1, <1>2, <2>2, <2>3, StepSpanned DEF obsVars
<1>5. QED
  BY <1>3, <1>4 DEF Drive

LEMMA SubmitSpanned ==
  ASSUME IInv, TracedTypeOK, AllSpanned, NEW t \in Threads, Submit(t)
  PROVE  AllSpanned'
<1>1. pc[t] = "go" /\ slot' = slot /\ Driving(t) /\ events' = events /\ stage' = stage
  BY DEF Submit, InvokeNode, GoPool!Submit
<1>2. Steps(t, "loop") /\ pc'[t] = "loop"
  BY InvokeNodeSteps DEF Submit
<1>3. ASSUME t \in Workers
      PROVE  Spanned(t)'
  <2>1. ~Closing(t)
    <3>1. slot[t] \in Nodes
      BY <1>1, <1>3, SlotIsNode
    <3>2. QED
      BY <1>1, <3>1, DeferredByType DEF Closing
  <2>2. QED
    BY <1>1, <1>2, <1>3, <2>1, LoopSpanned DEF AllSpanned
<1>4. QED
  BY <1>1, <1>2, <1>3, SameEvents, StepSpanned

LEMMA TakeSpanned ==
  ASSUME IInv, TracedTypeOK, AllSpanned, NEW w \in Workers, Take(w)
  PROVE  AllSpanned'
<1>1. Steps(w, "begin") /\ pc'[w] = "begin" /\ slot[w] = None /\ slot'[w] \in Nodes
  BY TakeTaskSteps DEF Take
<1>2. events' = events /\ stage' = stage
  BY DEF Take
<1>3. stage[w] = "none"
  BY <1>1 DEF AllSpanned, Spanned
<1>4. Spanned(w)'
  BY <1>1, <1>2, <1>3 DEF Spanned
<1>5. QED
  BY <1>1, <1>2, <1>4, SameEvents, StepSpanned

LEMMA OpenSpanned ==
  ASSUME IInv, TracedTypeOK, AllSpanned, NEW w \in Workers, Open(w)
  PROVE  AllSpanned'
<1>1. /\ pc[w] = "begin" /\ slot' = slot /\ events' = events
      /\ stage' = [stage EXCEPT ![w] = IF Observing THEN "open" ELSE "none"]
  BY DEF Open, Begin, poolVars
<1>2. Steps(w, pc'[w]) /\ (pc'[w] = Deferred(slot[w]) \/ pc'[w] = "handle")
  BY BeginSteps DEF Open
<1>3. slot[w] \in Nodes
  BY <1>1, SlotIsNode
<1>4. /\ stage'[w] = IF Observing THEN "open" ELSE "none"
      /\ \A u \in Workers \ {w} : stage'[u] = stage[u]
  BY <1>1 DEF TracedTypeOK
<1>5. Driving(w)' => Typ[slot[w]] = "subflow"
  BY <1>2, <1>3, DeferredByType
<1>6. Spanned(w)'
  BY <1>1, <1>2, <1>3, <1>4, <1>5 DEF Spanned, Observing
<1>7. QED
  BY <1>1, <1>2, <1>4, <1>6, SameEvents, StepSpanned

\* The handler has returned or panicked: the deferred function starts.
LEMMA DeferredSpanned ==
  ASSUME IInv, TracedTypeOK, AllSpanned, NEW w \in Workers, pc[w] = "handle",
         pc' = Goto(w, Deferred(slot[w])), UNCHANGED <<hand, ret, todo, slot>>,
         stage' = stage, events' = events
  PROVE  AllSpanned'
<1>1. Steps(w, Deferred(slot[w])) /\ pc'[w] = Deferred(slot[w])
  BY DeferredSteps
<1>2. slot[w] \in Nodes
  BY SlotIsNode
<1>3. /\ Observing => stage[w] = "open"
      /\ stage[w] /= "added"
      /\ hasTracer => Observing
  BY <1>2, DeferredByType DEF AllSpanned, Spanned, Observing
<1>4. Driving(w)' => Typ[slot[w]] = "subflow"
  BY <1>1, <1>2, DeferredByType
<1>5. Spanned(w)'
  BY <1>1, <1>2, <1>3, <1>4, DeferredByType DEF Spanned, Observing
<1>6. QED
  BY <1>1, <1>5, SameEvents, StepSpanned

LEMMA PanickingSpanned ==
  ASSUME IInv, TracedTypeOK, AllSpanned, NEW w \in Workers, Panicking(w)
  PROVE  AllSpanned'
BY DeferredSpanned DEF Panicking, ChoosePanic, HandlerPanic, poolVars

LEMMA ProceedSpanned ==
  ASSUME IInv, TracedTypeOK, AllSpanned, NEW w \in Workers, Proceed(w)
  PROVE  AllSpanned'
<1>1. UNCHANGED obsVars /\ ~Closing(w) /\ Spanned(w)
  BY DEF Proceed, AllSpanned
<1>2. ASSUME ReturnStatic(w) \/ ReturnSubflow(w)
      PROVE  AllSpanned'
  BY <1>1, <1>2, DeferredSpanned DEF ReturnStatic, ReturnSubflow, poolVars, obsVars
<1>3. ASSUME ReturnCondition(w)
      PROVE  AllSpanned'
  <2>1. Steps(w, "schedule") /\ pc'[w] = "schedule" /\ ret'[w] = "deref" /\ slot[w] \in Nodes
    BY <1>3, ReturnConditionSteps
  <2>2. pc[w] = "handle" /\ Typ[slot[w]] = "condition" /\ slot' = slot
    BY <1>3 DEF ReturnCondition, poolVars
  <2>3. stage'[w] = stage[w] /\ stage[w] /= "added" /\ (hasTracer => stage[w] = "open")
    BY <1>1, <2>1, <2>2, DeferredByType DEF Spanned, obsVars, Observing
  <2>4. Spanned(w)'
    BY <2>1, <2>2, <2>3 DEF Spanned, Publishing
  <2>5. QED
    BY <1>1, <2>1, <2>4, SameEvents, StepSpanned DEF obsVars
<1>4. ASSUME Drop(w) \/ CheckSuccessor(w) \/ Resetup(w) \/ Deref(w)
      PROVE  AllSpanned'
  <2>1. slot' = slot /\ pc[w] \in {"drop", "check", "resetup", "deref"}
    BY <1>4 DEF Drop, CheckSuccessor, Resetup, Deref, poolVars
  <2>2. Steps(w, pc'[w]) /\ pc'[w] /= "handle" /\ ~Driving(w)'
    <3>1. CASE Drop(w)
      BY <3>1, DropSteps
    <3>2. CASE CheckSuccessor(w)
      BY <3>2, CheckSuccessorSteps
    <3>3. CASE Resetup(w)
      BY <3>3, ResetupSteps
    <3>4. CASE Deref(w)
      BY <3>4, DerefSteps
    <3>5. QED
      BY <1>4, <3>1, <3>2, <3>3, <3>4
  <2>3. stage[w] = "none" /\ stage' = stage /\ events' = events
    BY <1>1, <2>1, NoSpan DEF obsVars, Publishing
  <2>4. Spanned(w)'
    BY <1>1, <2>1, <2>2, <2>3, UnspannedStep
  <2>5. QED
    BY <2>2, <2>3, <2>4, SameEvents, StepSpanned
<1>5. QED
  BY <1>2, <1>3, <1>4 DEF Proceed

LEMMA EndSpanned ==
  ASSUME IInv, TracedTypeOK, AllSpanned, NEW w \in Workers, End(w)
  PROVE  AllSpanned'
<1>1. Steps(w, "idle") /\ pc[w] = "done" /\ pc'[w] = "idle"
  BY DoneSteps DEF End
<1>2. stage' = stage /\ events' = events /\ ~Closing(w) /\ Spanned(w)
  BY DEF End, AllSpanned
<1>3. stage[w] = "none"
  BY <1>1, <1>2, NoSpan DEF Publishing
<1>4. Spanned(w)'
  BY <1>1, <1>2, <1>3 DEF Spanned
<1>5. QED
  BY <1>1, <1>2, <1>4, SameEvents, StepSpanned

\* Closing a span moves no thread.
LEMMA CloseSpanned ==
  ASSUME IInv, TracedTypeOK, AllSpanned, NEW w \in Workers, AddSpan(w) \/ AddEvent(w)
  PROVE  AllSpanned'
<1>1. UNCHANGED vars /\ slot[w] \in Nodes /\ pc[w] = Deferred(slot[w]) /\ stage[w] /= "none"
  BY DEF AddSpan, AddEvent, Closing, IInv, TypeOK, QueueTypes, GoPool!TypeOK
<1>2. UNCHANGED <<pc, slot, ret>>
  BY <1>1 DEF vars, threadVars, poolVars
<1>3. \A u \in Workers \ {w} : stage'[u] = stage[u]
  BY DEF AddSpan, AddEvent, TracedTypeOK
<1>4. /\ \A n \in Nodes : events'[n] \in Nat /\ events'[n] >= events[n]
      /\ AddEvent(w) /\ hasTracer => events'[slot[w]] > 0
  BY <1>1 DEF AddSpan, AddEvent, TracedTypeOK
<1>5. stage'[w] = "added" \/ (AddEvent(w) /\ stage'[w] = "none")
  BY DEF AddSpan, AddEvent, TracedTypeOK
<1>6. pc[w] \notin {"idle", "begin", "handle"}
  BY <1>1, DeferredByType
<1> SUFFICES ASSUME NEW u \in Workers PROVE Spanned(u)'
  BY DEF AllSpanned
<1>7. Spanned(u) /\ (Driving(u)' <=> Driving(u)) /\ (Publishing(u)' <=> Publishing(u))
  BY <1>2 DEF AllSpanned, Publishing
<1>8. CASE u = w
  BY <1>1, <1>2, <1>4, <1>5, <1>6, <1>7, <1>8 DEF Spanned
<1>9. CASE u /= w
  <2>1. pc[u] \notin {"idle", "begin", "handle"} => slot[u] \in Nodes
    BY SlotIsNode
  <2>2. QED
    BY <1>2, <1>3, <1>4, <1>7, <1>9, <2>1 DEF Spanned, Observing, TracedTypeOK
<1>10. QED
  BY <1>8, <1>9

LEMMA SpannedInit == TracedInit => AllSpanned
BY DEF TracedInit, Init, AllSpanned, Spanned

LEMMA SpannedNext == IInv /\ TracedTypeOK /\ AllSpanned /\ [TracedNext]_tracedVars => AllSpanned'
<1> SUFFICES ASSUME IInv, TracedTypeOK, AllSpanned, [TracedNext]_tracedVars
             PROVE  AllSpanned'
  OBVIOUS
<1>1. ASSUME NEW c \in Callers, (Run(c) \/ Wait(c)) /\ UNCHANGED obsVars
      PROVE  AllSpanned'
  <2>1. \E l : Steps(c, l)
    BY <1>1, RunSteps, WaitSteps
  <2>2. QED
    BY <1>1, <2>1, SameEvents, StepSpanned DEF obsVars
<1>2. ASSUME UNCHANGED vars, UNCHANGED obsVars
      PROVE  AllSpanned'
  BY <1>2 DEF vars, threadVars, poolVars, obsVars, AllSpanned, Spanned, Publishing
<1>3. ASSUME NEW w \in Workers, ObservedStep(w)
      PROVE  AllSpanned'
  BY <1>3, TakeSpanned, OpenSpanned, PanickingSpanned, ProceedSpanned, EndSpanned, CloseSpanned
     DEF ObservedStep
<1> QED
  BY <1>1, <1>2, <1>3, SubmitSpanned, DriveSpanned DEF TracedNext, Terminated, tracedVars

-----------------------------------------------------------------------------
(***************************************************************************)
(* The parents of the spans.                                               *)
(***************************************************************************)

\* Task o, the parent of a span, is a subflow that is in the trace.
Shown(o) == o /= None => o \in Nodes /\ Typ[o] = "subflow" /\ events[o] > 0

ParentsShown ==
  /\ \A i \in DOMAIN parents : Shown(parents[i])
  /\ \A w \in Workers : Shown(parent[w])

LEMMA StaysShown ==
  ASSUME TracedTypeOK, \A n \in Nodes : events'[n] \in Nat /\ events'[n] >= events[n], NEW o, Shown(o)
  PROVE  o /= None => o \in Nodes /\ Typ[o] = "subflow" /\ events'[o] > 0
BY DEF Shown, TracedTypeOK

LEMMA SubmitShown ==
  ASSUME IInv, TracedTypeOK, AllSpanned, ParentsShown, hasTracer, NEW t \in Threads, Submit(t)
  PROVE  ParentsShown'
<1>1. /\ pc[t] = "go" /\ events' = events /\ parent' = parent
      /\ parents' = Append(parents, parentSpan(t)) /\ parents \in Seq(Nodes \cup {None})
  BY DEF Submit, InvokeNode, TracedTypeOK
<1>2. Shown(parentSpan(t))
  <2>1. CASE t \in Callers \/ ~Observing
    BY <2>1 DEF parentSpan, Shown
  <2>2. CASE t \in Workers
    <3>1. slot[t] \in Nodes /\ Typ[slot[t]] = "subflow"
      BY <1>1, <2>2, SlotIsNode DEF AllSpanned, Spanned
    <3>2. stage[t] = "none"
      BY <1>1, <2>2, <3>1, DeferredByType DEF AllSpanned, Spanned, Publishing
    <3>3. events[slot[t]] > 0
      BY <1>1, <2>2, <3>2 DEF AllSpanned, Spanned
    <3>4. QED
      BY <2>2, <3>1, <3>3 DEF parentSpan, Shown
  <2>3. QED
    BY <2>1, <2>2
<1>3. ASSUME NEW i \in DOMAIN parents'
      PROVE  Shown(parents'[i])
  <2>1. CASE i \in DOMAIN parents
    BY <1>1, <2>1 DEF ParentsShown
  <2>2. CASE i \notin DOMAIN parents
    <3>1. parentSpan(t) \in Nodes \cup {None}
      BY <1>2 DEF Shown
    <3>2. parents'[i] = parentSpan(t)
      BY <1>1, <2>2, <3>1
    <3>3. QED
      BY <1>2, <3>2
  <2>3. QED
    BY <2>1, <2>2
<1>4. QED
  BY <1>1, <1>3 DEF ParentsShown, Shown

LEMMA TakeShown ==
  ASSUME IInv, TracedTypeOK, ParentsShown, NEW w \in Workers, Take(w)
  PROVE  ParentsShown'
<1>1. /\ taskQ \in Seq(Nodes) /\ taskQ /= <<>>
      /\ parents \in Seq(Nodes \cup {None}) /\ Len(parents) = Len(taskQ)
      /\ parents' = Tail(parents) /\ parent' = [parent EXCEPT ![w] = Head(parents)] /\ events' = events
  BY TakeTaskSteps DEF Take, TracedTypeOK
<1>2. Len(parents) > 0
  BY <1>1
<1>3. Shown(Head(parents))
  BY <1>1, <1>2 DEF ParentsShown
<1>4. \A u \in Workers : Shown(parent'[u])
  BY <1>1, <1>3 DEF ParentsShown, TracedTypeOK
<1>5. \A i \in DOMAIN Tail(parents) : i + 1 \in DOMAIN parents /\ Tail(parents)[i] = parents[i + 1]
  BY <1>1, <1>2
<1>6. \A i \in DOMAIN parents' : Shown(parents'[i])
  BY <1>1, <1>5 DEF ParentsShown
<1>7. QED
  BY <1>1, <1>4, <1>6 DEF ParentsShown, Shown

LEMMA OthersShown ==
  ASSUME IInv, TracedTypeOK, ParentsShown, NEW w \in Workers,
         Open(w) \/ Panicking(w) \/ Proceed(w) \/ End(w) \/ AddSpan(w) \/ AddEvent(w)
  PROVE  ParentsShown'
<1>1. parents' = parents
  BY DEF Open, Panicking, Proceed, End, AddSpan, AddEvent, obsVars
<1>2. \A u \in Workers : parent'[u] = parent[u] \/ parent'[u] = None
  BY DEF Open, Panicking, Proceed, End, AddSpan, AddEvent, obsVars, TracedTypeOK
<1>3. \A n \in Nodes : events'[n] \in Nat /\ events'[n] >= events[n]
  <2>1. CASE AddEvent(w)
    <3>1. slot[w] \in Nodes
      BY <2>1 DEF AddEvent, Closing, IInv, TypeOK, QueueTypes, GoPool!TypeOK
    <3>2. QED
      BY <2>1, <3>1 DEF AddEvent, TracedTypeOK
  <2>2. CASE ~AddEvent(w)
    BY <2>2, SameEvents DEF Open, Panicking, Proceed, End, AddSpan, obsVars
  <2>3. QED
    BY <2>1, <2>2
<1>4. QED
  BY <1>1, <1>2, <1>3, StaysShown DEF ParentsShown, Shown

LEMMA ShownInit == TracedInit => ParentsShown
BY DEF TracedInit, ParentsShown, Shown

LEMMA ShownNext ==
  ASSUME hasTracer
  PROVE  IInv /\ TracedTypeOK /\ AllSpanned /\ ParentsShown /\ [TracedNext]_tracedVars => ParentsShown'
<1> SUFFICES ASSUME IInv, TracedTypeOK, AllSpanned, ParentsShown, [TracedNext]_tracedVars
             PROVE  ParentsShown'
  OBVIOUS
<1>1. ASSUME UNCHANGED obsVars
      PROVE  ParentsShown'
  BY <1>1 DEF obsVars, ParentsShown, Shown
<1>2. ASSUME NEW w \in Workers, ObservedStep(w)
      PROVE  ParentsShown'
  BY <1>2, TakeShown, OthersShown DEF ObservedStep
<1>3. ASSUME NEW t \in Threads, Submit(t) \/ Drive(t)
      PROVE  ParentsShown'
  BY <1>1, <1>3, SubmitShown DEF Drive
<1> QED
  BY <1>1, <1>2, <1>3 DEF TracedNext, tracedVars

\* The event that enters the trace has a parent that is a subflow and in the trace
\* already, although a loop of one graph submits the tasks of another.
THEOREM ParentsAreFirst ==
  ASSUME hasTracer
  PROVE  TracedSpec => []ParentsFirst
<1>1. TracedSpec => []IInv
  BY ObserverPassive, Invariance, PTL
<1>2. TracedSpec => [](AllSpanned /\ ParentsShown)
  BY <1>1, ObserverTypeCorrect, SpannedInit, SpannedNext, ShownInit, ShownNext, PTL DEF TracedSpec
<1>3. ParentsShown => ParentsFirst
  BY DEF ParentsShown, ParentsFirst, Shown, Recording
<1>4. QED
  BY <1>2, <1>3, PTL

-----------------------------------------------------------------------------
(***************************************************************************)
(* What the trace and the profile contain.                                 *)
(***************************************************************************)

\* The closures of n that have a span to close, and those that have given it to
\* the profiler.
OpenAt(n)  == {w \in Workers : slot[w] = n /\ stage[w] /= "none"}
AddedAt(n) == {w \in Workers : slot[w] = n /\ stage[w] = "added"}

\* Every execution is in the trace or has its span open; the profiler has the cost
\* of those whose span it was given and that did not panic.
Ledger(n) == ~canceled[graphOf[n]] => ran[n] = events[n] + Cardinality(OpenAt(n))
Account(n) ==
  hasProfiler =>
    /\ spans[n] <= events[n] + Cardinality(AddedAt(n))
    /\ ~canceled[graphOf[n]] => spans[n] = events[n] + Cardinality(AddedAt(n))
Marked(w) == panicked[w] => slot[w] \in Nodes /\ canceled[graphOf[slot[w]]]

Books == (\A n \in Nodes : Ledger(n) /\ Account(n)) /\ \A w \in Workers : Marked(w)

\* A step that closes no span and opens none.
LEMMA SameBooks ==
  ASSUME IInv, Books, \A g \in Graphs : canceled[g] => canceled'[g],
         events' = events, spans' = spans,
         \A n \in Nodes : ~canceled'[graphOf[n]] => ran'[n] = ran[n],
         \A n \in Nodes : OpenAt(n)' = OpenAt(n) /\ AddedAt(n)' = AddedAt(n),
         \A w \in Workers : Marked(w)'
  PROVE  Books'
<1> SUFFICES ASSUME NEW n \in Nodes PROVE Ledger(n)' /\ Account(n)'
  BY DEF Books
<1>1. graphOf[n] \in Graphs
  BY FlowAssumption
<1>2. Ledger(n) /\ Account(n) /\ OpenAt(n)' = OpenAt(n) /\ AddedAt(n)' = AddedAt(n)
  BY DEF Books
<1>3. /\ ~canceled'[graphOf[n]] => ~canceled[graphOf[n]] /\ ran'[n] = ran[n]
      /\ Cardinality(OpenAt(n))' = Cardinality(OpenAt(n))
      /\ Cardinality(AddedAt(n))' = Cardinality(AddedAt(n))
  BY <1>1, <1>2
<1>4. QED
  BY <1>2, <1>3 DEF Ledger, Account

LEMMA CountAt ==
  ASSUME NEW n
  PROVE  /\ OpenAt(n) \in SUBSET Threads /\ AddedAt(n) \in SUBSET Threads
         /\ Cardinality(OpenAt(n)) \in Nat /\ Cardinality(AddedAt(n)) \in Nat
<1>1. OpenAt(n) \in SUBSET Threads /\ AddedAt(n) \in SUBSET Threads
  BY DEF OpenAt, AddedAt
<1>2. QED
  BY <1>1, FiniteThreads, FS_Subset, FS_CardinalityType

\* The steps of the scheduler that concern no span.
LEMMA UnspannedBooks ==
  ASSUME IInv, TracedTypeOK, Books, [Next]_vars, UNCHANGED <<stage, events, spans, panicked, slot>>,
         \A n \in Nodes : ran'[n] = ran[n]
  PROVE  Books'
<1>1. \A g \in Graphs : canceled[g] => canceled'[g]
  BY CanceledGrows
<1>2. \A n \in Nodes : OpenAt(n)' = OpenAt(n) /\ AddedAt(n)' = AddedAt(n)
  BY DEF OpenAt, AddedAt
<1>3. \A w \in Workers : Marked(w)'
  BY <1>1, FlowAssumption DEF Books, Marked
<1>4. QED
  BY <1>1, <1>2, <1>3, SameBooks

LEMMA DriveBooks ==
  ASSUME IInv, TracedTypeOK, Books, [Next]_vars, NEW t \in Threads, Submit(t) \/ Drive(t)
  PROVE  Books'
<1>1. slot' = slot /\ ran' = ran
  BY DEF Submit, InvokeNode, GoPool!Submit, Drive, Reset, Setup, ScheduleStep, ScheduleAdd, ScheduleRef,
         SchedulePush, ScheduleCanceled, InvokeLoop, InvokeLeave, InvokePop, GraphReturn, poolVars, histVars
<1>2. UNCHANGED <<stage, events, spans, panicked>>
  BY DEF Submit, Drive, obsVars
<1>3. QED
  BY <1>1, <1>2, UnspannedBooks

\* A worker takes a task or leaves it; then it has no span.
LEMMA SlotBooks ==
  ASSUME IInv, TracedTypeOK, AllSpanned, Books, [Next]_vars, NEW w \in Workers, Take(w) \/ End(w)
  PROVE  Books'
<1>1. stage[w] = "none"
  <2>1. CASE Take(w)
    BY <2>1, TakeTaskSteps DEF Take, AllSpanned, Spanned
  <2>2. CASE End(w)
    BY <2>2, NoSpan DEF End, Done, AllSpanned, Publishing
  <2>3. QED
    BY <2>1, <2>2
<1>2. \A u \in Workers \ {w} : slot'[u] = slot[u] /\ panicked'[u] = panicked[u]
  BY TakeTaskSteps, DoneSteps DEF Take, End, Steps, TracedTypeOK
<1>3. /\ stage' = stage /\ events' = events /\ spans' = spans /\ ran' = ran /\ canceled' = canceled
      /\ ~panicked'[w]
  <2>1. Take(w) => ~panicked[w]
    BY TakeTaskSteps, ThreadsAssumption DEF Take, Books, Marked
  <2>2. QED
    BY <2>1 DEF Take, TakeTask, End, Done, TracedTypeOK, graphVars, histVars
<1>4. \A n \in Nodes : OpenAt(n)' = OpenAt(n) /\ AddedAt(n)' = AddedAt(n)
  BY <1>1, <1>2, <1>3 DEF OpenAt, AddedAt
<1>5. \A u \in Workers : Marked(u)'
  BY <1>2, <1>3 DEF Books, Marked
<1>6. QED
  BY <1>3, <1>4, <1>5, SameBooks

LEMMA ProceedBooks ==
  ASSUME IInv, TracedTypeOK, Books, [Next]_vars, NEW w \in Workers, Proceed(w)
  PROVE  Books'
<1>1. slot' = slot /\ ran' = ran
  BY DEF Proceed, ReturnStatic, ReturnSubflow, ReturnCondition, Drop, CheckSuccessor, Resetup, Deref,
         poolVars, histVars
<1>2. QED
  BY <1>1, UnspannedBooks DEF Proceed, obsVars

LEMMA PanickingBooks ==
  ASSUME IInv, TracedTypeOK, Books, [Next]_vars, NEW w \in Workers, Panicking(w)
  PROVE  Books'
<1>1. /\ slot' = slot /\ stage' = stage /\ events' = events /\ spans' = spans
      /\ panicked' = [panicked EXCEPT ![w] = TRUE] /\ pc[w] = "handle"
  BY DEF Panicking, ChoosePanic, HandlerPanic, poolVars
<1>2. slot[w] \in Nodes /\ graphOf[slot[w]] \in Graphs
  BY <1>1, SlotIsNode
<1>3. canceled'[graphOf[slot[w]]]
  BY <1>2 DEF Panicking, ChoosePanic, HandlerPanic, IInv, TypeOK, GraphTypes
<1>4. \A n \in Nodes : n /= slot[w] => ran'[n] = ran[n]
  BY <1>2 DEF Panicking, ChoosePanic, HandlerPanic, IInv, TypeOK, NodeTypes, histVars
<1>5. \A g \in Graphs : canceled[g] => canceled'[g]
  BY CanceledGrows
<1>6. \A u \in Workers : Marked(u)'
  BY <1>1, <1>2, <1>3, <1>5, FlowAssumption DEF Books, Marked, TracedTypeOK
<1>7. \A n \in Nodes : OpenAt(n)' = OpenAt(n) /\ AddedAt(n)' = AddedAt(n)
  BY <1>1 DEF OpenAt, AddedAt
<1>8. QED
  BY <1>1, <1>3, <1>4, <1>5, <1>6, <1>7, SameBooks

\* A span that is opened or closed moves its worker into or out of a set.
LEMMA SpanMoves ==
  ASSUME NEW w \in Workers, slot' = slot, \A u \in Workers \ {w} : stage'[u] = stage[u], NEW n
  PROVE  /\ Cardinality(OpenAt(n))' + (IF w \in OpenAt(n) THEN 1 ELSE 0)
              = Cardinality(OpenAt(n)) + (IF w \in OpenAt(n)' THEN 1 ELSE 0)
         /\ Cardinality(AddedAt(n))' + (IF w \in AddedAt(n) THEN 1 ELSE 0)
              = Cardinality(AddedAt(n)) + (IF w \in AddedAt(n)' THEN 1 ELSE 0)
         /\ Cardinality(OpenAt(n))' \in Nat /\ Cardinality(AddedAt(n))' \in Nat
<1>1. /\ OpenAt(n) \in SUBSET Threads /\ OpenAt(n)' \in SUBSET Threads
      /\ AddedAt(n) \in SUBSET Threads /\ AddedAt(n)' \in SUBSET Threads
  BY DEF OpenAt, AddedAt
<1>2. \A u \in Threads \ {w} : /\ u \in OpenAt(n) <=> u \in OpenAt(n)'
                               /\ u \in AddedAt(n) <=> u \in AddedAt(n)'
  BY DEF OpenAt, AddedAt
<1>3. w \in Threads
  OBVIOUS
<1>4. /\ Cardinality(OpenAt(n)') + (IF w \in OpenAt(n) THEN 1 ELSE 0)
           = Cardinality(OpenAt(n)) + (IF w \in OpenAt(n)' THEN 1 ELSE 0)
      /\ Cardinality(OpenAt(n)') \in Nat
  BY <1>1, <1>2, <1>3, CountMoves
<1>5. /\ Cardinality(AddedAt(n)') + (IF w \in AddedAt(n) THEN 1 ELSE 0)
           = Cardinality(AddedAt(n)) + (IF w \in AddedAt(n)' THEN 1 ELSE 0)
      /\ Cardinality(AddedAt(n)') \in Nat
  BY <1>1, <1>2, <1>3, CountMoves
<1>6. QED
  BY <1>4, <1>5

LEMMA OpenBooks ==
  ASSUME hasTracer, IInv, TracedTypeOK, AllSpanned, Books, NEW w \in Workers, Open(w)
  PROVE  Books'
<1>1. /\ pc[w] = "begin" /\ UNCHANGED <<slot, events, spans, panicked, canceled>>
      /\ stage' = [stage EXCEPT ![w] = "open"]
  BY ObserverAssumption DEF Open, Begin, poolVars, graphVars, Observing
<1>2. slot[w] \in Nodes
  BY <1>1, SlotIsNode
<1>3. stage[w] = "none" /\ stage'[w] = "open" /\ \A u \in Workers \ {w} : stage'[u] = stage[u]
  <2>1. Spanned(w) /\ Deferred(slot[w]) /= "begin" /\ ~Publishing(w)
    BY <1>1, <1>2, DeferredByType DEF AllSpanned, Publishing
  <2>2. stage[w] = "none"
    BY <1>1, <2>1 DEF Spanned
  <2>3. QED
    BY <1>1, <2>2 DEF TracedTypeOK
<1>4. \A u \in Workers : Marked(u)'
  BY <1>1 DEF Books, Marked
<1>5. ASSUME NEW n \in Nodes
      PROVE  Ledger(n)' /\ Account(n)'
  <2>1. Ledger(n) /\ Account(n)
    BY DEF Books
  <2>2. /\ w \notin OpenAt(n) /\ w \notin AddedAt(n) /\ w \notin AddedAt(n)'
        /\ w \in OpenAt(n)' <=> n = slot[w]
    BY <1>1, <1>3 DEF OpenAt, AddedAt
  <2>3. /\ Cardinality(AddedAt(n))' = Cardinality(AddedAt(n))
        /\ Cardinality(OpenAt(n))' = Cardinality(OpenAt(n)) + (IF n = slot[w] THEN 1 ELSE 0)
    BY <1>1, <1>3, <2>2, SpanMoves, CountAt
  <2>4. ~canceled[graphOf[n]] => ran'[n] = ran[n] + (IF n = slot[w] THEN 1 ELSE 0)
    BY <1>2 DEF Open, Begin, IInv, TypeOK, NodeTypes
  <2>5. ran[n] \in Nat /\ events[n] \in Nat /\ Cardinality(OpenAt(n)) \in Nat
    BY CountAt DEF IInv, TypeOK, NodeTypes, TracedTypeOK
  <2>6. Ledger(n)'
    BY <1>1, <2>1, <2>3, <2>4, <2>5 DEF Ledger
  <2>7. Account(n)'
    BY <1>1, <2>1, <2>3 DEF Account
  <2>8. QED
    BY <2>6, <2>7
<1>6. QED
  BY <1>4, <1>5 DEF Books

LEMMA AddSpanBooks ==
  ASSUME IInv, TracedTypeOK, AllSpanned, Books, NEW w \in Workers, AddSpan(w)
  PROVE  Books'
<1>1. /\ UNCHANGED <<slot, ran, canceled, events, panicked>>
      /\ slot[w] \in Nodes /\ stage[w] = "open"
      /\ spans' = IF hasProfiler /\ ~panicked[w] THEN [spans EXCEPT ![slot[w]] = CostWith(slot[w])] ELSE spans
  BY DEF AddSpan, Closing, vars, poolVars, graphVars, histVars, IInv, TypeOK, QueueTypes, GoPool!TypeOK
<1>2. stage'[w] = "added" /\ \A u \in Workers \ {w} : stage'[u] = stage[u]
  BY DEF AddSpan, TracedTypeOK
<1>3. \A u \in Workers : Marked(u)'
  BY <1>1 DEF Books, Marked
<1>4. ASSUME NEW n \in Nodes
      PROVE  Ledger(n)' /\ Account(n)'
  <2>1. Ledger(n) /\ Account(n)
    BY DEF Books
  <2>2. /\ w \in OpenAt(n) <=> w \in OpenAt(n)'
        /\ w \notin AddedAt(n) /\ (w \in AddedAt(n)' <=> n = slot[w])
    BY <1>1, <1>2 DEF OpenAt, AddedAt
  <2>3. /\ Cardinality(OpenAt(n))' = Cardinality(OpenAt(n))
        /\ Cardinality(AddedAt(n))' = Cardinality(AddedAt(n)) + (IF n = slot[w] THEN 1 ELSE 0)
    BY <1>1, <1>2, <2>2, SpanMoves, CountAt
  <2>4. hasProfiler => spans'[n] = spans[n] + (IF n = slot[w] /\ ~panicked[w] THEN 1 ELSE 0)
    BY <1>1 DEF CostWith, TracedTypeOK
  <2>5. n = slot[w] /\ panicked[w] => canceled[graphOf[n]]
    BY DEF Books, Marked
  <2>6. spans[n] \in Nat /\ events[n] \in Nat /\ Cardinality(AddedAt(n)) \in Nat
    BY CountAt DEF TracedTypeOK
  <2>7. Ledger(n)'
    BY <1>1, <2>1, <2>3 DEF Ledger
  <2>8. Account(n)'
    BY <1>1, <2>1, <2>3, <2>4, <2>5, <2>6 DEF Account
  <2>9. QED
    BY <2>7, <2>8
<1>5. QED
  BY <1>3, <1>4 DEF Books

LEMMA AddEventBooks ==
  ASSUME hasTracer, IInv, TracedTypeOK, AllSpanned, Books, NEW w \in Workers, AddEvent(w)
  PROVE  Books'
<1>1. /\ UNCHANGED <<slot, ran, canceled, spans, panicked>>
      /\ slot[w] \in Nodes /\ stage[w] = "added"
      /\ events' = [events EXCEPT ![slot[w]] = @ + 1]
  BY DEF AddEvent, Closing, vars, poolVars, graphVars, histVars, IInv, TypeOK, QueueTypes, GoPool!TypeOK
<1>2. stage'[w] = "none" /\ \A u \in Workers \ {w} : stage'[u] = stage[u]
  BY DEF AddEvent, TracedTypeOK
<1>3. \A u \in Workers : Marked(u)'
  BY <1>1 DEF Books, Marked
<1>4. ASSUME NEW n \in Nodes
      PROVE  Ledger(n)' /\ Account(n)'
  <2>1. Ledger(n) /\ Account(n)
    BY DEF Books
  <2>2. /\ w \in OpenAt(n) <=> n = slot[w]
        /\ w \in AddedAt(n) <=> n = slot[w]
        /\ w \notin OpenAt(n)' /\ w \notin AddedAt(n)'
    BY <1>1, <1>2 DEF OpenAt, AddedAt
  <2>3. /\ Cardinality(OpenAt(n)) = Cardinality(OpenAt(n))' + (IF n = slot[w] THEN 1 ELSE 0)
        /\ Cardinality(AddedAt(n)) = Cardinality(AddedAt(n))' + (IF n = slot[w] THEN 1 ELSE 0)
        /\ Cardinality(OpenAt(n))' \in Nat /\ Cardinality(AddedAt(n))' \in Nat
    BY <1>1, <1>2, <2>2, SpanMoves, CountAt
  <2>4. events'[n] = events[n] + (IF n = slot[w] THEN 1 ELSE 0)
    BY <1>1 DEF TracedTypeOK
  <2>5. events[n] \in Nat
    BY DEF TracedTypeOK
  <2>6. events'[n] + Cardinality(OpenAt(n))' = events[n] + Cardinality(OpenAt(n))
    BY <2>3, <2>4, <2>5
  <2>7. events'[n] + Cardinality(AddedAt(n))' = events[n] + Cardinality(AddedAt(n))
    BY <2>3, <2>4, <2>5
  <2>8. QED
    BY <1>1, <2>1, <2>6, <2>7 DEF Ledger, Account
<1>5. QED
  BY <1>3, <1>4 DEF Books

LEMMA BooksInit == TracedInit => Books
<1> SUFFICES ASSUME TracedInit PROVE Books
  OBVIOUS
<1>1. \A n \in Nodes : OpenAt(n) = {} /\ AddedAt(n) = {}
  BY DEF TracedInit, OpenAt, AddedAt
<1>2. \A n \in Nodes : Cardinality(OpenAt(n)) = 0 /\ Cardinality(AddedAt(n)) = 0
  BY <1>1, FS_EmptySet
<1>3. QED
  BY <1>2 DEF TracedInit, Init, Books, Ledger, Account, Marked

LEMMA BooksNext ==
  ASSUME hasTracer
  PROVE  IInv /\ TracedTypeOK /\ AllSpanned /\ Books /\ [Next]_vars /\ [TracedNext]_tracedVars => Books'
<1> SUFFICES ASSUME IInv, TracedTypeOK, AllSpanned, Books, [Next]_vars, [TracedNext]_tracedVars
             PROVE  Books'
  OBVIOUS
<1>1. ASSUME NEW c \in Callers, (Run(c) \/ Wait(c)) /\ UNCHANGED obsVars
      PROVE  Books'
  BY <1>1, UnspannedBooks DEF Run, Wait, poolVars, obsVars, histVars
<1>2. ASSUME UNCHANGED vars, UNCHANGED obsVars
      PROVE  Books'
  BY <1>2, UnspannedBooks DEF vars, poolVars, obsVars, histVars
<1>3. ASSUME NEW w \in Workers, ObservedStep(w)
      PROVE  Books'
  BY <1>3, SlotBooks, OpenBooks, PanickingBooks, ProceedBooks, AddSpanBooks, AddEventBooks
     DEF ObservedStep
<1> QED
  BY <1>1, <1>2, <1>3, DriveBooks DEF TracedNext, Terminated, tracedVars

THEOREM BooksKept ==
  ASSUME hasTracer
  PROVE  TracedSpec => [](IInv /\ TracedTypeOK /\ AllSpanned /\ Books)
<1>1. TracedSpec => []IInv /\ [][Next]_vars
  BY ObserverPassive, Invariance, PTL DEF Spec
<1>2. TracedSpec => [](TracedTypeOK /\ AllSpanned)
  BY <1>1, ObserverTypeCorrect, SpannedInit, SpannedNext, PTL DEF TracedSpec
<1>3. QED
  BY <1>1, <1>2, BooksInit, BooksNext, PTL DEF TracedSpec

\* The profiler accumulates one cost for each event of a task, less those of the
\* executions that panicked, whichever workers close spans of the task meanwhile.
THEOREM ProfileIsExact ==
  ASSUME hasProfiler, hasTracer
  PROVE  TracedSpec => []ProfileExact
<1>1. IInv /\ TracedTypeOK /\ AllSpanned /\ Books => ProfileExact
  <2> SUFFICES ASSUME IInv, TracedTypeOK, AllSpanned, Books, NEW n \in Nodes
               PROVE  /\ spans[n] <= events[n] + Cardinality({w \in Recording : slot[w] = n})
                      /\ ~canceled[graphOf[n]] =>
                           spans[n] = events[n] + Cardinality({w \in Recording : slot[w] = n})
    BY DEF ProfileExact
  <2>1. {w \in Recording : slot[w] = n} = AddedAt(n)
    BY DEF Recording, Closing, AddedAt, AllSpanned, Spanned
  <2>2. QED
    BY <2>1 DEF Books, Account
<1>2. QED
  BY <1>1, BooksKept, PTL

-----------------------------------------------------------------------------
(***************************************************************************)
(* The trace of a flow that has been executed.                             *)
(***************************************************************************)

LEMMA OwnerType ==
  ASSUME NEW n \in Nodes, owner[n] /= None
  PROVE  owner[n] \in Nodes /\ Typ[owner[n]] = "subflow" /\ subgraph[owner[n]] = graphOf[n]
<1> DEFINE P(o) == Typ[o] = "subflow" /\ subgraph[o] = graphOf[n]
<1>1. /\ \E o \in Nodes : P(o)
      /\ owner[n] = CHOOSE o \in Nodes : P(o)
  BY DEF owner
<1> HIDE DEF P
<1>2. owner[n] \in Nodes /\ P(owner[n])
  BY <1>1
<1>3. QED
  BY <1>2 DEF P

\* The definition of walk, as an equation: the function it chooses exists, since
\* the smallest set closed under it is one.
LEMMA VisitedTurn ==
  ASSUME NEW c \in Callers, NEW n \in Nodes
  PROVE  n \in walk(c) <=>
           \/ graphOf[n] = root[c]
           \/ owner[n] /= None /\ instantiated[graphOf[n]] /\ owner[n] \in walk(c)
<1> DEFINE Base(m)    == graphOf[m] = root[c]
           Under(m)   == owner[m] /= None /\ instantiated[graphOf[m]]
           Turn(f)    == [m \in Nodes |-> \/ graphOf[m] = root[c]
                                          \/ owner[m] /= None /\ instantiated[graphOf[m]] /\ f[owner[m]]]
           Closed(S)  == \A m \in Nodes : Base(m) \/ (Under(m) /\ owner[m] \in S) => m \in S
           least      == {m \in Nodes : \A S \in SUBSET Nodes : Closed(S) => m \in S}
           found      == [m \in Nodes |-> m \in least]
           visited    == CHOOSE f : f = Turn(f)
<1>1. \A m \in Nodes : Under(m) => owner[m] \in Nodes
  BY OwnerType
<1>2. Closed(least)
  OBVIOUS
<1>3. ASSUME NEW m \in least
      PROVE  Base(m) \/ (Under(m) /\ owner[m] \in least)
  <2> DEFINE T == {k \in Nodes : Base(k) \/ (Under(k) /\ owner[k] \in least)}
  <2>1. T \subseteq least
    BY <1>2
  <2>2. Closed(T)
    BY <2>1
  <2>3. m \in T
    BY <1>3, <2>2
  <2>4. QED
    BY <2>3
<1>4. found = Turn(found)
  <2>1. ASSUME NEW m \in Nodes
        PROVE  (m \in least) = (Base(m) \/ (Under(m) /\ found[owner[m]]))
    <3>1. Under(m) => (found[owner[m]] <=> owner[m] \in least)
      BY <1>1, <2>1
    <3>2. QED
      BY <1>2, <1>3, <2>1, <3>1
  <2>2. QED
    BY <2>1
<1>5. \E f : f = Turn(f)
  BY <1>4
<1>6. visited = Turn(visited)
  <2> HIDE DEF Turn
  <2>1. QED
    BY <1>5
<1>7. walk(c) = {m \in Nodes : visited[m]}
  BY DEF walk
<1> HIDE DEF visited
<1>8. n \in walk(c) <=> visited[n]
  BY <1>7
<1>9. visited[n] <=> Base(n) \/ (Under(n) /\ visited[owner[n]])
  BY <1>6
<1>10. Under(n) => (visited[owner[n]] <=> owner[n] \in walk(c))
  BY <1>1, <1>7
<1>11. QED
  BY <1>8, <1>9, <1>10

LEMMA Visited ==
  ASSUME NEW c \in Callers, NEW n \in walk(c)
  PROVE  /\ n \in Nodes
         /\ graphOf[n] = root[c] \/ (owner[n] /= None /\ owner[n] \in walk(c))
<1>1. n \in Nodes
  BY DEF walk
<1>2. QED
  BY <1>1, VisitedTurn

\* Run of a flow that is not canceled leaves all of its graphs settled.
LEMMA WalkSettled ==
  ASSUME IInv, GInv, NEW c \in Callers, Completed(c), NEW n \in walk(c)
  PROVE  Settled(graphOf[n])
<1> DEFINE B == {m \in walk(c) : ~Settled(graphOf[m])}
<1> SUFFICES ASSUME B /= {} PROVE FALSE
  OBVIOUS
<1>1. B \in SUBSET Nodes
  BY Visited
<1>2. PICK m \in B : \A o \in B : Typ[o] = "subflow" => subgraph[o] /= graphOf[m]
  BY <1>1, FoundedAssumption
<1>3. m \in Nodes /\ ~Settled(graphOf[m]) /\ m \in walk(c)
  BY <1>1
<1>4. Settled(root[c])
  BY RunDrainsFollows DEF RunDrains, Completed, Settled
<1>5. owner[m] /= None /\ owner[m] \in walk(c)
  BY <1>3, <1>4, Visited
<1>6. owner[m] \in Nodes /\ Typ[owner[m]] = "subflow" /\ subgraph[owner[m]] = graphOf[m]
  BY <1>3, <1>5, OwnerType
<1>7. Settled(graphOf[owner[m]])
  BY <1>2, <1>5, <1>6
<1>8. QED
  BY <1>3, <1>6, <1>7, SettledInside

\* A span is open only while its task is on its way.
LEMMA NothingOpen ==
  ASSUME IInv, AllSpanned, NEW n \in Nodes, Settled(graphOf[n])
  PROVE  OpenAt(n) = {}
<1> SUFFICES ASSUME NEW w \in Workers, slot[w] = n, stage[w] /= "none" PROVE FALSE
  BY DEF OpenAt
<1>1. ~Released(w)
  BY DeferredByType, FlowAssumption DEF AllSpanned, Spanned, Released, Publishing
<1>2. w \in GoPool!Running
  BY DEF GoPool!Running
<1>3. QED
  BY <1>1, <1>2 DEF Settled, Drained, Unreleased

LEMMA EventsFollow == IInv /\ GInv /\ TracedTypeOK /\ AllSpanned /\ Books => EventPerExecution
<1> SUFFICES ASSUME IInv, GInv, TracedTypeOK, AllSpanned, Books,
                    NEW c \in Callers, Completed(c), NEW n \in walk(c)
             PROVE  events[n] = ran[n]
  BY DEF EventPerExecution
<1>1. n \in Nodes /\ Settled(graphOf[n])
  BY Visited, WalkSettled
<1>2. Cardinality(OpenAt(n)) = 0
  BY <1>1, NothingOpen, FS_EmptySet
<1>3. QED
  BY <1>1, <1>2 DEF Books, Ledger, Settled, TracedTypeOK

\* When Run returns without a panic, the trace has one event for each execution of
\* each task of the flow and of its subflows: while no graph has two drivers.
THEOREM EventsCount ==
  ASSUME hasTracer
  PROVE  TracedSpec /\ []OneDriver => []EventPerExecution
BY ObserverPassive, BooksKept, GraphInvariance, EventsFollow, PTL

\* What DriverProof shows of flows whose conditions choose no subflow holds with an
\* observer too.
THEOREM ObservedIsSafe ==
  ASSUME hasTracer, SubflowsUnchosen
  PROVE  TracedSpec => [](JoinAccounting /\ PopSafe /\ PanicPropagates /\ EventPerExecution)
BY ObserverPassive, EventsCount, OneDriverHolds, SchedulerIsSafe, PTL

-----------------------------------------------------------------------------
(***************************************************************************)
(* The order of the trace, for flows without conditions, cycles and        *)
(* panics.                                                                 *)
(***************************************************************************)

\* A span is closed before the first successor is dropped.
Fresh == \A w \in Workers : stage[w] /= "none" => idx[w] = 1

LEMMA FreshNext == IInv /\ TracedTypeOK /\ AllSpanned /\ Fresh /\ [TracedNext]_tracedVars => Fresh'
<1> SUFFICES ASSUME IInv, TracedTypeOK, AllSpanned, Fresh, [TracedNext]_tracedVars,
                    NEW w \in Workers, stage'[w] /= "none"
             PROVE  idx'[w] = 1
  BY DEF Fresh
<1>1. CASE idx' = idx /\ stage'[w] = stage[w]
  BY <1>1 DEF Fresh
<1>2. ASSUME NEW c \in Callers, (Run(c) \/ Wait(c)) /\ UNCHANGED obsVars PROVE idx'[w] = 1
  BY <1>1, <1>2 DEF Run, Wait, threadVars, obsVars
<1>3. ASSUME NEW t \in Threads, Submit(t) \/ Drive(t) PROVE idx'[w] = 1
  <2>1. idx' = idx /\ stage' = stage
    BY <1>3 DEF Submit, Drive, InvokeNode, Reset, Setup, ScheduleStep, ScheduleAdd, ScheduleRef,
       SchedulePush, ScheduleCanceled, GraphReturn, InvokeLoop, InvokeLeave, InvokePop, obsVars
  <2>2. QED
    BY <1>1, <2>1
<1>4. ASSUME NEW u \in Workers, ObservedStep(u) PROVE idx'[w] = 1
  <2>1. CASE (Drop(u) \/ CheckSuccessor(u)) /\ Proceed(u)
    <3>1. stage' = stage /\ pc[u] \in {"drop", "check"} /\ ~Closing(u)
      BY <2>1 DEF Proceed, Drop, CheckSuccessor, obsVars
    <3>2. stage[u] = "none"
      BY <3>1, NoSpan DEF AllSpanned, Publishing
    <3>3. w /= u /\ idx'[w] = idx[w]
      BY <2>1, <3>1, <3>2 DEF Drop, CheckSuccessor, NextSuccessor, IInv, TypeOK, ThreadTypes
    <3>4. QED
      BY <3>1, <3>3 DEF Fresh
  <2>2. CASE Open(u)
    <3>1. idx' = idx /\ pc[u] = "begin" /\ (w /= u => stage'[w] = stage[w])
      BY <2>2 DEF Open, Begin, TracedTypeOK
    <3>2. idx[u] = 1
      BY <3>1 DEF IInv, ThreadShape
    <3>3. QED
      BY <1>1, <3>1, <3>2
  <2>3. CASE AddSpan(u) \/ AddEvent(u)
    <3>1. idx' = idx /\ (stage'[w] = stage[w] \/ (w = u /\ stage[w] /= "none"))
      BY <2>3 DEF AddSpan, AddEvent, vars, threadVars, Closing, TracedTypeOK
    <3>2. QED
      BY <1>1, <3>1 DEF Fresh
  <2>4. CASE \/ Take(u) \/ Panicking(u) \/ End(u)
             \/ Proceed(u) /\ ~Drop(u) /\ ~CheckSuccessor(u)
    <3>1. idx' = idx /\ stage' = stage
      BY <2>4 DEF Take, TakeTask, Panicking, ChoosePanic, HandlerPanic, End, Done, Proceed,
         ReturnStatic, ReturnSubflow, ReturnCondition, Resetup, Deref, obsVars
    <3>2. QED
      BY <1>1, <3>1
  <2>5. QED
    BY <1>4, <2>1, <2>2, <2>3, <2>4 DEF ObservedStep
<1>5. CASE UNCHANGED vars /\ UNCHANGED obsVars
  BY <1>1, <1>5 DEF vars, threadVars, obsVars
<1>6. QED
  BY <1>2, <1>3, <1>4, <1>5 DEF TracedNext, Terminated, tracedVars

\* A span that is open: its node is executed, in a round of its graph, and has not
\* dropped any of its successors.
LEMMA SpanInRound ==
  ASSUME NoConditions, Uncanceled, NEW d \in [Graphs -> Nat], Before(d), AllSpanned, Fresh,
         NEW m \in Nodes, NEW w \in OpenAt(m)
  PROVE  /\ w \in Workers /\ slot[w] = m /\ Working(w) /\ Phase(w) /= "none"
         /\ pc[w] = "handle" \/ pc[w] = Deferred(m)
         /\ \A n \in Nodes : \A e \in dependents[n] : e[1] = m => e \in Missing(n, d[graphOf[n]])
<1>1. /\ w \in Workers /\ slot[w] = m /\ idx[w] = 1
      /\ pc[w] = "handle" \/ pc[w] = Deferred(m)
  BY DEF OpenAt, AllSpanned, Spanned, Fresh, NoConditions
<1>2. Typ[m] \in {"static", "subflow"}
  BY FlowAssumption DEF NoConditions
<1>3. Phase(w) \in {"run", "drop", "resetup"} /\ (pc[w] = "resetup" => successors[m] = <<>>)
  BY <1>1, <1>2 DEF Deferred, Dropping, Phase
<1>4. Working(w)
  BY <1>1, <1>2, FlowAssumption DEF Working, Spent, Publishing, Deferred, Dropping, Uncanceled
<1>5. Views(w, m) /\ InRound(m, d[graphOf[m]]) /\ d[graphOf[m]] \in Nat
  BY <1>1, <1>4, AtWork
<1>6. ASSUME NEW n \in Nodes, NEW e \in dependents[n], e[1] = m PROVE e \in Missing(n, d[graphOf[n]])
  <2>1. graphOf[n] = graphOf[m] /\ e[2] \in DOMAIN successors[m] /\ e[2] \in Nat \ {0}
    BY <1>6, EdgeEnds
  <2>2. CASE Phase(w) = "run"
    <3>1. fin[m] = d[graphOf[m]] - 1
      BY <1>5, <2>2 DEF Views, InRound, Progress
    <3>2. QED
      BY <1>5, <1>6, <2>1, <3>1 DEF Missing
  <2>3. CASE Phase(w) = "drop"
    <3>1. DropsAt(e)
      BY <1>1, <1>6, <2>1, <2>3 DEF Drops, DropsAt
    <3>2. QED
      BY <3>1 DEF Missing
  <2>4. Phase(w) /= "resetup"
    BY <1>3, <2>1 DEF Phase
  <2>5. QED
    BY <1>3, <2>2, <2>3, <2>4
<1>7. QED
  BY <1>1, <1>3, <1>4, <1>6

\* All executions of a task are in the trace but one that has its span open.
LEMMA Recorded ==
  ASSUME NoConditions, Uncanceled, NEW d \in [Graphs -> Nat], Before(d), TracedTypeOK, AllSpanned,
         Fresh, Books, NEW m \in Nodes
  PROVE  /\ events[m] \in Nat /\ ran[m] \in Nat /\ ran[m] - 1 <= events[m] /\ events[m] <= ran[m]
         /\ OpenAt(m) = {} => events[m] = ran[m]
<1>1. /\ events[m] \in Nat /\ ran[m] \in Nat /\ graphOf[m] \in Graphs
      /\ ran[m] = events[m] + Cardinality(OpenAt(m))
  BY FlowAssumption DEF TracedTypeOK, Before, IInv, TypeOK, NodeTypes, Books, Ledger, Uncanceled
<1>2. CASE OpenAt(m) = {}
  BY <1>1, <1>2, FS_EmptySet
<1>3. ASSUME NEW w \in OpenAt(m) PROVE Cardinality(OpenAt(m)) = 1
  <2>1. w \in Workers /\ slot[w] = m /\ Working(w)
    BY SpanInRound
  <2>2. \A v \in OpenAt(m) : v \in Workers /\ slot[v] = m /\ Phase(v) /= "none"
    BY SpanInRound
  <2>3. OpenAt(m) = {w}
    BY <2>1, <2>2, AtWork DEF Only
  <2>4. QED
    BY <2>3, FS_Singleton
<1>4. QED
  BY <1>1, <1>2, <1>3

\* A task has been executed no more often than its graph has been set up.
LEMMA RanInRound ==
  ASSUME Uncanceled, NEW d \in [Graphs -> Nat], Before(d), NEW n \in Nodes
  PROVE  /\ d[graphOf[n]] \in Nat /\ ran[n] \in Nat /\ fin[n] \in Nat
         /\ fin[n] <= ran[n] /\ ran[n] <= d[graphOf[n]]
         /\ Served(graphOf[n]) => InRound(n, d[graphOf[n]])
<1>1. /\ d[graphOf[n]] \in Nat /\ graphOf[n] \in Graphs /\ ran[n] \in Nat /\ fin[n] \in Nat
      /\ NodeInv(n, d[graphOf[n]])
  BY FlowAssumption DEF Before, IInv, TypeOK, NodeTypes, Kept, Nodewise
<1>2. CASE Served(graphOf[n])
  BY <1>1, <1>2 DEF NodeInv, InRound, Progress, Uncanceled
<1>3. CASE ~Served(graphOf[n])
  BY <1>1, <1>3 DEF NodeInv, Between, Uncanceled
<1>4. QED
  BY <1>1, <1>2, <1>3

\* The events of a task are no more than those of a task that it succeeds.
LEMMA OrderOfEdge ==
  ASSUME NoConditions, Uncanceled, NEW d \in [Graphs -> Nat], Before(d), TracedTypeOK, AllSpanned,
         Fresh, Books, NEW n \in Nodes, NEW e \in dependents[n]
  PROVE  events[n] <= events[e[1]]
<1> PICK p \in Nodes : p = e[1] /\ graphOf[p] = graphOf[n]
  BY EdgeEnds
<1>1. /\ events[n] \in Nat /\ events[p] \in Nat /\ ran[n] \in Nat /\ ran[p] \in Nat
      /\ events[n] <= ran[n] /\ ran[p] - 1 <= events[p]
      /\ OpenAt(p) = {} => events[p] = ran[p]
  BY Recorded
<1>2. ran[n] <= fin[p] /\ fin[p] <= ran[p] /\ fin[p] \in Nat
  BY EdgeEnds, RanInRound DEF Before, Kept, DepsRespected, NoConditions
<1>3. CASE OpenAt(p) = {}
  BY <1>1, <1>2, <1>3
<1>4. ASSUME NEW w \in OpenAt(p) PROVE ran[n] <= ran[p] - 1
  <2> PICK r \in Nat : r = d[graphOf[n]]
    BY RanInRound
  <2>1. slot[w] = p /\ Working(w) /\ Phase(w) /= "none" /\ w \in Workers /\ e \in Missing(n, r)
    BY SpanInRound
  <2>2. InRound(n, r) /\ InRound(p, r) /\ Views(w, p)
    BY <2>1, AtWork
  <2>3. ran[p] = r
    BY <2>1, <2>2 DEF Views, InRound, Progress, Phase
  <2>4. ran[n] /= r
    BY <2>1, <2>2 DEF InRound, InOrder
  <2>5. ran[n] <= r
    BY RanInRound
  <2>6. QED
    BY <1>1, <2>3, <2>4, <2>5
<1>5. QED
  BY <1>1, <1>3, <1>4

\* The events of a task of a subflow are no more than those of the subflow.
LEMMA OrderOfSubflow ==
  ASSUME NoConditions, Uncanceled, NEW d \in [Graphs -> Nat], Before(d), Rounds(d), TracedTypeOK,
         AllSpanned, Fresh, Books, NEW n \in Nodes, owner[n] /= None
  PROVE  events[n] <= events[owner[n]]
<1>1. PICK o \in Nodes : o = owner[n] /\ Typ[o] = "subflow" /\ subgraph[o] = graphOf[n]
  BY OwnerType
<1>2. /\ events[n] \in Nat /\ events[o] \in Nat /\ ran[n] \in Nat /\ ran[o] \in Nat
      /\ events[n] <= ran[n] /\ ran[o] - 1 <= events[o]
      /\ OpenAt(o) = {} => events[o] = ran[o]
  BY Recorded
<1>3. ran[n] <= d[graphOf[n]] /\ d[graphOf[n]] \in Nat
  BY RanInRound
<1>4. ran[o] = d[graphOf[n]] + (IF EarlyAt(o) THEN 1 ELSE 0)
  BY <1>1, FlowAssumption DEF Rounds, SubflowRounds, Uncanceled
<1>5. CASE OpenAt(o) = {}
  BY <1>1, <1>2, <1>3, <1>4, <1>5
<1>6. ASSUME NEW w \in OpenAt(o) PROVE EarlyAt(o)
  BY <1>1, SpanInRound DEF EarlyAt, Early, Deferred
<1>7. QED
  BY <1>1, <1>2, <1>3, <1>4, <1>5, <1>6

\* closeSpan comes before anything that lets another task start: at every moment
\* the trace has no more events of a task than of each task it succeeds and of the
\* subflow it belongs to, in every flow without conditions, cycles and panics.
THEOREM OrderIsTraced ==
  ASSUME hasTracer, NoConditions, Acyclic, MayPanic = {}
  PROVE  TracedSpec => []TraceOrder
<1>1. AllInv /\ Uncanceled /\ TracedTypeOK /\ AllSpanned /\ Fresh /\ Books => TraceOrder
  <2> SUFFICES ASSUME AllInv, Uncanceled, TracedTypeOK, AllSpanned, Fresh, Books, NEW n \in Nodes
               PROVE  /\ \A p \in pred[n] : events[n] <= events[p]
                      /\ owner[n] /= None => events[n] <= events[owner[n]]
    BY DEF TraceOrder
  <2>1. PICK d \in [Graphs -> Nat] : InFlow(d)
    BY DEF AllInv, FlowInv
  <2>2. Before(d) /\ Rounds(d)
    BY <2>1 DEF AllInv, Before, InFlow
  <2>3. \A p \in pred[n] : \E e \in dependents[n] : p = e[1]
    BY DEF pred
  <2>4. QED
    BY <2>2, <2>3, OrderOfEdge, OrderOfSubflow
<1>2. TracedInit => Fresh
  BY DEF TracedInit, Fresh
<1>3. TracedSpec => []Fresh
  BY <1>2, FreshNext, BooksKept, PTL DEF TracedSpec
<1>4. QED
  BY <1>1, <1>3, BooksKept, ObserverPassive, FlowInvariance, NothingCanceled, PTL
-----------------------------------------------------------------------------
(***************************************************************************)
(* The validator, for flows without conditions and cycles.                 *)
(***************************************************************************)

\* One client uses the executor: the tracer records all flows of an executor,
\* and the validator knows one of them.
OneClient == \E c \in Callers : Callers = {c}

\* A client that has called Run has been counted, and a subflow that completes in a
\* graph that goes on has built its own graph.
Begun == \A c \in Callers : pc[c] /= "idle" => runs[c] > 0
BuiltBefore ==
  \A o \in Nodes : Typ[o] = "subflow" /\ fin[o] > 0 /\ ~canceled[graphOf[o]] => instantiated[subgraph[o]]

LEMMA BegunNext == IInv /\ Begun /\ [Next]_vars => Begun'
<1> SUFFICES ASSUME IInv, Begun, [Next]_vars, NEW c \in Callers, pc'[c] /= "idle"
             PROVE  runs'[c] > 0
  BY DEF Begun
<1>1. runs \in [Callers -> Nat] /\ pc \in [Threads -> PCs] /\ (pc[c] /= "idle" => runs[c] > 0)
  BY DEF IInv, TypeOK, NodeTypes, ThreadTypes, Begun
<1>2. ASSUME NEW e \in Callers, Run(e) PROVE runs'[c] > 0
  BY <1>1, <1>2 DEF Run, Goto
<1>3. ASSUME NEW e \in Callers, Wait(e) PROVE runs'[c] > 0
  BY <1>1, <1>3 DEF Wait, Goto, histVars
<1>4. ASSUME NEW t \in Threads, GraphStep(t) PROVE runs'[c] > 0
  <2>1. runs' = runs /\ pc[t] /= "idle"
    BY <1>4 DEF GraphStep, Reset, Setup, ScheduleStep, ScheduleAdd, ScheduleRef, SchedulePush,
                ScheduleCanceled, InvokeStep, InvokeLoop, InvokeLeave, InvokePop, InvokeNode, GraphReturn,
                histVars
  <2>2. pc[c] /= "idle"
    <3>1. CASE c = t
      BY <2>1, <3>1
    <3>2. CASE c /= t /\ pc[c] = "idle"
      <4>1. \A g : c \notin Waiters(g)
        BY <3>2 DEF Waiters
      <4>2. ASSUME NEW g, NEW l, pc' \in Signal(g, Goto(t, l)) PROVE pc'[c] = pc[c]
        BY <1>1, <3>2, <4>1, <4>2 DEF Signal, Goto
      <4>3. ASSUME NEW l, pc' = Goto(t, l) PROVE pc'[c] = pc[c]
        BY <1>1, <3>2, <4>3 DEF Goto
      <4>4. pc'[c] = pc[c]
        BY <1>4, <4>2, <4>3 DEF GraphStep, Reset, Setup, ScheduleStep, ScheduleAdd, ScheduleRef,
           SchedulePush, ScheduleCanceled, InvokeStep, InvokeLoop, InvokeLeave, InvokePop, InvokeNode,
           GraphReturn
      <4>5. QED
        BY <3>2, <4>4
    <3>3. QED
      BY <3>1, <3>2
  <2>3. QED
    BY <1>1, <2>1, <2>2
<1>5. ASSUME NEW w \in Workers, WorkerStep(w) PROVE runs'[c] > 0
  <2>1. runs' = runs
    BY <1>5 DEF WorkerStep, HandlerStep, TakeTask, Begin, ReturnStatic, ReturnSubflow, ReturnCondition,
                ChoosePanic, HandlerPanic, Drop, CheckSuccessor, Resetup, Deref, Done, histVars
  <2>2. pc[c] /= "idle"
    <3> SUFFICES ASSUME pc[c] = "idle" PROVE FALSE
      OBVIOUS
    <3>1. c /= w /\ \A g : c \notin Waiters(g)
      BY DEF Waiters
    <3>2. ASSUME NEW g, NEW l, pc' \in Signal(g, Goto(w, l)) PROVE pc'[c] = pc[c]
      BY <1>1, <3>1, <3>2 DEF Signal, Goto
    <3>3. ASSUME NEW l, pc' = Goto(w, l) PROVE pc'[c] = pc[c]
      BY <1>1, <3>1, <3>3 DEF Goto
    <3>4. pc'[c] = pc[c]
      BY <1>5, <3>2, <3>3 DEF WorkerStep, HandlerStep, TakeTask, Begin, ReturnStatic, ReturnSubflow,
         ReturnCondition, ChoosePanic, HandlerPanic, Drop, CheckSuccessor, NextSuccessor, Resetup, Deref, Done
    <3>5. QED
      BY <3>4
  <2>3. QED
    BY <1>1, <2>1, <2>2
<1>6. CASE UNCHANGED vars
  BY <1>1, <1>6 DEF vars, threadVars, histVars
<1>7. QED
  BY <1>2, <1>3, <1>4, <1>5, <1>6 DEF Next, Terminated

LEMMA BuiltNext == AllInv /\ BuiltBefore /\ [Next]_vars => BuiltBefore'
<1> SUFFICES ASSUME AllInv, BuiltBefore, [Next]_vars, NEW o \in Nodes, Typ[o] = "subflow",
                    fin'[o] > 0, ~canceled'[graphOf[o]]
             PROVE  instantiated'[subgraph[o]]
  BY DEF BuiltBefore
<1>1. /\ IInv /\ graphOf[o] \in Graphs /\ subgraph[o] \in Graphs /\ Opened
      /\ fin \in [Nodes -> Nat] /\ instantiated \in [Graphs -> BOOLEAN]
      /\ ~canceled[graphOf[o]]
  BY CanceledGrows, FlowAssumption DEF AllInv, FlowInv, InFlow, Kept, IInv, TypeOK, NodeTypes, GraphTypes
<1>2. instantiated[subgraph[o]] => instantiated'[subgraph[o]]
  <2>1. ASSUME NEW w \in Workers, ReturnSubflow(w)
        PROVE  instantiated[subgraph[o]] => instantiated'[subgraph[o]]
    BY <1>1, <2>1 DEF ReturnSubflow
  <2>2. ASSUME NEW t \in Threads, GraphStep(t) PROVE instantiated' = instantiated
    BY <2>2 DEF GraphStep, Reset, Setup, ScheduleStep, ScheduleAdd, ScheduleRef, SchedulePush,
                ScheduleCanceled, InvokeStep, InvokeLoop, InvokeLeave, InvokePop, InvokeNode, GraphReturn,
                graphVars
  <2>3. ASSUME NEW w \in Workers, WorkerStep(w) PROVE ReturnSubflow(w) \/ instantiated' = instantiated
    BY <2>3 DEF WorkerStep, HandlerStep, TakeTask, Begin, ReturnStatic, ReturnCondition, ChoosePanic,
                HandlerPanic, Drop, CheckSuccessor, Resetup, Deref, Done, graphVars
  <2>4. ASSUME NEW c \in Callers, Run(c) \/ Wait(c) PROVE instantiated' = instantiated
    BY <2>4 DEF Run, Wait, graphVars
  <2>5. QED
    BY <2>1, <2>2, <2>3, <2>4 DEF Next, Terminated, vars, graphVars
<1>3. CASE fin'[o] = fin[o]
  BY <1>1, <1>2, <1>3 DEF BuiltBefore
<1>4. CASE fin'[o] /= fin[o]
  <2>1. ASSUME NEW t \in Threads, GraphStep(t)
        PROVE  t \in Workers /\ pc[t] = "return" /\ slot[t] = o
    <3>1. GraphReturn(t) \/ fin' = fin
      BY <2>1 DEF GraphStep, Reset, Setup, ScheduleStep, ScheduleAdd, ScheduleRef, SchedulePush,
                  ScheduleCanceled, InvokeStep, InvokeLoop, InvokeLeave, InvokePop, InvokeNode, histVars
    <3>2. GraphReturn(t) /\ t \in Workers
      BY <1>4, <3>1 DEF GraphReturn
    <3>3. QED
      BY <1>1, <1>4, <3>2 DEF GraphReturn
  <2>2. ASSUME NEW w \in Workers, WorkerStep(w) PROVE FALSE
    <3>1. ReturnStatic(w) \/ ReturnCondition(w) \/ fin' = fin
      BY <2>2 DEF WorkerStep, HandlerStep, TakeTask, Begin, ReturnSubflow, ChoosePanic,
                  HandlerPanic, Drop, CheckSuccessor, Resetup, Deref, Done, histVars
    <3>2. QED
      BY <1>1, <1>4, <3>1 DEF ReturnStatic, ReturnCondition
  <2>3. ASSUME NEW c \in Callers, Run(c) \/ Wait(c) PROVE fin' = fin
    BY <2>3 DEF Run, Wait, histVars
  <2>4. PICK t \in Workers : pc[t] = "return" /\ slot[t] = o
    BY <1>4, <2>1, <2>2, <2>3 DEF Next, Terminated, vars, histVars
  <2>5. QED
    BY <1>1, <1>2, <2>4 DEF Opened
<1>5. QED
  BY <1>3, <1>4

\* A task is in the walk of the flow if its subflow is and has been built.
LEMMA InWalk ==
  ASSUME NEW c \in Callers, NEW n \in Nodes,
         graphOf[n] = root[c] \/ (owner[n] /= None /\ instantiated[graphOf[n]] /\ owner[n] \in walk(c))
  PROVE  n \in walk(c)
BY VisitedTurn

\* In a graph of the flow where nothing is on its way a task completes as often as it
\* starts, and of a subflow that has run all tasks have run.
LEMMA SettledNode ==
  ASSUME NoConditions, AllInv, NEW o \in Nodes, Settled(graphOf[o])
  PROVE  fin[o] = ran[o]
<1>1. PICK d \in [Graphs -> Nat] : InFlow(d)
  BY DEF AllInv, FlowInv
<1>2. NodeInv(o, d[graphOf[o]]) /\ ~canceled[graphOf[o]]
  BY <1>1 DEF InFlow, Kept, Nodewise, Settled
<1>3. ~RunsAt(o)
  <2> SUFFICES ASSUME NEW w \in Workers, slot[w] = o, Phase(w) = "run" PROVE FALSE
    BY DEF RunsAt
  <2>1. w \in GoPool!Running /\ ~Released(w)
    BY DEF GoPool!Running, Released, Phase
  <2>2. QED
    BY <2>1 DEF Settled, Drained, Unreleased
<1>4. CASE Served(graphOf[o])
  <2>1. Progress(o, d[graphOf[o]])
    BY <1>2, <1>4 DEF NodeInv, InRound
  <2> DEFINE r == d[graphOf[o]]
  <2>2. Queued(o) => ran[o] = r - 1 /\ fin[o] = r - 1
    BY <2>1 DEF Progress
  <2>3. EndsAt(o) => ran[o] = r /\ fin[o] = r
    BY <2>1 DEF Progress
  <2>4. ~Queued(o) /\ ~EndsAt(o) => ran[o] = fin[o]
    BY <1>3, <2>1 DEF Progress
  <2>5. QED
    BY <2>2, <2>3, <2>4
<1>5. CASE ~Served(graphOf[o])
  BY <1>2, <1>5 DEF NodeInv, Between
<1>6. QED
  BY <1>4, <1>5

\* When Run returns without a panic, every task of the only client is in the walk of
\* its flow and has been executed: an owner that has been executed has built its
\* subflow and completed with all of its tasks.
LEMMA AllExecuted ==
  ASSUME NoConditions, Owned, AllInv, Begun, BuiltBefore, NEW c \in Callers, Callers = {c}, Completed(c),
         NEW n \in Nodes
  PROVE  n \in walk(c) /\ ran[n] > 0
<1> DEFINE Seen(m) == m \in walk(c) /\ ran[m] > 0
           B == {m \in Nodes : ~Seen(m)}
<1> SUFFICES ASSUME B /= {} PROVE FALSE
  OBVIOUS
<1>1. PICK m \in B : \A o \in B : Typ[o] = "subflow" => subgraph[o] /= graphOf[m]
  BY FoundedAssumption
<1>2. IInv /\ GInv /\ runs[c] \in Nat /\ runs[c] > 0
  BY DEF AllInv, IInv, TypeOK, NodeTypes, Begun, Completed
<1>3. CASE graphOf[m] = root[c]
  <2>1. PICK d \in [Graphs -> Nat] : InFlow(d)
    BY DEF AllInv, FlowInv
  <2>2. ran[m] = runs[c]
    BY <1>2, <1>3, <2>1, RestingCaller DEF Completed
  <2>3. QED
    BY <1>2, <1>3, <2>2, InWalk
<1>4. CASE graphOf[m] /= root[c]
  <2>1. PICK o \in Nodes : Typ[o] = "subflow" /\ subgraph[o] = graphOf[m]
    BY <1>4 DEF Owned
  <2>2. o \in walk(c) /\ ran[o] > 0
    BY <1>1, <2>1
  <2>3. owner[m] = o /\ o /= None
    BY <2>1, OwnerOf, ThreadsAssumption
  <2>4. Settled(graphOf[o]) /\ Settled(subgraph[o])
    BY <1>2, <2>1, <2>2, WalkSettled, SettledInside
  <2>5. fin[o] = ran[o] /\ LiveSubflow(o)
    BY <2>1, <2>4, SettledNode DEF LiveSubflow, Settled
  <2>6. instantiated[graphOf[m]]
    BY <2>1, <2>2, <2>4, <2>5 DEF BuiltBefore, Settled
  <2>7. ran[m] = ran[o]
    BY <2>1, <2>5, LiveSubflowComplete
  <2>8. QED
    BY <1>1, <2>2, <2>3, <2>6, <2>7, InWalk
<1>5. QED
  BY <1>3, <1>4

\* What the events carry is what the flow has.
LEMMA NamesRecorded ==
  ASSUME NEW c \in Callers, NEW n \in DOMAIN Expected(c) \cap DOMAIN Executed
  PROVE  [i \in DOMAIN Expected(c)[n] |-> Expected(c)[n][i].name] = Executed[n]
<1>1. n \in walk(c) /\ n \in {m \in Nodes : events[m] > 0}
  BY DEF Expected, Executed
<1> DEFINE edges == SetToSeq(dependents[n])
           e == [i \in DOMAIN edges |-> [name |-> edges[i][1], Typ |-> Typ[edges[i][1]]]]
<1>2. Expected(c)[n] = e
  BY <1>1 DEF Expected
<1>3. Executed[n] = [i \in DOMAIN edges |-> edges[i][1]]
  BY <1>1 DEF Executed
<1> HIDE DEF edges
<1>4. DOMAIN e = DOMAIN edges /\ \A i \in DOMAIN edges : e[i].name = edges[i][1]
  OBVIOUS
<1>5. QED
  BY <1>2, <1>3, <1>4

LEMMA TraceFollows ==
  NoConditions /\ Owned /\ OneClient /\ AllInv /\ Begun /\ BuiltBefore /\ TracedTypeOK /\ EventPerExecution
  => TraceValid
<1> SUFFICES ASSUME NoConditions, Owned, OneClient, AllInv, Begun, BuiltBefore, TracedTypeOK,
                    EventPerExecution, NEW c \in Callers, Completed(c)
             PROVE  Validation!Valid(Executed, Expected(c))
  BY DEF TraceValid
<1>1. \A n \in Nodes : n \in walk(c) /\ ran[n] > 0
  BY AllExecuted DEF OneClient
<1>2. \A n \in Nodes : events[n] > 0
  BY <1>1 DEF EventPerExecution
<1>3. DOMAIN Expected(c) = Nodes
  BY <1>1, Visited DEF Expected
<1>4. DOMAIN Executed = Nodes
  BY <1>2 DEF Executed
<1>5. Validation!missingTasks(Executed, Expected(c)) = {}
  BY <1>3, <1>4 DEF Validation!missingTasks
<1>6. Validation!unexpectedTasks(Executed, Expected(c)) = {}
  BY <1>3, <1>4 DEF Validation!unexpectedTasks
<1>7. Validation!dependencyErrors(Executed, Expected(c)) = {}
  BY NamesRecorded DEF Validation!dependencyErrors, Validation!stringSliceEqual
<1>8. QED
  BY <1>5, <1>6, <1>7 DEF Validation!Valid

\* The validator accepts the trace of a flow that Run has completed without a panic,
\* in every flow without conditions and cycles that is alone on its executor, however
\* often it is run and on any number of workers.
THEOREM TracesValidate ==
  ASSUME hasTracer, NoConditions, Acyclic, Owned, OneClient
  PROVE  TracedSpec => []TraceValid
<1>1. TracedInit => Begun /\ BuiltBefore
  BY DEF TracedInit, Init, Begun, BuiltBefore
<1>2. TracedSpec => []AllInv
  BY ObserverPassive, FlowInvariance, PTL
<1>3. AllInv => IInv /\ GInv /\ OneDriver
  BY DEF AllInv
<1>4. TracedSpec => [][Next]_vars
  BY ObserverPassive, PTL DEF Spec
<1>5. TracedSpec => []Begun
  BY <1>1, <1>2, <1>3, <1>4, BegunNext, PTL DEF TracedSpec
<1>6. TracedSpec => []BuiltBefore
  BY <1>1, <1>2, <1>4, BuiltNext, PTL DEF TracedSpec
<1>7. TracedSpec => []EventPerExecution
  BY <1>2, <1>3, EventsCount, PTL
<1>8. QED
  BY <1>2, <1>5, <1>6, <1>7, TraceFollows, ObserverTypeCorrect, PTL
=============================================================================
