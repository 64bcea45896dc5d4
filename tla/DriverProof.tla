----------------------------- MODULE DriverProof -----------------------------
(***************************************************************************)
(* Who may be executed twice at once: only nodes that a condition chooses, *)
(* and conditions.  Every other node has at most one token, which is the   *)
(* node in a queue, in the hand of a thread or in the closure of a worker, *)
(* and is claimed only when it has none (Single).                          *)
(*                                                                         *)
(* A flow whose conditions choose no subflow therefore drives no graph     *)
(* twice at once (OneDriver), and what SchedulerProof shows under that     *)
(* hypothesis holds for it without one.                                    *)
(*                                                                         *)
(* The last part counts what a condition releases (BInv): a node that only *)
(* it can release is on its way, or has been executed, as often as the     *)
(* condition has chosen it.                                                *)
(***************************************************************************)
EXTENDS SchedulerProof

USE ThreadsAssumption DEF Threads, Driving

\* Nodes that are scheduled by their predecessors or by setup() only.
Protected ==
  {m \in Nodes : /\ Typ[m] /= "condition"
                 /\ \A n \in Nodes : Typ[n] = "condition" =>
                      \A i \in DOMAIN mapper[n] : mapper[n][i] /= m}

\* A worker that has made its node claimable again.
Spent(w) == pc[w] \in {"done", "deref"} \/ (Publishing(w) /\ ret[w] = "deref")

Hands(m)    == {t \in InHand : hand[t] = m}
Execs(m)    == {w \in Workers : slot[w] = m /\ ~Spent(w)}
Claimers(m) == {t \in Threads : m \in todo[t]}

Tokens(m) == Count(wq, {m}) + Count(taskQ, {m}) + Cardinality(Hands(m)) + Cardinality(Execs(m))
Claims(m) == Cardinality(Claimers(m))

\* One token; in a graph that is not canceled, one token or claim; and none at
\* all when a predecessor may claim the node.
One(m) ==
  /\ Tokens(m) <= 1
  /\ ~canceled[graphOf[m]] => Tokens(m) + Claims(m) <= 1
  /\ ~canceled[graphOf[m]] /\ dependents[m] /= {} /\ state[m] = "idle" => Tokens(m) + Claims(m) = 0

Single == \A m \in Protected : One(m)

-----------------------------------------------------------------------------
(***************************************************************************)
(* What a step does to the tokens of a node.                               *)
(***************************************************************************)

LEMMA SpentStays ==
  ASSUME NEW t \in Threads, NEW l, Steps(t, l), NEW u \in Threads \ {t}
  PROVE  Spent(u)' <=> Spent(u)
<1>1. /\ pc'[u] = pc[u] \/ (pc[u] = "waiting" /\ pc'[u] = "loop")
      /\ Publishing(u)' <=> Publishing(u)
      /\ ret'[u] = ret[u]
  BY OthersStay DEF Steps
<1>2. QED
  BY <1>1 DEF Spent

\* What is counted are numbers.
Sizes(m) ==
  /\ Count(wq, {m}) \in Nat /\ Count(taskQ, {m}) \in Nat
  /\ Cardinality(Hands(m)) \in Nat /\ Cardinality(Execs(m)) \in Nat
  /\ Claims(m) \in Nat /\ Tokens(m) \in Nat

LEMMA TokenTypes ==
  ASSUME TypeOK, NEW m \in Nodes
  PROVE  Sizes(m)
<1>1. wq \in Seq(Nodes) /\ taskQ \in Seq(Nodes)
  BY DEF TypeOK, QueueTypes, GoPool!TypeOK
<1>2. Count(wq, {m}) \in Nat /\ Count(taskQ, {m}) \in Nat
  BY <1>1, CountType
<1>3. Hands(m) \in SUBSET Threads /\ Execs(m) \in SUBSET Threads /\ Claimers(m) \in SUBSET Threads
  BY DEF Hands, Execs, Claimers, InHand
<1>4. /\ Cardinality(Hands(m)) \in Nat /\ Cardinality(Execs(m)) \in Nat
      /\ Cardinality(Claimers(m)) \in Nat
  BY <1>3, FiniteThreads, FS_Subset, FS_CardinalityType
<1>5. QED
  BY <1>2, <1>4 DEF Sizes, Tokens, Claims

\* What the move of one thread does to the three sets of threads.
Balance(t, m) ==
  /\ Cardinality(Hands(m))' + (IF t \in Hands(m) THEN 1 ELSE 0)
       = Cardinality(Hands(m)) + (IF t \in Hands(m)' THEN 1 ELSE 0)
  /\ Cardinality(Execs(m))' + (IF t \in Execs(m) THEN 1 ELSE 0)
       = Cardinality(Execs(m)) + (IF t \in Execs(m)' THEN 1 ELSE 0)
  /\ Claims(m)' + (IF t \in Claimers(m) THEN 1 ELSE 0)
       = Claims(m) + (IF t \in Claimers(m)' THEN 1 ELSE 0)
  /\ Cardinality(Hands(m))' \in Nat /\ Cardinality(Execs(m))' \in Nat /\ Claims(m)' \in Nat

LEMMA TokensMove ==
  ASSUME TypeOK, TypeOK', NEW t \in Threads, NEW l, Steps(t, l), NEW m \in Nodes
  PROVE  Balance(t, m)
<1>1. /\ Hands(m) \in SUBSET Threads /\ Hands(m)' \in SUBSET Threads
      /\ Execs(m) \in SUBSET Threads /\ Execs(m)' \in SUBSET Threads
      /\ Claimers(m) \in SUBSET Threads /\ Claimers(m)' \in SUBSET Threads
  BY DEF Hands, Execs, Claimers, InHand
<1>2. ASSUME NEW u \in Threads \ {t} PROVE u \in Hands(m) <=> u \in Hands(m)'
  BY OthersStay DEF Hands, InHand, Steps
<1>3. ASSUME NEW u \in Threads \ {t} PROVE u \in Execs(m) <=> u \in Execs(m)'
  BY SpentStays DEF Execs, Steps
<1>4. ASSUME NEW u \in Threads \ {t} PROVE u \in Claimers(m) <=> u \in Claimers(m)'
  BY DEF Claimers, Steps
<1>5. /\ Cardinality(Hands(m))' + (IF t \in Hands(m) THEN 1 ELSE 0)
           = Cardinality(Hands(m)) + (IF t \in Hands(m)' THEN 1 ELSE 0)
      /\ Cardinality(Hands(m))' \in Nat
  BY <1>1, <1>2, CountMoves
<1>6. /\ Cardinality(Execs(m))' + (IF t \in Execs(m) THEN 1 ELSE 0)
           = Cardinality(Execs(m)) + (IF t \in Execs(m)' THEN 1 ELSE 0)
      /\ Cardinality(Execs(m))' \in Nat
  BY <1>1, <1>3, CountMoves
<1>7. /\ Claims(m)' + (IF t \in Claimers(m) THEN 1 ELSE 0)
           = Claims(m) + (IF t \in Claimers(m)' THEN 1 ELSE 0)
      /\ Claims(m)' \in Nat
  BY <1>1, <1>4, CountMoves DEF Claims
<1>8. QED
  BY <1>5, <1>6, <1>7 DEF Balance

Counted == \A m \in Nodes : Tokens(m) \in Nat /\ Claims(m) \in Nat

LEMMA TokensAreCounted == TypeOK => Counted
BY TokenTypes DEF Counted, Sizes

\* A step after which there is no more than before.
LEMMA OneStays ==
  ASSUME TypeOK, TypeOK', NEW m \in Nodes, One(m),
         canceled[graphOf[m]] => canceled'[graphOf[m]],
         Tokens(m)' <= Tokens(m),
         ~canceled'[graphOf[m]] => Tokens(m)' + Claims(m)' <= Tokens(m) + Claims(m),
         ~canceled'[graphOf[m]] /\ dependents[m] /= {} /\ state'[m] = "idle" =>
           state[m] = "idle" \/ Tokens(m)' + Claims(m)' = 0
  PROVE  One(m)'
<1>1. Tokens(m) \in Nat /\ Claims(m) \in Nat
  BY TokenTypes DEF Sizes
<1>2. Tokens(m)' \in Nat /\ Claims(m)' \in Nat
  <2>1. TypeOK' => Counted'
    BY TokensAreCounted, PTL
  <2>2. QED
    BY <2>1 DEF Counted
<1>3. QED
  BY <1>1, <1>2 DEF One

\* A step that neither moves a token nor claims.
LEMMA SingleSilent ==
  ASSUME IInv, Single, IInv', NEW t \in Threads, NEW l, Steps(t, l),
         UNCHANGED <<wq, taskQ, slot, hand>>,
         pc[t] \in {"ref", "push", "go"} <=> l \in {"ref", "push", "go"},
         t \in Workers /\ slot[t] \in Protected => (Spent(t)' <=> Spent(t)),
         \A m \in Protected : m \in todo'[t] => m \in todo[t],
         \A g \in Graphs : canceled[g] => canceled'[g],
         \A m \in Protected : state'[m] = "idle" => state[m] = "idle"
  PROVE  Single'
<1> SUFFICES ASSUME NEW m \in Protected PROVE One(m)'
  BY DEF Single
<1>1. m \in Nodes /\ graphOf[m] \in Graphs /\ One(m)
  BY FlowAssumption DEF Protected, Single
<1>2. pc'[t] = l
  BY DEF Steps, Moves
<1>3. t \in Hands(m)' <=> t \in Hands(m)
  BY <1>2 DEF Hands, InHand
<1>4. t \in Execs(m)' <=> t \in Execs(m)
  BY DEF Execs
<1>5. t \in Claimers(m)' => t \in Claimers(m)
  BY DEF Claimers
<1>6. Count(wq, {m})' = Count(wq, {m}) /\ Count(taskQ, {m})' = Count(taskQ, {m})
  OBVIOUS
<1>7. Balance(t, m) /\ Sizes(m)
  BY <1>1, TokensMove, TokenTypes DEF IInv
<1>8. Tokens(m)' = Tokens(m) /\ Claims(m)' <= Claims(m) /\ Claims(m)' \in Nat
  BY <1>3, <1>4, <1>5, <1>6, <1>7 DEF Tokens, Balance, Sizes
<1>9. Tokens(m) \in Nat /\ Claims(m) \in Nat
  BY <1>7 DEF Sizes
<1>10. QED
  BY <1>1, <1>8, <1>9, OneStays DEF IInv

-----------------------------------------------------------------------------
(***************************************************************************)
(* Each action preserves Single.  First those that move no token.          *)
(***************************************************************************)

LEMMA RunSingle ==
  ASSUME IInv, Single, NEW c \in Callers, Run(c)
  PROVE  Single'
<1>1. Steps(c, "setup") /\ pc'[c] = "setup"
  BY RunSteps
<1>2. /\ pc[c] \in {"idle", "returned"}
      /\ UNCHANGED <<ret, todo, hand, wq, taskQ, slot, canceled, state>>
  BY DEF Run, poolVars, graphVars, nodeVars
<1>3. IInv'
  BY RunInv
<1>4. QED
  BY <1>1, <1>2, <1>3, SingleSilent

LEMMA WaitSingle ==
  ASSUME IInv, Single, NEW c \in Callers, Wait(c)
  PROVE  Single'
<1>1. Steps(c, "idle") /\ pc'[c] = "idle"
  BY WaitSteps
<1>2. /\ pc[c] = "returned"
      /\ UNCHANGED <<ret, todo, hand, wq, taskQ, slot, canceled, state>>
  BY DEF Wait, poolVars, graphVars, nodeVars
<1>3. IInv'
  BY WaitInv
<1>4. QED
  BY <1>1, <1>2, <1>3, SingleSilent

LEMMA ResetSingle ==
  ASSUME IInv, Single, NEW t \in Threads, Reset(t)
  PROVE  Single'
<1>1. Steps(t, "entries") /\ pc'[t] = "entries"
  BY ResetSteps
<1>2. /\ pc[t] = "setup"
      /\ UNCHANGED <<ret, todo, hand, wq, taskQ, slot, canceled, state>>
  BY DEF Reset, poolVars
<1>3. IInv'
  BY ResetInv
<1>4. Spent(t)' <=> Spent(t)
  BY <1>1, <1>2 DEF Spent, Publishing
<1>5. QED
  BY <1>1, <1>2, <1>3, <1>4, SingleSilent

LEMMA ScheduleRefSingle ==
  ASSUME IInv, Single, NEW t \in Threads, ScheduleRef(t)
  PROVE  Single'
<1>1. Steps(t, "push") /\ pc'[t] = "push"
  BY ScheduleRefSteps
<1>2. /\ pc[t] = "ref"
      /\ UNCHANGED <<ret, todo, hand, wq, taskQ, slot, canceled, state>>
  BY DEF ScheduleRef, poolVars, nodeVars
<1>3. IInv'
  BY ScheduleRefInv
<1>4. Spent(t)' <=> Spent(t)
  BY <1>1, <1>2 DEF Spent, Publishing
<1>5. QED
  BY <1>1, <1>2, <1>3, <1>4, SingleSilent

LEMMA ScheduleCanceledSingle ==
  ASSUME IInv, Single, NEW t \in Threads, ScheduleCanceled(t)
  PROVE  Single'
<1>1. Steps(t, ret[t]) /\ pc'[t] = ret[t] /\ ret[t] \in {"loop", "deref"} /\ todo'[t] = {}
  BY ScheduleCanceledSteps
<1>2. /\ pc[t] = "schedule"
      /\ UNCHANGED <<ret, hand, wq, taskQ, slot, canceled, state>>
  BY DEF ScheduleCanceled, poolVars, graphVars, nodeVars
<1>3. IInv'
  BY ScheduleCanceledInv
<1>4. Spent(t)' <=> Spent(t)
  BY <1>1, <1>2 DEF Spent, Publishing
<1>5. QED
  BY <1>1, <1>2, <1>3, <1>4, SingleSilent

LEMMA InvokeLoopSingle ==
  ASSUME IInv, Single, NEW t \in Threads, InvokeLoop(t)
  PROVE  Single'
<1>1. Steps(t, pc'[t]) /\ pc'[t] \in {"waiting", "pop"}
  BY InvokeLoopSteps
<1>2. /\ pc[t] = "loop"
      /\ UNCHANGED <<ret, todo, hand, wq, taskQ, slot, canceled, state>>
  BY DEF InvokeLoop, poolVars, graphVars, nodeVars
<1>3. IInv'
  BY InvokeLoopInv
<1>4. Spent(t)' <=> Spent(t)
  BY <1>1, <1>2 DEF Spent, Publishing
<1>5. pc[t] \notin {"ref", "push", "go"} /\ pc'[t] \notin {"ref", "push", "go"}
  BY <1>1, <1>2
<1>6. QED
  BY <1>1, <1>2, <1>3, <1>4, <1>5, SingleSilent

LEMMA InvokeLeaveSingle ==
  ASSUME IInv, Single, NEW t \in Threads, InvokeLeave(t)
  PROVE  Single'
<1>1. Steps(t, "return") /\ pc'[t] = "return"
  BY InvokeLeaveSteps
<1>2. /\ pc[t] = "pop"
      /\ UNCHANGED <<ret, todo, hand, wq, taskQ, slot, canceled, state>>
  BY DEF InvokeLeave, poolVars, graphVars, nodeVars
<1>3. IInv'
  BY InvokeLeaveInv
<1>4. Spent(t)' <=> Spent(t)
  BY <1>1, <1>2 DEF Spent, Publishing
<1>5. QED
  BY <1>1, <1>2, <1>3, <1>4, SingleSilent

LEMMA GraphReturnSingle ==
  ASSUME IInv, Single, NEW t \in Threads, GraphReturn(t)
  PROVE  Single'
<1>1. /\ Steps(t, pc'[t]) /\ pc'[t] \in {"returned", "resetup", "drop"}
      /\ \/ canceled' = canceled
         \/ canceled' = [h \in Graphs |-> canceled[h] \/ h \in Cancels(t)]
  BY GraphReturnSteps
<1>2. /\ pc[t] = "return"
      /\ UNCHANGED <<ret, todo, hand, wq, taskQ, slot, state>>
  BY DEF GraphReturn, poolVars, nodeVars
<1>3. IInv'
  BY GraphReturnInv
<1>4. Spent(t)' <=> Spent(t)
  BY <1>1, <1>2 DEF Spent, Publishing
<1>5. \A g \in Graphs : canceled[g] => canceled'[g]
  BY <1>1
<1>6. pc[t] \notin {"ref", "push", "go"} /\ pc'[t] \notin {"ref", "push", "go"}
  BY <1>1, <1>2
<1>7. QED
  BY <1>1, <1>2, <1>3, <1>4, <1>5, <1>6, SingleSilent

\* The steps of a closure that has not made its node claimable again.
LEMMA ClosureSingle ==
  ASSUME IInv, Single, IInv', NEW w \in Workers, NEW l, Steps(w, l),
         UNCHANGED <<wq, taskQ, slot, hand>>,
         pc[w] \in {"begin", "handle", "drop", "check"},
         l \in {"handle", "drop", "check", "resetup", "setup", "schedule", "deref"},
         l \in {"schedule", "deref"} => Typ[slot[w]] = "condition",
         \A m \in Protected : m \in todo'[w] => m \in todo[w],
         \A g \in Graphs : canceled[g] => canceled'[g],
         \A m \in Protected : state'[m] = "idle" => state[m] = "idle"
  PROVE  Single'
<1>1. pc'[w] = l
  BY DEF Steps, Moves
<1>2. slot[w] \in Protected => (Spent(w)' <=> Spent(w))
  BY <1>1 DEF Spent, Publishing, Protected
<1>3. pc[w] \notin {"ref", "push", "go"} /\ l \notin {"ref", "push", "go"}
  OBVIOUS
<1>4. QED
  BY <1>2, <1>3, SingleSilent

LEMMA BeginSingle ==
  ASSUME IInv, Single, NEW w \in Workers, Begin(w)
  PROVE  Single'
<1>1. /\ Steps(w, pc'[w])
      /\ pc'[w] = Deferred(slot[w]) \/ pc'[w] = "handle"
  BY BeginSteps
<1>2. pc[w] = "begin" /\ UNCHANGED <<hand, todo, wq, taskQ, slot, canceled>>
  BY DEF Begin, poolVars, graphVars
<1>3. slot[w] \in Nodes
  BY <1>2, SlotIsNode
<1>4. \A m \in Protected : state'[m] = "idle" => state[m] = "idle"
  BY DEF Begin, Protected, IInv, TypeOK, NodeTypes
<1>5. IInv'
  BY BeginInv
<1>6. QED
  BY <1>1, <1>2, <1>3, <1>4, <1>5, DeferredByType, ClosureSingle

LEMMA ReturnStaticSingle ==
  ASSUME IInv, Single, NEW w \in Workers, ReturnStatic(w)
  PROVE  Single'
<1>1. /\ pc[w] = "handle" /\ pc' = Goto(w, Deferred(slot[w])) /\ Typ[slot[w]] = "static"
      /\ UNCHANGED <<hand, ret, todo, wq, taskQ, slot, canceled>>
      /\ state' = [state EXCEPT ![slot[w]] = "finished"]
  BY DEF ReturnStatic, poolVars, graphVars
<1>2. slot[w] \in Nodes
  BY <1>1, SlotIsNode
<1>3. Steps(w, Deferred(slot[w])) /\ pc'[w] = Deferred(slot[w])
  BY <1>1, DeferredSteps
<1>4. \A m \in Protected : state'[m] = "idle" => state[m] = "idle"
  BY <1>1 DEF Protected, IInv, TypeOK, NodeTypes
<1>5. IInv'
  BY ReturnStaticInv
<1>6. QED
  BY <1>1, <1>2, <1>3, <1>4, <1>5, DeferredByType, ClosureSingle

LEMMA ReturnSubflowSingle ==
  ASSUME IInv, Single, NEW w \in Workers, ReturnSubflow(w)
  PROVE  Single'
<1>1. /\ pc[w] = "handle" /\ pc' = Goto(w, Deferred(slot[w])) /\ Typ[slot[w]] = "subflow"
      /\ UNCHANGED <<hand, ret, todo, wq, taskQ, slot, canceled>>
      /\ state' = [state EXCEPT ![slot[w]] = "finished"]
  BY DEF ReturnSubflow, poolVars
<1>2. slot[w] \in Nodes
  BY <1>1, SlotIsNode
<1>3. Steps(w, Deferred(slot[w])) /\ pc'[w] = Deferred(slot[w])
  BY <1>1, DeferredSteps
<1>4. \A m \in Protected : state'[m] = "idle" => state[m] = "idle"
  BY <1>1 DEF Protected, IInv, TypeOK, NodeTypes
<1>5. IInv'
  BY ReturnSubflowInv
<1>6. QED
  BY <1>1, <1>2, <1>3, <1>4, <1>5, DeferredByType, ClosureSingle

LEMMA ReturnConditionSingle ==
  ASSUME IInv, Single, NEW w \in Workers, ReturnCondition(w)
  PROVE  Single'
<1>1. /\ Steps(w, "schedule") /\ slot[w] \in Nodes
      /\ \E i \in DOMAIN mapper[slot[w]] : todo'[w] = {mapper[slot[w]][i]}
  BY ReturnConditionSteps
<1>2. /\ pc[w] = "handle" /\ Typ[slot[w]] = "condition"
      /\ UNCHANGED <<hand, wq, taskQ, slot, canceled>>
      /\ state' = [state EXCEPT ![slot[w]] = "finished"]
  BY DEF ReturnCondition, poolVars, graphVars
<1>3. \A m \in Protected : m \notin todo'[w]
  BY <1>1, <1>2 DEF Protected
<1>4. \A m \in Protected : state'[m] = "idle" => state[m] = "idle"
  BY <1>2 DEF Protected, IInv, TypeOK, NodeTypes
<1>5. IInv'
  BY ReturnConditionInv
<1>6. QED
  BY <1>1, <1>2, <1>3, <1>4, <1>5, ClosureSingle

LEMMA ChoosePanicSingle ==
  ASSUME IInv, Single, NEW w \in Workers, ChoosePanic(w)
  PROVE  Single'
<1>1. /\ pc[w] = "handle" /\ pc' = Goto(w, Deferred(slot[w])) /\ Typ[slot[w]] = "condition"
      /\ UNCHANGED <<hand, ret, todo, wq, taskQ, slot>>
      /\ canceled' = [canceled EXCEPT ![graphOf[slot[w]]] = TRUE]
      /\ state' = state \/ state' = [state EXCEPT ![slot[w]] = "finished"]
  BY DEF ChoosePanic, poolVars
<1>2. slot[w] \in Nodes
  BY <1>1, SlotIsNode
<1>3. Steps(w, Deferred(slot[w])) /\ pc'[w] = Deferred(slot[w])
  BY <1>1, DeferredSteps
<1>4. \A m \in Protected : state'[m] = "idle" => state[m] = "idle"
  BY <1>1 DEF Protected, IInv, TypeOK, NodeTypes
<1>5. \A g \in Graphs : canceled[g] => canceled'[g]
  BY <1>1 DEF IInv, TypeOK, GraphTypes
<1>6. IInv'
  BY ChoosePanicInv
<1>7. QED
  BY <1>1, <1>2, <1>3, <1>4, <1>5, <1>6, DeferredByType, ClosureSingle

LEMMA HandlerPanicSingle ==
  ASSUME IInv, Single, NEW w \in Workers, HandlerPanic(w)
  PROVE  Single'
<1>1. /\ pc[w] = "handle" /\ pc' = Goto(w, Deferred(slot[w]))
      /\ UNCHANGED <<hand, ret, todo, wq, taskQ, slot, state>>
      /\ \A g \in Graphs : canceled[g] => canceled'[g]
  BY DEF HandlerPanic, poolVars, nodeVars
<1>2. slot[w] \in Nodes
  BY <1>1, SlotIsNode
<1>3. Steps(w, Deferred(slot[w])) /\ pc'[w] = Deferred(slot[w])
  BY <1>1, DeferredSteps
<1>4. IInv'
  BY HandlerPanicInv
<1>5. QED
  BY <1>1, <1>2, <1>3, <1>4, DeferredByType, ClosureSingle

LEMMA DropSingle ==
  ASSUME IInv, Single, NEW w \in Workers, Drop(w)
  PROVE  Single'
<1>1. Steps(w, pc'[w]) /\ pc'[w] \in {"drop", "check"}
  BY DropSteps
<1>2. pc[w] = "drop" /\ UNCHANGED <<hand, todo, wq, taskQ, slot, canceled, state>>
  BY DEF Drop, poolVars, graphVars
<1>3. IInv'
  BY DropInv
<1>4. QED
  BY <1>1, <1>2, <1>3, ClosureSingle

LEMMA DerefSingle ==
  ASSUME IInv, Single, NEW w \in Workers, Deref(w)
  PROVE  Single'
<1>1. /\ Steps(w, pc'[w]) /\ pc[w] = "deref" /\ UNCHANGED <<hand, todo, slot>>
      /\ pc'[w] = IF Typ[slot[w]] = "condition" THEN "resetup" ELSE "done"
  BY DerefSteps
<1>2. UNCHANGED <<wq, taskQ, canceled, state>>
  BY DEF Deref, poolVars, nodeVars
<1>3. slot[w] \in Protected => (Spent(w)' <=> Spent(w))
  BY <1>1 DEF Spent, Protected
<1>4. IInv'
  BY DerefInv
<1>5. pc[w] \notin {"ref", "push", "go"} /\ pc'[w] \notin {"ref", "push", "go"}
  BY <1>1
<1>6. QED
  BY <1>1, <1>2, <1>3, <1>4, <1>5, SingleSilent

-----------------------------------------------------------------------------
(***************************************************************************)
(* The steps that move a token from one place to the next.                 *)
(***************************************************************************)

LEMMA AppendToken ==
  ASSUME NEW s \in Seq(Nodes), NEW n \in Nodes, NEW m \in Nodes
  PROVE  Count(Append(s, n), {m}) = Count(s, {m}) + (IF n = m THEN 1 ELSE 0)
<1>1. n \in {m} <=> n = m
  OBVIOUS
<1>2. QED
  BY <1>1, CountAppend

LEMMA HeadToken ==
  ASSUME NEW s \in Seq(Nodes), s /= <<>>, NEW m \in Nodes
  PROVE  Count(s, {m}) = Count(Tail(s), {m}) + (IF Head(s) = m THEN 1 ELSE 0)
<1>1. Head(s) \in {m} <=> Head(s) = m
  OBVIOUS
<1>2. QED
  BY <1>1, CountTail

\* A step after which a node has as many tokens and claims as before.
LEMMA SingleMoves ==
  ASSUME IInv, Single, IInv', NEW t \in Threads, NEW l, Steps(t, l),
         todo'[t] = todo[t], canceled' = canceled, state' = state,
         \A m \in Protected : Tokens(m)' = Tokens(m)
  PROVE  Single'
<1> SUFFICES ASSUME NEW m \in Protected PROVE One(m)'
  BY DEF Single
<1>1. m \in Nodes /\ One(m)
  BY DEF Protected, Single
<1>2. t \in Claimers(m)' <=> t \in Claimers(m)
  BY DEF Claimers
<1>3. Claims(m)' = Claims(m) /\ Claims(m) \in Nat /\ Tokens(m) \in Nat
  <2>1. Balance(t, m) /\ Sizes(m)
    BY <1>1, TokensMove, TokenTypes DEF IInv
  <2>2. QED
    BY <1>2, <2>1 DEF Balance, Sizes
<1>4. Tokens(m)' = Tokens(m)
  OBVIOUS
<1>5. QED
  BY <1>1, <1>3, <1>4, OneStays DEF IInv

LEMMA SchedulePushSingle ==
  ASSUME IInv, Single, NEW t \in Threads, SchedulePush(t)
  PROVE  Single'
<1>1. /\ Steps(t, pc'[t]) /\ hand[t] \in Nodes
      /\ pc'[t] = IF todo[t] = {} THEN ret[t] ELSE "schedule"
      /\ ret[t] \in {"loop", "deref"}
  BY SchedulePushSteps
<1>2. /\ pc[t] = "push" /\ wq' = Append(wq, hand[t])
      /\ UNCHANGED <<ret, todo, taskQ, slot, canceled, state>>
  BY DEF SchedulePush, poolVars, graphVars, nodeVars
<1>3. IInv' /\ wq \in Seq(Nodes)
  BY SchedulePushInv DEF IInv, TypeOK, QueueTypes
<1>4. ASSUME NEW m \in Protected PROVE Tokens(m)' = Tokens(m)
  <2>1. m \in Nodes
    BY DEF Protected
  <2>2. t \notin Hands(m)' /\ (t \in Hands(m) <=> hand[t] = m)
    BY <1>1, <1>2 DEF Hands, InHand
  <2>3. t \in Execs(m)' <=> t \in Execs(m)
    BY <1>1, <1>2 DEF Execs, Spent, Publishing
  <2>4. Count(taskQ, {m})' = Count(taskQ, {m})
    BY <1>2
  <2>5. Count(wq, {m})' = Count(wq, {m}) + (IF hand[t] = m THEN 1 ELSE 0)
    BY <1>1, <1>2, <1>3, <2>1, AppendToken
  <2>6. Balance(t, m) /\ Sizes(m)
    BY <1>1, <1>3, <2>1, TokensMove, TokenTypes DEF IInv
  <2>7. QED
    BY <2>2, <2>3, <2>4, <2>5, <2>6 DEF Tokens, Balance, Sizes
<1>5. QED
  BY <1>1, <1>2, <1>3, <1>4, SingleMoves

LEMMA InvokePopSingle ==
  ASSUME IInv, Single, NEW t \in Threads, InvokePop(t)
  PROVE  Single'
<1>1. /\ Steps(t, "go") /\ pc'[t] = "go" /\ hand'[t] = Head(wq)
      /\ wq \in Seq(Nodes) /\ wq /= <<>> /\ wq' = Tail(wq)
  BY InvokePopSteps
<1>2. /\ pc[t] = "pop" /\ UNCHANGED <<ret, todo, taskQ, slot, canceled, state>>
  BY DEF InvokePop, poolVars, graphVars, nodeVars
<1>3. IInv'
  BY InvokePopInv
<1>4. ASSUME NEW m \in Protected PROVE Tokens(m)' = Tokens(m)
  <2>1. m \in Nodes
    BY DEF Protected
  <2>2. t \notin Hands(m) /\ (t \in Hands(m)' <=> Head(wq) = m)
    BY <1>1, <1>2 DEF Hands, InHand
  <2>3. t \in Execs(m)' <=> t \in Execs(m)
    BY <1>1, <1>2 DEF Execs, Spent, Publishing
  <2>4. Count(taskQ, {m})' = Count(taskQ, {m})
    BY <1>2
  <2>5. Count(wq, {m}) = Count(wq, {m})' + (IF Head(wq) = m THEN 1 ELSE 0)
    BY <1>1, <2>1, HeadToken
  <2>6. Count(wq, {m})' \in Nat
    <3>1. Tail(wq) \in Seq(Nodes)
      BY <1>1
    <3>2. QED
      BY <1>1, <3>1, CountType
  <2>7. Sizes(m)
    BY <2>1, TokenTypes DEF IInv
  <2>8. /\ Cardinality(Hands(m))' = Cardinality(Hands(m)) + (IF Head(wq) = m THEN 1 ELSE 0)
        /\ Cardinality(Execs(m))' = Cardinality(Execs(m))
    <3>1. Balance(t, m) /\ Sizes(m)
      BY <1>1, <1>3, <2>1, TokensMove, TokenTypes DEF IInv
    <3>2. QED
      BY <2>2, <2>3, <3>1 DEF Balance, Sizes
  <2>9. QED
    BY <2>4, <2>5, <2>6, <2>7, <2>8 DEF Tokens, Sizes
<1>5. QED
  BY <1>1, <1>2, <1>3, <1>4, SingleMoves

LEMMA InvokeNodeSingle ==
  ASSUME IInv, Single, NEW t \in Threads, InvokeNode(t)
  PROVE  Single'
<1>1. Steps(t, "loop") /\ pc'[t] = "loop" /\ hand[t] \in Nodes
  BY InvokeNodeSteps
<1>2. /\ pc[t] = "go" /\ taskQ' = Append(taskQ, hand[t])
      /\ UNCHANGED <<ret, todo, wq, slot, canceled, state>>
  BY DEF InvokeNode, GoPool!Submit, graphVars, nodeVars
<1>3. IInv' /\ taskQ \in Seq(Nodes)
  BY InvokeNodeInv DEF IInv, TypeOK, QueueTypes, GoPool!TypeOK
<1>4. ASSUME NEW m \in Protected PROVE Tokens(m)' = Tokens(m)
  <2>1. m \in Nodes
    BY DEF Protected
  <2>2. t \notin Hands(m)' /\ (t \in Hands(m) <=> hand[t] = m)
    BY <1>1, <1>2 DEF Hands, InHand
  <2>3. t \in Execs(m)' <=> t \in Execs(m)
    BY <1>1, <1>2 DEF Execs, Spent, Publishing
  <2>4. Count(wq, {m})' = Count(wq, {m})
    BY <1>2
  <2>5. Count(taskQ, {m})' = Count(taskQ, {m}) + (IF hand[t] = m THEN 1 ELSE 0)
    BY <1>1, <1>2, <1>3, <2>1, AppendToken
  <2>6. Balance(t, m) /\ Sizes(m)
    BY <1>1, <1>3, <2>1, TokensMove, TokenTypes DEF IInv
  <2>7. QED
    BY <2>2, <2>3, <2>4, <2>5, <2>6 DEF Tokens, Balance, Sizes
<1>5. QED
  BY <1>1, <1>2, <1>3, <1>4, SingleMoves

LEMMA TakeTaskSingle ==
  ASSUME IInv, Single, NEW w \in Workers, TakeTask(w)
  PROVE  Single'
<1>1. /\ Steps(w, "begin") /\ pc'[w] = "begin"
      /\ slot[w] = None /\ slot'[w] = Head(taskQ) /\ taskQ' = Tail(taskQ)
      /\ taskQ \in Seq(Nodes) /\ taskQ /= <<>> /\ Head(taskQ) \in Nodes
  BY TakeTaskSteps
<1>2. pc[w] = "idle" /\ UNCHANGED <<ret, todo, hand, wq, canceled, state>>
  BY DEF TakeTask, graphVars, nodeVars
<1>3. IInv'
  BY TakeTaskInv
<1>4. ASSUME NEW m \in Protected PROVE Tokens(m)' = Tokens(m)
  <2>1. m \in Nodes
    BY DEF Protected
  <2>2. w \notin Hands(m) /\ w \notin Hands(m)'
    BY <1>1, <1>2 DEF Hands, InHand
  <2>3. w \notin Execs(m) /\ (w \in Execs(m)' <=> Head(taskQ) = m)
    BY <1>1, <2>1 DEF Execs, Spent, Publishing
  <2>4. Count(wq, {m})' = Count(wq, {m})
    BY <1>2
  <2>5. Count(taskQ, {m}) = Count(taskQ, {m})' + (IF Head(taskQ) = m THEN 1 ELSE 0)
    BY <1>1, <2>1, HeadToken
  <2>6. Count(taskQ, {m})' \in Nat
    <3>1. Tail(taskQ) \in Seq(Nodes)
      BY <1>1
    <3>2. QED
      BY <1>1, <3>1, CountType
  <2>7. Sizes(m)
    BY <2>1, TokenTypes DEF IInv
  <2>8. /\ Cardinality(Hands(m))' = Cardinality(Hands(m))
        /\ Cardinality(Execs(m))' = Cardinality(Execs(m)) + (IF Head(taskQ) = m THEN 1 ELSE 0)
    <3>1. Balance(w, m) /\ Sizes(m)
      BY <1>1, <1>3, <2>1, TokensMove, TokenTypes DEF IInv
    <3>2. QED
      BY <2>2, <2>3, <3>1 DEF Balance, Sizes
  <2>9. QED
    BY <2>4, <2>5, <2>6, <2>7, <2>8 DEF Tokens, Sizes
<1>5. QED
  BY <1>1, <1>2, <1>3, <1>4, SingleMoves

LEMMA DoneSingle ==
  ASSUME IInv, Single, NEW w \in Workers, Done(w)
  PROVE  Single'
<1>1. /\ Steps(w, "idle") /\ pc[w] = "done" /\ pc'[w] = "idle" /\ slot'[w] = None
  BY DoneSteps
<1>2. UNCHANGED <<ret, todo, hand, wq, taskQ, canceled, state>>
  BY DEF Done, GoPool!Finish, graphVars, nodeVars
<1>3. IInv'
  BY DoneInv
<1>4. ASSUME NEW m \in Protected PROVE Tokens(m)' = Tokens(m)
  <2>1. m \in Nodes
    BY DEF Protected
  <2>2. w \notin Hands(m) /\ w \notin Hands(m)'
    BY <1>1 DEF Hands, InHand
  <2>3. w \notin Execs(m) /\ w \notin Execs(m)'
    BY <1>1, <2>1 DEF Execs, Spent
  <2>4. Count(wq, {m})' = Count(wq, {m}) /\ Count(taskQ, {m})' = Count(taskQ, {m})
    BY <1>2
  <2>5. Balance(w, m) /\ Sizes(m)
    BY <1>1, <1>3, <2>1, TokensMove, TokenTypes DEF IInv
  <2>6. QED
    BY <2>2, <2>3, <2>4, <2>5 DEF Tokens, Balance, Sizes
<1>5. QED
  BY <1>1, <1>2, <1>3, <1>4, SingleMoves

-----------------------------------------------------------------------------
(***************************************************************************)
(* The steps that claim a node and that turn a claim into a token.         *)
(***************************************************************************)

LEMMA ScheduleAddSingle ==
  ASSUME IInv, Single, NEW t \in Threads, ScheduleAdd(t)
  PROVE  Single'
<1> SUFFICES ASSUME NEW m \in Protected PROVE One(m)'
  BY DEF Single
<1>1. /\ Steps(t, "ref") /\ pc'[t] = "ref"
      /\ hand'[t] \in todo[t] /\ todo'[t] = todo[t] \ {hand'[t]}
      /\ ~canceled[graphOf[hand'[t]]]
  BY ScheduleAddSteps
<1>2. pc[t] = "schedule" /\ UNCHANGED <<ret, wq, taskQ, slot, canceled, state>>
  BY DEF ScheduleAdd, poolVars, graphVars, nodeVars
<1>3. IInv' /\ m \in Nodes /\ One(m)
  BY ScheduleAddInv DEF Protected, Single
<1>4. Balance(t, m) /\ Sizes(m)
  BY <1>1, <1>3, TokensMove, TokenTypes DEF IInv
<1>5. t \notin Hands(m) /\ (t \in Hands(m)' <=> hand'[t] = m)
  BY <1>1, <1>2 DEF Hands, InHand
<1>6. t \in Execs(m)' <=> t \in Execs(m)
  BY <1>1, <1>2 DEF Execs, Spent, Publishing
<1>7. Count(wq, {m})' = Count(wq, {m}) /\ Count(taskQ, {m})' = Count(taskQ, {m})
  BY <1>2
<1>8. CASE hand'[t] = m
  <2>1. t \in Claimers(m) /\ t \notin Claimers(m)' /\ ~canceled[graphOf[m]]
    BY <1>1, <1>8 DEF Claimers
  <2>2. Tokens(m)' = Tokens(m) + 1 /\ Claims(m)' + 1 = Claims(m) /\ Claims(m)' \in Nat
    BY <1>4, <1>5, <1>6, <1>7, <1>8, <2>1 DEF Tokens, Balance, Sizes
  <2>3. Tokens(m) \in Nat /\ Tokens(m) + Claims(m) <= 1
    BY <1>3, <1>4, <2>1 DEF One, Sizes
  <2>4. dependents[m] = {} \/ state[m] /= "idle"
    BY <1>3, <2>1, <2>2, <2>3 DEF One
  <2>5. QED
    BY <1>2, <2>2, <2>3, <2>4 DEF One
<1>9. CASE hand'[t] /= m
  <2>1. t \in Claimers(m)' <=> t \in Claimers(m)
    BY <1>1, <1>9 DEF Claimers
  <2>2. Tokens(m)' = Tokens(m) /\ Claims(m)' = Claims(m)
    BY <1>4, <1>5, <1>6, <1>7, <1>9, <2>1 DEF Tokens, Balance, Sizes
  <2>3. QED
    BY <1>2, <1>3, <2>2 DEF One
<1>10. QED
  BY <1>8, <1>9

LEMMA CheckSuccessorSingle ==
  ASSUME IInv, Single, NEW w \in Workers, CheckSuccessor(w)
  PROVE  Single'
<1> SUFFICES ASSUME NEW m \in Protected PROVE One(m)'
  BY DEF Single
<1> DEFINE n == Candidate(w)
<1>1. /\ Steps(w, pc'[w]) /\ pc'[w] \in {"check", "resetup"} /\ n \in Nodes
      /\ \/ /\ state[n] = "idle" /\ state' = [state EXCEPT ![n] = "waiting"]
            /\ todo'[w] = todo[w] \cup {n}
         \/ state' = state /\ todo'[w] = todo[w]
  BY CheckSuccessorSteps
<1>2. pc[w] = "check" /\ UNCHANGED <<ret, hand, wq, taskQ, slot, canceled>>
  BY DEF CheckSuccessor, poolVars, graphVars
<1>3. IInv' /\ m \in Nodes /\ One(m)
  BY CheckSuccessorInv DEF Protected, Single
<1>4. dependents[n] /= {}
  <2>1. slot[w] \in Nodes /\ idx[w] \in DOMAIN successors[slot[w]]
    BY <1>2, SlotIsNode DEF IInv, ThreadShape
  <2>2. <<slot[w], idx[w]>> \in dependents[n]
    BY <1>1, <2>1 DEF dependents, Candidate
  <2>3. QED
    BY <2>2
<1> HIDE DEF n
<1>5. Balance(w, m) /\ Sizes(m)
  BY <1>1, <1>3, TokensMove, TokenTypes DEF IInv
<1>6. w \notin Hands(m) /\ w \notin Hands(m)'
  BY <1>1, <1>2 DEF Hands, InHand
<1>7. w \in Execs(m)' <=> w \in Execs(m)
  BY <1>1, <1>2 DEF Execs, Spent, Publishing
<1>8. Count(wq, {m})' = Count(wq, {m}) /\ Count(taskQ, {m})' = Count(taskQ, {m})
  BY <1>2
<1>9. Tokens(m)' = Tokens(m)
  BY <1>5, <1>6, <1>7, <1>8 DEF Tokens, Balance, Sizes
<1>10. CASE todo'[w] = todo[w] \cup {n} /\ state[n] = "idle" /\ m = n
            /\ state' = [state EXCEPT ![n] = "waiting"]
  <2>1. state'[m] = "waiting"
    BY <1>3, <1>10 DEF IInv, TypeOK, NodeTypes
  <2>2. Claims(m)' <= Claims(m) + 1 /\ Claims(m)' \in Nat
    BY <1>5 DEF Balance, Sizes
  <2>3. ~canceled[graphOf[m]] => Tokens(m) + Claims(m) = 0
    BY <1>3, <1>4, <1>10 DEF One
  <2>4. QED
    BY <1>2, <1>3, <1>5, <1>9, <2>1, <2>2, <2>3 DEF One, Sizes
<1>11. CASE (m \in todo'[w] <=> m \in todo[w]) /\ state'[m] = state[m]
  <2>1. w \in Claimers(m)' <=> w \in Claimers(m)
    BY <1>11 DEF Claimers
  <2>2. Claims(m)' = Claims(m)
    BY <1>5, <2>1 DEF Balance, Sizes
  <2>3. QED
    BY <1>2, <1>3, <1>9, <1>11, <2>2 DEF One
<1>12. QED
  BY <1>1, <1>3, <1>10, <1>11 DEF IInv, TypeOK, NodeTypes

\* The node of the worker can be claimed again: its only token is spent.
LEMMA ResetupSingle ==
  ASSUME IInv, Single, NEW w \in Workers, Resetup(w)
  PROVE  Single'
<1> SUFFICES ASSUME NEW m \in Protected PROVE One(m)'
  BY DEF Single
<1>1. /\ Steps(w, pc'[w]) /\ pc[w] = "resetup" /\ UNCHANGED <<hand, todo, slot>>
      /\ slot[w] \in Nodes
      /\ \/ Typ[slot[w]] = "condition" /\ pc'[w] = "done"
         \/ /\ Typ[slot[w]] /= "condition" /\ ret'[w] = "deref"
            /\ pc'[w] = IF todo[w] = {} THEN "deref" ELSE "schedule"
  BY ResetupSteps
<1>2. UNCHANGED <<wq, taskQ, canceled>> /\ state' = [state EXCEPT ![slot[w]] = "idle"]
  BY DEF Resetup, poolVars, graphVars
<1>3. IInv' /\ m \in Nodes /\ One(m) /\ Typ[m] /= "condition"
  BY ResetupInv DEF Protected, Single
<1>4. Balance(w, m) /\ Sizes(m)
  BY <1>1, <1>3, TokensMove, TokenTypes DEF IInv
<1>5. w \notin Hands(m) /\ w \notin Hands(m)'
  BY <1>1 DEF Hands, InHand
<1>6. w \in Claimers(m)' <=> w \in Claimers(m)
  BY <1>1 DEF Claimers
<1>7. Count(wq, {m})' = Count(wq, {m}) /\ Count(taskQ, {m})' = Count(taskQ, {m})
  BY <1>2
<1>8. CASE slot[w] = m
  <2>1. w \in Execs(m) /\ w \notin Execs(m)'
    BY <1>1, <1>3, <1>8 DEF Execs, Spent, Publishing
  <2>2. Tokens(m)' + 1 = Tokens(m) /\ Claims(m)' = Claims(m)
    BY <1>4, <1>5, <1>6, <1>7, <2>1 DEF Tokens, Balance, Sizes
  <2>3. Tokens(m) \in Nat /\ Claims(m) \in Nat /\ Tokens(m)' \in Nat
    BY <1>4, <1>7, <2>2 DEF Sizes, Tokens, Balance
  <2>4. QED
    BY <1>2, <1>3, <2>2, <2>3 DEF One
<1>9. CASE slot[w] /= m
  <2>1. w \notin Execs(m) /\ w \notin Execs(m)'
    BY <1>1, <1>9 DEF Execs
  <2>2. Tokens(m)' = Tokens(m) /\ Claims(m)' = Claims(m)
    BY <1>4, <1>5, <1>6, <1>7, <2>1 DEF Tokens, Balance, Sizes
  <2>3. state'[m] = state[m]
    BY <1>2, <1>3, <1>9 DEF IInv, TypeOK, NodeTypes
  <2>4. QED
    BY <1>2, <1>3, <2>2, <2>3 DEF One
<1>10. QED
  BY <1>8, <1>9

\* A graph with joinCounter zero, if it is not canceled and nobody publishes its
\* entries, has neither tokens nor claims left.
LEMMA NothingLeft ==
  ASSUME IInv, GInv, NEW g \in Graphs, ~canceled[g], gJoin[g] = 0,
         \A u \in Threads : Driving(u) /\ Invoked(u) = g => ~Publishing(u),
         NEW m \in Protected, graphOf[m] = g
  PROVE  Tokens(m) = 0 /\ Claims(m) = 0
<1>1. m \in Nodes /\ Typ[m] /= "condition"
  BY DEF Protected
<1>2. Scheduled(g) = 0
  BY JoinByParts DEF JoinEach, GInv, IInv
<1>3. /\ Count(wq, Tasks(g)) = 0 /\ Count(taskQ, Tasks(g)) = 0
      /\ Cardinality(Carried(g)) = 0 /\ Cardinality(Unreleased(g)) = 0
  BY <1>2, PartTypes DEF Scheduled, IInv
<1>4. Carried(g) = {} /\ Unreleased(g) = {}
  BY <1>3, PartTypes, FS_EmptySet DEF IInv
<1>5. ASSUME NEW w \in Workers, slot[w] \in Nodes, graphOf[slot[w]] = g, ~Released(w)
      PROVE  FALSE
  BY <1>4, <1>5 DEF Unreleased, GoPool!Running
<1>6. ASSUME NEW s \in Seq(Nodes), Count(s, Tasks(g)) = 0
      PROVE  Count(s, {m}) = 0
  <2>1. \A i \in DOMAIN s : graphOf[s[i]] /= g
    BY <1>6, CountZero
  <2>2. {i \in DOMAIN s : s[i] \in {m}} = {}
    BY <2>1
  <2>3. QED
    BY <2>2, FS_EmptySet DEF Count
<1>7. ASSUME NEW u \in Threads, Origin(u) = g,
             Publishing(u) \/ (u \in Workers /\ pc[u] = "check")
             \/ (u \in Workers /\ pc[u] = "resetup" /\ Typ[slot[u]] /= "condition")
      PROVE  FALSE
  <2>1. CASE Driving(u)
    BY <1>7, <2>1 DEF Origin, Publishing
  <2>2. CASE ~Driving(u)
    <3>1. u \in Workers /\ u \notin Callers
      BY <1>7, <2>2 DEF GInv, Places, Place, CallerPlace, Publishing
    <3>2. pc[u] /= "idle" /\ ~Released(u) /\ graphOf[slot[u]] = g
      BY <1>7, <2>2, <3>1 DEF Origin, Publishing, Released
    <3>3. QED
      BY <1>5, <3>1, <3>2, SlotIsNode
  <2>3. QED
    BY <2>1, <2>2
<1>8. Hands(m) = {}
  <2> SUFFICES ASSUME NEW u \in Threads, u \in Hands(m) PROVE FALSE
    BY DEF Hands, InHand
  <2>1. u \in InHand /\ hand[u] = m
    BY DEF Hands, InHand
  <2>2. CASE pc[u] /= "ref"
    BY <1>4, <2>1, <2>2 DEF Carried
  <2>3. CASE pc[u] = "ref"
    <3>1. Origin(u) = g
      BY <2>1, <2>3 DEF GInv, Places, Place, ClaimPlace
    <3>2. QED
      BY <1>7, <2>1, <2>3, <3>1 DEF Publishing
  <2>4. QED
    BY <2>2, <2>3
<1>9. Execs(m) = {}
  <2> SUFFICES ASSUME NEW w \in Workers, w \in Execs(m) PROVE FALSE
    BY DEF Execs
  <2>1. slot[w] = m /\ ~Released(w)
    BY <1>1 DEF Execs, Spent, Released
  <2>2. QED
    BY <1>1, <1>5, <2>1
<1>10. Claimers(m) = {}
  <2> SUFFICES ASSUME NEW u \in Threads, m \in todo[u] PROVE FALSE
    BY DEF Claimers
  <2>1. /\ Publishing(u) \/ pc[u] \in {"check", "resetup"}
        /\ pc[u] = "resetup" => Typ[slot[u]] /= "condition"
        /\ Origin(u) = g
    BY DEF GInv, Places, Place, ClaimPlace
  <2>2. pc[u] \in {"check", "resetup"} => u \in Workers
    BY DEF GInv, Places, Place, CallerPlace, CallerPCs
  <2>3. QED
    BY <1>7, <2>1, <2>2
<1>11. wq \in Seq(Nodes) /\ taskQ \in Seq(Nodes)
  BY DEF IInv, TypeOK, QueueTypes, GoPool!TypeOK
<1>12. Count(wq, {m}) = 0 /\ Count(taskQ, {m}) = 0
  BY <1>3, <1>6, <1>11
<1>13. Cardinality(Hands(m)) = 0 /\ Cardinality(Execs(m)) = 0 /\ Cardinality(Claimers(m)) = 0
  BY <1>8, <1>9, <1>10, FS_EmptySet
<1>14. QED
  BY <1>12, <1>13 DEF Tokens, Claims

\* A graph that is about to be set up has nothing left from an earlier execution.
LEMMA SetupFindsNone ==
  ASSUME IInv, GInv, OneDriver, NEW t \in Threads, pc[t] = "entries",
         ~canceled[Invoked(t)], NEW m \in Protected, graphOf[m] = Invoked(t)
  PROVE  Tokens(m) = 0 /\ Claims(m) = 0
<1>1. Invoked(t) \in Graphs
  BY InvokedType
<1>2. \A u \in Threads : Driving(u) /\ Invoked(u) = Invoked(t) => u = t
  BY DEF OneDriver
<1>3. gJoin[Invoked(t)] = 0
  <2> SUFFICES ASSUME gJoin[Invoked(t)] /= 0 PROVE FALSE
    OBVIOUS
  <2>1. PICK u \in Threads : Serving(u) /\ Invoked(u) = Invoked(t)
    BY <1>1 DEF GInv, Quiet
  <2>2. QED
    BY <1>2, <2>1 DEF Serving
<1>4. QED
  BY <1>1, <1>2, <1>3, NothingLeft DEF Publishing

LEMMA SetupSingle ==
  ASSUME IInv, GInv, OneDriver, Single, NEW t \in Threads, Setup(t)
  PROVE  Single'
<1> SUFFICES ASSUME NEW m \in Protected PROVE One(m)'
  BY DEF Single
<1> DEFINE S == NodesIn(Invoked(t))
<1>1. /\ Steps(t, pc'[t]) /\ ret'[t] = "loop"
      /\ pc'[t] = IF todo'[t] = {} THEN "loop" ELSE "schedule"
      /\ todo'[t] = {n \in S : dependents[n] = {}}
  BY SetupSteps
<1>2. /\ pc[t] = "entries"
      /\ UNCHANGED <<hand, wq, taskQ, slot, canceled>>
      /\ state' = [n \in Nodes |-> IF n \in S THEN "idle" ELSE state[n]]
  BY DEF Setup, poolVars, graphVars
<1>3. IInv' /\ m \in Nodes /\ One(m)
  BY SetupInv DEF Protected, Single
<1>4. Balance(t, m) /\ Sizes(m)
  BY <1>1, <1>3, TokensMove, TokenTypes DEF IInv
<1>5. t \notin Hands(m) /\ t \notin Hands(m)'
  BY <1>1, <1>2 DEF Hands, InHand
<1>6. t \in Execs(m)' <=> t \in Execs(m)
  BY <1>1, <1>2 DEF Execs, Spent, Publishing
<1>7. Count(wq, {m})' = Count(wq, {m}) /\ Count(taskQ, {m})' = Count(taskQ, {m})
  BY <1>2
<1>8. Tokens(m)' = Tokens(m) /\ Claims(m)' \in Nat
  BY <1>4, <1>5, <1>6, <1>7 DEF Tokens, Balance, Sizes
<1>9. t \notin Claimers(m)
  BY <1>2, NothingClaimed DEF Claimers, Publishing
<1>10. t \in Claimers(m)' => m \in S /\ dependents[m] = {}
  BY <1>1 DEF Claimers
<1>11. Claims(m)' = Claims(m) + (IF t \in Claimers(m)' THEN 1 ELSE 0)
  BY <1>4, <1>9 DEF Balance, Sizes
<1>12. CASE m \notin S
  <2>1. state'[m] = state[m] /\ Claims(m)' = Claims(m)
    BY <1>2, <1>3, <1>4, <1>10, <1>11, <1>12 DEF Sizes
  <2>2. QED
    BY <1>2, <1>3, <1>8, <2>1 DEF One
<1>13. CASE m \in S /\ canceled[graphOf[m]]
  BY <1>2, <1>3, <1>8, <1>13 DEF One
<1>14. CASE m \in S /\ ~canceled[graphOf[m]]
  <2>1. graphOf[m] = Invoked(t)
    BY <1>14 DEF NodesIn
  <2>2. Tokens(m) = 0 /\ Claims(m) = 0
    BY <1>2, <1>14, <2>1, SetupFindsNone
  <2>3. QED
    BY <1>8, <1>10, <1>11, <2>2 DEF One
<1>15. QED
  BY <1>12, <1>13, <1>14

-----------------------------------------------------------------------------
(***************************************************************************)
(* The theorems.                                                           *)
(***************************************************************************)

LEMMA InitSingle ==
  ASSUME Init
  PROVE  Single
<1> SUFFICES ASSUME NEW m \in Protected PROVE One(m)
  BY DEF Single
<1>1. /\ pc = [t \in Threads |-> "idle"] /\ slot = [w \in Workers |-> None]
      /\ todo = [t \in Threads |-> {}] /\ wq = <<>> /\ taskQ = <<>>
  BY DEF Init, GoPool!Init
<1>2. Hands(m) = {} /\ Claimers(m) = {}
  BY <1>1 DEF Hands, InHand, Claimers
<1>3. Execs(m) = {}
  BY <1>1 DEF Execs, Protected
<1>4. Count(wq, {m}) = 0 /\ Count(taskQ, {m}) = 0
  BY <1>1, CountEmpty
<1>5. Tokens(m) = 0 /\ Claims(m) = 0
  BY <1>2, <1>3, <1>4, FS_EmptySet DEF Tokens, Claims
<1>6. QED
  BY <1>5 DEF One

LEMMA StutterSingle ==
  ASSUME Single, UNCHANGED vars
  PROVE  Single'
<1>1. UNCHANGED <<pc, ret, todo, hand, taskQ, slot, wq, canceled, state>>
  BY DEF vars, threadVars, poolVars, graphVars, nodeVars
<1>2. ASSUME NEW m \in Protected PROVE One(m)' <=> One(m)
  <2>1. Hands(m)' = Hands(m) /\ Claimers(m)' = Claimers(m) /\ Execs(m)' = Execs(m)
    BY <1>1 DEF Hands, InHand, Claimers, Execs, Spent, Publishing
  <2>2. Count(wq, {m})' = Count(wq, {m}) /\ Count(taskQ, {m})' = Count(taskQ, {m})
    BY <1>1
  <2>3. Tokens(m)' = Tokens(m) /\ Claims(m)' = Claims(m)
    BY <2>1, <2>2 DEF Tokens, Claims
  <2>4. QED
    BY <1>1, <2>3 DEF One
<1>3. QED
  BY <1>2 DEF Single

LEMMA NextSingle ==
  ASSUME IInv, GInv, OneDriver, Single, [Next]_vars
  PROVE  Single'
<1>1. ASSUME NEW c \in Callers, Run(c) \/ Wait(c) PROVE Single'
  BY <1>1, RunSingle, WaitSingle
<1>2. ASSUME NEW t \in Threads, ScheduleStep(t) PROVE Single'
  BY <1>2, ScheduleAddSingle, ScheduleRefSingle, SchedulePushSingle, ScheduleCanceledSingle
     DEF ScheduleStep
<1>3. ASSUME NEW t \in Threads, InvokeStep(t) PROVE Single'
  BY <1>3, InvokeLoopSingle, InvokeLeaveSingle, InvokePopSingle, InvokeNodeSingle DEF InvokeStep
<1>4. ASSUME NEW t \in Threads, GraphStep(t) PROVE Single'
  BY <1>2, <1>3, <1>4, ResetSingle, SetupSingle, GraphReturnSingle DEF GraphStep
<1>5. ASSUME NEW w \in Workers, HandlerStep(w) PROVE Single'
  BY <1>5, ReturnStaticSingle, ReturnSubflowSingle, ReturnConditionSingle, ChoosePanicSingle,
     HandlerPanicSingle DEF HandlerStep
<1>6. ASSUME NEW w \in Workers, WorkerStep(w) PROVE Single'
  BY <1>5, <1>6, TakeTaskSingle, BeginSingle, DropSingle, CheckSuccessorSingle, ResetupSingle,
     DerefSingle, DoneSingle DEF WorkerStep
<1>7. CASE Terminated \/ UNCHANGED vars
  BY <1>7, StutterSingle DEF Terminated
<1>8. QED
  BY <1>1, <1>4, <1>6, <1>7 DEF Next

\* Two goroutines never execute the closure of one node that no condition
\* schedules.
LEMMA ExecutedOnce ==
  ASSUME IInv, Single, NEW v \in Workers, NEW w \in Workers, v /= w,
         slot[v] \in Protected, slot[v] = slot[w], ~Spent(v), ~Spent(w)
  PROVE  FALSE
<1> DEFINE m == slot[v]
           S == Execs(m)
<1>1. m \in Nodes /\ One(m) /\ Sizes(m)
  BY TokenTypes DEF Protected, Single, IInv
<1>2. v \in S /\ w \in S \ {v} /\ S \subseteq Threads
  BY DEF Execs
<1>3. IsFiniteSet(S)
  BY <1>2, FiniteThreads, FS_Subset
<1> HIDE DEF S, m
<1>4. /\ IsFiniteSet(S \ {v}) /\ Cardinality(S \ {v}) \in Nat
      /\ Cardinality(S) = Cardinality(S \ {v}) + 1
  BY <1>2, <1>3, CountRemove
<1>5. /\ Cardinality((S \ {v}) \ {w}) \in Nat
      /\ Cardinality(S \ {v}) = Cardinality((S \ {v}) \ {w}) + 1
  BY <1>2, <1>4, CountRemove
<1>6. Cardinality(S) <= 1
  <2>1. Tokens(m) <= 1 /\ Sizes(m)
    BY <1>1 DEF One
  <2>2. QED
    BY <2>1 DEF Tokens, Sizes, S
<1>7. QED
  BY <1>4, <1>5, <1>6

\* No condition chooses a subflow node.
SubflowsUnchosen ==
  \A n \in Nodes : Typ[n] = "condition" =>
    \A i \in DOMAIN mapper[n] : Typ[mapper[n][i]] /= "subflow"

LEMMA OneDriverFollows ==
  ASSUME SubflowsUnchosen, IInv, GInv, Single
  PROVE  OneDriver
<1> SUFFICES ASSUME NEW t \in Threads, NEW u \in Threads, Driving(t), Driving(u), t /= u,
                    Invoked(t) = Invoked(u)
             PROVE  FALSE
  BY DEF OneDriver
<1>1. ASSUME NEW w \in Workers, Driving(w)
      PROVE  /\ slot[w] \in Nodes /\ Typ[slot[w]] = "subflow" /\ Invoked(w) = subgraph[slot[w]]
             /\ slot[w] \in Protected /\ ~Spent(w)
  <2>1. slot[w] \in Nodes
    BY <1>1, SlotIsNode
  <2>2. Typ[slot[w]] = "subflow"
    BY <1>1 DEF GInv, Places, Place, WorkerPlace
  <2>3. slot[w] \in Protected
    BY <2>1, <2>2 DEF Protected, SubflowsUnchosen
  <2>4. ~Spent(w)
    BY <1>1 DEF Spent, Publishing
  <2>5. QED
    BY <2>1, <2>2, <2>3, <2>4 DEF Invoked
<1>2. ASSUME NEW c \in Callers, NEW w \in Workers, Driving(w) PROVE Invoked(c) /= Invoked(w)
  BY <1>1, <1>2, NestingAssumption DEF Invoked
<1>3. CASE t \in Callers /\ u \in Callers
  BY <1>3, FlowAssumption DEF Invoked
<1>4. CASE t \in Workers /\ u \in Workers
  <2>1. slot[t] = slot[u]
    BY <1>1, <1>4, NestingAssumption
  <2>2. QED
    BY <1>1, <1>4, <2>1, ExecutedOnce
<1>5. QED
  BY <1>2, <1>3, <1>4

\* While no graph has two drivers, a node that no condition schedules has one
\* token or none.
THEOREM SingleInvariance == Spec /\ []OneDriver => []Single
<1>1. Init => Single
  BY InitSingle
<1>2. IInv /\ GInv /\ OneDriver /\ Single /\ [Next]_vars => Single'
  BY NextSingle
<1>3. QED
  BY <1>1, <1>2, Invariance, GraphInvariance, PTL DEF Spec

\* A flow whose conditions choose no subflow never has a graph with two drivers:
\* setup() and reset(), which take no lock, have the graph for themselves.
THEOREM OneDriverHolds ==
  ASSUME SubflowsUnchosen
  PROVE  Spec => []OneDriver
<1>1. Init => IInv /\ GInv /\ Single
  BY InitInv, InitGood, InitSingle
<1>2. IInv /\ GInv /\ Single => OneDriver
  BY OneDriverFollows
<1>3. IInv /\ GInv /\ OneDriver /\ Single /\ [Next]_vars => IInv' /\ GInv' /\ Single'
  BY NextInv, NextGood, NextSingle
<1>4. QED
  BY <1>1, <1>2, <1>3, PTL DEF Spec

\* For such a flow the four results of SchedulerProof need no hypothesis on the
\* execution.
THEOREM SchedulerIsSafe ==
  ASSUME SubflowsUnchosen
  PROVE  Spec => [](JoinAccounting /\ PopSafe /\ PanicPropagates /\ RunDrains)
BY OneDriverHolds, JoinCounts, PopIsSafe, PanicsPropagate, RunsDrain, PTL

\* The handler of a node that no condition schedules is never executed by two
\* goroutines at once, however many predecessors it has.
ProtectedOnce ==
  \A v, w \in Workers :
    pc[v] = "handle" /\ pc[w] = "handle" /\ v /= w /\ slot[v] \in Protected => slot[v] /= slot[w]

LEMMA ProtectedOnceFollows == IInv /\ Single => ProtectedOnce
<1> SUFFICES ASSUME IInv, Single, NEW v \in Workers, NEW w \in Workers,
                    pc[v] = "handle", pc[w] = "handle", v /= w, slot[v] \in Protected,
                    slot[v] = slot[w]
             PROVE  FALSE
  BY DEF ProtectedOnce
<1>1. ~Spent(v) /\ ~Spent(w)
  BY DEF Spent, Publishing
<1>2. QED
  BY <1>1, ExecutedOnce

THEOREM ExecutedByOne == Spec /\ []OneDriver => []ProtectedOnce
BY SingleInvariance, Invariance, ProtectedOnceFollows, PTL

\* In a flow without conditions that holds of every node.
THEOREM NeverOverlaps ==
  ASSUME \A n \in Nodes : Typ[n] /= "condition"
  PROVE  Spec => []NoOverlap
<1>1. SubflowsUnchosen /\ Protected = Nodes
  BY DEF SubflowsUnchosen, Protected
<1>2. IInv /\ ProtectedOnce => NoOverlap
  <2> SUFFICES ASSUME IInv, ProtectedOnce, NEW v \in Workers, NEW w \in Workers,
                      pc[v] = "handle", pc[w] = "handle", v /= w
               PROVE  slot[v] /= slot[w]
    BY DEF NoOverlap
  <2>1. slot[v] \in Nodes
    BY SlotIsNode
  <2>2. QED
    BY <1>1, <2>1 DEF ProtectedOnce
<1>3. Spec => []OneDriver
  BY <1>1, OneDriverHolds
<1>4. QED
  BY <1>2, <1>3, ExecutedByOne, Invariance, PTL

-----------------------------------------------------------------------------
(***************************************************************************)
(* The branches of a condition.                                            *)
(***************************************************************************)

\* The places of a node between the answer that names it and its handler.
Held(S)    == {t \in InHand : hand[t] \in S}
Opening(S) == {w \in Workers : pc[w] = "begin" /\ slot[w] \in S}
Picked(S)  == {p \in Threads \X S : p[2] \in todo[p[1]]}

\* How often nodes of S have been chosen and not dropped since.
Given(S) ==
  Cardinality(Executions(S)) + Count(wq, S) + Count(taskQ, S) + Cardinality(Held(S))
  + Cardinality(Opening(S)) + Cardinality(Picked(S))

\* The sets that count: a condition may be called more often than it is chosen
\* when its graph is canceled.
Tallied(n, S) == canceled[graphOf[n]] => \A m \in S : Typ[m] /= "condition"

Exclusive(n) == \A i \in DOMAIN mapper[n] : mapper[n][i] \in Branches(n)

Dealt(n, S) ==
  /\ Given(S) <= fin[n]
  /\ ~canceled[graphOf[n]] /\ S = Branches(n) /\ Exclusive(n) => Given(S) = fin[n]

\* A condition has chosen its branches as often as it has answered.
BInv ==
  \A n \in Nodes : Typ[n] = "condition" =>
    \A S \in SUBSET Branches(n) : Tallied(n, S) => Dealt(n, S)

LEMMA BranchPlace ==
  ASSUME NEW n \in Nodes, NEW m \in Branches(n)
  PROVE  m \in Nodes /\ graphOf[m] = graphOf[n] /\ dependents[m] /= {}
<1>1. m \in Nodes /\ dependents[m] /= {} /\ \A e \in dependents[m] : e[1] = n
  BY DEF Branches
<1>2. PICK e \in dependents[m] : e[1] = n
  BY <1>1
<1>3. PICK p \in Nodes : \E i \in DOMAIN successors[p] : e = <<p, i>> /\ successors[p][i] = m
  BY <1>1, <1>2 DEF dependents
<1>4. p = n /\ \E i \in DOMAIN successors[n] : successors[n][i] = m
  BY <1>2, <1>3
<1>5. QED
  BY <1>1, <1>4, NestingAssumption

\* Only n has an edge to a branch of n.
LEMMA BranchEdge ==
  ASSUME NEW n \in Nodes, NEW m \in Branches(n), NEW p \in Nodes, NEW i \in DOMAIN successors[p],
         successors[p][i] = m
  PROVE  p = n
<1>1. <<p, i>> \in dependents[m]
  BY DEF dependents, Branches
<1>2. QED
  BY <1>1 DEF Branches

\* What is counted are numbers.
Sized(S) ==
  /\ IsFiniteSet(Executions(S)) /\ IsFiniteSet(Picked(S))
  /\ Cardinality(Executions(S)) \in Nat /\ Count(wq, S) \in Nat /\ Count(taskQ, S) \in Nat
  /\ Cardinality(Held(S)) \in Nat /\ Cardinality(Opening(S)) \in Nat
  /\ Cardinality(Picked(S)) \in Nat /\ Given(S) \in Nat

LEMMA GivenTypes ==
  ASSUME TypeOK, NEW S \in SUBSET Nodes
  PROVE  Sized(S)
<1>1. Count(wq, S) \in Nat /\ Count(taskQ, S) \in Nat
  BY CountType DEF TypeOK, QueueTypes, GoPool!TypeOK
<1>2. IsFiniteSet(S)
  BY FS_Subset
<1>3. IsFiniteSet(Executions(S))
  <2> DEFINE f == [m \in S |-> {m} \X (1..ran[m])]
             T == {f[m] : m \in S}
  <2>1. f \in Surjection(S, T)
    BY DEF Surjection
  <2>2. IsFiniteSet(T)
    <3> HIDE DEF f, T
    <3>1. QED
      BY <1>2, <2>1, FS_Surjection
  <2>3. ASSUME NEW m \in S PROVE IsFiniteSet(f[m])
    <3>1. ran[m] \in Nat
      BY DEF TypeOK, NodeTypes
    <3>2. IsFiniteSet({m})
      BY FS_Singleton
    <3>3. IsFiniteSet(1..ran[m])
      BY <3>1, FS_Interval
    <3>4. IsFiniteSet({m} \X (1..ran[m]))
      BY <3>2, <3>3, FS_Product
    <3>5. QED
      BY <3>4
  <2>4. \A A \in T : IsFiniteSet(A)
    BY <2>3
  <2>5. Executions(S) = UNION T
    BY DEF Executions
  <2> HIDE DEF T
  <2>6. QED
    BY <2>2, <2>4, <2>5, FS_UNION
<1>4. IsFiniteSet(Picked(S))
  <2>1. IsFiniteSet(Threads \X S)
    BY <1>2, FiniteThreads, FS_Product
  <2>2. QED
    BY <2>1, FS_Subset DEF Picked
<1>5. IsFiniteSet(Held(S)) /\ IsFiniteSet(Opening(S))
  <2>1. Held(S) \in SUBSET Threads /\ Opening(S) \in SUBSET Threads
    BY DEF Held, Opening, InHand
  <2>2. QED
    BY <2>1, FiniteThreads, FS_Subset
<1>6. QED
  BY <1>1, <1>3, <1>4, <1>5, FS_CardinalityType DEF Sized, Given

AllSized == \A S \in SUBSET Nodes : Sized(S)

LEMMA GivenIsSized == TypeOK => AllSized
BY GivenTypes DEF AllSized

LEMMA SizedAfter ==
  ASSUME TypeOK', NEW S \in SUBSET Nodes
  PROVE  Sized(S)'
<1>1. TypeOK' => AllSized'
  BY GivenIsSized, PTL
<1>2. QED
  BY <1>1 DEF AllSized

-----------------------------------------------------------------------------
(***************************************************************************)
(* What a step does to the count.                                          *)
(***************************************************************************)

\* What the move of one thread does to the two sets of threads.
LEMMA PlacesMove ==
  ASSUME NEW t \in Threads, NEW l, Steps(t, l), NEW S \in SUBSET Nodes
  PROVE  /\ Cardinality(Held(S))' + (IF t \in Held(S) THEN 1 ELSE 0)
              = Cardinality(Held(S)) + (IF t \in Held(S)' THEN 1 ELSE 0)
         /\ Cardinality(Opening(S))' + (IF t \in Opening(S) THEN 1 ELSE 0)
              = Cardinality(Opening(S)) + (IF t \in Opening(S)' THEN 1 ELSE 0)
<1>1. /\ Held(S) \in SUBSET Threads /\ Held(S)' \in SUBSET Threads
      /\ Opening(S) \in SUBSET Threads /\ Opening(S)' \in SUBSET Threads
  BY DEF Held, Opening, InHand
<1>2. ASSUME NEW u \in Threads \ {t} PROVE u \in Held(S) <=> u \in Held(S)'
  BY OthersStay DEF Held, InHand, Steps
<1>3. ASSUME NEW u \in Threads \ {t} PROVE u \in Opening(S) <=> u \in Opening(S)'
  BY OthersStay DEF Opening, Steps
<1>4. Cardinality(Held(S))' + (IF t \in Held(S) THEN 1 ELSE 0)
           = Cardinality(Held(S)) + (IF t \in Held(S)' THEN 1 ELSE 0)
  BY <1>1, <1>2, CountMoves
<1>5. Cardinality(Opening(S))' + (IF t \in Opening(S) THEN 1 ELSE 0)
           = Cardinality(Opening(S)) + (IF t \in Opening(S)' THEN 1 ELSE 0)
  BY <1>1, <1>3, CountMoves
<1>6. QED
  BY <1>4, <1>5

LEMMA PickedStays ==
  ASSUME NEW t \in Threads, NEW l, Steps(t, l), NEW S \in SUBSET Nodes,
         \A m \in S : m \in todo'[t] <=> m \in todo[t]
  PROVE  Picked(S)' = Picked(S)
<1>1. \A u \in Threads, m \in S : m \in todo'[u] <=> m \in todo[u]
  BY DEF Steps
<1>2. QED
  BY <1>1 DEF Picked

LEMMA ExecutionsStay ==
  ASSUME NEW S \in SUBSET Nodes, \A m \in S : ran'[m] = ran[m]
  PROVE  Executions(S)' = Executions(S)
<1>1. ASSUME NEW p PROVE p \in Executions(S)' <=> p \in Executions(S)
  BY DEF Executions
<1>2. QED
  BY <1>1

LEMMA ExecutionsGrow ==
  ASSUME TypeOK, NEW S \in SUBSET Nodes, NEW n \in Nodes, ran' = [ran EXCEPT ![n] = @ + 1]
  PROVE  Cardinality(Executions(S))' = Cardinality(Executions(S)) + (IF n \in S THEN 1 ELSE 0)
<1>1. Sized(S) /\ ran \in [Nodes -> Nat]
  BY GivenTypes DEF TypeOK, NodeTypes
<1>2. CASE n \notin S
  <2>1. Executions(S)' = Executions(S)
    BY <1>1, <1>2, ExecutionsStay
  <2>2. QED
    BY <1>1, <1>2, <2>1 DEF Sized
<1>3. CASE n \in S
  <2> DEFINE x == <<n, ran[n] + 1>>
  <2>1. x \notin Executions(S)
    BY <1>1 DEF Executions
  <2>2. Executions(S)' = Executions(S) \cup {x}
    <3>1. ran'[n] = ran[n] + 1 /\ \A m \in Nodes \ {n} : ran'[m] = ran[m]
      BY <1>1
    <3>2. ran[n] \in Nat /\ 1..(ran[n] + 1) = (1..ran[n]) \cup {ran[n] + 1}
      BY <1>1
    <3>3. ASSUME NEW p PROVE p \in Executions(S)' <=> p \in Executions(S) \cup {x}
      <4>1. p \in Executions(S)' <=> \E m \in S : p \in {m} \X (1..ran'[m])
        BY DEF Executions
      <4>2. p \in Executions(S) <=> \E m \in S : p \in {m} \X (1..ran[m])
        BY DEF Executions
      <4>3. \A m \in S : p \in {m} \X (1..ran'[m]) <=> p \in {m} \X (1..ran[m]) \/ (m = n /\ p = x)
        <5> SUFFICES ASSUME NEW m \in S
                     PROVE  p \in {m} \X (1..ran'[m]) <=> p \in {m} \X (1..ran[m]) \/ (m = n /\ p = x)
          OBVIOUS
        <5>1. CASE m = n
          BY <3>1, <3>2, <5>1
        <5>2. CASE m /= n
          BY <3>1, <5>2
        <5>3. QED
          BY <5>1, <5>2
      <4> HIDE DEF x
      <4>4. QED
        BY <1>3, <4>1, <4>2, <4>3
    <3>4. QED
      BY <3>3
  <2> HIDE DEF x
  <2>3. Cardinality(Executions(S) \cup {x}) = Cardinality(Executions(S)) + 1
    BY <1>1, <2>1, CountAdd DEF Sized
  <2>4. QED
    BY <1>3, <2>2, <2>3
<1>4. QED
  BY <1>2, <1>3

\* A step that moves no node of S.
LEMMA GivenStays ==
  ASSUME IInv, IInv', NEW t \in Threads, NEW l, Steps(t, l), NEW S \in SUBSET Nodes,
         UNCHANGED <<wq, taskQ, hand>>,
         pc[t] \in {"ref", "push", "go"} <=> l \in {"ref", "push", "go"},
         pc[t] /= "begin", l /= "begin",
         \A m \in S : ran'[m] = ran[m],
         \A m \in S : m \in todo'[t] <=> m \in todo[t]
  PROVE  Given(S)' = Given(S)
<1>1. pc'[t] = l
  BY DEF Steps, Moves
<1>2. (t \in Held(S)' <=> t \in Held(S)) /\ t \notin Opening(S) /\ t \notin Opening(S)'
  BY <1>1 DEF Held, InHand, Opening
<1>3. Picked(S)' = Picked(S) /\ Executions(S)' = Executions(S)
  BY PickedStays, ExecutionsStay
<1>4. Sized(S) /\ Sized(S)'
  BY GivenTypes, SizedAfter DEF IInv
<1>5. Cardinality(Held(S))' = Cardinality(Held(S)) /\ Cardinality(Opening(S))' = Cardinality(Opening(S))
  BY <1>2, <1>4, PlacesMove DEF Sized
<1>6. QED
  BY <1>3, <1>5 DEF Given

\* What a step may do to the count of S.
Passes(n, S) ==
  /\ Given(S)' + fin[n] <= Given(S) + fin'[n]
  /\ ~canceled'[graphOf[n]] /\ S = Branches(n) /\ Exclusive(n) =>
       Given(S)' + fin[n] = Given(S) + fin'[n]

LEMMA BranchesStay ==
  ASSUME IInv, IInv', BInv,
         \A g \in Graphs : canceled[g] => canceled'[g],
         \A n \in Nodes : Typ[n] = "condition" =>
           \A S \in SUBSET Branches(n) : Tallied(n, S)' => Passes(n, S)
  PROVE  BInv'
<1> SUFFICES ASSUME NEW n \in Nodes, Typ[n] = "condition", NEW S \in SUBSET Branches(n),
                    Tallied(n, S)'
             PROVE  Dealt(n, S)'
  BY DEF BInv
<1>1. graphOf[n] \in Graphs /\ S \in SUBSET Nodes
  BY FlowAssumption DEF Branches
<1>2. Tallied(n, S)
  BY <1>1 DEF Tallied
<1>3. Dealt(n, S) /\ Passes(n, S)
  BY <1>2 DEF BInv
<1>4. Given(S) \in Nat /\ Given(S)' \in Nat
  BY <1>1, GivenTypes, SizedAfter DEF Sized, IInv
<1>5. fin[n] \in Nat /\ fin'[n] \in Nat
  BY DEF IInv, TypeOK, NodeTypes
<1>6. ~canceled'[graphOf[n]] => ~canceled[graphOf[n]]
  BY <1>1
<1>7. QED
  BY <1>3, <1>4, <1>5, <1>6 DEF Dealt, Passes

\* A step that moves no branch of any condition.
LEMMA SilentBranches ==
  ASSUME IInv, IInv', BInv, NEW t \in Threads, NEW l, Steps(t, l),
         UNCHANGED <<wq, taskQ, hand>>,
         pc[t] \in {"ref", "push", "go"} <=> l \in {"ref", "push", "go"},
         pc[t] /= "begin", l /= "begin",
         \A g \in Graphs : canceled[g] => canceled'[g],
         \A n \in Nodes : Typ[n] = "condition" =>
           /\ fin'[n] = fin[n]
           /\ \A m \in Branches(n) :
                /\ m \in todo'[t] <=> m \in todo[t]
                /\ ran'[m] = ran[m] \/ (Typ[m] = "condition" /\ canceled'[graphOf[n]])
  PROVE  BInv'
<1> SUFFICES ASSUME NEW n \in Nodes, Typ[n] = "condition", NEW S \in SUBSET Branches(n),
                    Tallied(n, S)'
             PROVE  Passes(n, S)
  BY BranchesStay
<1>1. S \in SUBSET Nodes
  BY DEF Branches
<1>2. \A m \in S : ran'[m] = ran[m]
  BY DEF Tallied
<1>3. Given(S)' = Given(S)
  BY <1>1, <1>2, GivenStays
<1>4. Given(S) \in Nat /\ fin'[n] = fin[n] /\ fin[n] \in Nat
  BY <1>1, GivenTypes DEF Sized, IInv, TypeOK, NodeTypes
<1>5. QED
  BY <1>3, <1>4 DEF Passes
-----------------------------------------------------------------------------
(***************************************************************************)
(* Each action preserves BInv.  First those that move no branch.           *)
(***************************************************************************)

LEMMA RunBranches ==
  ASSUME IInv, BInv, NEW c \in Callers, Run(c)
  PROVE  BInv'
<1>1. Steps(c, "setup")
  BY RunSteps
<1>2. pc[c] \in {"idle", "returned"} /\ UNCHANGED <<todo, hand, wq, taskQ, canceled, ran, fin>>
  BY DEF Run, poolVars, graphVars
<1>3. IInv'
  BY RunInv
<1>4. QED
  BY <1>1, <1>2, <1>3, SilentBranches

LEMMA WaitBranches ==
  ASSUME IInv, BInv, NEW c \in Callers, Wait(c)
  PROVE  BInv'
<1>1. Steps(c, "idle")
  BY WaitSteps
<1>2. pc[c] = "returned" /\ UNCHANGED <<todo, hand, wq, taskQ, canceled, ran, fin>>
  BY DEF Wait, poolVars, graphVars, histVars
<1>3. IInv'
  BY WaitInv
<1>4. QED
  BY <1>1, <1>2, <1>3, SilentBranches

LEMMA ResetBranches ==
  ASSUME IInv, BInv, NEW t \in Threads, Reset(t)
  PROVE  BInv'
<1>1. Steps(t, "entries")
  BY ResetSteps
<1>2. pc[t] = "setup" /\ UNCHANGED <<todo, hand, wq, taskQ, canceled, ran, fin>>
  BY DEF Reset, poolVars, histVars
<1>3. IInv'
  BY ResetInv
<1>4. QED
  BY <1>1, <1>2, <1>3, SilentBranches

\* The entries have no predecessors.
LEMMA SetupBranches ==
  ASSUME IInv, GInv, BInv, NEW t \in Threads, Setup(t)
  PROVE  BInv'
<1>1. /\ Steps(t, pc'[t])
      /\ pc'[t] \in {"loop", "schedule"}
      /\ \A m \in todo'[t] : dependents[m] = {}
  BY SetupSteps
<1>2. pc[t] = "entries" /\ UNCHANGED <<hand, wq, taskQ, canceled, ran, fin>>
  BY DEF Setup, poolVars, graphVars, histVars
<1>3. IInv'
  BY SetupInv
<1>4. todo[t] = {}
  BY <1>2, NothingClaimed DEF Publishing
<1>5. \A n \in Nodes : \A m \in Branches(n) : m \notin todo'[t] /\ m \notin todo[t]
  BY <1>1, <1>4 DEF Branches
<1>6. QED
  BY <1>1, <1>2, <1>3, <1>5, SilentBranches

LEMMA ScheduleRefBranches ==
  ASSUME IInv, BInv, NEW t \in Threads, ScheduleRef(t)
  PROVE  BInv'
<1>1. Steps(t, "push")
  BY ScheduleRefSteps
<1>2. pc[t] = "ref" /\ UNCHANGED <<todo, hand, wq, taskQ, canceled, ran, fin>>
  BY DEF ScheduleRef, poolVars, histVars
<1>3. IInv'
  BY ScheduleRefInv
<1>4. QED
  BY <1>1, <1>2, <1>3, SilentBranches

LEMMA InvokeLoopBranches ==
  ASSUME IInv, BInv, NEW t \in Threads, InvokeLoop(t)
  PROVE  BInv'
<1>1. Steps(t, pc'[t]) /\ pc'[t] \in {"waiting", "pop"}
  BY InvokeLoopSteps
<1>2. pc[t] = "loop" /\ UNCHANGED <<todo, hand, wq, taskQ, canceled, ran, fin>>
  BY DEF InvokeLoop, poolVars, graphVars, histVars
<1>3. IInv'
  BY InvokeLoopInv
<1>4. QED
  BY <1>1, <1>2, <1>3, SilentBranches

LEMMA InvokeLeaveBranches ==
  ASSUME IInv, BInv, NEW t \in Threads, InvokeLeave(t)
  PROVE  BInv'
<1>1. Steps(t, "return")
  BY InvokeLeaveSteps
<1>2. pc[t] = "pop" /\ UNCHANGED <<todo, hand, wq, taskQ, canceled, ran, fin>>
  BY DEF InvokeLeave, poolVars, graphVars, histVars
<1>3. IInv'
  BY InvokeLeaveInv
<1>4. QED
  BY <1>1, <1>2, <1>3, SilentBranches

\* Only a subflow completes here.
LEMMA GraphReturnBranches ==
  ASSUME IInv, GInv, BInv, NEW t \in Threads, GraphReturn(t)
  PROVE  BInv'
<1>1. /\ Steps(t, pc'[t]) /\ pc'[t] \in {"returned", "resetup", "drop"}
      /\ \/ canceled' = canceled
         \/ canceled' = [h \in Graphs |-> canceled[h] \/ h \in Cancels(t)]
  BY GraphReturnSteps
<1>2. pc[t] = "return" /\ UNCHANGED <<todo, hand, wq, taskQ, ran>>
  BY DEF GraphReturn, poolVars
<1>3. IInv'
  BY GraphReturnInv
<1>4. ASSUME NEW n \in Nodes, Typ[n] = "condition" PROVE fin'[n] = fin[n]
  <2>1. CASE t \in Callers
    BY <1>2, <2>1 DEF GraphReturn
  <2>2. CASE t \in Workers
    <3>1. slot[t] /= n
      BY <1>2, <1>4, <2>2 DEF GInv, Places, Place, WorkerPlace
    <3>2. fin' = [fin EXCEPT ![slot[t]] = IF state[slot[t]] = "finished" THEN @ + 1 ELSE @]
      BY <2>2 DEF GraphReturn
    <3>3. QED
      BY <3>1, <3>2 DEF IInv, TypeOK, NodeTypes
  <2>3. QED
    BY <2>1, <2>2
<1>5. \A g \in Graphs : canceled[g] => canceled'[g]
  BY <1>1
<1>6. pc[t] \notin {"ref", "push", "go"} /\ pc'[t] \notin {"ref", "push", "go"} /\ pc'[t] /= "begin"
  BY <1>1, <1>2
<1>7. QED
  BY <1>1, <1>2, <1>3, <1>4, <1>5, <1>6, SilentBranches

LEMMA ReturnStaticBranches ==
  ASSUME IInv, BInv, NEW w \in Workers, ReturnStatic(w)
  PROVE  BInv'
<1>1. /\ pc[w] = "handle" /\ pc' = Goto(w, Deferred(slot[w])) /\ Typ[slot[w]] = "static"
      /\ UNCHANGED <<hand, ret, todo, wq, taskQ, slot, canceled, ran>>
      /\ fin' = [fin EXCEPT ![slot[w]] = @ + 1]
  BY DEF ReturnStatic, poolVars, graphVars
<1>2. Steps(w, Deferred(slot[w])) /\ Deferred(slot[w]) \in {"drop", "resetup"}
  BY <1>1, SlotIsNode, DeferredSteps, DeferredByType
<1>3. \A n \in Nodes : Typ[n] = "condition" => fin'[n] = fin[n]
  BY <1>1 DEF IInv, TypeOK, NodeTypes
<1>4. IInv'
  BY ReturnStaticInv
<1>5. QED
  BY <1>1, <1>2, <1>3, <1>4, SilentBranches

LEMMA ReturnSubflowBranches ==
  ASSUME IInv, BInv, NEW w \in Workers, ReturnSubflow(w)
  PROVE  BInv'
<1>1. /\ pc[w] = "handle" /\ pc' = Goto(w, Deferred(slot[w])) /\ Typ[slot[w]] = "subflow"
      /\ UNCHANGED <<hand, ret, todo, wq, taskQ, slot, canceled, ran, fin>>
  BY DEF ReturnSubflow, poolVars, histVars
<1>2. Steps(w, Deferred(slot[w])) /\ Deferred(slot[w]) = "setup"
  BY <1>1, SlotIsNode, DeferredSteps, DeferredByType
<1>3. IInv'
  BY ReturnSubflowInv
<1>4. QED
  BY <1>1, <1>2, <1>3, SilentBranches

\* The condition is called once more, but its graph is canceled now.
LEMMA ChoosePanicBranches ==
  ASSUME IInv, BInv, NEW w \in Workers, ChoosePanic(w)
  PROVE  BInv'
<1>1. /\ pc[w] = "handle" /\ pc' = Goto(w, Deferred(slot[w])) /\ Typ[slot[w]] = "condition"
      /\ UNCHANGED <<hand, ret, todo, wq, taskQ, slot, fin>>
      /\ canceled' = [canceled EXCEPT ![graphOf[slot[w]]] = TRUE]
      /\ ran' = ran \/ ran' = [ran EXCEPT ![slot[w]] = @ + 1]
  BY DEF ChoosePanic, poolVars
<1>2. slot[w] \in Nodes /\ graphOf[slot[w]] \in Graphs
  BY <1>1, SlotIsNode
<1>3. Steps(w, Deferred(slot[w])) /\ Deferred(slot[w]) = "deref"
  BY <1>1, <1>2, DeferredSteps, DeferredByType
<1>4. canceled'[graphOf[slot[w]]] /\ \A g \in Graphs : canceled[g] => canceled'[g]
  BY <1>1, <1>2 DEF IInv, TypeOK, GraphTypes
<1>5. ASSUME NEW n \in Nodes, NEW m \in Branches(n)
      PROVE  ran'[m] = ran[m] \/ (Typ[m] = "condition" /\ canceled'[graphOf[n]])
  <2>1. CASE m = slot[w]
    BY <1>1, <1>4, <2>1, BranchPlace
  <2>2. CASE m /= slot[w]
    BY <1>1, <2>2, BranchPlace DEF IInv, TypeOK, NodeTypes
  <2>3. QED
    BY <2>1, <2>2
<1>6. IInv'
  BY ChoosePanicInv
<1>7. QED
  BY <1>1, <1>3, <1>4, <1>5, <1>6, SilentBranches

LEMMA HandlerPanicBranches ==
  ASSUME IInv, BInv, NEW w \in Workers, HandlerPanic(w)
  PROVE  BInv'
<1>1. /\ pc[w] = "handle" /\ pc' = Goto(w, Deferred(slot[w]))
      /\ UNCHANGED <<hand, ret, todo, wq, taskQ, slot, ran, fin>>
      /\ \A g \in Graphs : canceled[g] => canceled'[g]
  BY DEF HandlerPanic, poolVars, histVars
<1>2. Steps(w, Deferred(slot[w])) /\ Deferred(slot[w]) \in {"drop", "resetup", "setup", "deref"}
  BY <1>1, SlotIsNode, DeferredSteps, DeferredByType
<1>3. IInv'
  BY HandlerPanicInv
<1>4. QED
  BY <1>1, <1>2, <1>3, SilentBranches

LEMMA DropBranches ==
  ASSUME IInv, BInv, NEW w \in Workers, Drop(w)
  PROVE  BInv'
<1>1. Steps(w, pc'[w]) /\ pc'[w] \in {"drop", "check"}
  BY DropSteps
<1>2. pc[w] = "drop" /\ UNCHANGED <<hand, todo, wq, taskQ, canceled, ran, fin>>
  BY DEF Drop, poolVars, graphVars, histVars
<1>3. IInv'
  BY DropInv
<1>4. QED
  BY <1>1, <1>2, <1>3, SilentBranches

\* sche_successors claims no branch: its node is not a condition.
LEMMA CheckSuccessorBranches ==
  ASSUME IInv, GInv, BInv, NEW w \in Workers, CheckSuccessor(w)
  PROVE  BInv'
<1>1. /\ Steps(w, pc'[w]) /\ pc'[w] \in {"check", "resetup"}
      /\ todo'[w] = todo[w] \cup {Candidate(w)} \/ todo'[w] = todo[w]
  BY CheckSuccessorSteps
<1>2. pc[w] = "check" /\ UNCHANGED <<hand, wq, taskQ, canceled, ran, fin>>
  BY DEF CheckSuccessor, poolVars, graphVars, histVars
<1>3. slot[w] \in Nodes /\ idx[w] \in DOMAIN successors[slot[w]] /\ Typ[slot[w]] /= "condition"
  BY <1>2, SlotIsNode DEF IInv, ThreadShape, GInv, Places, Place, WorkerPlace
<1>4. ASSUME NEW n \in Nodes, Typ[n] = "condition", NEW m \in Branches(n)
      PROVE  m \in todo'[w] <=> m \in todo[w]
  <2>1. m /= Candidate(w)
    BY <1>3, <1>4, BranchEdge DEF Candidate
  <2>2. QED
    BY <1>1, <2>1
<1>5. IInv'
  BY CheckSuccessorInv
<1>6. QED
  BY <1>1, <1>2, <1>4, <1>5, SilentBranches

LEMMA ResetupBranches ==
  ASSUME IInv, BInv, NEW w \in Workers, Resetup(w)
  PROVE  BInv'
<1>1. Steps(w, pc'[w]) /\ pc[w] = "resetup" /\ pc'[w] \in {"done", "deref", "schedule"}
  BY ResetupSteps
<1>2. UNCHANGED <<hand, todo, wq, taskQ, canceled, ran, fin>>
  BY DEF Resetup, poolVars, graphVars, histVars
<1>3. IInv'
  BY ResetupInv
<1>4. QED
  BY <1>1, <1>2, <1>3, SilentBranches

LEMMA DerefBranches ==
  ASSUME IInv, BInv, NEW w \in Workers, Deref(w)
  PROVE  BInv'
<1>1. Steps(w, pc'[w]) /\ pc[w] = "deref" /\ pc'[w] \in {"resetup", "done"}
  BY DerefSteps
<1>2. UNCHANGED <<hand, todo, wq, taskQ, canceled, ran, fin>>
  BY DEF Deref, poolVars, histVars
<1>3. IInv'
  BY DerefInv
<1>4. QED
  BY <1>1, <1>2, <1>3, SilentBranches

LEMMA DoneBranches ==
  ASSUME IInv, BInv, NEW w \in Workers, Done(w)
  PROVE  BInv'
<1>1. Steps(w, "idle") /\ pc[w] = "done"
  BY DoneSteps
<1>2. UNCHANGED <<hand, todo, wq, taskQ, canceled, ran, fin>>
  BY DEF Done, GoPool!Finish, graphVars, histVars
<1>3. IInv'
  BY DoneInv
<1>4. QED
  BY <1>1, <1>2, <1>3, SilentBranches

-----------------------------------------------------------------------------
(***************************************************************************)
(* The steps that move a branch from one place to the next.                *)
(***************************************************************************)

LEMMA MovedBranches ==
  ASSUME IInv, IInv', BInv, UNCHANGED <<canceled, fin>>,
         \A S \in SUBSET Nodes : Given(S)' = Given(S)
  PROVE  BInv'
<1>1. ASSUME NEW n \in Nodes, NEW S \in SUBSET Branches(n) PROVE Passes(n, S)
  <2>1. S \in SUBSET Nodes
    BY DEF Branches
  <2>2. Given(S)' = Given(S)
    BY <2>1
  <2>3. Given(S) \in Nat /\ fin'[n] = fin[n] /\ fin[n] \in Nat
    BY <2>1, GivenTypes DEF Sized, IInv, TypeOK, NodeTypes
  <2>4. QED
    BY <2>2, <2>3 DEF Passes
<1>2. QED
  BY <1>1, BranchesStay

LEMMA SchedulePushBranches ==
  ASSUME IInv, BInv, NEW t \in Threads, SchedulePush(t)
  PROVE  BInv'
<1>1. Steps(t, pc'[t]) /\ hand[t] \in Nodes /\ pc'[t] \in {"loop", "deref", "schedule"}
  BY SchedulePushSteps
<1>2. /\ pc[t] = "push" /\ wq' = Append(wq, hand[t])
      /\ UNCHANGED <<todo, taskQ, canceled, ran, fin>>
  BY DEF SchedulePush, poolVars, graphVars, histVars
<1>3. IInv' /\ wq \in Seq(Nodes)
  BY SchedulePushInv DEF IInv, TypeOK, QueueTypes
<1>4. ASSUME NEW S \in SUBSET Nodes PROVE Given(S)' = Given(S)
  <2>1. t \notin Held(S)' /\ (t \in Held(S) <=> hand[t] \in S)
    BY <1>1, <1>2 DEF Held, InHand
  <2>2. t \notin Opening(S) /\ t \notin Opening(S)'
    BY <1>1, <1>2 DEF Opening
  <2>3. Picked(S)' = Picked(S) /\ Executions(S)' = Executions(S)
    BY <1>1, <1>2, PickedStays, ExecutionsStay
  <2>4. Count(wq, S)' = Count(wq, S) + (IF hand[t] \in S THEN 1 ELSE 0)
    BY <1>1, <1>2, <1>3, CountAppend
  <2>5. Count(taskQ, S)' = Count(taskQ, S)
    BY <1>2
  <2>6. Sized(S) /\ Sized(S)'
    BY <1>3, GivenTypes, SizedAfter DEF IInv
  <2>7. /\ Cardinality(Held(S))' + (IF hand[t] \in S THEN 1 ELSE 0) = Cardinality(Held(S))
        /\ Cardinality(Opening(S))' = Cardinality(Opening(S))
    BY <1>1, <2>1, <2>2, <2>6, PlacesMove DEF Sized
  <2>8. QED
    BY <2>3, <2>4, <2>5, <2>6, <2>7 DEF Given, Sized
<1>5. QED
  BY <1>2, <1>3, <1>4, MovedBranches

LEMMA InvokePopBranches ==
  ASSUME IInv, BInv, NEW t \in Threads, InvokePop(t)
  PROVE  BInv'
<1>1. /\ Steps(t, "go") /\ pc'[t] = "go" /\ hand'[t] = Head(wq)
      /\ wq \in Seq(Nodes) /\ wq /= <<>> /\ wq' = Tail(wq)
  BY InvokePopSteps
<1>2. pc[t] = "pop" /\ UNCHANGED <<todo, taskQ, canceled, ran, fin>>
  BY DEF InvokePop, poolVars, graphVars, histVars
<1>3. IInv'
  BY InvokePopInv
<1>4. ASSUME NEW S \in SUBSET Nodes PROVE Given(S)' = Given(S)
  <2>1. t \notin Held(S) /\ (t \in Held(S)' <=> Head(wq) \in S)
    BY <1>1, <1>2 DEF Held, InHand
  <2>2. t \notin Opening(S) /\ t \notin Opening(S)'
    BY <1>1, <1>2 DEF Opening
  <2>3. Picked(S)' = Picked(S) /\ Executions(S)' = Executions(S)
    BY <1>1, <1>2, PickedStays, ExecutionsStay
  <2>4. Count(wq, S) = Count(wq, S)' + (IF Head(wq) \in S THEN 1 ELSE 0)
    BY <1>1, CountTail
  <2>5. Count(taskQ, S)' = Count(taskQ, S)
    BY <1>2
  <2>6. Sized(S) /\ Sized(S)'
    BY <1>3, GivenTypes, SizedAfter DEF IInv
  <2>7. /\ Cardinality(Held(S))' = Cardinality(Held(S)) + (IF Head(wq) \in S THEN 1 ELSE 0)
        /\ Cardinality(Opening(S))' = Cardinality(Opening(S))
    <3>1. /\ Cardinality(Held(S))' + (IF t \in Held(S) THEN 1 ELSE 0)
                = Cardinality(Held(S)) + (IF t \in Held(S)' THEN 1 ELSE 0)
          /\ Cardinality(Opening(S))' + (IF t \in Opening(S) THEN 1 ELSE 0)
                = Cardinality(Opening(S)) + (IF t \in Opening(S)' THEN 1 ELSE 0)
      BY <1>1, PlacesMove
    <3>2. QED
      BY <2>1, <2>2, <2>6, <3>1 DEF Sized
  <2>8. QED
    BY <2>3, <2>4, <2>5, <2>6, <2>7 DEF Given, Sized
<1>5. QED
  BY <1>2, <1>3, <1>4, MovedBranches

LEMMA InvokeNodeBranches ==
  ASSUME IInv, BInv, NEW t \in Threads, InvokeNode(t)
  PROVE  BInv'
<1>1. Steps(t, "loop") /\ pc'[t] = "loop" /\ hand[t] \in Nodes
  BY InvokeNodeSteps
<1>2. /\ pc[t] = "go" /\ taskQ' = Append(taskQ, hand[t])
      /\ UNCHANGED <<todo, wq, canceled, ran, fin>>
  BY DEF InvokeNode, GoPool!Submit, graphVars, histVars
<1>3. IInv' /\ taskQ \in Seq(Nodes)
  BY InvokeNodeInv DEF IInv, TypeOK, QueueTypes, GoPool!TypeOK
<1>4. ASSUME NEW S \in SUBSET Nodes PROVE Given(S)' = Given(S)
  <2>1. t \notin Held(S)' /\ (t \in Held(S) <=> hand[t] \in S)
    BY <1>1, <1>2 DEF Held, InHand
  <2>2. t \notin Opening(S) /\ t \notin Opening(S)'
    BY <1>1, <1>2 DEF Opening
  <2>3. Picked(S)' = Picked(S) /\ Executions(S)' = Executions(S)
    BY <1>1, <1>2, PickedStays, ExecutionsStay
  <2>4. Count(taskQ, S)' = Count(taskQ, S) + (IF hand[t] \in S THEN 1 ELSE 0)
    BY <1>1, <1>2, <1>3, CountAppend
  <2>5. Count(wq, S)' = Count(wq, S)
    BY <1>2
  <2>6. Sized(S) /\ Sized(S)'
    BY <1>3, GivenTypes, SizedAfter DEF IInv
  <2>7. /\ Cardinality(Held(S))' + (IF hand[t] \in S THEN 1 ELSE 0) = Cardinality(Held(S))
        /\ Cardinality(Opening(S))' = Cardinality(Opening(S))
    BY <1>1, <2>1, <2>2, <2>6, PlacesMove DEF Sized
  <2>8. QED
    BY <2>3, <2>4, <2>5, <2>6, <2>7 DEF Given, Sized
<1>5. QED
  BY <1>2, <1>3, <1>4, MovedBranches

LEMMA TakeTaskBranches ==
  ASSUME IInv, BInv, NEW w \in Workers, TakeTask(w)
  PROVE  BInv'
<1>1. /\ Steps(w, "begin") /\ pc'[w] = "begin"
      /\ slot'[w] = Head(taskQ) /\ taskQ' = Tail(taskQ)
      /\ taskQ \in Seq(Nodes) /\ taskQ /= <<>> /\ Head(taskQ) \in Nodes
  BY TakeTaskSteps
<1>2. pc[w] = "idle" /\ UNCHANGED <<todo, hand, wq, canceled, ran, fin>>
  BY DEF TakeTask, graphVars, histVars
<1>3. IInv'
  BY TakeTaskInv
<1>4. ASSUME NEW S \in SUBSET Nodes PROVE Given(S)' = Given(S)
  <2>1. w \notin Held(S) /\ w \notin Held(S)'
    BY <1>1, <1>2 DEF Held, InHand
  <2>2. w \notin Opening(S) /\ (w \in Opening(S)' <=> Head(taskQ) \in S)
    BY <1>1, <1>2 DEF Opening
  <2>3. Picked(S)' = Picked(S) /\ Executions(S)' = Executions(S)
    BY <1>1, <1>2, PickedStays, ExecutionsStay
  <2>4. Count(taskQ, S) = Count(taskQ, S)' + (IF Head(taskQ) \in S THEN 1 ELSE 0)
    BY <1>1, CountTail
  <2>5. Count(wq, S)' = Count(wq, S)
    BY <1>2
  <2>6. Sized(S) /\ Sized(S)'
    BY <1>3, GivenTypes, SizedAfter DEF IInv
  <2>7. /\ Cardinality(Opening(S))' = Cardinality(Opening(S)) + (IF Head(taskQ) \in S THEN 1 ELSE 0)
        /\ Cardinality(Held(S))' = Cardinality(Held(S))
    <3>1. /\ Cardinality(Held(S))' + (IF w \in Held(S) THEN 1 ELSE 0)
               = Cardinality(Held(S)) + (IF w \in Held(S)' THEN 1 ELSE 0)
          /\ Cardinality(Opening(S))' + (IF w \in Opening(S) THEN 1 ELSE 0)
               = Cardinality(Opening(S)) + (IF w \in Opening(S)' THEN 1 ELSE 0)
      BY <1>1, PlacesMove
    <3>2. QED
      BY <2>1, <2>2, <2>6, <3>1 DEF Sized
  <2>8. QED
    BY <2>3, <2>4, <2>5, <2>6, <2>7 DEF Given, Sized
<1>5. QED
  BY <1>2, <1>3, <1>4, MovedBranches

LEMMA ScheduleAddBranches ==
  ASSUME IInv, BInv, NEW t \in Threads, ScheduleAdd(t)
  PROVE  BInv'
<1>1. /\ Steps(t, "ref") /\ pc'[t] = "ref" /\ hand'[t] \in Nodes
      /\ hand'[t] \in todo[t] /\ todo'[t] = todo[t] \ {hand'[t]}
  BY ScheduleAddSteps
<1>2. pc[t] = "schedule" /\ UNCHANGED <<wq, taskQ, canceled, ran, fin>>
  BY DEF ScheduleAdd, poolVars, graphVars, histVars
<1>3. IInv'
  BY ScheduleAddInv
<1>4. ASSUME NEW S \in SUBSET Nodes PROVE Given(S)' = Given(S)
  <2>1. t \notin Held(S) /\ (t \in Held(S)' <=> hand'[t] \in S)
    BY <1>1, <1>2 DEF Held, InHand
  <2>2. t \notin Opening(S) /\ t \notin Opening(S)'
    BY <1>1, <1>2 DEF Opening
  <2>3. Executions(S)' = Executions(S)
    BY <1>2, ExecutionsStay
  <2>4. Count(taskQ, S)' = Count(taskQ, S) /\ Count(wq, S)' = Count(wq, S)
    BY <1>2
  <2>5. Sized(S) /\ Sized(S)'
    BY <1>3, GivenTypes, SizedAfter DEF IInv
  <2>6. /\ Cardinality(Held(S))' = Cardinality(Held(S)) + (IF hand'[t] \in S THEN 1 ELSE 0)
        /\ Cardinality(Opening(S))' = Cardinality(Opening(S))
    BY <1>1, <2>1, <2>2, <2>5, PlacesMove DEF Sized
  <2>7. Cardinality(Picked(S)) = Cardinality(Picked(S))' + (IF hand'[t] \in S THEN 1 ELSE 0)
    <3>1. \A u \in Threads, m \in S : m \in todo'[u] <=> m \in todo[u] /\ ~(u = t /\ m = hand'[t])
      BY <1>1 DEF Steps
    <3>2. CASE hand'[t] \in S
      <4> DEFINE x == <<t, hand'[t]>>
      <4>1. x \in Picked(S)
        BY <1>1, <3>2 DEF Picked
      <4>2. Picked(S)' = Picked(S) \ {x}
        BY <3>1 DEF Picked
      <4> HIDE DEF x
      <4>3. Cardinality(Picked(S)) = Cardinality(Picked(S) \ {x}) + 1
        BY <2>5, <4>1, CountRemove DEF Sized
      <4>4. QED
        BY <3>2, <4>2, <4>3
    <3>3. CASE hand'[t] \notin S
      <4>1. Picked(S)' = Picked(S)
        BY <3>1, <3>3 DEF Picked
      <4>2. QED
        BY <2>5, <3>3, <4>1 DEF Sized
    <3>4. QED
      BY <3>2, <3>3
  <2>8. QED
    BY <2>3, <2>4, <2>5, <2>6, <2>7 DEF Given, Sized
<1>5. QED
  BY <1>2, <1>3, <1>4, MovedBranches

-----------------------------------------------------------------------------
(***************************************************************************)
(* The steps that drop a branch, that execute one and that choose one.     *)
(***************************************************************************)

\* Only in a graph that is canceled.
LEMMA ScheduleCanceledBranches ==
  ASSUME IInv, GInv, BInv, NEW t \in Threads, ScheduleCanceled(t)
  PROVE  BInv'
<1>1. Steps(t, ret[t]) /\ ret[t] \in {"loop", "deref"} /\ pc'[t] = ret[t] /\ todo'[t] = {}
  BY ScheduleCanceledSteps
<1>2. pc[t] = "schedule" /\ UNCHANGED <<hand, wq, taskQ, canceled, ran, fin>>
  BY DEF ScheduleCanceled, poolVars, graphVars, histVars
<1>3. IInv'
  BY ScheduleCanceledInv
<1>4. PICK o \in todo[t] : canceled[graphOf[o]]
  BY DEF ScheduleCanceled, MostUrgent
<1>5. \A m \in todo[t] : canceled[graphOf[m]]
  BY <1>4 DEF GInv, Places, Place, ClaimPlace
<1>6. ASSUME NEW n \in Nodes, NEW S \in SUBSET Branches(n) PROVE Passes(n, S)
  <2>1. S \in SUBSET Nodes /\ \A m \in S : graphOf[m] = graphOf[n]
    BY BranchPlace DEF Branches
  <2>2. Sized(S) /\ Sized(S)' /\ fin'[n] = fin[n] /\ fin[n] \in Nat
    BY <1>2, <1>3, <2>1, GivenTypes, SizedAfter DEF IInv, TypeOK, NodeTypes
  <2>3. (t \in Held(S)' <=> t \in Held(S)) /\ t \notin Opening(S) /\ t \notin Opening(S)'
    BY <1>1, <1>2 DEF Held, InHand, Opening
  <2>4. Cardinality(Held(S))' = Cardinality(Held(S)) /\ Cardinality(Opening(S))' = Cardinality(Opening(S))
    BY <1>1, <2>1, <2>2, <2>3, PlacesMove DEF Sized
  <2>5. Executions(S)' = Executions(S) /\ Count(wq, S)' = Count(wq, S) /\ Count(taskQ, S)' = Count(taskQ, S)
    BY <1>2, <2>1, ExecutionsStay
  <2>6. \A u \in Threads \ {t} : todo'[u] = todo[u]
    BY <1>1 DEF Steps
  <2>7. Cardinality(Picked(S))' <= Cardinality(Picked(S))
    <3>1. Picked(S)' \in SUBSET Picked(S)
      BY <1>1, <2>6 DEF Picked
    <3>2. QED
      BY <2>2, <3>1, FS_Subset DEF Sized
  <2>8. ~canceled[graphOf[n]] => Picked(S)' = Picked(S)
    BY <1>1, <1>5, <2>1, <2>6 DEF Picked
  <2>9. QED
    BY <1>2, <2>2, <2>4, <2>5, <2>7, <2>8 DEF Passes, Given, Sized
<1>7. QED
  BY <1>2, <1>3, <1>6, BranchesStay

\* The handler is called, or skipped because the graph is canceled.
LEMMA BeginBranches ==
  ASSUME IInv, BInv, NEW w \in Workers, Begin(w)
  PROVE  BInv'
<1>1. /\ Steps(w, pc'[w])
      /\ \/ canceled[graphOf[slot[w]]] /\ pc'[w] = Deferred(slot[w])
         \/ ~canceled[graphOf[slot[w]]] /\ pc'[w] = "handle"
  BY BeginSteps
<1>2. pc[w] = "begin" /\ UNCHANGED <<hand, todo, wq, taskQ, slot, canceled, fin>>
  BY DEF Begin, poolVars, graphVars
<1>3. slot[w] \in Nodes
  BY <1>2, SlotIsNode
<1>4. IInv'
  BY BeginInv
<1>5. pc'[w] \in {"handle", "drop", "resetup", "setup", "deref"}
  BY <1>1, <1>3, DeferredByType
<1>6. \/ canceled[graphOf[slot[w]]] /\ ran' = ran
      \/ ran' = [ran EXCEPT ![slot[w]] = @ + 1]
  BY DEF Begin
<1>7. ASSUME NEW n \in Nodes, NEW S \in SUBSET Branches(n) PROVE Passes(n, S)
  <2>1. S \in SUBSET Nodes /\ \A m \in S : graphOf[m] = graphOf[n]
    BY BranchPlace DEF Branches
  <2>2. Sized(S) /\ Sized(S)' /\ fin'[n] = fin[n] /\ fin[n] \in Nat
    BY <1>2, <1>4, <2>1, GivenTypes, SizedAfter DEF IInv, TypeOK, NodeTypes
  <2>3. /\ w \notin Held(S) /\ w \notin Held(S)' /\ w \notin Opening(S)'
        /\ w \in Opening(S) <=> slot[w] \in S
    BY <1>2, <1>5 DEF Held, InHand, Opening
  <2>4. /\ Cardinality(Held(S))' = Cardinality(Held(S))
        /\ Cardinality(Opening(S))' + (IF slot[w] \in S THEN 1 ELSE 0) = Cardinality(Opening(S))
    BY <1>1, <2>1, <2>2, <2>3, PlacesMove DEF Sized
  <2>5. Picked(S)' = Picked(S) /\ Count(wq, S)' = Count(wq, S) /\ Count(taskQ, S)' = Count(taskQ, S)
    BY <1>1, <1>2, <2>1, PickedStays
  <2>6. CASE ran' = [ran EXCEPT ![slot[w]] = @ + 1]
    <3>1. Cardinality(Executions(S))' = Cardinality(Executions(S)) + (IF slot[w] \in S THEN 1 ELSE 0)
      BY <1>3, <2>1, <2>6, ExecutionsGrow DEF IInv
    <3>2. QED
      BY <2>2, <2>4, <2>5, <3>1 DEF Passes, Given, Sized
  <2>7. CASE canceled[graphOf[slot[w]]] /\ ran' = ran
    <3>1. Executions(S)' = Executions(S)
      BY <2>1, <2>7, ExecutionsStay
    <3>2. Given(S)' <= Given(S) /\ (slot[w] \notin S => Given(S)' = Given(S))
      BY <2>2, <2>4, <2>5, <3>1 DEF Given, Sized
    <3>3. slot[w] \in S => canceled'[graphOf[n]]
      BY <1>2, <2>1, <2>7
    <3>4. QED
      BY <2>2, <3>2, <3>3 DEF Passes, Sized
  <2>8. QED
    BY <1>6, <2>6, <2>7
<1>8. QED
  BY <1>2, <1>4, <1>7, BranchesStay

\* The answer of a condition chooses one successor.
LEMMA ReturnConditionBranches ==
  ASSUME IInv, GInv, BInv, NEW w \in Workers, ReturnCondition(w)
  PROVE  BInv'
<1>1. /\ Steps(w, "schedule") /\ pc'[w] = "schedule" /\ slot[w] \in Nodes
      /\ \E i \in DOMAIN mapper[slot[w]] : todo'[w] = {mapper[slot[w]][i]}
  BY ReturnConditionSteps
<1>2. /\ pc[w] = "handle" /\ UNCHANGED <<hand, wq, taskQ, canceled, ran>>
      /\ fin' = [fin EXCEPT ![slot[w]] = @ + 1]
  BY DEF ReturnCondition, poolVars, graphVars
<1>3. IInv' /\ fin \in [Nodes -> Nat]
  BY ReturnConditionInv DEF IInv, TypeOK, NodeTypes
<1>4. PICK i \in DOMAIN mapper[slot[w]] : todo'[w] = {mapper[slot[w]][i]}
  BY <1>1
<1> DEFINE o == mapper[slot[w]][i]
<1>5. o \in Nodes /\ \E j \in DOMAIN successors[slot[w]] : successors[slot[w]][j] = o
  BY <1>1, MapperPlace, NestingAssumption
<1>6. todo'[w] = {o} /\ todo[w] = {}
  BY <1>2, <1>4, NothingClaimed DEF Publishing
<1>7. \A u \in Threads \ {w} : todo'[u] = todo[u]
  BY <1>1 DEF Steps
<1>8. ASSUME NEW n \in Nodes, Exclusive(n), slot[w] = n PROVE o \in Branches(n)
  BY <1>8 DEF Exclusive
<1> HIDE DEF o
<1>9. ASSUME NEW n \in Nodes, NEW S \in SUBSET Branches(n) PROVE Passes(n, S)
  <2>1. S \in SUBSET Nodes
    BY DEF Branches
  <2>2. Sized(S) /\ Sized(S)'
    BY <1>3, <2>1, GivenTypes, SizedAfter DEF IInv
  <2>3. w \notin Held(S) /\ w \notin Held(S)' /\ w \notin Opening(S) /\ w \notin Opening(S)'
    BY <1>1, <1>2 DEF Held, InHand, Opening
  <2>4. Cardinality(Held(S))' = Cardinality(Held(S)) /\ Cardinality(Opening(S))' = Cardinality(Opening(S))
    BY <1>1, <2>1, <2>2, <2>3, PlacesMove DEF Sized
  <2>5. Executions(S)' = Executions(S) /\ Count(wq, S)' = Count(wq, S) /\ Count(taskQ, S)' = Count(taskQ, S)
    BY <1>2, <2>1, ExecutionsStay
  <2>6. fin[n] \in Nat /\ fin'[n] = fin[n] + (IF slot[w] = n THEN 1 ELSE 0)
    BY <1>2, <1>3
  <2>7. CASE o \in S
    <3>1. slot[w] = n
      BY <1>1, <1>5, <2>7, BranchEdge
    <3>2. <<w, o>> \notin Picked(S) /\ Picked(S)' = Picked(S) \cup {<<w, o>>}
      BY <1>6, <1>7, <2>7 DEF Picked
    <3>3. Cardinality(Picked(S))' = Cardinality(Picked(S)) + 1
      BY <2>2, <3>2, CountAdd DEF Sized
    <3>4. QED
      BY <2>2, <2>4, <2>5, <2>6, <3>1, <3>3 DEF Passes, Given, Sized
  <2>8. CASE o \notin S
    <3>1. Picked(S)' = Picked(S)
      BY <1>1, <1>6, <2>1, <2>8, PickedStays
    <3>2. Given(S)' = Given(S)
      BY <2>4, <2>5, <3>1 DEF Given
    <3>3. S = Branches(n) /\ Exclusive(n) => slot[w] /= n
      BY <1>8, <2>8
    <3>4. QED
      BY <2>2, <2>6, <3>2, <3>3 DEF Passes, Sized
  <2>9. QED
    BY <2>7, <2>8
<1>10. QED
  BY <1>2, <1>3, <1>9, BranchesStay

-----------------------------------------------------------------------------
(***************************************************************************)
(* The theorem.                                                            *)
(***************************************************************************)

LEMMA InitBranches ==
  ASSUME Init
  PROVE  BInv
<1>1. /\ pc = [t \in Threads |-> "idle"] /\ todo = [t \in Threads |-> {}]
      /\ wq = <<>> /\ taskQ = <<>>
      /\ ran = [n \in Nodes |-> 0] /\ fin = [n \in Nodes |-> 0]
  BY DEF Init, GoPool!Init
<1>2. ASSUME NEW n \in Nodes, NEW S \in SUBSET Branches(n) PROVE Given(S) = 0
  <2>1. S \in SUBSET Nodes
    BY DEF Branches
  <2>2. Held(S) = {} /\ Opening(S) = {} /\ Picked(S) = {}
    BY <1>1 DEF Held, InHand, Opening, Picked
  <2>3. \A m \in S : 1..ran[m] = {}
    BY <1>1, <2>1
  <2>4. Executions(S) = {}
    BY <2>3 DEF Executions
  <2>5. Count(wq, S) = 0 /\ Count(taskQ, S) = 0
    BY <1>1, CountEmpty
  <2>6. QED
    BY <2>2, <2>4, <2>5, FS_EmptySet DEF Given
<1>3. ASSUME NEW n \in Nodes, NEW S \in SUBSET Branches(n) PROVE Dealt(n, S)
  <2>1. Given(S) = 0 /\ fin[n] = 0
    BY <1>1, <1>2
  <2>2. QED
    BY <2>1 DEF Dealt
<1>4. QED
  BY <1>3 DEF BInv

LEMMA StutterBranches ==
  ASSUME BInv, UNCHANGED vars
  PROVE  BInv'
<1>1. UNCHANGED <<pc, todo, hand, taskQ, slot, wq, canceled, ran, fin>>
  BY DEF vars, threadVars, poolVars, graphVars, histVars
<1>2. ASSUME NEW S PROVE Given(S)' = Given(S)
  BY <1>1 DEF Given, Executions, Held, InHand, Opening, Picked, Count
<1>3. ASSUME NEW n \in Nodes, NEW S \in SUBSET Branches(n)
      PROVE  (Tallied(n, S)' <=> Tallied(n, S)) /\ (Dealt(n, S)' <=> Dealt(n, S))
  <2>1. Given(S)' = Given(S)
    BY <1>2
  <2>2. QED
    BY <1>1, <2>1 DEF Tallied, Dealt
<1>4. QED
  BY <1>3 DEF BInv

LEMMA NextBranches ==
  ASSUME IInv, GInv, BInv, [Next]_vars
  PROVE  BInv'
<1>1. ASSUME NEW c \in Callers, Run(c) \/ Wait(c) PROVE BInv'
  BY <1>1, RunBranches, WaitBranches
<1>2. ASSUME NEW t \in Threads, ScheduleStep(t) PROVE BInv'
  BY <1>2, ScheduleAddBranches, ScheduleRefBranches, SchedulePushBranches, ScheduleCanceledBranches
     DEF ScheduleStep
<1>3. ASSUME NEW t \in Threads, InvokeStep(t) PROVE BInv'
  BY <1>3, InvokeLoopBranches, InvokeLeaveBranches, InvokePopBranches, InvokeNodeBranches
     DEF InvokeStep
<1>4. ASSUME NEW t \in Threads, GraphStep(t) PROVE BInv'
  BY <1>2, <1>3, <1>4, ResetBranches, SetupBranches, GraphReturnBranches DEF GraphStep
<1>5. ASSUME NEW w \in Workers, HandlerStep(w) PROVE BInv'
  BY <1>5, ReturnStaticBranches, ReturnSubflowBranches, ReturnConditionBranches,
     ChoosePanicBranches, HandlerPanicBranches DEF HandlerStep
<1>6. ASSUME NEW w \in Workers, WorkerStep(w) PROVE BInv'
  BY <1>5, <1>6, TakeTaskBranches, BeginBranches, DropBranches, CheckSuccessorBranches,
     ResetupBranches, DerefBranches, DoneBranches DEF WorkerStep
<1>7. CASE Terminated \/ UNCHANGED vars
  BY <1>7, StutterBranches DEF Terminated
<1>8. QED
  BY <1>1, <1>4, <1>6, <1>7 DEF Next

\* When Run has returned, no thread works for the graph of the flow.
LEMMA NobodyClaims ==
  ASSUME IInv, GInv, NEW c \in Callers, pc[c] = "returned", ~canceled[root[c]],
         NEW u \in Threads, Origin(u) = root[c],
         Publishing(u) \/ pc[u] = "check" \/ (pc[u] = "resetup" /\ Typ[slot[u]] /= "condition")
  PROVE  FALSE
<1>1. root[c] \in Graphs
  BY FlowAssumption
<1>2. Drained(root[c])
  BY <1>1, ReturnedIsQuiet, ZeroDrains
<1>3. u /= c
  BY DEF Publishing
<1>4. CASE u \in Callers
  BY <1>3, <1>4, FlowAssumption DEF Origin, Invoked
<1>5. CASE u \in Workers /\ Driving(u)
  <2>1. slot[u] \in Nodes /\ Typ[slot[u]] = "subflow"
    BY <1>5, SlotIsNode DEF GInv, Places, Place, WorkerPlace
  <2>2. Invoked(u) = subgraph[slot[u]] /\ Publishing(u) /\ ret[u] = "loop"
    BY <1>5 DEF Invoked, Publishing
  <2>3. Origin(u) = subgraph[slot[u]]
    BY <2>2 DEF Origin
  <2>4. subgraph[slot[u]] /= root[c]
    BY <2>1, NestingAssumption
  <2>5. QED
    BY <2>3, <2>4
<1>6. CASE u \in Workers /\ ~Driving(u)
  <2>1. slot[u] \in Nodes /\ ~Released(u)
    BY <1>6, SlotIsNode DEF Publishing, Released
  <2>2. graphOf[slot[u]] = root[c]
    BY <1>6 DEF Origin, Publishing
  <2>3. u \in Unreleased(root[c])
    BY <1>6, <2>1, <2>2 DEF Unreleased, GoPool!Running
  <2>4. QED
    BY <1>2, <2>3 DEF Drained
<1>7. QED
  BY <1>4, <1>5, <1>6

\* So no branch is left between its choice and its execution.
LEMMA BranchesDone ==
  ASSUME IInv, GInv, NEW c \in Callers, pc[c] = "returned", ~canceled[root[c]],
         NEW n \in Nodes, graphOf[n] = root[c]
  PROVE  Given(Branches(n)) = Cardinality(Executions(Branches(n)))
<1> DEFINE S == Branches(n)
<1>1. S \in SUBSET Nodes /\ \A m \in S : graphOf[m] = root[c]
  BY BranchPlace DEF Branches
<1>2. Drained(root[c])
  BY ReturnedIsQuiet, ZeroDrains, FlowAssumption
<1> HIDE DEF S
<1>3. {i \in DOMAIN wq : wq[i] \in S} = {} /\ {i \in DOMAIN taskQ : taskQ[i] \in S} = {}
  BY <1>1, <1>2 DEF Drained
<1>4. Held(S) = {}
  <2> SUFFICES ASSUME NEW u \in Threads, u \in InHand, hand[u] \in S PROVE FALSE
    BY DEF Held, InHand
  <2>1. graphOf[hand[u]] = root[c]
    BY <1>1
  <2>2. pc[u] = "ref"
    BY <1>2, <2>1 DEF Drained, Carried
  <2>3. Origin(u) = root[c]
    BY <2>1, <2>2 DEF GInv, Places, Place, ClaimPlace
  <2>4. QED
    BY <2>2, <2>3, NobodyClaims DEF Publishing
<1>5. Opening(S) = {}
  <2> SUFFICES ASSUME NEW w \in Workers, pc[w] = "begin", slot[w] \in S PROVE FALSE
    BY DEF Opening
  <2>1. slot[w] \in Nodes /\ graphOf[slot[w]] = root[c] /\ ~Released(w)
    BY <1>1 DEF Released
  <2>2. w \in Unreleased(root[c])
    BY <2>1 DEF Unreleased, GoPool!Running
  <2>3. QED
    BY <1>2, <2>2 DEF Drained
<1>6. Picked(S) = {}
  <2> SUFFICES ASSUME NEW u \in Threads, NEW m \in S, m \in todo[u] PROVE FALSE
    BY DEF Picked
  <2>1. /\ Publishing(u) \/ pc[u] \in {"check", "resetup"}
        /\ pc[u] = "resetup" => Typ[slot[u]] /= "condition"
        /\ Origin(u) = root[c]
    BY <1>1 DEF GInv, Places, Place, ClaimPlace
  <2>2. QED
    BY <2>1, NobodyClaims
<1>7. Sized(S)
  BY <1>1, GivenTypes DEF IInv
<1>8. Given(S) = Cardinality(Executions(S))
  BY <1>3, <1>4, <1>5, <1>6, <1>7, FS_EmptySet DEF Given, Count, Sized
<1>9. QED
  BY <1>8 DEF S

LEMMA OneBranchFollows == IInv /\ GInv /\ BInv => OneBranch
<1> SUFFICES ASSUME IInv, GInv, BInv, NEW n \in Nodes, Typ[n] = "condition"
             PROVE  /\ LET S == {m \in Branches(n) : canceled[graphOf[n]] => Typ[m] /= "condition"}
                       IN  Cardinality(Executions(S)) <= fin[n]
                    /\ \A c \in Callers :
                         /\ pc[c] = "returned" /\ root[c] = graphOf[n] /\ ~canceled[root[c]]
                         /\ \A i \in DOMAIN successors[n] : successors[n][i] \in Branches(n)
                         => Cardinality(Executions(Branches(n))) = fin[n]
  BY DEF OneBranch
<1>1. Branches(n) \in SUBSET Nodes
  BY DEF Branches
<1>2. ASSUME NEW S \in SUBSET Branches(n), Tallied(n, S)
      PROVE  Cardinality(Executions(S)) <= fin[n]
  <2>1. Given(S) <= fin[n] /\ Sized(S) /\ fin[n] \in Nat
    BY <1>1, <1>2, GivenTypes DEF BInv, Dealt, IInv, TypeOK, NodeTypes
  <2>2. QED
    BY <2>1 DEF Sized, Given
<1> DEFINE S == {m \in Branches(n) : canceled[graphOf[n]] => Typ[m] /= "condition"}
<1>3. Cardinality(Executions(S)) <= fin[n]
  <2>1. S \in SUBSET Branches(n) /\ Tallied(n, S)
    BY DEF Tallied
  <2> HIDE DEF S
  <2>2. QED
    BY <1>2, <2>1
<1>4. ASSUME NEW c \in Callers, pc[c] = "returned", root[c] = graphOf[n], ~canceled[root[c]],
             \A i \in DOMAIN successors[n] : successors[n][i] \in Branches(n)
      PROVE  Cardinality(Executions(Branches(n))) = fin[n]
  <2>1. Exclusive(n)
    <3> SUFFICES ASSUME NEW i \in DOMAIN mapper[n] PROVE mapper[n][i] \in Branches(n)
      BY DEF Exclusive
    <3>1. PICK j \in DOMAIN successors[n] : successors[n][j] = mapper[n][i]
      BY NestingAssumption
    <3>2. QED
      BY <1>4, <3>1
  <2>2. Tallied(n, Branches(n))
    BY <1>4 DEF Tallied
  <2>3. Given(Branches(n)) = fin[n]
    BY <1>4, <2>1, <2>2 DEF BInv, Dealt
  <2>4. QED
    BY <1>4, <2>3, BranchesDone
<1>5. QED
  BY <1>3, <1>4

\* A condition releases one successor for each of its answers, and Run returns
\* only when each of them has been executed: for every flow in which no graph is
\* driven twice at once, loops and panics included.
THEOREM BranchesCounted == Spec /\ []OneDriver => []OneBranch
<1>1. Init => BInv
  BY InitBranches
<1>2. IInv /\ GInv /\ BInv /\ [Next]_vars => BInv'
  BY NextBranches
<1>3. IInv /\ GInv /\ BInv => OneBranch
  BY OneBranchFollows
<1>4. QED
  BY <1>1, <1>2, <1>3, Invariance, GraphInvariance, PTL DEF Spec

\* In particular for every flow whose conditions choose no subflow.
THEOREM BranchesSafe ==
  ASSUME SubflowsUnchosen
  PROVE  Spec => []OneBranch
BY OneDriverHolds, BranchesCounted, PTL
=============================================================================
