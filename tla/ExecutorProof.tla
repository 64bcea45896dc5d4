---------------------------- MODULE ExecutorProof ----------------------------
(***************************************************************************)
(* What holds of Executor.tla for every flow, every number of callers and  *)
(* workers: its type invariant and the meaning of the WaitGroup.           *)
(*                                                                         *)
(* The inductive invariant IInv joins three facts.  TypeOK alone is not    *)
(* inductive: that wg stays a natural number follows from what it counts   *)
(* (WgAccounting), and that the nodes taken out of successors, mapper and  *)
(* slot are nodes follows from where a thread is (ThreadShape).            *)
(***************************************************************************)
EXTENDS Executor, FiniteSetTheorems, TLAPS

USE ThreadsAssumption DEF Threads

\* What a program counter says of the thread's local variables.
ThreadShape ==
  /\ \A t \in Threads : pc[t] \in {"ref", "push", "go"} => hand[t] \in Nodes
  /\ \A w \in Workers : pc[w] = "idle" <=> slot[w] = None
  /\ \A w \in Workers : pc[w] \in {"drop", "check"} => idx[w] \in DOMAIN successors[slot[w]]
  /\ \A w \in Workers : pc[w] \notin {"drop", "check"} => idx[w] = 1
  /\ \A w \in Workers : pc[w] = "handle" => ran[slot[w]] > 0

IInv == TypeOK /\ ThreadShape /\ WgAccounting

-----------------------------------------------------------------------------
\* A step moves thread t to l and may wake threads that wait on a condition
\* variable.
Moves(t, l) ==
  /\ pc' \in [Threads -> PCs]
  /\ pc'[t] = l
  /\ \A u \in Threads \ {t} : pc'[u] = pc[u] \/ (pc[u] = "waiting" /\ pc'[u] = "loop")

\* A step that wakes nobody.
LEMMA GotoMoves ==
  ASSUME pc \in [Threads -> PCs], NEW t \in Threads, NEW l \in PCs, pc' = Goto(t, l)
  PROVE  Moves(t, l)
BY DEF Moves, Goto

\* A step that signals a condition variable.
LEMMA SignalMoves ==
  ASSUME pc \in [Threads -> PCs], NEW t \in Threads, NEW l \in PCs, NEW g,
         pc[t] /= "waiting", pc' \in Signal(g, Goto(t, l))
  PROVE  Moves(t, l)
<1>1. CASE Waiters(g) = {}
  BY <1>1 DEF Moves, Goto, Signal
<1>2. CASE Waiters(g) /= {}
  <2>1. PICK u \in Waiters(g) : pc' = [Goto(t, l) EXCEPT ![u] = "loop"]
    BY <1>2 DEF Signal
  <2>2. u \in Threads /\ u /= t /\ pc[u] = "waiting"
    BY <2>1 DEF Waiters
  <2>3. QED
    BY <2>1, <2>2 DEF Moves, Goto, PCs
<1>3. QED
  BY <1>1, <1>2

-----------------------------------------------------------------------------
\* A function keeps its type under an assignment to one of its arguments.
LEMMA ExceptType ==
  ASSUME NEW S, NEW T, NEW f \in [S -> T], NEW x, NEW v \in T
  PROVE  [f EXCEPT ![x] = v] \in [S -> T]
OBVIOUS

-----------------------------------------------------------------------------
\* Counting.
LEMMA CountAdd ==
  ASSUME NEW S, IsFiniteSet(S), NEW x, x \notin S
  PROVE  IsFiniteSet(S \cup {x}) /\ Cardinality(S \cup {x}) = Cardinality(S) + 1
BY FS_AddElement

LEMMA CountRemove ==
  ASSUME NEW S, IsFiniteSet(S), NEW x \in S
  PROVE  /\ IsFiniteSet(S \ {x})
         /\ Cardinality(S \ {x}) \in Nat
         /\ Cardinality(S) = Cardinality(S \ {x}) + 1
<1>1. IsFiniteSet(S \ {x}) /\ Cardinality(S \ {x}) = Cardinality(S) - 1
  BY FS_RemoveElement
<1>2. Cardinality(S \ {x}) \in Nat /\ Cardinality(S) \in Nat
  BY <1>1, FS_CardinalityType
<1>3. QED
  BY <1>1, <1>2

LEMMA FiniteCounts ==
  /\ IsFiniteSet(InHand) /\ Cardinality(InHand) \in Nat
  /\ IsFiniteSet(GoPool!Running) /\ Cardinality(GoPool!Running) \in Nat
<1>1. IsFiniteSet(Threads)
  BY FS_Union
<1>2. InHand \subseteq Threads /\ GoPool!Running \subseteq Workers
  BY DEF InHand, GoPool!Running
<1>3. QED
  BY <1>1, <1>2, FS_Subset, FS_CardinalityType

\* The flow is finite.
LEMMA FiniteDependents ==
  ASSUME NEW n \in Nodes
  PROVE  IsFiniteSet(dependents[n])
<1> DEFINE At(p) == {i \in DOMAIN successors[p] : successors[p][i] = n}
           Into(p) == {<<p, i>> : i \in At(p)}
           Edges == {Into(p) : p \in Nodes}
<1>1. ASSUME NEW p \in Nodes PROVE IsFiniteSet(Into(p))
  <2>1. Len(successors[p]) \in Nat /\ DOMAIN successors[p] = 1..Len(successors[p])
    BY FlowAssumption
  <2>2. IsFiniteSet(At(p))
    <3>1. IsFiniteSet(1..Len(successors[p]))
      BY <2>1, FS_Interval
    <3>2. At(p) \subseteq 1..Len(successors[p])
      BY <2>1
    <3>3. QED
      BY <3>1, <3>2, FS_Subset
  <2>3. [i \in At(p) |-> <<p, i>>] \in Surjection(At(p), Into(p))
    BY DEF Surjection
  <2>4. QED
    BY <2>2, <2>3, FS_Surjection
<1>2. IsFiniteSet(Edges)
  <2>1. [p \in Nodes |-> Into(p)] \in Surjection(Nodes, Edges)
    BY DEF Surjection
  <2>2. QED
    BY <2>1, FS_Surjection
<1>3. dependents[n] = UNION Edges
  BY DEF dependents
<1>4. \A T \in Edges : IsFiniteSet(T)
  BY <1>1
<1>5. IsFiniteSet(UNION Edges)
  BY <1>2, <1>4, FS_UNION
<1>6. QED
  BY <1>3, <1>5

\* A node has finitely many strong predecessors.
LEMMA StrongDegreeType == \A n \in Nodes : strongDegree[n] \in Nat
<1> SUFFICES ASSUME NEW n \in Nodes PROVE strongDegree[n] \in Nat
  OBVIOUS
<1>1. strongDegree[n] = Cardinality({e \in dependents[n] : Typ[e[1]] /= "condition"})
  BY DEF strongDegree
<1>2. QED
  BY <1>1, FiniteDependents, FS_Subset, FS_CardinalityType

-----------------------------------------------------------------------------
\* Effects of a step on the set of threads that carry a node.
LEMMA InHandStays ==
  ASSUME NEW t \in Threads, NEW l, Moves(t, l),
         pc[t] \in {"ref", "push", "go"} <=> l \in {"ref", "push", "go"}
  PROVE  InHand' = InHand
BY DEF Moves, InHand

LEMMA InHandGains ==
  ASSUME NEW t \in Threads, NEW l, Moves(t, l),
         pc[t] \notin {"ref", "push", "go"}, l \in {"ref", "push", "go"}
  PROVE  Cardinality(InHand') = Cardinality(InHand) + 1
<1>1. InHand' = InHand \cup {t} /\ t \notin InHand
  BY DEF Moves, InHand
<1>2. QED
  BY <1>1, CountAdd, FiniteCounts

LEMMA InHandLoses ==
  ASSUME NEW t \in Threads, NEW l, Moves(t, l),
         pc[t] \in {"ref", "push", "go"}, l \notin {"ref", "push", "go"}
  PROVE  Cardinality(InHand') = Cardinality(InHand) - 1
<1>1. InHand' = InHand \ {t} /\ t \in InHand
  BY DEF Moves, InHand
<1>2. Cardinality(InHand \ {t}) \in Nat /\ Cardinality(InHand) = Cardinality(InHand \ {t}) + 1
  BY <1>1, CountRemove, FiniteCounts
<1>3. QED
  BY <1>1, <1>2

\* A step that moves no node keeps the account.
LEMMA WgStays ==
  ASSUME WgAccounting, NEW t \in Threads, NEW l, Moves(t, l),
         pc[t] \in {"ref", "push", "go"} <=> l \in {"ref", "push", "go"},
         UNCHANGED <<wg, wq, taskQ, slot>>
  PROVE  WgAccounting'
BY InHandStays DEF WgAccounting, GoPool!Running

\* What ThreadShape says in the next state of the threads that do not step.
LEMMA ShapeOfOthers ==
  ASSUME ThreadShape, NEW t \in Threads, NEW l, Moves(t, l),
         \A u \in Threads \ {t} : hand'[u] = hand[u] /\ idx'[u] = idx[u],
         \A w \in Workers \ {t} : slot'[w] = slot[w],
         ran' \in [Nodes -> Nat], \A n \in Nodes : ran'[n] >= ran[n],
         TypeOK
  PROVE  /\ \A u \in Threads \ {t} : pc'[u] \in {"ref", "push", "go"} => hand'[u] \in Nodes
         /\ \A w \in Workers \ {t} :
              /\ pc'[w] = "idle" <=> slot'[w] = None
              /\ pc'[w] \in {"drop", "check"} => idx'[w] \in DOMAIN successors[slot'[w]]
              /\ pc'[w] \notin {"drop", "check"} => idx'[w] = 1
              /\ pc'[w] = "handle" => ran'[slot'[w]] > 0
<1>1. \A u \in Threads \ {t} : pc'[u] \in {"ref", "push", "go"} => hand'[u] \in Nodes
  BY DEF ThreadShape, Moves
<1>2. ASSUME NEW w \in Workers \ {t}
      PROVE  /\ pc'[w] = "idle" <=> slot'[w] = None
             /\ pc'[w] \in {"drop", "check"} => idx'[w] \in DOMAIN successors[slot'[w]]
             /\ pc'[w] \notin {"drop", "check"} => idx'[w] = 1
             /\ pc'[w] = "handle" => ran'[slot'[w]] > 0
  <2>1. slot'[w] = slot[w] /\ idx'[w] = idx[w] /\ w \in Threads \ {t}
    BY <1>2
  <2>2. pc'[w] = pc[w] \/ (pc[w] = "waiting" /\ pc'[w] = "loop")
    BY <2>1 DEF Moves
  <2>3. ASSUME pc'[w] = "handle" PROVE ran'[slot'[w]] > 0
    <3>1. pc[w] = "handle" /\ slot[w] /= None
      BY <2>2, <2>3 DEF ThreadShape
    <3>2. slot[w] \in Nodes
      BY <3>1 DEF TypeOK, QueueTypes, GoPool!TypeOK
    <3>3. ran[slot[w]] > 0 /\ ran[slot[w]] \in Nat /\ ran'[slot[w]] >= ran[slot[w]]
      BY <3>1, <3>2 DEF ThreadShape, TypeOK, NodeTypes
    <3>4. ran'[slot[w]] \in Nat
      BY <3>2
    <3>5. QED
      BY <3>3, <3>4, <2>1
  <2>4. QED
    BY <2>1, <2>2, <2>3 DEF ThreadShape
<1>3. QED
  BY <1>1, <1>2

\* ThreadShape, from what the threads that do not step keep and the one that does shows.
LEMMA ShapeOfAll ==
  ASSUME ThreadShape, NEW t \in Threads, NEW l, Moves(t, l),
         \A u \in Threads \ {t} : hand'[u] = hand[u] /\ idx'[u] = idx[u],
         \A w \in Workers \ {t} : slot'[w] = slot[w],
         ran' \in [Nodes -> Nat], \A n \in Nodes : ran'[n] >= ran[n],
         TypeOK,
         l \in {"ref", "push", "go"} => hand'[t] \in Nodes,
         t \in Workers =>
           /\ l = "idle" <=> slot'[t] = None
           /\ l \in {"drop", "check"} => idx'[t] \in DOMAIN successors[slot'[t]]
           /\ l \notin {"drop", "check"} => idx'[t] = 1
           /\ l = "handle" => ran'[slot'[t]] > 0
  PROVE  ThreadShape'
<1>1. pc'[t] = l
  BY DEF Moves
<1>2. /\ \A u \in Threads \ {t} : pc'[u] \in {"ref", "push", "go"} => hand'[u] \in Nodes
      /\ \A w \in Workers \ {t} :
           /\ pc'[w] = "idle" <=> slot'[w] = None
           /\ pc'[w] \in {"drop", "check"} => idx'[w] \in DOMAIN successors[slot'[w]]
           /\ pc'[w] \notin {"drop", "check"} => idx'[w] = 1
           /\ pc'[w] = "handle" => ran'[slot'[w]] > 0
  BY ShapeOfOthers
<1>3. \A u \in Threads : pc'[u] \in {"ref", "push", "go"} => hand'[u] \in Nodes
  BY <1>1, <1>2
<1>4. ASSUME NEW w \in Workers
      PROVE  /\ pc'[w] = "idle" <=> slot'[w] = None
             /\ pc'[w] \in {"drop", "check"} => idx'[w] \in DOMAIN successors[slot'[w]]
             /\ pc'[w] \notin {"drop", "check"} => idx'[w] = 1
             /\ pc'[w] = "handle" => ran'[slot'[w]] > 0
  <2>1. CASE w = t
    BY <1>1, <2>1
  <2>2. CASE w /= t
    BY <1>2, <2>2
  <2>3. QED
    BY <2>1, <2>2
<1>5. QED
  BY <1>3, <1>4 DEF ThreadShape

\* ThreadShape after a step outside the closures of nodes.
LEMMA ShapeStays ==
  ASSUME ThreadShape, TypeOK, NEW t \in Threads, NEW l, Moves(t, l),
         UNCHANGED <<idx, slot, ran>>,
         \A u \in Threads \ {t} : hand'[u] = hand[u],
         l \in {"ref", "push", "go"} => hand'[t] \in Nodes,
         t \in Workers => /\ pc[t] \notin {"idle", "drop", "check"}
                          /\ l \notin {"idle", "drop", "check", "handle"}
  PROVE  ThreadShape'
<1>1. ran' \in [Nodes -> Nat] /\ \A n \in Nodes : ran'[n] >= ran[n]
  BY DEF TypeOK, NodeTypes
<1>2. t \in Workers =>
        /\ l = "idle" <=> slot'[t] = None
        /\ l \in {"drop", "check"} => idx'[t] \in DOMAIN successors[slot'[t]]
        /\ l \notin {"drop", "check"} => idx'[t] = 1
        /\ l = "handle" => ran'[slot'[t]] > 0
  BY DEF ThreadShape
<1>3. /\ \A u \in Threads \ {t} : hand'[u] = hand[u] /\ idx'[u] = idx[u]
      /\ \A w \in Workers \ {t} : slot'[w] = slot[w]
  OBVIOUS
<1>4. QED
  BY <1>1, <1>2, <1>3, ShapeOfAll

-----------------------------------------------------------------------------
\* A worker that is not idle has a node.
LEMMA SlotIsNode ==
  ASSUME IInv, NEW w \in Workers, pc[w] /= "idle"
  PROVE  slot[w] \in Nodes /\ graphOf[slot[w]] \in Graphs /\ successors[slot[w]] \in Seq(Nodes)
<1>1. slot[w] \in Nodes
  BY DEF IInv, ThreadShape, TypeOK, QueueTypes, GoPool!TypeOK
<1>2. QED
  BY <1>1, FlowAssumption

\* Where a closure goes after its handler.
LEMMA DroppingPlace ==
  ASSUME NEW n \in Nodes
  PROVE  /\ Dropping(n) \in {"resetup", "drop"}
         /\ Dropping(n) = "drop" => 1 \in DOMAIN successors[n]
<1>1. successors[n] \in Seq(Nodes)
  BY FlowAssumption
<1>2. successors[n] /= <<>> => 1 \in DOMAIN successors[n]
  BY <1>1
<1>3. QED
  BY <1>2 DEF Dropping

LEMMA DeferredPlace ==
  ASSUME NEW n \in Nodes
  PROVE  /\ Deferred(n) \in {"resetup", "drop", "setup", "deref"}
         /\ Deferred(n) = "drop" => 1 \in DOMAIN successors[n]
<1>1. Typ[n] \in {"static", "subflow", "condition"}
  BY FlowAssumption
<1>2. QED
  BY <1>1, DroppingPlace DEF Deferred

\* ThreadShape after a step of a closure that is not in its loops.
LEMMA ShapeDeferred ==
  ASSUME ThreadShape, TypeOK, NEW w \in Workers, NEW l, Moves(w, l),
         UNCHANGED <<idx, slot, hand>>,
         ran' \in [Nodes -> Nat], \A n \in Nodes : ran'[n] >= ran[n],
         pc[w] \notin {"idle", "drop", "check"},
         l \in {"resetup", "drop", "setup", "deref", "schedule", "done"},
         l = "drop" => 1 \in DOMAIN successors[slot[w]]
  PROVE  ThreadShape'
<1>1. /\ l = "idle" <=> slot'[w] = None
      /\ l \in {"drop", "check"} => idx'[w] \in DOMAIN successors[slot'[w]]
      /\ l \notin {"drop", "check"} => idx'[w] = 1
      /\ l = "handle" => ran'[slot'[w]] > 0
  BY DEF ThreadShape
<1>2. /\ \A u \in Threads \ {w} : hand'[u] = hand[u] /\ idx'[u] = idx[u]
      /\ \A v \in Workers \ {w} : slot'[v] = slot[v]
  OBVIOUS
<1>3. QED
  BY <1>1, <1>2, ShapeOfAll

\* A handler call is counted once more; the other counters stay.
LEMMA RanGrows ==
  ASSUME ran \in [Nodes -> Nat], NEW n \in Nodes,
         ran' = [ran EXCEPT ![n] = ran[n] + 1] \/ ran' = ran
  PROVE  ran' \in [Nodes -> Nat] /\ \A m \in Nodes : ran'[m] >= ran[m]
<1>1. ran' \in [Nodes -> Nat]
  BY ExceptType
<1>2. ASSUME NEW m \in Nodes PROVE ran'[m] = ran[m] \/ ran'[m] = ran[m] + 1
  OBVIOUS
<1>3. ASSUME NEW m \in Nodes PROVE ran'[m] >= ran[m]
  <2>1. ran[m] \in Nat
    OBVIOUS
  <2>2. QED
    BY <1>2, <2>1
<1>4. QED
  BY <1>1, <1>3

-----------------------------------------------------------------------------
(***************************************************************************)
(* Each action preserves the invariant.                                    *)
(***************************************************************************)

LEMMA RunInv ==
  ASSUME IInv, NEW c \in Callers, Run(c)
  PROVE  IInv'
<1>1. Moves(c, "setup")
  BY GotoMoves DEF Run, IInv, TypeOK, ThreadTypes, PCs
<1>2. ThreadTypes'
  BY <1>1 DEF IInv, TypeOK, Run, ThreadTypes, Moves
<1>3. QueueTypes'
  BY <1>1 DEF IInv, TypeOK, Run, QueueTypes, GoPool!TypeOK, poolVars
<1>4. GraphTypes'
  BY <1>1 DEF IInv, TypeOK, Run, GraphTypes, graphVars
<1>5. NodeTypes'
  BY <1>1 DEF IInv, TypeOK, Run, NodeTypes, nodeVars, histVars
<1>6. TypeOK'
  BY <1>2, <1>3, <1>4, <1>5 DEF TypeOK
<1>7. ThreadShape'
  BY <1>1, ShapeStays DEF IInv, TypeOK, Run, ThreadTypes, poolVars, histVars
<1>8. WgAccounting'
  BY <1>1, WgStays DEF IInv, Run, poolVars
<1>9. QED
  BY <1>6, <1>7, <1>8 DEF IInv

LEMMA WaitInv ==
  ASSUME IInv, NEW c \in Callers, Wait(c)
  PROVE  IInv'
<1>1. Moves(c, "idle")
  BY GotoMoves DEF Wait, IInv, TypeOK, ThreadTypes, PCs
<1>2. ThreadTypes'
  BY <1>1 DEF IInv, TypeOK, Wait, ThreadTypes, Moves
<1>3. QueueTypes'
  BY <1>1 DEF IInv, TypeOK, Wait, QueueTypes, GoPool!TypeOK, poolVars
<1>4. GraphTypes'
  BY <1>1 DEF IInv, TypeOK, Wait, GraphTypes, graphVars
<1>5. NodeTypes'
  BY <1>1 DEF IInv, TypeOK, Wait, NodeTypes, nodeVars, histVars
<1>6. TypeOK'
  BY <1>2, <1>3, <1>4, <1>5 DEF TypeOK
<1>7. ThreadShape'
  BY <1>1, ShapeStays DEF IInv, TypeOK, Wait, ThreadTypes, poolVars, histVars
<1>8. WgAccounting'
  BY <1>1, WgStays DEF IInv, Wait, poolVars
<1>9. QED
  BY <1>6, <1>7, <1>8 DEF IInv

LEMMA ResetInv ==
  ASSUME IInv, NEW t \in Threads, Reset(t)
  PROVE  IInv'
<1>1. Moves(t, "entries")
  BY GotoMoves DEF Reset, IInv, TypeOK, ThreadTypes, PCs
<1>2. pc[t] = "setup"
  BY DEF Reset
<1>3. gJoin' = [gJoin EXCEPT ![Invoked(t)] = 0] /\ UNCHANGED <<L, canceled, instantiated>>
  BY DEF Reset
<1>4. ThreadTypes'
  BY <1>1, <1>2, <1>3 DEF IInv, TypeOK, Reset, ThreadTypes, Moves
<1>5. QueueTypes'
  BY <1>1, <1>2, <1>3 DEF IInv, TypeOK, Reset, QueueTypes, GoPool!TypeOK, poolVars
<1>6. GraphTypes'
  <2>1. gJoin' \in [Graphs -> Int]
    BY <1>3, ExceptType DEF IInv, TypeOK, GraphTypes
  <2>2. QED
    BY <1>3, <2>1 DEF IInv, TypeOK, GraphTypes
<1>7. NodeTypes'
  BY <1>1, <1>2, <1>3 DEF IInv, TypeOK, Reset, NodeTypes, nodeVars, histVars
<1>8. TypeOK'
  BY <1>4, <1>5, <1>6, <1>7 DEF TypeOK
<1>9. ThreadShape'
  BY <1>1, <1>2, <1>3, ShapeStays DEF IInv, TypeOK, Reset, ThreadTypes, poolVars, histVars
<1>10. WgAccounting'
  BY <1>1, <1>2, <1>3, WgStays DEF IInv, Reset, poolVars
<1>11. QED
  BY <1>8, <1>9, <1>10 DEF IInv

LEMMA SetupInv ==
  ASSUME IInv, NEW t \in Threads, Setup(t)
  PROVE  IInv'
<1>1. PICK l \in {"schedule", "loop"} : Moves(t, l)
  BY GotoMoves DEF Setup, IInv, TypeOK, ThreadTypes, PCs, Scheduling
<1>2. pc[t] = "entries"
  BY DEF Setup
<1>3. PICK S \in SUBSET Nodes : todo' = [todo EXCEPT ![t] = S]
  BY DEF Setup, NodesIn
<1>4. ThreadTypes'
  BY <1>1, <1>2, <1>3 DEF IInv, TypeOK, Setup, ThreadTypes, Moves
<1>5. QueueTypes'
  BY <1>1, <1>2, <1>3 DEF IInv, TypeOK, Setup, QueueTypes, GoPool!TypeOK, poolVars
<1>6. GraphTypes'
  BY <1>1, <1>2, <1>3 DEF IInv, TypeOK, Setup, GraphTypes, graphVars
<1>7. NodeTypes'
  BY <1>1, <1>2, <1>3, StrongDegreeType DEF IInv, TypeOK, Setup, NodeTypes, nodeVars, histVars
<1>8. TypeOK'
  BY <1>4, <1>5, <1>6, <1>7 DEF TypeOK
<1>9. ThreadShape'
  BY <1>1, <1>2, <1>3, ShapeStays DEF IInv, TypeOK, Setup, ThreadTypes, poolVars, histVars
<1>10. WgAccounting'
  BY <1>1, <1>2, <1>3, WgStays DEF IInv, Setup, poolVars
<1>11. QED
  BY <1>8, <1>9, <1>10 DEF IInv

LEMMA ScheduleAddInv ==
  ASSUME IInv, NEW t \in Threads, ScheduleAdd(t)
  PROVE  IInv'
<1>1. Moves(t, "ref")
  BY GotoMoves DEF ScheduleAdd, IInv, TypeOK, ThreadTypes, PCs
<1>2. PICK n \in MostUrgent(todo[t]) :
        /\ hand' = [hand EXCEPT ![t] = n]
        /\ todo' = [todo EXCEPT ![t] = @ \ {n}]
  BY DEF ScheduleAdd
<1>3. n \in Nodes
  BY DEF MostUrgent, IInv, TypeOK, ThreadTypes
<1>4. ThreadTypes'
  BY <1>1, <1>2, <1>3 DEF IInv, TypeOK, ScheduleAdd, ThreadTypes, Moves
<1>5. QueueTypes'
  BY <1>1, <1>2, <1>3 DEF IInv, TypeOK, ScheduleAdd, QueueTypes, GoPool!TypeOK, poolVars
<1>6. GraphTypes'
  BY <1>1, <1>2, <1>3 DEF IInv, TypeOK, ScheduleAdd, GraphTypes, graphVars
<1>7. NodeTypes'
  BY <1>1, <1>2, <1>3 DEF IInv, TypeOK, ScheduleAdd, NodeTypes, nodeVars, histVars
<1>8. TypeOK'
  BY <1>4, <1>5, <1>6, <1>7 DEF TypeOK
<1>9. ThreadShape'
  BY <1>1, <1>2, <1>3, ShapeStays DEF IInv, TypeOK, ScheduleAdd, ThreadTypes, poolVars, histVars
<1>10. WgAccounting'
  <2>1. Cardinality(InHand') = Cardinality(InHand) + 1
    BY <1>1, InHandGains DEF ScheduleAdd
  <2>2. Len(wq) \in Nat /\ Len(taskQ) \in Nat /\ wg \in Nat
    BY DEF IInv, TypeOK, QueueTypes, GoPool!TypeOK
  <2>3. QED
    BY <2>1, <2>2, FiniteCounts DEF IInv, WgAccounting, GoPool!Running, ScheduleAdd, poolVars
<1>11. QED
  BY <1>8, <1>9, <1>10 DEF IInv

LEMMA ScheduleRefInv ==
  ASSUME IInv, NEW t \in Threads, ScheduleRef(t)
  PROVE  IInv'
<1>1. Moves(t, "push")
  BY GotoMoves DEF ScheduleRef, IInv, TypeOK, ThreadTypes, PCs
<1>2. hand[t] \in Nodes
  BY DEF ScheduleRef, IInv, ThreadShape
<1>3. ThreadTypes'
  BY <1>1, <1>2 DEF IInv, TypeOK, ScheduleRef, ThreadTypes, Moves
<1>4. QueueTypes'
  BY <1>1, <1>2 DEF IInv, TypeOK, ScheduleRef, QueueTypes, GoPool!TypeOK, poolVars
<1>5. GraphTypes'
  <2> DEFINE g == graphOf[hand[t]]
  <2>1. g \in Graphs
    BY <1>2, FlowAssumption
  <2>2. L' = [L EXCEPT ![g] = t] /\ gJoin' = [gJoin EXCEPT ![g] = gJoin[g] + 1]
    BY DEF ScheduleRef
  <2>3. gJoin[g] + 1 \in Int
    BY <2>1 DEF IInv, TypeOK, GraphTypes
  <2> HIDE DEF g
  <2>4. L' \in [Graphs -> Threads \cup {None}] /\ gJoin' \in [Graphs -> Int]
    BY <2>2, <2>3, ExceptType DEF IInv, TypeOK, GraphTypes
  <2>5. QED
    BY <2>4 DEF ScheduleRef, IInv, TypeOK, GraphTypes
<1>6. NodeTypes'
  BY <1>1, <1>2 DEF IInv, TypeOK, ScheduleRef, NodeTypes, nodeVars, histVars
<1>7. TypeOK'
  BY <1>3, <1>4, <1>5, <1>6 DEF TypeOK
<1>8. ThreadShape'
  BY <1>1, <1>2, ShapeStays DEF IInv, TypeOK, ScheduleRef, ThreadTypes, poolVars, histVars
<1>9. WgAccounting'
  BY <1>1, <1>2, WgStays DEF IInv, ScheduleRef, poolVars
<1>10. QED
  BY <1>7, <1>8, <1>9 DEF IInv

LEMMA SchedulePushInv ==
  ASSUME IInv, NEW t \in Threads, SchedulePush(t)
  PROVE  IInv'
<1>1. PICK l \in {"schedule", "loop", "deref"} : Moves(t, l)
  <2>1. Scheduling(todo[t], ret[t]) \in {"schedule", "loop", "deref"}
    BY DEF IInv, TypeOK, ThreadTypes, Scheduling
  <2>2. QED
    BY <2>1, SignalMoves DEF SchedulePush, IInv, TypeOK, ThreadTypes, PCs
<1>2. hand[t] \in Nodes
  BY DEF SchedulePush, IInv, ThreadShape
<1>3. L' = [L EXCEPT ![graphOf[hand[t]]] = None] /\ UNCHANGED graphVars
  BY DEF SchedulePush
<1>4. ThreadTypes'
  BY <1>1, <1>2, <1>3 DEF IInv, TypeOK, SchedulePush, ThreadTypes, Moves
<1>5. QueueTypes'
  BY <1>1, <1>2, <1>3 DEF IInv, TypeOK, SchedulePush, QueueTypes, GoPool!TypeOK, poolVars
<1>6. GraphTypes'
  <2>1. L' \in [Graphs -> Threads \cup {None}]
    BY <1>3, ExceptType DEF IInv, TypeOK, GraphTypes
  <2>2. QED
    BY <1>3, <2>1 DEF IInv, TypeOK, GraphTypes, graphVars
<1>7. NodeTypes'
  BY <1>1, <1>2, <1>3 DEF IInv, TypeOK, SchedulePush, NodeTypes, nodeVars, histVars
<1>8. TypeOK'
  BY <1>4, <1>5, <1>6, <1>7 DEF TypeOK
<1>9. ThreadShape'
  BY <1>1, <1>2, <1>3, ShapeStays DEF IInv, TypeOK, SchedulePush, ThreadTypes, poolVars, histVars
<1>10. WgAccounting'
  <2>1. Cardinality(InHand') = Cardinality(InHand) - 1
    BY <1>1, InHandLoses DEF SchedulePush
  <2>2. Len(wq') = Len(wq) + 1 /\ Len(wq) \in Nat /\ Len(taskQ) \in Nat /\ wg \in Nat
    BY <1>2 DEF SchedulePush, IInv, TypeOK, QueueTypes, GoPool!TypeOK
  <2>3. QED
    BY <2>1, <2>2, FiniteCounts DEF IInv, WgAccounting, GoPool!Running, SchedulePush, poolVars
<1>11. QED
  BY <1>8, <1>9, <1>10 DEF IInv

LEMMA ScheduleCanceledInv ==
  ASSUME IInv, NEW t \in Threads, ScheduleCanceled(t)
  PROVE  IInv'
<1>1. PICK l \in {"loop", "deref"} : Moves(t, l)
  <2>1. ret[t] \in {"loop", "deref"}
    BY DEF IInv, TypeOK, ThreadTypes
  <2>2. QED
    BY <2>1, SignalMoves DEF ScheduleCanceled, IInv, TypeOK, ThreadTypes, PCs
<1>2. ThreadTypes'
  BY <1>1 DEF IInv, TypeOK, ScheduleCanceled, ThreadTypes, Moves
<1>3. QueueTypes'
  BY <1>1 DEF IInv, TypeOK, ScheduleCanceled, QueueTypes, GoPool!TypeOK, poolVars
<1>4. GraphTypes'
  BY <1>1 DEF IInv, TypeOK, ScheduleCanceled, GraphTypes, graphVars
<1>5. NodeTypes'
  BY <1>1 DEF IInv, TypeOK, ScheduleCanceled, NodeTypes, nodeVars, histVars
<1>6. TypeOK'
  BY <1>2, <1>3, <1>4, <1>5 DEF TypeOK
<1>7. ThreadShape'
  BY <1>1, ShapeStays DEF IInv, TypeOK, ScheduleCanceled, ThreadTypes, poolVars, histVars
<1>8. WgAccounting'
  BY <1>1, WgStays DEF IInv, ScheduleCanceled, poolVars
<1>9. QED
  BY <1>6, <1>7, <1>8 DEF IInv

LEMMA InvokeLoopInv ==
  ASSUME IInv, NEW t \in Threads, InvokeLoop(t)
  PROVE  IInv'
<1>1. PICK l \in {"waiting", "pop"} : Moves(t, l)
  BY GotoMoves DEF InvokeLoop, IInv, TypeOK, ThreadTypes, PCs
<1>2. ThreadTypes'
  BY <1>1 DEF IInv, TypeOK, InvokeLoop, ThreadTypes, Moves
<1>3. QueueTypes'
  BY <1>1 DEF IInv, TypeOK, InvokeLoop, QueueTypes, GoPool!TypeOK, poolVars
<1>4. GraphTypes'
  BY <1>1 DEF IInv, TypeOK, InvokeLoop, GraphTypes, graphVars
<1>5. NodeTypes'
  BY <1>1 DEF IInv, TypeOK, InvokeLoop, NodeTypes, nodeVars, histVars
<1>6. TypeOK'
  BY <1>2, <1>3, <1>4, <1>5 DEF TypeOK
<1>7. ThreadShape'
  BY <1>1, ShapeStays DEF IInv, TypeOK, InvokeLoop, ThreadTypes, poolVars, histVars
<1>8. WgAccounting'
  BY <1>1, WgStays DEF IInv, InvokeLoop, poolVars
<1>9. QED
  BY <1>6, <1>7, <1>8 DEF IInv

LEMMA InvokeLeaveInv ==
  ASSUME IInv, NEW t \in Threads, InvokeLeave(t)
  PROVE  IInv'
<1>1. Moves(t, "return")
  BY GotoMoves DEF InvokeLeave, IInv, TypeOK, ThreadTypes, PCs
<1>2. ThreadTypes'
  BY <1>1 DEF IInv, TypeOK, InvokeLeave, ThreadTypes, Moves
<1>3. QueueTypes'
  BY <1>1 DEF IInv, TypeOK, InvokeLeave, QueueTypes, GoPool!TypeOK, poolVars
<1>4. GraphTypes'
  BY <1>1 DEF IInv, TypeOK, InvokeLeave, GraphTypes, graphVars
<1>5. NodeTypes'
  BY <1>1 DEF IInv, TypeOK, InvokeLeave, NodeTypes, nodeVars, histVars
<1>6. TypeOK'
  BY <1>2, <1>3, <1>4, <1>5 DEF TypeOK
<1>7. ThreadShape'
  BY <1>1, ShapeStays DEF IInv, TypeOK, InvokeLeave, ThreadTypes, poolVars, histVars
<1>8. WgAccounting'
  BY <1>1, WgStays DEF IInv, InvokeLeave, poolVars
<1>9. QED
  BY <1>6, <1>7, <1>8 DEF IInv

LEMMA InvokePopInv ==
  ASSUME IInv, NEW t \in Threads, InvokePop(t)
  PROVE  IInv'
<1>1. Moves(t, "go")
  BY GotoMoves DEF InvokePop, IInv, TypeOK, ThreadTypes, PCs
<1>2. Head(wq) \in Nodes /\ Tail(wq) \in Seq(Nodes) /\ Len(Tail(wq)) = Len(wq) - 1
  BY DEF InvokePop, IInv, TypeOK, QueueTypes
<1>3. ThreadTypes'
  BY <1>1, <1>2 DEF IInv, TypeOK, InvokePop, ThreadTypes, Moves
<1>4. QueueTypes'
  BY <1>1, <1>2 DEF IInv, TypeOK, InvokePop, QueueTypes, GoPool!TypeOK, poolVars
<1>5. GraphTypes'
  BY <1>1, <1>2 DEF IInv, TypeOK, InvokePop, GraphTypes, graphVars
<1>6. NodeTypes'
  BY <1>1, <1>2 DEF IInv, TypeOK, InvokePop, NodeTypes, nodeVars, histVars
<1>7. TypeOK'
  BY <1>3, <1>4, <1>5, <1>6 DEF TypeOK
<1>8. ThreadShape'
  BY <1>1, <1>2, ShapeStays DEF IInv, TypeOK, InvokePop, ThreadTypes, poolVars, histVars
<1>9. WgAccounting'
  <2>1. Cardinality(InHand') = Cardinality(InHand) + 1
    BY <1>1, InHandGains DEF InvokePop
  <2>2. Len(wq') = Len(wq) - 1 /\ Len(wq) \in Nat /\ Len(taskQ) \in Nat /\ wg \in Nat
    BY <1>2 DEF InvokePop, IInv, TypeOK, QueueTypes, GoPool!TypeOK
  <2>3. QED
    BY <2>1, <2>2, FiniteCounts DEF IInv, WgAccounting, GoPool!Running, InvokePop, poolVars
<1>10. QED
  BY <1>7, <1>8, <1>9 DEF IInv

LEMMA InvokeNodeInv ==
  ASSUME IInv, NEW t \in Threads, InvokeNode(t)
  PROVE  IInv'
<1>1. Moves(t, "loop")
  BY GotoMoves DEF InvokeNode, IInv, TypeOK, ThreadTypes, PCs
<1>2. hand[t] \in Nodes
  BY DEF InvokeNode, IInv, ThreadShape
<1>3. taskQ' = Append(taskQ, hand[t]) /\ slot' = slot
  BY DEF InvokeNode, GoPool!Submit
<1>4. ThreadTypes'
  BY <1>1, <1>2, <1>3 DEF IInv, TypeOK, InvokeNode, ThreadTypes, Moves
<1>5. QueueTypes'
  BY <1>1, <1>2, <1>3 DEF IInv, TypeOK, InvokeNode, QueueTypes, GoPool!TypeOK, poolVars
<1>6. GraphTypes'
  BY <1>1, <1>2, <1>3 DEF IInv, TypeOK, InvokeNode, GraphTypes, graphVars
<1>7. NodeTypes'
  BY <1>1, <1>2, <1>3 DEF IInv, TypeOK, InvokeNode, NodeTypes, nodeVars, histVars
<1>8. TypeOK'
  BY <1>4, <1>5, <1>6, <1>7 DEF TypeOK
<1>9. ThreadShape'
  BY <1>1, <1>2, <1>3, ShapeStays DEF IInv, TypeOK, InvokeNode, ThreadTypes, poolVars, histVars
<1>10. WgAccounting'
  <2>1. Cardinality(InHand') = Cardinality(InHand) - 1
    BY <1>1, InHandLoses DEF InvokeNode
  <2>2. Len(taskQ') = Len(taskQ) + 1 /\ Len(wq) \in Nat /\ Len(taskQ) \in Nat /\ wg \in Nat
    BY <1>2, <1>3 DEF IInv, TypeOK, QueueTypes, GoPool!TypeOK
  <2>3. QED
    BY <1>3, <2>1, <2>2, FiniteCounts DEF IInv, WgAccounting, GoPool!Running, InvokeNode, poolVars
<1>11. QED
  BY <1>8, <1>9, <1>10 DEF IInv

LEMMA GraphReturnInv ==
  ASSUME IInv, NEW t \in Threads, GraphReturn(t)
  PROVE  IInv'
<1>1. PICK l \in {"returned", "resetup", "drop"} :
        /\ Moves(t, l)
        /\ t \in Workers => l \in {"resetup", "drop"}
        /\ t \in Workers /\ l = "drop" => 1 \in DOMAIN successors[slot[t]]
  <2>1. CASE t \in Callers
    BY <2>1, SignalMoves DEF GraphReturn, IInv, TypeOK, ThreadTypes, PCs
  <2>2. CASE t \in Workers
    <3>1. pc[t] /= "waiting" /\ pc[t] /= "idle"
      BY DEF GraphReturn
    <3>2. /\ Dropping(slot[t]) \in {"resetup", "drop"}
          /\ Dropping(slot[t]) = "drop" => 1 \in DOMAIN successors[slot[t]]
      BY <2>2, <3>1, SlotIsNode, DroppingPlace
    <3>3. pc' \in Signal(Invoked(t), Goto(t, Dropping(slot[t])))
      BY <2>2 DEF GraphReturn
    <3>4. Moves(t, Dropping(slot[t]))
      BY <3>1, <3>2, <3>3, SignalMoves DEF IInv, TypeOK, ThreadTypes, PCs
    <3>5. QED
      BY <3>2, <3>4
  <2>3. QED
    BY <2>1, <2>2
<1>2. pc[t] = "return" /\ UNCHANGED <<ret, todo, idx, hand, poolVars, wq, mu, wg, L, gJoin, ran>>
  BY DEF GraphReturn
<1>3. ThreadTypes'
  BY <1>1, <1>2 DEF IInv, TypeOK, ThreadTypes, Moves
<1>4. QueueTypes'
  BY <1>2 DEF IInv, TypeOK, QueueTypes, GoPool!TypeOK, poolVars
<1>5. canceled' \in [Graphs -> BOOLEAN]
  BY DEF GraphReturn, IInv, TypeOK, GraphTypes
<1>6. fin' \in [Nodes -> Nat]
  <2>1. CASE fin' = fin
    BY <2>1 DEF IInv, TypeOK, NodeTypes
  <2>2. CASE t \in Workers /\ fin' = [fin EXCEPT ![slot[t]] = IF state[slot[t]] = "finished" THEN @ + 1 ELSE @]
    <3>1. slot[t] \in Nodes
      BY <1>2, <2>2, SlotIsNode
    <3>2. QED
      BY <2>2, <3>1 DEF IInv, TypeOK, NodeTypes
  <2>3. QED
    BY <2>1, <2>2 DEF GraphReturn
<1>7. GraphTypes' /\ NodeTypes'
  BY <1>5, <1>6 DEF GraphReturn, IInv, TypeOK, GraphTypes, NodeTypes, nodeVars
<1>8. TypeOK'
  BY <1>3, <1>4, <1>7 DEF TypeOK
<1>9. ThreadShape'
  <2>1. CASE t \in Callers
    BY <1>1, <1>2, <2>1, ShapeStays DEF IInv, poolVars
  <2>2. CASE t \in Workers
    <3>1. ran' \in [Nodes -> Nat] /\ \A n \in Nodes : ran'[n] >= ran[n]
      BY <1>2 DEF IInv, TypeOK, NodeTypes
    <3>2. QED
      BY <1>1, <1>2, <2>2, <3>1, ShapeDeferred DEF IInv, poolVars
  <2>3. QED
    BY <2>1, <2>2
<1>10. WgAccounting'
  BY <1>1, <1>2, WgStays DEF IInv, poolVars
<1>11. QED
  BY <1>8, <1>9, <1>10 DEF IInv

-----------------------------------------------------------------------------
(***************************************************************************)
(* The closures of the nodes.                                              *)
(***************************************************************************)

\* A step of a closure that is not in its loops and moves no node.
LEMMA ClosureInv ==
  ASSUME IInv, NEW w \in Workers, NEW l, Moves(w, l),
         pc[w] \in {"begin", "handle", "resetup", "deref"},
         l \in {"resetup", "drop", "setup", "deref", "schedule", "done"},
         l = "drop" => 1 \in DOMAIN successors[slot[w]],
         UNCHANGED <<idx, hand, poolVars, wq, mu, wg>>,
         ret' \in [Threads -> {"loop", "deref"}],
         todo' \in [Threads -> SUBSET Nodes],
         GraphTypes', NodeTypes', \A n \in Nodes : ran'[n] >= ran[n]
  PROVE  IInv'
<1>1. ThreadTypes'
  BY DEF IInv, TypeOK, ThreadTypes, Moves
<1>2. QueueTypes'
  BY DEF IInv, TypeOK, QueueTypes, GoPool!TypeOK, poolVars
<1>3. TypeOK'
  BY <1>1, <1>2 DEF TypeOK
<1>4. ThreadShape'
  BY ShapeDeferred DEF IInv, NodeTypes, poolVars
<1>5. WgAccounting'
  BY WgStays DEF IInv, poolVars
<1>6. QED
  BY <1>3, <1>4, <1>5 DEF IInv

\* The step into the deferred function.
LEMMA DeferredMoves ==
  ASSUME IInv, NEW w \in Workers, pc[w] /= "idle", pc' = Goto(w, Deferred(slot[w]))
  PROVE  /\ Moves(w, Deferred(slot[w]))
         /\ Deferred(slot[w]) \in {"resetup", "drop", "setup", "deref"}
         /\ Deferred(slot[w]) = "drop" => 1 \in DOMAIN successors[slot[w]]
<1>1. /\ Deferred(slot[w]) \in {"resetup", "drop", "setup", "deref"}
      /\ Deferred(slot[w]) = "drop" => 1 \in DOMAIN successors[slot[w]]
  BY SlotIsNode, DeferredPlace
<1>2. Moves(w, Deferred(slot[w]))
  BY <1>1, GotoMoves DEF IInv, TypeOK, ThreadTypes, PCs
<1>3. QED
  BY <1>1, <1>2

LEMMA TakeTaskInv ==
  ASSUME IInv, NEW w \in Workers, TakeTask(w)
  PROVE  IInv'
<1> DEFINE n == Head(taskQ)
<1>1. Moves(w, "begin")
  BY GotoMoves DEF TakeTask, IInv, TypeOK, ThreadTypes, PCs
<1>2. /\ taskQ \in Seq(Nodes) /\ taskQ /= <<>>
      /\ slot[w] = None /\ slot' = [slot EXCEPT ![w] = n] /\ taskQ' = Tail(taskQ)
      /\ slot \in [Workers -> Nodes \cup {None}]
  BY DEF TakeTask, GoPool!Start, IInv, TypeOK, QueueTypes, GoPool!TypeOK
<1>3. /\ n \in Nodes /\ n /= None
      /\ taskQ' \in Seq(Nodes) /\ Len(taskQ') = Len(taskQ) - 1 /\ Len(taskQ) \in Nat
  BY <1>2
<1> HIDE DEF n
<1>4. ThreadTypes'
  BY <1>1 DEF TakeTask, IInv, TypeOK, ThreadTypes, Moves
<1>5. QueueTypes'
  BY <1>2, <1>3 DEF TakeTask, IInv, TypeOK, QueueTypes, GoPool!TypeOK
<1>6. GraphTypes' /\ NodeTypes'
  BY DEF TakeTask, IInv, TypeOK, GraphTypes, NodeTypes, graphVars, nodeVars, histVars
<1>7. TypeOK'
  BY <1>4, <1>5, <1>6 DEF TypeOK
<1>8. ThreadShape'
  <2>1. pc[w] = "idle" /\ UNCHANGED <<idx, hand, ran>>
    BY DEF TakeTask, histVars
  <2>2. slot'[w] \in Nodes /\ slot'[w] /= None /\ idx'[w] = 1
    BY <1>2, <1>3, <2>1 DEF IInv, ThreadShape
  <2>3. \A v \in Workers \ {w} : slot'[v] = slot[v]
    BY <1>2
  <2>4. ran' \in [Nodes -> Nat] /\ \A m \in Nodes : ran'[m] >= ran[m]
    BY <2>1 DEF IInv, TypeOK, NodeTypes
  <2>5. QED
    BY <1>1, <2>1, <2>2, <2>3, <2>4, ShapeOfAll DEF IInv
<1>9. WgAccounting'
  <2>1. InHand' = InHand
    BY <1>1, InHandStays DEF TakeTask
  <2>2. GoPool!Running' = GoPool!Running \cup {w} /\ w \notin GoPool!Running
    BY <1>2, <1>3 DEF GoPool!Running
  <2>3. Cardinality(GoPool!Running') = Cardinality(GoPool!Running) + 1
    BY <2>2, CountAdd, FiniteCounts
  <2>4. wq \in Seq(Nodes) /\ Len(wq) \in Nat
    BY DEF IInv, TypeOK, QueueTypes
  <2>5. QED
    BY <1>3, <2>1, <2>3, <2>4, FiniteCounts DEF IInv, WgAccounting, TakeTask
<1>10. QED
  BY <1>7, <1>8, <1>9 DEF IInv

LEMMA BeginInv ==
  ASSUME IInv, NEW w \in Workers, Begin(w)
  PROVE  IInv'
<1>1. slot[w] \in Nodes
  BY SlotIsNode DEF Begin
<1>2. PICK l \in {"resetup", "drop", "setup", "deref", "handle"} :
        /\ Moves(w, l)
        /\ l = "drop" => 1 \in DOMAIN successors[slot[w]]
        /\ l = "handle" => ran' = [ran EXCEPT ![slot[w]] = ran[slot[w]] + 1]
  <2>1. CASE pc' = Goto(w, Deferred(slot[w]))
    <3>1. pc[w] /= "idle"
      BY DEF Begin
    <3>2. QED
      BY <2>1, <3>1, DeferredMoves
  <2>2. CASE pc' = Goto(w, "handle") /\ ran' = [ran EXCEPT ![slot[w]] = @ + 1]
    BY <2>2, GotoMoves DEF IInv, TypeOK, ThreadTypes, PCs
  <2>3. QED
    BY <2>1, <2>2 DEF Begin
<1>3. /\ pc[w] = "begin"
      /\ UNCHANGED <<ret, todo, idx, hand, poolVars, wq, mu, wg, L, graphVars, nJoin, fin, runs>>
  BY DEF Begin
<1>4. ran' \in [Nodes -> Nat] /\ \A m \in Nodes : ran'[m] >= ran[m]
  <2>1. ran' = [ran EXCEPT ![slot[w]] = ran[slot[w]] + 1] \/ ran' = ran
    BY DEF Begin
  <2>2. QED
    BY <1>1, <2>1, RanGrows DEF IInv, TypeOK, NodeTypes
<1>5. ThreadTypes'
  BY <1>2, <1>3 DEF IInv, TypeOK, ThreadTypes, Moves
<1>6. QueueTypes' /\ GraphTypes'
  BY <1>3 DEF IInv, TypeOK, QueueTypes, GraphTypes, GoPool!TypeOK, poolVars, graphVars
<1>7. NodeTypes'
  BY <1>1, <1>3, <1>4 DEF Begin, IInv, TypeOK, NodeTypes
<1>8. TypeOK'
  BY <1>5, <1>6, <1>7 DEF TypeOK
<1>9. ThreadShape'
  <2>1. idx'[w] = 1 /\ slot'[w] = slot[w] /\ slot[w] /= None
    BY <1>1, <1>3 DEF IInv, ThreadShape, poolVars
  <2>2. l = "handle" => ran'[slot'[w]] > 0
    BY <1>1, <1>2, <2>1 DEF IInv, TypeOK, NodeTypes
  <2>3. /\ \A u \in Threads \ {w} : hand'[u] = hand[u] /\ idx'[u] = idx[u]
        /\ \A v \in Workers \ {w} : slot'[v] = slot[v]
    BY <1>3 DEF poolVars
  <2>4. QED
    BY <1>2, <1>4, <2>1, <2>2, <2>3, ShapeOfAll DEF IInv
<1>10. WgAccounting'
  BY <1>2, <1>3, WgStays DEF IInv, poolVars
<1>11. QED
  BY <1>8, <1>9, <1>10 DEF IInv

LEMMA ReturnStaticInv ==
  ASSUME IInv, NEW w \in Workers, ReturnStatic(w)
  PROVE  IInv'
<1>1. slot[w] \in Nodes
  BY SlotIsNode DEF ReturnStatic
<1>2. GraphTypes' /\ NodeTypes' /\ \A n \in Nodes : ran'[n] >= ran[n]
  BY <1>1 DEF ReturnStatic, IInv, TypeOK, GraphTypes, NodeTypes, graphVars
<1>3. ret' \in [Threads -> {"loop", "deref"}] /\ todo' \in [Threads -> SUBSET Nodes]
  BY DEF ReturnStatic, IInv, TypeOK, ThreadTypes
<1>4. /\ pc[w] = "handle" /\ pc' = Goto(w, Deferred(slot[w]))
      /\ UNCHANGED <<idx, hand, poolVars, wq, mu, wg>>
  BY DEF ReturnStatic
<1>5. QED
  BY <1>2, <1>3, <1>4, DeferredMoves, ClosureInv

LEMMA ReturnSubflowInv ==
  ASSUME IInv, NEW w \in Workers, ReturnSubflow(w)
  PROVE  IInv'
<1>1. slot[w] \in Nodes
  BY SlotIsNode DEF ReturnSubflow
<1>2. GraphTypes' /\ NodeTypes' /\ \A n \in Nodes : ran'[n] >= ran[n]
  <2>1. GraphTypes'
    BY DEF ReturnSubflow, IInv, TypeOK, GraphTypes
  <2>2. NodeTypes' /\ ran' = ran
    BY <1>1 DEF ReturnSubflow, IInv, TypeOK, NodeTypes, histVars
  <2>3. QED
    BY <2>1, <2>2 DEF IInv, TypeOK, NodeTypes
<1>3. ret' \in [Threads -> {"loop", "deref"}] /\ todo' \in [Threads -> SUBSET Nodes]
  BY DEF ReturnSubflow, IInv, TypeOK, ThreadTypes
<1>4. /\ pc[w] = "handle" /\ pc' = Goto(w, Deferred(slot[w]))
      /\ UNCHANGED <<idx, hand, poolVars, wq, mu, wg>>
  BY DEF ReturnSubflow
<1>5. QED
  BY <1>2, <1>3, <1>4, DeferredMoves, ClosureInv

\* What the handler of a condition answers is a number.
LEMMA AnswersType ==
  ASSUME NEW n \in Nodes, Typ[n] = "condition", ran[n] \in Nat, ran[n] > 0
  PROVE  Answers(n) \subseteq Nat
<1>1. predict[n] \in Seq(SUBSET Nat) /\ Len(predict[n]) \in Nat /\ Len(predict[n]) > 0
  BY PredictAssumption
<1>2. (IF ran[n] <= Len(predict[n]) THEN ran[n] ELSE Len(predict[n])) \in 1..Len(predict[n])
  BY <1>1
<1>3. QED
  BY <1>1, <1>2 DEF Answers

LEMMA ReturnConditionInv ==
  ASSUME IInv, NEW w \in Workers, ReturnCondition(w)
  PROVE  IInv'
<1> DEFINE n == slot[w]
<1>1. n \in Nodes /\ pc[w] = "handle" /\ Typ[n] = "condition"
  BY SlotIsNode DEF ReturnCondition
<1>2. PICK choice \in Answers(n) :
        choice < Len(mapper[n]) /\ todo' = [todo EXCEPT ![w] = Chosen(n, choice)]
  BY DEF ReturnCondition
<1>3. ran[n] \in Nat /\ ran[n] > 0
  BY <1>1 DEF IInv, ThreadShape, TypeOK, NodeTypes
<1>4. choice \in Nat
  BY <1>1, <1>2, <1>3, AnswersType
<1>5. Chosen(n, choice) \in SUBSET Nodes
  <2>1. mapper[n] \in Seq(Nodes) /\ Len(mapper[n]) \in Nat
    BY <1>1, FlowAssumption
  <2>2. choice + 1 \in 1..Len(mapper[n])
    BY <1>2, <1>4, <2>1
  <2>3. QED
    BY <2>1, <2>2 DEF Chosen
<1>6. ret' \in [Threads -> {"loop", "deref"}] /\ todo' \in [Threads -> SUBSET Nodes]
  <2>1. Deferred(n) = "deref"
    BY <1>1 DEF Deferred
  <2>2. todo' \in [Threads -> SUBSET Nodes]
    BY <1>2, <1>5, ExceptType DEF IInv, TypeOK, ThreadTypes
  <2>3. ret' = [ret EXCEPT ![w] = Deferred(n)]
    BY DEF ReturnCondition
  <2>4. QED
    BY <2>1, <2>2, <2>3, ExceptType DEF IInv, TypeOK, ThreadTypes
<1>7. GraphTypes' /\ NodeTypes' /\ \A m \in Nodes : ran'[m] >= ran[m]
  BY <1>1 DEF ReturnCondition, IInv, TypeOK, GraphTypes, NodeTypes, graphVars
<1>8. Moves(w, "schedule")
  BY GotoMoves DEF ReturnCondition, IInv, TypeOK, ThreadTypes, PCs
<1>9. UNCHANGED <<idx, hand, poolVars, wq, mu, wg>>
  BY DEF ReturnCondition
<1>10. QED
  BY <1>1, <1>6, <1>7, <1>8, <1>9, ClosureInv

LEMMA ChoosePanicInv ==
  ASSUME IInv, NEW w \in Workers, ChoosePanic(w)
  PROVE  IInv'
<1>1. slot[w] \in Nodes
  BY SlotIsNode DEF ChoosePanic
<1>2. GraphTypes'
  BY <1>1 DEF ChoosePanic, IInv, TypeOK, GraphTypes
<1>3. ran' = [ran EXCEPT ![slot[w]] = ran[slot[w]] + 1] \/ ran' = ran
  BY DEF ChoosePanic
<1>4. state' = [state EXCEPT ![slot[w]] = "finished"] \/ state' = state
  BY DEF ChoosePanic
<1>5. ran' \in [Nodes -> Nat] /\ \A n \in Nodes : ran'[n] >= ran[n]
  BY <1>1, <1>3, RanGrows DEF IInv, TypeOK, NodeTypes
<1>6. NodeTypes'
  BY <1>1, <1>4, <1>5 DEF ChoosePanic, IInv, TypeOK, NodeTypes
<1>7. ret' \in [Threads -> {"loop", "deref"}] /\ todo' \in [Threads -> SUBSET Nodes]
  BY DEF ChoosePanic, IInv, TypeOK, ThreadTypes
<1>8. /\ pc[w] = "handle" /\ pc' = Goto(w, Deferred(slot[w]))
      /\ UNCHANGED <<idx, hand, poolVars, wq, mu, wg>>
  BY DEF ChoosePanic
<1>9. QED
  BY <1>2, <1>5, <1>6, <1>7, <1>8, DeferredMoves, ClosureInv

LEMMA HandlerPanicInv ==
  ASSUME IInv, NEW w \in Workers, HandlerPanic(w)
  PROVE  IInv'
<1>1. slot[w] \in Nodes /\ Typ[slot[w]] \in {"static", "subflow", "condition"}
  BY SlotIsNode, FlowAssumption DEF HandlerPanic
<1>2. canceled' \in [Graphs -> BOOLEAN]
  BY <1>1 DEF HandlerPanic, IInv, TypeOK, GraphTypes
<1>3. GraphTypes' /\ NodeTypes' /\ \A n \in Nodes : ran'[n] >= ran[n]
  BY <1>2 DEF HandlerPanic, IInv, TypeOK, GraphTypes, NodeTypes, nodeVars, histVars
<1>4. ret' \in [Threads -> {"loop", "deref"}] /\ todo' \in [Threads -> SUBSET Nodes]
  BY DEF HandlerPanic, IInv, TypeOK, ThreadTypes
<1>5. /\ pc[w] = "handle" /\ pc' = Goto(w, Deferred(slot[w]))
      /\ UNCHANGED <<idx, hand, poolVars, wq, mu, wg>>
  BY DEF HandlerPanic
<1>6. QED
  BY <1>3, <1>4, <1>5, DeferredMoves, ClosureInv

\* A turn of a loop over the successors: the next position exists, or the
\* position is 1 again.
LEMMA LoopTurn ==
  ASSUME IInv, NEW w \in Workers, NEW l \in {"drop", "check"}, NEW m \in {"check", "resetup"},
         l = "check" => m = "resetup",
         pc[w] = l, NextSuccessor(w, slot[w], l, m),
         UNCHANGED <<hand, poolVars, histVars, wq, mu, wg>>,
         ret' \in [Threads -> {"loop", "deref"}], todo' \in [Threads -> SUBSET Nodes],
         successors[slot[w]] /= <<>>,
         GraphTypes', NodeTypes'
  PROVE  IInv'
<1> DEFINE n == slot[w]
<1>1. n \in Nodes /\ successors[n] \in Seq(Nodes) /\ Len(successors[n]) \in Nat
  BY SlotIsNode, FlowAssumption
<1>2. idx[w] \in 1..Len(successors[n]) /\ n /= None
  BY <1>1 DEF IInv, ThreadShape
<1>3. PICK k \in {l, m}, i \in 1..Len(successors[n]) :
        /\ Moves(w, k)
        /\ idx' = [idx EXCEPT ![w] = i]
        /\ k = "resetup" => i = 1
  <2>1. CASE idx[w] < Len(successors[n])
    <3>1. idx[w] + 1 \in 1..Len(successors[n]) /\ l /= "resetup"
      BY <1>2, <2>1
    <3>2. pc' = Goto(w, l) /\ idx' = [idx EXCEPT ![w] = idx[w] + 1]
      BY <2>1 DEF NextSuccessor
    <3>3. Moves(w, l)
      BY <3>2, GotoMoves DEF IInv, TypeOK, ThreadTypes, PCs
    <3>4. QED
      BY <3>1, <3>2, <3>3
  <2>2. CASE ~(idx[w] < Len(successors[n]))
    <3>1. 1 \in 1..Len(successors[n])
      BY <1>1
    <3>2. pc' = Goto(w, m) /\ idx' = [idx EXCEPT ![w] = 1]
      BY <2>2 DEF NextSuccessor
    <3>3. Moves(w, m)
      BY <3>2, GotoMoves DEF IInv, TypeOK, ThreadTypes, PCs
    <3>4. QED
      BY <3>1, <3>2, <3>3
  <2>3. QED
    BY <2>1, <2>2
<1>4. ThreadTypes'
  BY <1>3 DEF IInv, TypeOK, ThreadTypes, Moves
<1>5. QueueTypes'
  BY DEF IInv, TypeOK, QueueTypes, GoPool!TypeOK, poolVars
<1>6. TypeOK'
  BY <1>4, <1>5 DEF TypeOK
<1>7. ThreadShape'
  <2>1. idx'[w] = i /\ slot'[w] = n /\ n /= None /\ idx'[w] \in DOMAIN successors[n]
    BY <1>1, <1>2, <1>3 DEF IInv, TypeOK, ThreadTypes, poolVars
  <2>2. /\ \A u \in Threads \ {w} : hand'[u] = hand[u] /\ idx'[u] = idx[u]
        /\ \A v \in Workers \ {w} : slot'[v] = slot[v]
    BY <1>3 DEF IInv, TypeOK, ThreadTypes, poolVars
  <2>3. ran' \in [Nodes -> Nat] /\ \A x \in Nodes : ran'[x] >= ran[x]
    BY DEF IInv, TypeOK, NodeTypes, histVars
  <2>4. k \in {"drop", "check", "resetup"} /\ (k \notin {"drop", "check"} => idx'[w] = 1)
    BY <1>3, <2>1
  <2> HIDE DEF n
  <2>5. QED
    BY <1>3, <2>1, <2>2, <2>3, <2>4, ShapeOfAll DEF IInv
<1>8. WgAccounting'
  BY <1>3, WgStays DEF IInv, poolVars
<1>9. QED
  BY <1>6, <1>7, <1>8 DEF IInv

LEMMA DropInv ==
  ASSUME IInv, NEW w \in Workers, Drop(w)
  PROVE  IInv'
<1> DEFINE m == successors[slot[w]][idx[w]]
<1>1. pc[w] = "drop" /\ NextSuccessor(w, slot[w], "drop", "check")
  BY DEF Drop
<1>2. successors[slot[w]] \in Seq(Nodes) /\ idx[w] \in DOMAIN successors[slot[w]]
  BY <1>1, SlotIsNode DEF IInv, ThreadShape
<1>3. m \in Nodes /\ successors[slot[w]] /= <<>>
  BY <1>2
<1>4. nJoin' = [nJoin EXCEPT ![m] = nJoin[m] - 1]
  BY DEF Drop
<1> HIDE DEF m
<1>5. nJoin' \in [Nodes -> Int]
  BY <1>3, <1>4 DEF IInv, TypeOK, NodeTypes
<1>6. GraphTypes' /\ NodeTypes'
  BY <1>5 DEF Drop, IInv, TypeOK, GraphTypes, NodeTypes, graphVars, histVars
<1>7. /\ ret' \in [Threads -> {"loop", "deref"}] /\ todo' \in [Threads -> SUBSET Nodes]
      /\ UNCHANGED <<hand, poolVars, histVars, wq, mu, wg>>
  BY DEF Drop, IInv, TypeOK, ThreadTypes
<1>8. QED
  BY <1>1, <1>3, <1>6, <1>7, LoopTurn

LEMMA CheckSuccessorInv ==
  ASSUME IInv, NEW w \in Workers, CheckSuccessor(w)
  PROVE  IInv'
<1> DEFINE m == successors[slot[w]][idx[w]]
<1>1. pc[w] = "check" /\ NextSuccessor(w, slot[w], "check", "resetup")
  BY DEF CheckSuccessor
<1>2. successors[slot[w]] \in Seq(Nodes) /\ idx[w] \in DOMAIN successors[slot[w]]
  BY <1>1, SlotIsNode DEF IInv, ThreadShape
<1>3. m \in Nodes /\ successors[slot[w]] /= <<>>
  BY <1>2
<1>4. \/ state' = [state EXCEPT ![m] = "waiting"] /\ todo' = [todo EXCEPT ![w] = todo[w] \cup {m}]
      \/ state' = state /\ todo' = todo
  BY DEF CheckSuccessor
<1> HIDE DEF m
<1>5. state' \in [Nodes -> {"new", "idle", "waiting", "running", "finished"}]
  BY <1>4 DEF IInv, TypeOK, NodeTypes
<1>6. todo' \in [Threads -> SUBSET Nodes]
  BY <1>3, <1>4 DEF IInv, TypeOK, ThreadTypes
<1>7. GraphTypes' /\ NodeTypes'
  BY <1>5 DEF CheckSuccessor, IInv, TypeOK, GraphTypes, NodeTypes, graphVars, histVars
<1>8. ret' \in [Threads -> {"loop", "deref"}] /\ UNCHANGED <<hand, poolVars, histVars, wq, mu, wg>>
  BY DEF CheckSuccessor, IInv, TypeOK, ThreadTypes
<1>9. QED
  BY <1>1, <1>3, <1>6, <1>7, <1>8, LoopTurn

LEMMA ResetupInv ==
  ASSUME IInv, NEW w \in Workers, Resetup(w)
  PROVE  IInv'
<1>1. slot[w] \in Nodes /\ strongDegree[slot[w]] \in Nat
  BY SlotIsNode, StrongDegreeType DEF Resetup
<1>2. nJoin' = [nJoin EXCEPT ![slot[w]] = nJoin[slot[w]] + strongDegree[slot[w]]]
  BY DEF Resetup
<1>3. nJoin' \in [Nodes -> Int]
  BY <1>1, <1>2 DEF IInv, TypeOK, NodeTypes
<1>4. GraphTypes' /\ NodeTypes' /\ \A n \in Nodes : ran'[n] >= ran[n]
  BY <1>1, <1>3 DEF Resetup, IInv, TypeOK, GraphTypes, NodeTypes, graphVars, histVars
<1>5. ret' \in [Threads -> {"loop", "deref"}] /\ todo' \in [Threads -> SUBSET Nodes]
  BY DEF Resetup, IInv, TypeOK, ThreadTypes
<1>6. PICK l \in {"done", "schedule", "deref"} : Moves(w, l)
  BY GotoMoves DEF Resetup, Scheduling, IInv, TypeOK, ThreadTypes, PCs
<1>7. pc[w] = "resetup" /\ UNCHANGED <<idx, hand, poolVars, wq, mu, wg>>
  BY DEF Resetup
<1>8. QED
  BY <1>4, <1>5, <1>6, <1>7, ClosureInv

LEMMA DerefInv ==
  ASSUME IInv, NEW w \in Workers, Deref(w)
  PROVE  IInv'
<1>1. slot[w] \in Nodes /\ graphOf[slot[w]] \in Graphs
  BY SlotIsNode DEF Deref
<1>2. gJoin' = [gJoin EXCEPT ![graphOf[slot[w]]] = gJoin[graphOf[slot[w]]] - 1]
  BY DEF Deref
<1>3. gJoin' \in [Graphs -> Int]
  BY <1>1, <1>2 DEF IInv, TypeOK, GraphTypes
<1>4. GraphTypes' /\ NodeTypes' /\ \A n \in Nodes : ran'[n] >= ran[n]
  BY <1>3 DEF Deref, IInv, TypeOK, GraphTypes, NodeTypes, nodeVars, histVars
<1>5. ret' \in [Threads -> {"loop", "deref"}] /\ todo' \in [Threads -> SUBSET Nodes]
  BY DEF Deref, IInv, TypeOK, ThreadTypes
<1>6. PICK l \in {"resetup", "done"} : Moves(w, l)
  BY SignalMoves DEF Deref, IInv, TypeOK, ThreadTypes, PCs
<1>7. pc[w] = "deref" /\ UNCHANGED <<idx, hand, poolVars, wq, mu, wg>>
  BY DEF Deref
<1>8. QED
  BY <1>4, <1>5, <1>6, <1>7, ClosureInv

\* wg is at least one when Done is called: the worker is counted in it.
LEMMA DoneInv ==
  ASSUME IInv, NEW w \in Workers, Done(w)
  PROVE  IInv'
<1>1. Moves(w, "idle")
  BY GotoMoves DEF Done, IInv, TypeOK, ThreadTypes, PCs
<1>2. /\ slot[w] /= None /\ slot' = [slot EXCEPT ![w] = None] /\ taskQ' = taskQ
      /\ slot \in [Workers -> Nodes \cup {None}]
  BY DEF Done, GoPool!Finish, IInv, TypeOK, QueueTypes, GoPool!TypeOK
<1>3. /\ GoPool!Running' = GoPool!Running \ {w} /\ w \in GoPool!Running
      /\ Cardinality(GoPool!Running') \in Nat
      /\ Cardinality(GoPool!Running) = Cardinality(GoPool!Running') + 1
  <2>1. GoPool!Running' = GoPool!Running \ {w} /\ w \in GoPool!Running
    BY <1>2 DEF GoPool!Running
  <2>2. QED
    BY <2>1, CountRemove, FiniteCounts
<1>4. InHand' = InHand
  BY <1>1, InHandStays DEF Done
<1>5. wq \in Seq(Nodes) /\ Len(wq) \in Nat /\ taskQ \in Seq(Nodes) /\ Len(taskQ) \in Nat
  BY DEF IInv, TypeOK, QueueTypes, GoPool!TypeOK
<1>6. wg = Len(wq) + Len(taskQ) + Cardinality(InHand) + Cardinality(GoPool!Running)
  BY DEF IInv, WgAccounting
<1>7. wg' = Len(wq') + Len(taskQ') + Cardinality(InHand') + Cardinality(GoPool!Running')
  BY <1>2, <1>3, <1>4, <1>5, <1>6, FiniteCounts DEF Done
<1>8. wg' \in Nat
  BY <1>2, <1>3, <1>4, <1>5, <1>7, FiniteCounts DEF Done
<1>9. ThreadTypes'
  BY <1>1 DEF Done, IInv, TypeOK, ThreadTypes, Moves
<1>10. QueueTypes'
  BY <1>2, <1>8 DEF Done, IInv, TypeOK, QueueTypes, GoPool!TypeOK
<1>11. GraphTypes' /\ NodeTypes'
  BY DEF Done, IInv, TypeOK, GraphTypes, NodeTypes, graphVars, nodeVars, histVars
<1>12. TypeOK'
  BY <1>9, <1>10, <1>11 DEF TypeOK
<1>13. ThreadShape'
  <2>1. pc[w] = "done" /\ UNCHANGED <<idx, hand, ran>>
    BY DEF Done, histVars
  <2>2. slot'[w] = None /\ idx'[w] = 1
    BY <1>2, <2>1 DEF IInv, ThreadShape
  <2>3. \A v \in Workers \ {w} : slot'[v] = slot[v]
    BY <1>2
  <2>4. ran' \in [Nodes -> Nat] /\ \A m \in Nodes : ran'[m] >= ran[m]
    BY <2>1 DEF IInv, TypeOK, NodeTypes
  <2>5. QED
    BY <1>1, <2>1, <2>2, <2>3, <2>4, ShapeOfAll DEF IInv
<1>14. QED
  BY <1>7, <1>12, <1>13 DEF IInv, WgAccounting

-----------------------------------------------------------------------------
(***************************************************************************)
(* The theorems.                                                           *)
(***************************************************************************)

LEMMA InitInv ==
  ASSUME Init
  PROVE  IInv
<1>1. pc = [t \in Threads |-> "idle"] /\ slot = [w \in Workers |-> None]
  BY DEF Init, GoPool!Init
<1>2. TypeOK
  BY DEF Init, GoPool!Init, TypeOK, ThreadTypes, QueueTypes, GraphTypes, NodeTypes, GoPool!TypeOK,
         PCs
<1>3. ThreadShape
  BY <1>1 DEF Init, ThreadShape
<1>4. WgAccounting
  <2>1. InHand = {} /\ GoPool!Running = {}
    BY <1>1 DEF InHand, GoPool!Running
  <2>2. Len(wq) = 0 /\ Len(taskQ) = 0 /\ wg = 0
    BY DEF Init, GoPool!Init
  <2>3. QED
    BY <2>1, <2>2, FS_EmptySet DEF WgAccounting
<1>5. QED
  BY <1>2, <1>3, <1>4 DEF IInv

LEMMA StutterInv ==
  ASSUME IInv, UNCHANGED vars
  PROVE  IInv'
<1>1. UNCHANGED <<pc, ret, todo, idx, hand, taskQ, slot, wq, mu, wg, L, gJoin, canceled,
                  instantiated, nJoin, state, ran, fin, runs>>
  BY DEF vars, threadVars, poolVars, graphVars, nodeVars, histVars
<1>2. TypeOK'
  BY <1>1 DEF IInv, TypeOK, ThreadTypes, QueueTypes, GraphTypes, NodeTypes, GoPool!TypeOK
<1>3. ThreadShape'
  BY <1>1 DEF IInv, ThreadShape
<1>4. WgAccounting'
  BY <1>1 DEF IInv, WgAccounting, InHand, GoPool!Running
<1>5. QED
  BY <1>2, <1>3, <1>4 DEF IInv

LEMMA NextInv ==
  ASSUME IInv, [Next]_vars
  PROVE  IInv'
<1>1. ASSUME NEW c \in Callers, Run(c) \/ Wait(c) PROVE IInv'
  BY <1>1, RunInv, WaitInv
<1>2. ASSUME NEW t \in Threads, ScheduleStep(t) PROVE IInv'
  BY <1>2, ScheduleAddInv, ScheduleRefInv, SchedulePushInv, ScheduleCanceledInv DEF ScheduleStep
<1>3. ASSUME NEW t \in Threads, InvokeStep(t) PROVE IInv'
  BY <1>3, InvokeLoopInv, InvokeLeaveInv, InvokePopInv, InvokeNodeInv DEF InvokeStep
<1>4. ASSUME NEW t \in Threads, GraphStep(t) PROVE IInv'
  BY <1>2, <1>3, <1>4, ResetInv, SetupInv, GraphReturnInv DEF GraphStep
<1>5. ASSUME NEW w \in Workers, HandlerStep(w) PROVE IInv'
  BY <1>5, ReturnStaticInv, ReturnSubflowInv, ReturnConditionInv, ChoosePanicInv, HandlerPanicInv
     DEF HandlerStep
<1>6. ASSUME NEW w \in Workers, WorkerStep(w) PROVE IInv'
  BY <1>5, <1>6, TakeTaskInv, BeginInv, DropInv, CheckSuccessorInv, ResetupInv, DerefInv, DoneInv
     DEF WorkerStep
<1>7. CASE Terminated \/ UNCHANGED vars
  BY <1>7, StutterInv DEF Terminated
<1>8. QED
  BY <1>1, <1>4, <1>6, <1>7 DEF Next

\* The inductive invariant holds in every reachable state.
THEOREM Invariance == Spec => []IInv
<1>1. Init => IInv
  BY InitInv
<1>2. IInv /\ [Next]_vars => IInv'
  BY NextInv
<1>3. QED
  BY <1>1, <1>2, PTL DEF Spec

\* Every variable keeps its type; in particular executor.wg, on which
\* sync.WaitGroup would panic, never goes below zero.
THEOREM TypeCorrect == Spec => []TypeOK
<1>1. IInv => TypeOK
  BY DEF IInv
<1>2. QED
  BY <1>1, Invariance, PTL

\* executor.wg counts the nodes that are scheduled and not completed, for
\* every flow, whatever panics and however many clients share the executor.
THEOREM WgCounts == Spec => []WgAccounting
<1>1. IInv => WgAccounting
  BY DEF IInv
<1>2. QED
  BY <1>1, Invariance, PTL

\* Wait is sound: when wg is zero, the state in which Executor.Wait lets its
\* caller go on, no task is queued, on its way to a queue or being executed.
WaitSound ==
  wg = 0 => wq = <<>> /\ taskQ = <<>> /\ \A w \in Workers : slot[w] = None /\ pc[w] = "idle"

THEOREM WaitIsSound == Spec => []WaitSound
<1>1. IInv => WaitSound
  <2> SUFFICES ASSUME IInv, wg = 0 PROVE WaitSound
    BY DEF WaitSound
  <2>1. wq \in Seq(Nodes) /\ Len(wq) \in Nat /\ taskQ \in Seq(Nodes) /\ Len(taskQ) \in Nat
    BY DEF IInv, TypeOK, QueueTypes, GoPool!TypeOK
  <2>2. Len(wq) = 0 /\ Len(taskQ) = 0 /\ Cardinality(GoPool!Running) = 0
    BY <2>1, FiniteCounts DEF IInv, WgAccounting
  <2>3. GoPool!Running = {}
    BY <2>2, FiniteCounts, FS_EmptySet
  <2>4. \A w \in Workers : slot[w] = None
    BY <2>3 DEF GoPool!Running
  <2>5. \A w \in Workers : pc[w] = "idle"
    BY <2>4 DEF IInv, ThreadShape
  <2>6. wq = <<>> /\ taskQ = <<>>
    BY <2>1, <2>2
  <2>7. QED
    BY <2>4, <2>5, <2>6 DEF WaitSound
<1>2. QED
  BY <1>1, Invariance, PTL
=============================================================================
