--------------------------- MODULE SchedulerProof ---------------------------
(***************************************************************************)
(* The scheduler of Executor.tla, for every flow: eGraph.joinCounter       *)
(* counts what it should, the loop of invokeGraph never pops from an empty *)
(* queue, and no panic at any depth gets lost: one is known at the flow    *)
(* when Run returns.                                                       *)
(*                                                                         *)
(* The invariant GInv says where a thread can be, which graph it works     *)
(* for, and that a graph with a nonzero counter has a thread in its loop   *)
(* (Quiet).  It is inductive as long as no graph is driven by two threads  *)
(* at once (OneDriver), which a condition can bring about that chooses a   *)
(* subflow node while it is executed.  Single shows that nothing else can. *)
(***************************************************************************)
EXTENDS ExecutorProof

USE ThreadsAssumption DEF Threads, Driving

-----------------------------------------------------------------------------
(***************************************************************************)
(* The invariant.                                                          *)
(***************************************************************************)

\* In schedule(), and in it for the successors of the worker's node.
Publishing(t) == pc[t] \in {"schedule", "ref", "push"}

\* The graph of the nodes that a thread has claimed.
Origin(t) ==
  IF t \in Callers \/ (Publishing(t) /\ ret[t] = "loop") THEN Invoked(t) ELSE graphOf[slot[t]]

CallerPCs == {"idle", "setup", "entries", "schedule", "ref", "push", "loop", "waiting", "pop", "go",
              "return", "returned"}

\* What the program counter of t says of its place in the code, beyond ThreadShape.
CallerPlace(c) ==
  /\ pc[c] \in CallerPCs
  /\ Publishing(c) => ret[c] = "loop"

WorkerPlace(w) ==
  /\ pc[w] /= "returned"
  /\ Driving(w) => Typ[slot[w]] = "subflow"
  /\ pc[w] \in {"drop", "check"} => Typ[slot[w]] /= "condition"

ClaimPlace(t) ==
  /\ pc[t] \in {"ref", "push"} => graphOf[hand[t]] = Origin(t)
  /\ todo[t] /= {} =>
       /\ Publishing(t) \/ pc[t] \in {"check", "resetup"}
       /\ pc[t] = "resetup" => Typ[slot[t]] /= "condition"
       /\ \A n \in todo[t] : graphOf[n] = Origin(t)

Place(t) ==
  /\ t \in Callers => CallerPlace(t)
  /\ t \in Workers => WorkerPlace(t)
  /\ ClaimPlace(t)
  /\ pc[t] = "pop" => mu = t

Places == \A t \in Threads : Place(t)

\* A thread in the loop of invokeGraph, or publishing the entries before it.
Serving(t) == Driving(t) /\ pc[t] \notin {"setup", "entries", "return"}

\* A counter is nonzero only while some thread is in the loop that waits for it.
Quiet ==
  \A g \in Graphs : ~canceled[g] /\ gJoin[g] /= 0 =>
    \E t \in Threads : Serving(t) /\ Invoked(t) = g

\* What was true when the loop released scheCond.L still is when it pops.
PopKept ==
  \A t \in Threads : pc[t] = "pop" =>
    canceled[Invoked(t)] \/ gJoin[Invoked(t)] = 0 \/ wq /= <<>>

\* A canceled subflow cancels the graph around it, at the latest when the
\* thread that drives it returns.
MarksTravel ==
  \A o \in Nodes : Typ[o] = "subflow" /\ canceled[subgraph[o]] =>
    \/ canceled[graphOf[o]]
    \/ \E w \in Workers : Driving(w) /\ slot[w] = o

GInv == Places /\ JoinAccounting /\ Quiet /\ PopKept /\ MarksTravel

-----------------------------------------------------------------------------
(***************************************************************************)
(* Counting.                                                               *)
(***************************************************************************)

\* How many elements of s are in S.
Count(s, S) == Cardinality({i \in DOMAIN s : s[i] \in S})

LEMMA CountType ==
  ASSUME NEW s \in Seq(Nodes), NEW S
  PROVE  IsFiniteSet({i \in DOMAIN s : s[i] \in S}) /\ Count(s, S) \in Nat
<1>1. DOMAIN s = 1..Len(s) /\ Len(s) \in Nat
  OBVIOUS
<1>2. IsFiniteSet({i \in DOMAIN s : s[i] \in S})
  <2>1. IsFiniteSet(DOMAIN s)
    BY <1>1, FS_Interval
  <2>2. QED
    BY <2>1, FS_Subset
<1>3. QED
  BY <1>2, FS_CardinalityType DEF Count

LEMMA CountEmpty ==
  ASSUME NEW S
  PROVE  Count(<<>>, S) = 0
<1>1. {i \in DOMAIN <<>> : <<>>[i] \in S} = {}
  OBVIOUS
<1>2. QED
  BY <1>1, FS_EmptySet DEF Count

LEMMA CountAppend ==
  ASSUME NEW s \in Seq(Nodes), NEW n \in Nodes, NEW S
  PROVE  Count(Append(s, n), S) = Count(s, S) + (IF n \in S THEN 1 ELSE 0)
<1> DEFINE A == {i \in DOMAIN s : s[i] \in S}
           B == {i \in DOMAIN Append(s, n) : Append(s, n)[i] \in S}
<1>1. IsFiniteSet(A) /\ Cardinality(A) \in Nat
  BY CountType DEF Count
<1>2. DOMAIN s = 1..Len(s) /\ Len(s) \in Nat /\ Len(s) + 1 \notin A
  OBVIOUS
<1>3. B = IF n \in S THEN A \cup {Len(s) + 1} ELSE A
  OBVIOUS
<1> HIDE DEF A, B
<1>4. Cardinality(B) = Cardinality(A) + (IF n \in S THEN 1 ELSE 0)
  BY <1>1, <1>2, <1>3, CountAdd
<1>5. QED
  BY <1>4 DEF Count, A, B

LEMMA CountTail ==
  ASSUME NEW s \in Seq(Nodes), s /= <<>>, NEW S
  PROVE  Count(s, S) = Count(Tail(s), S) + (IF Head(s) \in S THEN 1 ELSE 0)
<1> DEFINE A == {i \in DOMAIN Tail(s) : Tail(s)[i] \in S}
           B == {i \in DOMAIN s : s[i] \in S}
           C == B \ {1}
           f == [i \in A |-> i + 1]
<1>1. Tail(s) \in Seq(Nodes) /\ Len(s) \in Nat \ {0} /\ Len(Tail(s)) = Len(s) - 1
  OBVIOUS
<1>2. /\ DOMAIN s = 1..Len(s) /\ DOMAIN Tail(s) = 1..(Len(s) - 1)
      /\ \A i \in 1..(Len(s) - 1) : Tail(s)[i] = s[i + 1]
      /\ Head(s) = s[1]
  BY <1>1
<1>3. IsFiniteSet(A) /\ IsFiniteSet(B)
  BY <1>1, CountType
<1>4. f \in Bijection(A, C)
  <2>1. f \in [A -> C]
    BY <1>1, <1>2
  <2>2. \A i, j \in A : f[i] = f[j] => i = j
    BY <1>1, <1>2
  <2>3. ASSUME NEW k \in C
        PROVE  \E i \in A : f[i] = k
    <3>1. k - 1 \in A /\ f[k - 1] = k
      BY <1>1, <1>2
    <3>2. QED
      BY <3>1
  <2>4. QED
    BY <2>1, <2>2, <2>3 DEF Bijection, Injection, Surjection, IsInjective
<1>5. Cardinality(A) = Cardinality(C) /\ IsFiniteSet(C)
  <2>1. ExistsBijection(A, C)
    BY <1>4 DEF ExistsBijection
  <2> HIDE DEF A, C
  <2>2. QED
    BY <1>3, <2>1, FS_Bijection
<1>6. 1 \in B <=> Head(s) \in S
  BY <1>1, <1>2
<1>7. Cardinality(B) = Cardinality(C) + (IF Head(s) \in S THEN 1 ELSE 0)
  <2>1. CASE 1 \in B
    <3> HIDE DEF B
    <3>1. Cardinality(B) = Cardinality(B \ {1}) + 1
      BY <1>3, <2>1, CountRemove
    <3>2. QED
      BY <1>6, <2>1, <3>1
  <2>2. CASE 1 \notin B
    <3>1. B = C
      BY <2>2
    <3>2. Cardinality(C) \in Nat
      BY <1>5, FS_CardinalityType
    <3> HIDE DEF B, C
    <3>3. QED
      BY <1>6, <2>2, <3>1, <3>2
  <2>3. QED
    BY <2>1, <2>2
<1>8. QED
  BY <1>5, <1>7 DEF Count

LEMMA FiniteThreads == IsFiniteSet(Threads)
BY FS_Union

\* Two sets of threads that differ in one thread at most.
LEMMA CountMoves ==
  ASSUME NEW A \in SUBSET Threads, NEW B \in SUBSET Threads, NEW t \in Threads,
         \A u \in Threads \ {t} : u \in A <=> u \in B
  PROVE  /\ Cardinality(A) \in Nat /\ Cardinality(B) \in Nat
         /\ Cardinality(B) + (IF t \in A THEN 1 ELSE 0) = Cardinality(A) + (IF t \in B THEN 1 ELSE 0)
<1>1. IsFiniteSet(Threads)
  BY FiniteThreads
<1>2. IsFiniteSet(A) /\ IsFiniteSet(B)
  BY <1>1, FS_Subset
<1>3. Cardinality(A) \in Nat /\ Cardinality(B) \in Nat
  BY <1>2, FS_CardinalityType
<1>4. CASE t \in A <=> t \in B
  <2>1. A = B
    BY <1>4
  <2>2. Cardinality(A) = Cardinality(B)
    BY <2>1
  <2>3. QED
    BY <1>3, <1>4, <2>2
<1>5. CASE t \in A /\ t \notin B
  <2>1. B = A \ {t}
    BY <1>5
  <2>2. QED
    BY <1>2, <1>3, <1>5, <2>1, CountRemove
<1>6. CASE t \notin A /\ t \in B
  <2>1. A = B \ {t}
    BY <1>6
  <2>2. QED
    BY <1>2, <1>3, <1>6, <2>1, CountRemove
<1>7. QED
  BY <1>4, <1>5, <1>6
-----------------------------------------------------------------------------
(***************************************************************************)
(* The two sides of JoinAccounting.                                        *)
(***************************************************************************)

Tasks(g) == {n \in Nodes : graphOf[n] = g}

Carried(g) == {t \in InHand : pc[t] /= "ref" /\ graphOf[hand[t]] = g}

Unreleased(g) == {w \in GoPool!Running : graphOf[slot[w]] = g /\ ~Released(w)}

Scheduled(g) ==
  Count(wq, Tasks(g)) + Count(taskQ, Tasks(g)) + Cardinality(Carried(g)) + Cardinality(Unreleased(g))

LEMMA InGraphCounts ==
  ASSUME NEW s \in Seq(Nodes), NEW g
  PROVE  InGraph(s, g) = Count(s, Tasks(g))
<1>1. {i \in DOMAIN s : graphOf[s[i]] = g} = {i \in DOMAIN s : s[i] \in Tasks(g)}
  BY DEF Tasks
<1>2. QED
  BY <1>1 DEF InGraph, Count

JoinEach == \A g \in Graphs : ~canceled[g] => gJoin[g] = Scheduled(g)

LEMMA JoinByParts == TypeOK => (JoinAccounting <=> JoinEach)
<1> SUFFICES ASSUME TypeOK PROVE JoinAccounting <=> JoinEach
  OBVIOUS
<1>1. wq \in Seq(Nodes) /\ taskQ \in Seq(Nodes)
  BY DEF TypeOK, QueueTypes, GoPool!TypeOK
<1>2. \A g : InGraph(wq, g) = Count(wq, Tasks(g)) /\ InGraph(taskQ, g) = Count(taskQ, Tasks(g))
  BY <1>1, InGraphCounts
<1>3. QED
  BY <1>2 DEF JoinAccounting, JoinEach, Scheduled, Carried, Unreleased

\* Every part is a number.
LEMMA PartTypes ==
  ASSUME TypeOK, NEW g
  PROVE  /\ Count(wq, Tasks(g)) \in Nat /\ Count(taskQ, Tasks(g)) \in Nat
         /\ Carried(g) \in SUBSET Threads /\ Cardinality(Carried(g)) \in Nat
         /\ Unreleased(g) \in SUBSET Workers /\ Cardinality(Unreleased(g)) \in Nat
         /\ IsFiniteSet(Carried(g)) /\ IsFiniteSet(Unreleased(g))
<1>1. wq \in Seq(Nodes) /\ taskQ \in Seq(Nodes)
  BY DEF TypeOK, QueueTypes, GoPool!TypeOK
<1>2. Carried(g) \in SUBSET Threads /\ Unreleased(g) \in SUBSET Workers
  BY DEF Carried, Unreleased, InHand, GoPool!Running
<1>3. IsFiniteSet(Carried(g)) /\ IsFiniteSet(Unreleased(g))
  BY <1>2, FiniteThreads, FS_Subset
<1>4. QED
  BY <1>1, <1>2, <1>3, CountType, FS_CardinalityType

\* The worker of a task that has not released its graph is seen by the counter.
LEMMA WorkerCounts ==
  ASSUME TypeOK, JoinAccounting, NEW w \in Workers, slot[w] \in Nodes, ~Released(w),
         ~canceled[graphOf[slot[w]]]
  PROVE  gJoin[graphOf[slot[w]]] /= 0
<1> DEFINE g == graphOf[slot[w]]
<1>1. g \in Graphs
  BY FlowAssumption
<1> HIDE DEF g
<1>2. w \in Unreleased(g)
  BY DEF g, Unreleased, GoPool!Running
<1>3. Cardinality(Unreleased(g)) /= 0
  BY <1>2, PartTypes, FS_EmptySet
<1>4. gJoin[g] = Scheduled(g)
  BY <1>1, JoinByParts DEF g, JoinEach
<1>5. QED
  BY <1>3, <1>4, PartTypes DEF Scheduled, g

-----------------------------------------------------------------------------
(***************************************************************************)
(* What a step of one thread leaves alone.                                 *)
(***************************************************************************)

\* Thread t goes to l, the local variables of the others stay.
Steps(t, l) ==
  /\ Moves(t, l)
  /\ \A u \in Threads \ {t} : hand'[u] = hand[u] /\ ret'[u] = ret[u] /\ todo'[u] = todo[u]
  /\ \A w \in Workers \ {t} : slot'[w] = slot[w]

LEMMA OthersStay ==
  ASSUME NEW t \in Threads, NEW l, Steps(t, l), NEW u \in Threads \ {t}
  PROVE  /\ pc'[u] = pc[u] \/ (pc[u] = "waiting" /\ pc'[u] = "loop")
         /\ Driving(u)' <=> Driving(u)
         /\ Serving(u)' <=> Serving(u)
         /\ Publishing(u)' <=> Publishing(u)
         /\ Invoked(u)' = Invoked(u)
         /\ Origin(u)' = Origin(u)
         /\ u \in Workers => (Released(u)' <=> Released(u))
<1>1. pc'[u] = pc[u] \/ (pc[u] = "waiting" /\ pc'[u] = "loop")
  BY DEF Steps, Moves
<1>2. hand'[u] = hand[u] /\ ret'[u] = ret[u] /\ (u \in Workers => slot'[u] = slot[u])
  BY DEF Steps
<1>3. Invoked(u)' = Invoked(u)
  BY <1>2 DEF Invoked
<1>4. Driving(u)' <=> Driving(u)
  BY <1>1, <1>2
<1>5. Publishing(u)' <=> Publishing(u)
  BY <1>1 DEF Publishing
<1>6. Serving(u)' <=> Serving(u)
  BY <1>1, <1>4 DEF Serving
<1>7. ASSUME u \in Workers PROVE Released(u)' <=> Released(u)
  BY <1>1, <1>2, <1>7 DEF Released
<1>8. Origin(u)' = Origin(u)
  <2>1. CASE u \in Workers
    BY <1>2, <1>3, <1>5, <2>1 DEF Origin
  <2>2. CASE u \in Callers
    BY <1>2, <1>3, <1>5, <2>2 DEF Origin
  <2>3. QED
    BY <2>1, <2>2
<1>9. QED
  BY <1>1, <1>3, <1>4, <1>5, <1>6, <1>7, <1>8

-----------------------------------------------------------------------------
(***************************************************************************)
(* What each part of the invariant needs of a step.                        *)
(***************************************************************************)

LEMMA PlacesStay ==
  ASSUME Places, NEW t \in Threads, NEW l, Steps(t, l), Place(t)',
         \A u \in Threads \ {t} : mu = u => mu' = u
  PROVE  Places'
<1> SUFFICES ASSUME NEW u \in Threads, u /= t PROVE Place(u)'
  BY DEF Places
<1>1. /\ pc'[u] = pc[u] \/ (pc[u] = "waiting" /\ pc'[u] = "loop")
      /\ Driving(u)' <=> Driving(u)
      /\ Publishing(u)' <=> Publishing(u)
      /\ Origin(u)' = Origin(u)
  BY OthersStay
<1>2. /\ hand'[u] = hand[u] /\ ret'[u] = ret[u] /\ todo'[u] = todo[u]
      /\ u \in Workers => slot'[u] = slot[u]
  BY DEF Steps
<1>3. Place(u)
  BY DEF Places
<1>4. u \in Callers => CallerPlace(u)'
  BY <1>1, <1>2, <1>3 DEF Place, CallerPlace, CallerPCs
<1>5. u \in Workers => WorkerPlace(u)'
  BY <1>1, <1>2, <1>3 DEF Place, WorkerPlace
<1>6. ClaimPlace(u)'
  <2>1. pc'[u] \in {"ref", "push"} => graphOf[hand'[u]] = Origin(u)'
    BY <1>1, <1>2, <1>3 DEF Place, ClaimPlace
  <2>2. ASSUME todo'[u] /= {}
        PROVE  /\ Publishing(u)' \/ pc'[u] \in {"check", "resetup"}
               /\ pc'[u] = "resetup" => Typ[slot'[u]] /= "condition"
               /\ \A n \in todo'[u] : graphOf[n] = Origin(u)'
    <3>1. /\ Publishing(u) \/ pc[u] \in {"check", "resetup"}
          /\ pc[u] = "resetup" => Typ[slot[u]] /= "condition"
          /\ \A n \in todo[u] : graphOf[n] = Origin(u)
      BY <1>2, <1>3, <2>2 DEF Place, ClaimPlace
    <3>2. u \in Callers => pc[u] /= "resetup"
      BY <1>3 DEF Place, CallerPlace, CallerPCs
    <3>3. QED
      BY <1>1, <1>2, <3>1, <3>2 DEF Publishing
  <2>3. QED
    BY <2>1, <2>2 DEF ClaimPlace
<1>7. pc'[u] = "pop" => mu' = u
  BY <1>1, <1>3 DEF Place
<1>8. QED
  BY <1>4, <1>5, <1>6, <1>7 DEF Place

LEMMA QuietStays ==
  ASSUME Quiet, NEW t \in Threads, NEW l, Steps(t, l),
         \A g \in Graphs : canceled[g] => canceled'[g],
         \A g \in Graphs : ~canceled[g] /\ gJoin[g] = 0 =>
           gJoin'[g] = 0 \/ (Serving(t)' /\ Invoked(t)' = g),
         \A g \in Graphs : Serving(t) /\ Invoked(t) = g =>
           \/ Serving(t)' /\ Invoked(t)' = g
           \/ gJoin'[g] = 0 \/ canceled'[g]
  PROVE  Quiet'
<1> SUFFICES ASSUME NEW g \in Graphs, ~canceled'[g], gJoin'[g] /= 0
             PROVE  \E u \in Threads : Serving(u)' /\ Invoked(u)' = g
  BY DEF Quiet
<1>1. CASE gJoin[g] = 0
  BY <1>1
<1>2. CASE gJoin[g] /= 0
  <2>1. PICK u \in Threads : Serving(u) /\ Invoked(u) = g
    BY <1>2 DEF Quiet
  <2>2. CASE u = t
    BY <2>1, <2>2
  <2>3. CASE u /= t
    BY <2>1, <2>3, OthersStay
  <2>4. QED
    BY <2>2, <2>3
<1>3. QED
  BY <1>1, <1>2

LEMMA PopKeptStays ==
  ASSUME PopKept, NEW t \in Threads, NEW l, Steps(t, l),
         l = "pop" => canceled'[Invoked(t)'] \/ gJoin'[Invoked(t)'] = 0 \/ wq' /= <<>>,
         \A u \in Threads \ {t} : pc[u] = "pop" =>
           \/ canceled[Invoked(u)] /\ canceled'[Invoked(u)]
           \/ gJoin[Invoked(u)] = 0 /\ gJoin'[Invoked(u)] = 0
           \/ wq' /= <<>>
           \/ wq = <<>> /\ gJoin[Invoked(u)] /= 0 /\ ~canceled[Invoked(u)]
  PROVE  PopKept'
<1> SUFFICES ASSUME NEW u \in Threads, pc'[u] = "pop"
             PROVE  canceled'[Invoked(u)'] \/ gJoin'[Invoked(u)'] = 0 \/ wq' /= <<>>
  BY DEF PopKept
<1>1. CASE u = t
  BY <1>1 DEF Steps, Moves
<1>2. CASE u /= t
  <2>1. pc[u] = "pop" /\ Invoked(u)' = Invoked(u)
    BY <1>2, OthersStay
  <2>2. canceled[Invoked(u)] \/ gJoin[Invoked(u)] = 0 \/ wq /= <<>>
    BY <2>1 DEF PopKept
  <2>3. QED
    BY <1>2, <2>1, <2>2
<1>3. QED
  BY <1>1, <1>2

LEMMA MarksStay ==
  ASSUME MarksTravel, NEW t \in Threads, NEW l, Steps(t, l), canceled' = canceled,
         t \in Workers /\ Driving(t) => Driving(t)' /\ slot'[t] = slot[t]
  PROVE  MarksTravel'
<1> SUFFICES ASSUME NEW o \in Nodes, Typ[o] = "subflow", canceled[subgraph[o]], ~canceled[graphOf[o]]
             PROVE  \E w \in Workers : Driving(w)' /\ slot'[w] = o
  BY DEF MarksTravel
<1>1. PICK w \in Workers : Driving(w) /\ slot[w] = o
  BY DEF MarksTravel
<1>2. CASE w = t
  BY <1>1, <1>2
<1>3. CASE w /= t
  BY <1>1, <1>3, OthersStay DEF Steps
<1>4. QED
  BY <1>2, <1>3

\* A step that schedules, moves and releases no node.
LEMMA JoinStays ==
  ASSUME JoinAccounting, TypeOK, TypeOK', NEW t \in Threads, NEW l, Steps(t, l),
         UNCHANGED <<wq, taskQ, slot>>,
         \A g \in Graphs : canceled[g] => canceled'[g],
         \A g \in Graphs : ~canceled[g] => gJoin'[g] = gJoin[g],
         pc[t] \notin {"push", "go"}, l \notin {"push", "go"},
         t \in Workers /\ slot[t] /= None => (Released(t)' <=> Released(t))
  PROVE  JoinAccounting'
<1> SUFFICES ASSUME NEW g \in Graphs, ~canceled'[g]
             PROVE  gJoin'[g] = Scheduled(g)'
  <2>1. TypeOK' => (JoinAccounting' <=> JoinEach')
    BY JoinByParts, PTL
  <2>2. QED
    BY <2>1 DEF JoinEach
<1>1. Carried(g)' = Carried(g)
  <2>1. ASSUME NEW u \in Threads PROVE u \in Carried(g)' <=> u \in Carried(g)
    <3>1. CASE u = t
      BY <3>1 DEF Carried, InHand, Steps, Moves
    <3>2. CASE u /= t
      BY <3>2, OthersStay DEF Carried, InHand, Steps
    <3>3. QED
      BY <3>1, <3>2
  <2>2. QED
    BY <2>1 DEF Carried, InHand
<1>2. Unreleased(g)' = Unreleased(g)
  <2>1. ASSUME NEW w \in Workers PROVE w \in Unreleased(g)' <=> w \in Unreleased(g)
    <3>1. CASE w = t
      BY <3>1 DEF Unreleased, GoPool!Running
    <3>2. CASE w /= t
      BY <3>2, OthersStay DEF Unreleased, GoPool!Running
    <3>3. QED
      BY <3>1, <3>2
  <2>2. QED
    BY <2>1 DEF Unreleased, GoPool!Running
<1>3. ~canceled[g]
  OBVIOUS
<1>4. gJoin[g] = Scheduled(g)
  BY <1>3, JoinByParts DEF JoinEach
<1>5. QED
  BY <1>1, <1>2, <1>4 DEF Scheduled

\* The whole invariant after a step that also cancels nothing.
LEMMA SilentInv ==
  ASSUME IInv, GInv, IInv', NEW t \in Threads, NEW l, Steps(t, l),
         UNCHANGED <<wq, taskQ, slot, gJoin, canceled>>,
         Place(t)', \A u \in Threads \ {t} : mu = u => mu' = u,
         pc[t] \notin {"push", "go"}, l \notin {"push", "go"},
         t \in Workers /\ slot[t] /= None => (Released(t)' <=> Released(t)),
         Serving(t) => Serving(t)' \/ gJoin[Invoked(t)] = 0 \/ canceled[Invoked(t)],
         t \in Workers /\ Driving(t) => Driving(t)',
         l = "pop" => canceled[Invoked(t)] \/ gJoin[Invoked(t)] = 0 \/ wq /= <<>>
  PROVE  GInv'
<1>1. Invoked(t)' = Invoked(t)
  BY DEF Invoked
<1>2. Places'
  BY PlacesStay DEF GInv
<1>3. JoinAccounting'
  BY JoinStays DEF GInv, IInv
<1>4. Quiet'
  BY <1>1, QuietStays DEF GInv
<1>5. PopKept'
  BY <1>1, PopKeptStays DEF GInv
<1>6. MarksTravel'
  BY MarksStay DEF GInv
<1>7. QED
  BY <1>2, <1>3, <1>4, <1>5, <1>6 DEF GInv

-----------------------------------------------------------------------------
(***************************************************************************)
(* Where each action takes its thread.                                     *)
(***************************************************************************)

LEMMA GotoSteps ==
  ASSUME IInv, NEW t \in Threads, NEW l \in PCs, pc' = Goto(t, l),
         \A u \in Threads \ {t} : hand'[u] = hand[u] /\ ret'[u] = ret[u] /\ todo'[u] = todo[u],
         \A w \in Workers \ {t} : slot'[w] = slot[w]
  PROVE  Steps(t, l) /\ pc'[t] = l
BY GotoMoves DEF Steps, Moves, IInv, TypeOK, ThreadTypes

LEMMA SignalSteps ==
  ASSUME IInv, NEW t \in Threads, NEW l \in PCs, NEW g, pc' \in Signal(g, Goto(t, l)),
         pc[t] /= "waiting",
         \A u \in Threads \ {t} : hand'[u] = hand[u] /\ ret'[u] = ret[u] /\ todo'[u] = todo[u],
         \A w \in Workers \ {t} : slot'[w] = slot[w]
  PROVE  Steps(t, l) /\ pc'[t] = l
BY SignalMoves DEF Steps, Moves, IInv, TypeOK, ThreadTypes

LEMMA RunSteps ==
  ASSUME IInv, NEW c \in Callers, Run(c)
  PROVE  Steps(c, "setup") /\ pc'[c] = "setup"
BY GotoSteps DEF Run, PCs, poolVars

LEMMA WaitSteps ==
  ASSUME IInv, NEW c \in Callers, Wait(c)
  PROVE  Steps(c, "idle") /\ pc'[c] = "idle"
BY GotoSteps DEF Wait, PCs, poolVars

LEMMA ResetSteps ==
  ASSUME IInv, NEW t \in Threads, Reset(t)
  PROVE  Steps(t, "entries") /\ pc'[t] = "entries"
BY GotoSteps DEF Reset, PCs, poolVars

LEMMA SetupSteps ==
  ASSUME IInv, NEW t \in Threads, Setup(t)
  PROVE  /\ Steps(t, pc'[t])
         /\ pc'[t] = IF todo'[t] = {} THEN "loop" ELSE "schedule"
         /\ ret'[t] = "loop"
         /\ todo'[t] = {n \in NodesIn(Invoked(t)) : dependents[n] = {}}
<1> DEFINE S == {n \in NodesIn(Invoked(t)) : dependents[n] = {}}
<1>1. /\ pc' = Goto(t, Scheduling(S, "loop"))
      /\ todo' = [todo EXCEPT ![t] = S] /\ ret' = [ret EXCEPT ![t] = "loop"]
      /\ UNCHANGED <<hand, slot>>
  BY DEF Setup, poolVars
<1>2. todo'[t] = S /\ ret'[t] = "loop"
  BY <1>1 DEF IInv, TypeOK, ThreadTypes
<1>3. Scheduling(S, "loop") = IF S = {} THEN "loop" ELSE "schedule"
  BY DEF Scheduling
<1> HIDE DEF S
<1>4. Scheduling(S, "loop") \in PCs
  BY <1>3 DEF PCs
<1>5. Steps(t, Scheduling(S, "loop")) /\ pc'[t] = Scheduling(S, "loop")
  BY <1>1, <1>4, GotoSteps DEF IInv, TypeOK, ThreadTypes
<1>6. QED
  BY <1>2, <1>3, <1>5 DEF S

LEMMA ScheduleAddSteps ==
  ASSUME IInv, NEW t \in Threads, ScheduleAdd(t)
  PROVE  /\ Steps(t, "ref") /\ pc'[t] = "ref"
         /\ hand'[t] \in todo[t] /\ todo'[t] = todo[t] \ {hand'[t]} /\ hand'[t] \in Nodes
         /\ ~canceled[graphOf[hand'[t]]]
<1>1. PICK n \in MostUrgent(todo[t]) :
        /\ ~canceled[graphOf[n]]
        /\ hand' = [hand EXCEPT ![t] = n]
        /\ todo' = [todo EXCEPT ![t] = @ \ {n}]
  BY DEF ScheduleAdd
<1>2. n \in todo[t] /\ n \in Nodes
  BY DEF MostUrgent, IInv, TypeOK, ThreadTypes
<1>3. Steps(t, "ref") /\ pc'[t] = "ref"
  BY <1>1, GotoSteps DEF ScheduleAdd, PCs, poolVars, IInv, TypeOK, ThreadTypes
<1>4. hand'[t] = n /\ todo'[t] = todo[t] \ {n}
  BY <1>1 DEF IInv, TypeOK, ThreadTypes
<1>5. QED
  BY <1>1, <1>2, <1>3, <1>4

LEMMA ScheduleRefSteps ==
  ASSUME IInv, NEW t \in Threads, ScheduleRef(t)
  PROVE  Steps(t, "push") /\ pc'[t] = "push" /\ hand[t] \in Nodes /\ graphOf[hand[t]] \in Graphs
<1>1. hand[t] \in Nodes
  BY DEF ScheduleRef, IInv, ThreadShape
<1>2. QED
  BY <1>1, GotoSteps, FlowAssumption DEF ScheduleRef, PCs, poolVars

LEMMA SchedulePushSteps ==
  ASSUME IInv, NEW t \in Threads, SchedulePush(t)
  PROVE  /\ Steps(t, pc'[t])
         /\ pc'[t] = IF todo[t] = {} THEN ret[t] ELSE "schedule"
         /\ ret[t] \in {"loop", "deref"}
         /\ hand[t] \in Nodes
<1>1. hand[t] \in Nodes /\ ret[t] \in {"loop", "deref"}
  BY DEF SchedulePush, IInv, ThreadShape, TypeOK, ThreadTypes
<1>2. Scheduling(todo[t], ret[t]) = IF todo[t] = {} THEN ret[t] ELSE "schedule"
  BY DEF Scheduling
<1>3. Scheduling(todo[t], ret[t]) \in PCs
  BY <1>1, <1>2 DEF PCs
<1>4. Steps(t, Scheduling(todo[t], ret[t])) /\ pc'[t] = Scheduling(todo[t], ret[t])
  BY <1>3, SignalSteps DEF SchedulePush, poolVars, IInv, TypeOK, ThreadTypes
<1>5. QED
  BY <1>1, <1>2, <1>4

LEMMA ScheduleCanceledSteps ==
  ASSUME IInv, NEW t \in Threads, ScheduleCanceled(t)
  PROVE  Steps(t, ret[t]) /\ pc'[t] = ret[t] /\ ret[t] \in {"loop", "deref"} /\ todo'[t] = {}
<1>1. ret[t] \in {"loop", "deref"}
  BY DEF IInv, TypeOK, ThreadTypes
<1>2. Steps(t, ret[t]) /\ pc'[t] = ret[t]
  BY <1>1, SignalSteps DEF ScheduleCanceled, PCs, poolVars, IInv, TypeOK, ThreadTypes
<1>3. QED
  BY <1>1, <1>2 DEF ScheduleCanceled, IInv, TypeOK, ThreadTypes

LEMMA InvokeLoopSteps ==
  ASSUME IInv, NEW t \in Threads, InvokeLoop(t)
  PROVE  Steps(t, pc'[t]) /\ pc'[t] = IF NothingToDo(Invoked(t)) THEN "waiting" ELSE "pop"
<1>1. CASE NothingToDo(Invoked(t))
  BY <1>1, GotoSteps DEF InvokeLoop, PCs, poolVars
<1>2. CASE ~NothingToDo(Invoked(t))
  BY <1>2, GotoSteps DEF InvokeLoop, PCs, poolVars
<1>3. QED
  BY <1>1, <1>2

LEMMA InvokeLeaveSteps ==
  ASSUME IInv, NEW t \in Threads, InvokeLeave(t)
  PROVE  Steps(t, "return") /\ pc'[t] = "return"
BY GotoSteps DEF InvokeLeave, PCs, poolVars

LEMMA InvokePopSteps ==
  ASSUME IInv, NEW t \in Threads, InvokePop(t)
  PROVE  /\ Steps(t, "go") /\ pc'[t] = "go" /\ hand'[t] = Head(wq)
         /\ wq \in Seq(Nodes) /\ wq /= <<>> /\ Head(wq) \in Nodes /\ wq' = Tail(wq)
<1>1. Steps(t, "go") /\ pc'[t] = "go"
  BY GotoSteps DEF InvokePop, PCs, poolVars, IInv, TypeOK, ThreadTypes
<1>2. QED
  BY <1>1 DEF InvokePop, IInv, TypeOK, ThreadTypes, QueueTypes

LEMMA InvokeNodeSteps ==
  ASSUME IInv, NEW t \in Threads, InvokeNode(t)
  PROVE  Steps(t, "loop") /\ pc'[t] = "loop" /\ hand[t] \in Nodes
<1>1. hand[t] \in Nodes
  BY DEF InvokeNode, IInv, ThreadShape
<1>2. QED
  BY <1>1, GotoSteps DEF InvokeNode, GoPool!Submit, PCs, IInv, TypeOK, ThreadTypes

LEMMA GraphReturnSteps ==
  ASSUME IInv, NEW t \in Threads, GraphReturn(t)
  PROVE  /\ Steps(t, pc'[t])
         /\ t \in Callers => pc'[t] = "returned" /\ canceled' = canceled
         /\ t \in Workers => /\ pc'[t] \in {"resetup", "drop"}
                             /\ canceled' = [h \in Graphs |-> canceled[h] \/ h \in Cancels(t)]
<1>0. pc[t] = "return" /\ UNCHANGED <<hand, ret, todo, slot>>
  BY DEF GraphReturn, poolVars
<1>1. CASE t \in Callers
  <2>1. pc' \in Signal(Invoked(t), Goto(t, "returned")) /\ canceled' = canceled
    BY <1>1 DEF GraphReturn
  <2>2. "returned" \in PCs
    BY DEF PCs
  <2>3. QED
    BY <1>0, <1>1, <2>1, <2>2, SignalSteps
<1>2. CASE t \in Workers
  <2>1. /\ pc' \in Signal(Invoked(t), Goto(t, Dropping(slot[t])))
        /\ canceled' = [h \in Graphs |-> canceled[h] \/ h \in Cancels(t)]
    BY <1>2 DEF GraphReturn
  <2>2. Dropping(slot[t]) \in {"resetup", "drop"} /\ Dropping(slot[t]) \in PCs
    BY <1>0, <1>2, SlotIsNode, DroppingPlace DEF PCs
  <2>3. QED
    BY <1>0, <1>2, <2>1, <2>2, SignalSteps
<1>3. QED
  BY <1>1, <1>2

\* Where the deferred function of a closure starts, by the type of its node.
LEMMA DeferredByType ==
  ASSUME NEW n \in Nodes
  PROVE  /\ Typ[n] = "subflow" => Deferred(n) = "setup"
         /\ Typ[n] = "condition" => Deferred(n) = "deref"
         /\ Typ[n] = "static" => Deferred(n) \in {"drop", "resetup"}
         /\ Typ[n] \in {"static", "subflow", "condition"}
BY FlowAssumption DEF Deferred, Dropping

LEMMA DeferredSteps ==
  ASSUME IInv, NEW w \in Workers, pc[w] /= "idle", pc' = Goto(w, Deferred(slot[w])),
         UNCHANGED <<hand, ret, todo, slot>>
  PROVE  Steps(w, Deferred(slot[w])) /\ pc'[w] = Deferred(slot[w])
<1>1. Deferred(slot[w]) \in PCs
  BY DeferredMoves DEF PCs
<1>2. QED
  BY <1>1, GotoSteps

LEMMA TakeTaskSteps ==
  ASSUME IInv, NEW w \in Workers, TakeTask(w)
  PROVE  /\ Steps(w, "begin") /\ pc'[w] = "begin"
         /\ slot[w] = None /\ slot'[w] = Head(taskQ) /\ taskQ' = Tail(taskQ)
         /\ taskQ \in Seq(Nodes) /\ taskQ /= <<>> /\ Head(taskQ) \in Nodes
<1>1. /\ slot[w] = None /\ taskQ /= <<>> /\ taskQ \in Seq(Nodes)
      /\ slot' = [slot EXCEPT ![w] = Head(taskQ)] /\ taskQ' = Tail(taskQ)
      /\ slot \in [Workers -> Nodes \cup {None}]
  BY DEF TakeTask, GoPool!Start, IInv, TypeOK, QueueTypes, GoPool!TypeOK
<1>2. Steps(w, "begin") /\ pc'[w] = "begin"
  BY <1>1, GotoSteps DEF TakeTask, PCs
<1>3. QED
  BY <1>1, <1>2

LEMMA BeginSteps ==
  ASSUME IInv, NEW w \in Workers, Begin(w)
  PROVE  /\ Steps(w, pc'[w])
         /\ \/ canceled[graphOf[slot[w]]] /\ pc'[w] = Deferred(slot[w]) /\ state' = state
            \/ ~canceled[graphOf[slot[w]]] /\ pc'[w] = "handle"
<1>1. pc[w] = "begin" /\ UNCHANGED <<hand, ret, todo, slot>>
  BY DEF Begin, poolVars
<1>2. CASE canceled[graphOf[slot[w]]]
  BY <1>1, <1>2, DeferredSteps DEF Begin
<1>3. CASE ~canceled[graphOf[slot[w]]]
  BY <1>1, <1>3, GotoSteps DEF Begin, PCs
<1>4. QED
  BY <1>2, <1>3

LEMMA ReturnConditionSteps ==
  ASSUME IInv, NEW w \in Workers, ReturnCondition(w)
  PROVE  /\ Steps(w, "schedule") /\ pc'[w] = "schedule" /\ ret'[w] = "deref"
         /\ slot[w] \in Nodes
         /\ \E i \in DOMAIN mapper[slot[w]] : todo'[w] = {mapper[slot[w]][i]}
<1>1. pc[w] = "handle" /\ Typ[slot[w]] = "condition"
  BY DEF ReturnCondition
<1>2. slot[w] \in Nodes
  BY <1>1, SlotIsNode
<1>3. Deferred(slot[w]) = "deref"
  BY <1>1, <1>2, DeferredByType
<1>4. Steps(w, "schedule") /\ pc'[w] = "schedule" /\ ret'[w] = "deref"
  BY <1>3, GotoSteps DEF ReturnCondition, PCs, poolVars, IInv, TypeOK, ThreadTypes
<1>5. PICK choice \in Answers(slot[w]) :
        choice < Len(mapper[slot[w]]) /\ todo' = [todo EXCEPT ![w] = Chosen(slot[w], choice)]
  BY DEF ReturnCondition
<1>6. choice \in Nat
  BY <1>1, <1>2, AnswersType DEF IInv, ThreadShape, TypeOK, NodeTypes
<1>7. choice + 1 \in DOMAIN mapper[slot[w]]
  BY <1>2, <1>5, <1>6, FlowAssumption
<1>8. todo'[w] = {mapper[slot[w]][choice + 1]}
  BY <1>5 DEF Chosen, IInv, TypeOK, ThreadTypes
<1>9. QED
  BY <1>2, <1>4, <1>7, <1>8

LEMMA LoopSteps ==
  ASSUME IInv, NEW w \in Workers, NEW l \in {"drop", "check"}, NEW m \in {"check", "resetup"},
         NextSuccessor(w, slot[w], l, m),
         \A u \in Threads \ {w} : hand'[u] = hand[u] /\ ret'[u] = ret[u] /\ todo'[u] = todo[u],
         UNCHANGED slot
  PROVE  Steps(w, pc'[w]) /\ pc'[w] \in {l, m}
<1>1. PICK k \in {l, m} : pc' = Goto(w, k)
  BY DEF NextSuccessor
<1>2. k \in PCs
  BY <1>1 DEF PCs
<1>3. QED
  BY <1>1, <1>2, GotoSteps

LEMMA DropSteps ==
  ASSUME IInv, NEW w \in Workers, Drop(w)
  PROVE  Steps(w, pc'[w]) /\ pc'[w] \in {"drop", "check"}
BY LoopSteps DEF Drop, poolVars

\* The successor that a turn of sche_successors looks at.
Candidate(w) == successors[slot[w]][idx[w]]

LEMMA CheckSuccessorSteps ==
  ASSUME IInv, NEW w \in Workers, CheckSuccessor(w)
  PROVE  /\ Steps(w, pc'[w]) /\ pc'[w] \in {"check", "resetup"}
         /\ Candidate(w) \in Nodes /\ graphOf[Candidate(w)] = graphOf[slot[w]]
         /\ \/ /\ state[Candidate(w)] = "idle" /\ state' = [state EXCEPT ![Candidate(w)] = "waiting"]
               /\ todo'[w] = todo[w] \cup {Candidate(w)}
            \/ state' = state /\ todo'[w] = todo[w]
<1>1. pc[w] = "check" /\ slot[w] \in Nodes /\ idx[w] \in DOMAIN successors[slot[w]]
  BY SlotIsNode DEF CheckSuccessor, IInv, ThreadShape
<1>2. Candidate(w) \in Nodes /\ graphOf[Candidate(w)] = graphOf[slot[w]]
  BY <1>1, FlowAssumption, NestingAssumption DEF Candidate
<1>3. Steps(w, pc'[w]) /\ pc'[w] \in {"check", "resetup"}
  BY LoopSteps DEF CheckSuccessor, poolVars, IInv, TypeOK, ThreadTypes
<1>4. \/ /\ state[Candidate(w)] = "idle" /\ state' = [state EXCEPT ![Candidate(w)] = "waiting"]
         /\ todo'[w] = todo[w] \cup {Candidate(w)}
      \/ state' = state /\ todo'[w] = todo[w]
  BY DEF CheckSuccessor, Claimable, Candidate, IInv, TypeOK, ThreadTypes
<1>5. QED
  BY <1>2, <1>3, <1>4

LEMMA ResetupSteps ==
  ASSUME IInv, NEW w \in Workers, Resetup(w)
  PROVE  /\ Steps(w, pc'[w]) /\ pc[w] = "resetup" /\ UNCHANGED <<hand, todo, slot>>
         /\ slot[w] \in Nodes
         /\ \/ Typ[slot[w]] = "condition" /\ pc'[w] = "done"
            \/ /\ Typ[slot[w]] /= "condition" /\ ret'[w] = "deref"
               /\ pc'[w] = IF todo[w] = {} THEN "deref" ELSE "schedule"
<1>1. pc[w] = "resetup" /\ UNCHANGED <<hand, todo, slot>> /\ slot[w] \in Nodes
  BY SlotIsNode DEF Resetup, poolVars
<1>2. CASE Typ[slot[w]] = "condition"
  BY <1>1, <1>2, GotoSteps DEF Resetup, PCs
<1>3. CASE Typ[slot[w]] /= "condition"
  <2>1. pc' = Goto(w, Scheduling(todo[w], "deref")) /\ ret' = [ret EXCEPT ![w] = "deref"]
    BY <1>3 DEF Resetup
  <2>2. Scheduling(todo[w], "deref") = IF todo[w] = {} THEN "deref" ELSE "schedule"
    BY DEF Scheduling
  <2>3. Scheduling(todo[w], "deref") \in PCs
    BY <2>2 DEF PCs
  <2>4. ret'[w] = "deref" /\ \A u \in Threads \ {w} : ret'[u] = ret[u]
    BY <2>1 DEF IInv, TypeOK, ThreadTypes
  <2>5. Steps(w, Scheduling(todo[w], "deref")) /\ pc'[w] = Scheduling(todo[w], "deref")
    BY <1>1, <2>1, <2>3, <2>4, GotoSteps
  <2>6. QED
    BY <1>1, <1>3, <2>2, <2>4, <2>5
<1>4. QED
  BY <1>2, <1>3

LEMMA DerefSteps ==
  ASSUME IInv, NEW w \in Workers, Deref(w)
  PROVE  /\ Steps(w, pc'[w]) /\ pc[w] = "deref" /\ UNCHANGED <<hand, todo, slot>>
         /\ slot[w] \in Nodes /\ graphOf[slot[w]] \in Graphs
         /\ pc'[w] = IF Typ[slot[w]] = "condition" THEN "resetup" ELSE "done"
         /\ gJoin' = [gJoin EXCEPT ![graphOf[slot[w]]] = gJoin[graphOf[slot[w]]] - 1]
<1> DEFINE l == IF Typ[slot[w]] = "condition" THEN "resetup" ELSE "done"
<1>1. /\ pc[w] = "deref" /\ UNCHANGED <<hand, todo, ret, slot>>
      /\ pc' \in Signal(graphOf[slot[w]], Goto(w, l))
      /\ slot[w] \in Nodes /\ graphOf[slot[w]] \in Graphs
  BY SlotIsNode DEF Deref, poolVars
<1>2. l \in PCs
  BY DEF PCs
<1> HIDE DEF l
<1>3. Steps(w, l) /\ pc'[w] = l
  BY <1>1, <1>2, SignalSteps
<1>4. QED
  BY <1>1, <1>3 DEF l, Deref

LEMMA DoneSteps ==
  ASSUME IInv, NEW w \in Workers, Done(w)
  PROVE  /\ Steps(w, "idle") /\ pc[w] = "done" /\ pc'[w] = "idle"
         /\ slot[w] \in Nodes /\ slot'[w] = None
<1>1. /\ slot' = [slot EXCEPT ![w] = None] /\ slot \in [Workers -> Nodes \cup {None}]
      /\ pc[w] = "done" /\ slot[w] \in Nodes
  BY SlotIsNode DEF Done, GoPool!Finish, IInv, TypeOK, QueueTypes, GoPool!TypeOK
<1>2. Steps(w, "idle") /\ pc'[w] = "idle"
  BY <1>1, GotoSteps DEF Done, PCs
<1>3. QED
  BY <1>1, <1>2

-----------------------------------------------------------------------------
(***************************************************************************)
(* Each action preserves GInv.  First those that schedule and release      *)
(* nothing.                                                                *)
(***************************************************************************)

LEMMA RunGood ==
  ASSUME IInv, GInv, NEW c \in Callers, Run(c)
  PROVE  GInv'
<1>1. Steps(c, "setup") /\ pc'[c] = "setup"
  BY RunSteps
<1>2. /\ pc[c] \in {"idle", "returned"}
      /\ UNCHANGED <<ret, todo, hand, wq, taskQ, slot, gJoin, canceled, mu>>
  BY DEF Run, poolVars, graphVars
<1>3. Place(c)'
  <2>1. todo[c] = {}
    BY <1>2 DEF GInv, Places, Place, ClaimPlace, Publishing
  <2>2. QED
    BY <1>1, <1>2, <2>1 DEF Place, CallerPlace, CallerPCs, ClaimPlace, Publishing
<1>4. IInv'
  BY RunInv
<1>5. QED
  BY <1>1, <1>2, <1>3, <1>4, SilentInv DEF Serving

LEMMA WaitGood ==
  ASSUME IInv, GInv, NEW c \in Callers, Wait(c)
  PROVE  GInv'
<1>1. Steps(c, "idle") /\ pc'[c] = "idle"
  BY WaitSteps
<1>2. /\ pc[c] = "returned"
      /\ UNCHANGED <<ret, todo, hand, wq, taskQ, slot, gJoin, canceled, mu>>
  BY DEF Wait, poolVars, graphVars
<1>3. Place(c)'
  <2>1. todo[c] = {}
    BY <1>2 DEF GInv, Places, Place, ClaimPlace, Publishing
  <2>2. QED
    BY <1>1, <1>2, <2>1 DEF Place, CallerPlace, CallerPCs, ClaimPlace, Publishing
<1>4. IInv'
  BY WaitInv
<1>5. QED
  BY <1>1, <1>2, <1>3, <1>4, SilentInv DEF Serving

LEMMA SetupGood ==
  ASSUME IInv, GInv, NEW t \in Threads, Setup(t)
  PROVE  GInv'
<1>1. /\ Steps(t, pc'[t]) /\ ret'[t] = "loop"
      /\ pc'[t] = IF todo'[t] = {} THEN "loop" ELSE "schedule"
      /\ todo'[t] = {n \in NodesIn(Invoked(t)) : dependents[n] = {}}
  BY SetupSteps
<1>2. /\ pc[t] = "entries"
      /\ UNCHANGED <<hand, wq, taskQ, slot, gJoin, canceled, mu>>
  BY DEF Setup, poolVars, graphVars
<1>3. Driving(t)' /\ Serving(t)' /\ Invoked(t)' = Invoked(t)
  BY <1>1, <1>2 DEF Serving, Invoked
<1>4. Place(t)'
  <2>1. t \in Callers => CallerPlace(t)'
    BY <1>1 DEF CallerPlace, CallerPCs, Publishing
  <2>2. t \in Workers => WorkerPlace(t)'
    BY <1>1, <1>2 DEF WorkerPlace, GInv, Places, Place
  <2>3. todo'[t] /= {} => Origin(t)' = Invoked(t)
    BY <1>1, <1>3 DEF Origin, Publishing
  <2>4. \A n \in todo'[t] : graphOf[n] = Invoked(t)
    BY <1>1 DEF NodesIn
  <2>5. ClaimPlace(t)'
    BY <1>1, <2>3, <2>4 DEF ClaimPlace, Publishing
  <2>6. QED
    BY <1>1, <2>1, <2>2, <2>5 DEF Place
<1>5. IInv'
  BY SetupInv
<1>6. Released(t)' <=> Released(t)
  BY <1>1, <1>2 DEF Released
<1>7. QED
  BY <1>1, <1>2, <1>3, <1>4, <1>5, <1>6, SilentInv

LEMMA ScheduleAddGood ==
  ASSUME IInv, GInv, NEW t \in Threads, ScheduleAdd(t)
  PROVE  GInv'
<1>1. /\ Steps(t, "ref") /\ pc'[t] = "ref"
      /\ hand'[t] \in todo[t] /\ todo'[t] = todo[t] \ {hand'[t]}
  BY ScheduleAddSteps
<1>2. /\ pc[t] = "schedule"
      /\ UNCHANGED <<ret, wq, taskQ, slot, gJoin, canceled, mu>>
  BY DEF ScheduleAdd, poolVars, graphVars
<1>3. /\ Driving(t)' <=> Driving(t)
      /\ Serving(t)' <=> Serving(t)
      /\ Invoked(t)' = Invoked(t) /\ Origin(t)' = Origin(t)
  BY <1>1, <1>2 DEF Serving, Invoked, Origin, Publishing
<1>4. Place(t)'
  <2>1. t \in Callers => CallerPlace(t)'
    BY <1>1, <1>2 DEF CallerPlace, CallerPCs, Publishing, GInv, Places, Place
  <2>2. t \in Workers => WorkerPlace(t)'
    BY <1>1, <1>2, <1>3 DEF WorkerPlace, GInv, Places, Place
  <2>3. \A n \in todo[t] : graphOf[n] = Origin(t)
    BY DEF GInv, Places, Place, ClaimPlace
  <2>4. ClaimPlace(t)'
    BY <1>1, <1>3, <2>3 DEF ClaimPlace, Publishing
  <2>5. QED
    BY <1>1, <2>1, <2>2, <2>4 DEF Place
<1>5. IInv'
  BY ScheduleAddInv
<1>6. Released(t)' <=> Released(t)
  BY <1>1, <1>2 DEF Released
<1>7. QED
  BY <1>1, <1>2, <1>3, <1>4, <1>5, <1>6, SilentInv

LEMMA ScheduleCanceledGood ==
  ASSUME IInv, GInv, NEW t \in Threads, ScheduleCanceled(t)
  PROVE  GInv'
<1>1. /\ Steps(t, ret[t]) /\ pc'[t] = ret[t] /\ ret[t] \in {"loop", "deref"} /\ todo'[t] = {}
  BY ScheduleCanceledSteps
<1>2. /\ pc[t] = "schedule"
      /\ UNCHANGED <<ret, hand, wq, taskQ, slot, gJoin, canceled, mu>>
  BY DEF ScheduleCanceled, poolVars, graphVars
<1>3. /\ Driving(t)' <=> Driving(t)
      /\ Serving(t)' <=> Serving(t)
  BY <1>1, <1>2 DEF Serving
<1>4. Place(t)'
  <2>1. t \in Callers => CallerPlace(t)'
    BY <1>1, <1>2 DEF CallerPlace, CallerPCs, Publishing, GInv, Places, Place
  <2>2. t \in Workers => WorkerPlace(t)'
    BY <1>1, <1>2, <1>3 DEF WorkerPlace, GInv, Places, Place
  <2>3. ClaimPlace(t)'
    BY <1>1 DEF ClaimPlace, Publishing
  <2>4. QED
    BY <1>1, <2>1, <2>2, <2>3 DEF Place
<1>5. IInv'
  BY ScheduleCanceledInv
<1>6. Released(t)' <=> Released(t)
  BY <1>1, <1>2 DEF Released
<1>7. QED
  BY <1>1, <1>2, <1>3, <1>4, <1>5, <1>6, SilentInv

LEMMA InvokeLoopGood ==
  ASSUME IInv, GInv, NEW t \in Threads, InvokeLoop(t)
  PROVE  GInv'
<1>1. Steps(t, pc'[t]) /\ pc'[t] = IF NothingToDo(Invoked(t)) THEN "waiting" ELSE "pop"
  BY InvokeLoopSteps
<1>2. /\ pc[t] = "loop" /\ mu = None
      /\ UNCHANGED <<ret, todo, hand, wq, taskQ, slot, gJoin, canceled>>
      /\ pc'[t] = "pop" => mu' = t
  <2>1. /\ pc[t] = "loop" /\ mu = None
        /\ UNCHANGED <<ret, todo, hand, wq, taskQ, slot, gJoin, canceled>>
        /\ \/ NothingToDo(Invoked(t)) /\ UNCHANGED mu
           \/ ~NothingToDo(Invoked(t)) /\ mu' = t
    BY DEF InvokeLoop, poolVars, graphVars
  <2>2. QED
    BY <1>1, <2>1
<1>3. Driving(t)' /\ Driving(t) /\ Serving(t)'
  BY <1>1, <1>2 DEF Serving
<1>4. Place(t)'
  <2>1. todo[t] = {}
    BY <1>2 DEF GInv, Places, Place, ClaimPlace, Publishing
  <2>2. t \in Callers => CallerPlace(t)'
    BY <1>1 DEF CallerPlace, CallerPCs, Publishing
  <2>3. t \in Workers => WorkerPlace(t)'
    BY <1>1, <1>2, <1>3 DEF WorkerPlace, GInv, Places, Place
  <2>4. ClaimPlace(t)'
    BY <1>1, <1>2, <2>1 DEF ClaimPlace, Publishing
  <2>5. QED
    BY <1>2, <2>2, <2>3, <2>4 DEF Place
<1>5. IInv'
  BY InvokeLoopInv
<1>6. Released(t)' <=> Released(t)
  BY <1>1, <1>2 DEF Released
<1>7. pc'[t] = "pop" => canceled[Invoked(t)] \/ gJoin[Invoked(t)] = 0 \/ wq /= <<>>
  BY <1>1 DEF NothingToDo
<1>8. pc[t] \notin {"push", "go"} /\ pc'[t] \notin {"push", "go"}
  BY <1>1, <1>2
<1>9. \A u \in Threads \ {t} : mu = u => mu' = u
  BY <1>2
<1>10. QED
  BY <1>1, <1>2, <1>3, <1>4, <1>5, <1>6, <1>7, <1>8, <1>9, SilentInv

LEMMA InvokeLeaveGood ==
  ASSUME IInv, GInv, NEW t \in Threads, InvokeLeave(t)
  PROVE  GInv'
<1>1. Steps(t, "return") /\ pc'[t] = "return"
  BY InvokeLeaveSteps
<1>2. /\ pc[t] = "pop" /\ mu' = None
      /\ gJoin[Invoked(t)] = 0 \/ canceled[Invoked(t)]
      /\ UNCHANGED <<ret, todo, hand, wq, taskQ, slot, gJoin, canceled>>
  BY DEF InvokeLeave, Leaving, poolVars, graphVars
<1>3. mu = t
  BY <1>2 DEF GInv, Places, Place
<1>4. Place(t)'
  <2>1. todo[t] = {}
    BY <1>2 DEF GInv, Places, Place, ClaimPlace, Publishing
  <2>2. t \in Workers => Typ[slot[t]] = "subflow"
    BY <1>2 DEF WorkerPlace, GInv, Places, Place
  <2>3. QED
    BY <1>1, <1>2, <2>1, <2>2
       DEF Place, CallerPlace, CallerPCs, WorkerPlace, ClaimPlace, Publishing
<1>5. IInv'
  BY InvokeLeaveInv
<1>6. Released(t)' <=> Released(t)
  BY <1>1, <1>2 DEF Released
<1>7. Driving(t)'
  BY <1>1
<1>8. QED
  BY <1>1, <1>2, <1>3, <1>4, <1>5, <1>6, <1>7, SilentInv

\* The steps of a closure between the start of its handler and its end, outside
\* scheduleGraph.
LEMMA ClosureGood ==
  ASSUME IInv, GInv, IInv', NEW w \in Workers, NEW l, Steps(w, l),
         UNCHANGED <<wq, taskQ, slot, gJoin, canceled, mu>>,
         pc[w] \in {"begin", "handle", "drop", "check", "resetup"},
         l \in {"handle", "drop", "check", "resetup", "setup", "schedule", "deref", "done"},
         l = "setup" => Typ[slot[w]] = "subflow",
         l \in {"drop", "check"} => Typ[slot[w]] /= "condition",
         l = "schedule" => ret'[w] = "deref",
         (l = "done" \/ (l = "resetup" /\ Typ[slot[w]] = "condition")) <=>
           (pc[w] = "resetup" /\ Typ[slot[w]] = "condition"),
         todo'[w] /= {} => l \in {"check", "resetup", "schedule"},
         \A n \in todo'[w] : graphOf[n] = graphOf[slot[w]],
         l = "resetup" /\ todo'[w] /= {} => Typ[slot[w]] /= "condition"
  PROVE  GInv'
<1>1. pc'[w] = l /\ w \notin Callers
  BY DEF Steps, Moves
<1>2. ~Driving(w) /\ ~Serving(w)
  BY DEF Serving
<1>3. Place(w)'
  <2>1. WorkerPlace(w)'
    BY <1>1 DEF WorkerPlace
  <2>2. ClaimPlace(w)'
    BY <1>1 DEF ClaimPlace, Publishing, Origin
  <2>3. QED
    BY <1>1, <2>1, <2>2 DEF Place
<1>4. Released(w)' <=> Released(w)
  BY <1>1 DEF Released
<1>5. QED
  BY <1>2, <1>3, <1>4, SilentInv

\* Outside schedule() and the loop over the successors nothing is claimed.
LEMMA NothingClaimed ==
  ASSUME GInv, NEW t \in Threads, ~Publishing(t), pc[t] \notin {"check", "resetup"}
  PROVE  todo[t] = {}
BY DEF GInv, Places, Place, ClaimPlace

LEMMA BeginGood ==
  ASSUME IInv, GInv, NEW w \in Workers, Begin(w)
  PROVE  GInv'
<1>1. /\ Steps(w, pc'[w])
      /\ pc'[w] = Deferred(slot[w]) \/ pc'[w] = "handle"
  BY BeginSteps
<1>2. pc[w] = "begin" /\ UNCHANGED <<todo, wq, taskQ, slot, gJoin, canceled, mu>>
  BY DEF Begin, poolVars, graphVars
<1>3. slot[w] \in Nodes /\ todo[w] = {}
  BY <1>2, SlotIsNode, NothingClaimed DEF Publishing
<1>4. IInv'
  BY BeginInv
<1>5. QED
  BY <1>1, <1>2, <1>3, <1>4, DeferredByType, ClosureGood

LEMMA ReturnStaticGood ==
  ASSUME IInv, GInv, NEW w \in Workers, ReturnStatic(w)
  PROVE  GInv'
<1>1. /\ pc[w] = "handle" /\ pc' = Goto(w, Deferred(slot[w])) /\ Typ[slot[w]] = "static"
      /\ UNCHANGED <<hand, ret, todo, wq, taskQ, slot, gJoin, canceled, mu>>
  BY DEF ReturnStatic, poolVars, graphVars
<1>2. slot[w] \in Nodes /\ todo[w] = {}
  BY <1>1, SlotIsNode, NothingClaimed DEF Publishing
<1>3. Steps(w, Deferred(slot[w])) /\ pc'[w] = Deferred(slot[w])
  BY <1>1, DeferredSteps
<1>4. IInv'
  BY ReturnStaticInv
<1>5. QED
  BY <1>1, <1>2, <1>3, <1>4, DeferredByType, ClosureGood

LEMMA ReturnSubflowGood ==
  ASSUME IInv, GInv, NEW w \in Workers, ReturnSubflow(w)
  PROVE  GInv'
<1>1. /\ pc[w] = "handle" /\ pc' = Goto(w, Deferred(slot[w])) /\ Typ[slot[w]] = "subflow"
      /\ UNCHANGED <<hand, ret, todo, wq, taskQ, slot, gJoin, canceled, mu>>
  BY DEF ReturnSubflow, poolVars
<1>2. slot[w] \in Nodes /\ todo[w] = {}
  BY <1>1, SlotIsNode, NothingClaimed DEF Publishing
<1>3. Steps(w, Deferred(slot[w])) /\ pc'[w] = Deferred(slot[w])
  BY <1>1, DeferredSteps
<1>4. IInv'
  BY ReturnSubflowInv
<1>5. QED
  BY <1>1, <1>2, <1>3, <1>4, DeferredByType, ClosureGood

\* What a condition chooses belongs to its own graph.
LEMMA MapperPlace ==
  ASSUME NEW n \in Nodes, NEW i \in DOMAIN mapper[n]
  PROVE  mapper[n][i] \in Nodes /\ graphOf[mapper[n][i]] = graphOf[n]
<1>1. mapper[n][i] \in Nodes
  BY FlowAssumption
<1>2. PICK j \in DOMAIN successors[n] : successors[n][j] = mapper[n][i]
  BY NestingAssumption
<1>3. QED
  BY <1>1, <1>2, NestingAssumption

LEMMA ReturnConditionGood ==
  ASSUME IInv, GInv, NEW w \in Workers, ReturnCondition(w)
  PROVE  GInv'
<1>1. /\ Steps(w, "schedule") /\ pc'[w] = "schedule" /\ ret'[w] = "deref"
      /\ slot[w] \in Nodes
      /\ \E i \in DOMAIN mapper[slot[w]] : todo'[w] = {mapper[slot[w]][i]}
  BY ReturnConditionSteps
<1>2. /\ pc[w] = "handle"
      /\ UNCHANGED <<wq, taskQ, slot, gJoin, canceled, mu>>
  BY DEF ReturnCondition, poolVars, graphVars
<1>3. \A n \in todo'[w] : graphOf[n] = graphOf[slot[w]]
  BY <1>1, MapperPlace
<1>4. IInv'
  BY ReturnConditionInv
<1>5. QED
  BY <1>1, <1>2, <1>3, <1>4, ClosureGood

LEMMA DropGood ==
  ASSUME IInv, GInv, NEW w \in Workers, Drop(w)
  PROVE  GInv'
<1>1. Steps(w, pc'[w]) /\ pc'[w] \in {"drop", "check"}
  BY DropSteps
<1>2. pc[w] = "drop" /\ UNCHANGED <<todo, wq, taskQ, slot, gJoin, canceled, mu>>
  BY DEF Drop, poolVars, graphVars
<1>3. todo[w] = {} /\ Typ[slot[w]] /= "condition"
  BY <1>2, NothingClaimed DEF Publishing, GInv, Places, Place, WorkerPlace
<1>4. IInv'
  BY DropInv
<1>5. QED
  BY <1>1, <1>2, <1>3, <1>4, ClosureGood

LEMMA CheckSuccessorGood ==
  ASSUME IInv, GInv, NEW w \in Workers, CheckSuccessor(w)
  PROVE  GInv'
<1>1. /\ Steps(w, pc'[w]) /\ pc'[w] \in {"check", "resetup"}
      /\ graphOf[Candidate(w)] = graphOf[slot[w]]
      /\ todo'[w] = todo[w] \cup {Candidate(w)} \/ todo'[w] = todo[w]
  BY CheckSuccessorSteps
<1>2. pc[w] = "check" /\ UNCHANGED <<wq, taskQ, slot, gJoin, canceled, mu>>
  BY DEF CheckSuccessor, poolVars, graphVars
<1>3. /\ Typ[slot[w]] /= "condition"
      /\ \A n \in todo[w] : graphOf[n] = graphOf[slot[w]]
  BY <1>2 DEF GInv, Places, Place, WorkerPlace, ClaimPlace, Origin, Publishing
<1>4. IInv'
  BY CheckSuccessorInv
<1>5. QED
  BY <1>1, <1>2, <1>3, <1>4, ClosureGood

LEMMA ResetupGood ==
  ASSUME IInv, GInv, NEW w \in Workers, Resetup(w)
  PROVE  GInv'
<1>1. /\ Steps(w, pc'[w]) /\ pc[w] = "resetup" /\ UNCHANGED <<todo, slot>>
      /\ \/ Typ[slot[w]] = "condition" /\ pc'[w] = "done"
         \/ /\ Typ[slot[w]] /= "condition" /\ ret'[w] = "deref"
            /\ pc'[w] = IF todo[w] = {} THEN "deref" ELSE "schedule"
  BY ResetupSteps
<1>2. UNCHANGED <<wq, taskQ, slot, gJoin, canceled, mu>>
  BY DEF Resetup, poolVars, graphVars
<1>3. /\ todo[w] /= {} => Typ[slot[w]] /= "condition"
      /\ \A n \in todo[w] : graphOf[n] = graphOf[slot[w]]
  BY <1>1 DEF GInv, Places, Place, ClaimPlace, Origin, Publishing
<1>4. IInv'
  BY ResetupInv
<1>5. QED
  BY <1>1, <1>2, <1>3, <1>4, ClosureGood

-----------------------------------------------------------------------------
(***************************************************************************)
(* The steps that cancel graphs.                                           *)
(***************************************************************************)

\* The thread that serves the graph of a subflow is the worker of its node.
LEMMA ServerIsOwner ==
  ASSUME Places, NEW o \in Nodes, Typ[o] = "subflow", NEW u \in Threads, Driving(u),
         slot \in [Workers -> Nodes \cup {None}], u \in Workers => slot[u] \in Nodes,
         Invoked(u) = subgraph[o]
  PROVE  u \in Workers /\ slot[u] = o
<1>1. CASE u \in Callers
  BY <1>1, NestingAssumption DEF Invoked
<1>2. CASE u \in Workers
  <2>1. u \notin Callers /\ subgraph[slot[u]] = subgraph[o] /\ Typ[slot[u]] = "subflow"
    BY <1>2 DEF Invoked, Places, Place, WorkerPlace
  <2>2. QED
    BY <1>2, <2>1, NestingAssumption
<1>3. QED
  BY <1>1, <1>2

\* A worker cancels the graph of its node, perhaps with the graph of a subflow.
LEMMA MarksSpread ==
  ASSUME IInv, GInv, NEW w \in Workers, NEW l, Steps(w, l), slot' = slot,
         slot[w] \in Nodes, ~Released(w), ~Serving(w),
         \A g \in Graphs : canceled[g] => canceled'[g],
         \A g \in Graphs : canceled'[g] =>
           \/ canceled[g] \/ g = graphOf[slot[w]]
           \/ Typ[slot[w]] = "subflow" /\ g = subgraph[slot[w]] /\ canceled'[graphOf[slot[w]]],
         Driving(w) /\ canceled[Invoked(w)] => canceled'[graphOf[slot[w]]]
  PROVE  MarksTravel'
<1> SUFFICES ASSUME NEW o \in Nodes, Typ[o] = "subflow", canceled'[subgraph[o]],
                    ~canceled'[graphOf[o]]
             PROVE  \E v \in Workers : Driving(v)' /\ slot'[v] = o
  BY DEF MarksTravel
<1>1. subgraph[o] \in Graphs /\ graphOf[o] \in Graphs /\ ~canceled[graphOf[o]]
  BY FlowAssumption
<1>2. CASE canceled[subgraph[o]]
  <2>1. PICK v \in Workers : Driving(v) /\ slot[v] = o
    BY <1>1, <1>2 DEF GInv, MarksTravel
  <2>2. v /= w
    BY <1>2, <2>1 DEF Invoked
  <2>3. QED
    BY <2>1, <2>2, OthersStay
<1>3. CASE ~canceled[subgraph[o]]
  <2>1. subgraph[o] = graphOf[slot[w]]
    BY <1>1, <1>3, NestingAssumption
  <2>2. gJoin[graphOf[slot[w]]] /= 0
    BY <1>3, <2>1, WorkerCounts DEF IInv, GInv
  <2>3. PICK u \in Threads : Serving(u) /\ Invoked(u) = subgraph[o]
    BY <1>1, <1>3, <2>1, <2>2 DEF GInv, Quiet
  <2>4. Driving(u) /\ pc[u] /= "idle"
    BY <2>3 DEF Serving
  <2>5. u \in Workers /\ slot[u] = o
    BY <2>3, <2>4, ServerIsOwner, SlotIsNode
       DEF GInv, IInv, TypeOK, QueueTypes, GoPool!TypeOK
  <2>6. u /= w
    BY <2>3
  <2>7. QED
    BY <2>4, <2>5, <2>6, OthersStay
<1>4. QED
  BY <1>2, <1>3

LEMMA CancelGood ==
  ASSUME IInv, GInv, IInv', NEW w \in Workers, NEW l, Steps(w, l),
         UNCHANGED <<wq, taskQ, slot, gJoin, mu>>,
         slot[w] \in Nodes, ~Released(w), ~Released(w)', ~Serving(w),
         Place(w)', pc[w] \notin {"push", "go"}, l \notin {"push", "go", "pop"},
         \A g \in Graphs : canceled[g] => canceled'[g],
         \A g \in Graphs : canceled'[g] =>
           \/ canceled[g] \/ g = graphOf[slot[w]]
           \/ Typ[slot[w]] = "subflow" /\ g = subgraph[slot[w]] /\ canceled'[graphOf[slot[w]]],
         Driving(w) /\ canceled[Invoked(w)] => canceled'[graphOf[slot[w]]]
  PROVE  GInv'
<1>1. Places'
  BY PlacesStay DEF GInv
<1>2. JoinAccounting'
  BY JoinStays DEF GInv, IInv
<1>3. Quiet'
  BY QuietStays DEF GInv
<1>4. PopKept'
  <2>1. ASSUME NEW u \in Threads, pc[u] = "pop"
        PROVE  canceled[Invoked(u)] => canceled'[Invoked(u)]
    <3>1. u \in Workers => slot[u] \in Nodes
      BY <2>1, SlotIsNode
    <3>2. Invoked(u) \in Graphs
      BY <3>1, FlowAssumption DEF Invoked
    <3>3. QED
      BY <3>2
  <2>2. QED
    BY <2>1, PopKeptStays DEF GInv
<1>5. MarksTravel'
  BY MarksSpread
<1>6. QED
  BY <1>1, <1>2, <1>3, <1>4, <1>5 DEF GInv

LEMMA GraphReturnGood ==
  ASSUME IInv, GInv, NEW t \in Threads, GraphReturn(t)
  PROVE  GInv'
<1>1. /\ Steps(t, pc'[t])
      /\ t \in Callers => pc'[t] = "returned" /\ canceled' = canceled
      /\ t \in Workers => /\ pc'[t] \in {"resetup", "drop"}
                          /\ canceled' = [h \in Graphs |-> canceled[h] \/ h \in Cancels(t)]
  BY GraphReturnSteps
<1>2. pc[t] = "return" /\ UNCHANGED <<ret, todo, hand, wq, taskQ, slot, gJoin, mu>>
  BY DEF GraphReturn, poolVars
<1>3. IInv' /\ todo[t] = {}
  BY <1>2, GraphReturnInv, NothingClaimed DEF Publishing
<1>4. CASE t \in Callers
  <2>1. Place(t)'
    BY <1>1, <1>2, <1>3, <1>4 DEF Place, CallerPlace, CallerPCs, ClaimPlace, Publishing
  <2>2. QED
    BY <1>1, <1>2, <1>3, <1>4, <2>1, SilentInv DEF Serving
<1>5. CASE t \in Workers
  <2>1. slot[t] \in Nodes /\ Typ[slot[t]] = "subflow" /\ Driving(t) /\ Invoked(t) = subgraph[slot[t]]
    BY <1>2, <1>5, SlotIsNode DEF GInv, Places, Place, WorkerPlace, Invoked
  <2>2. Place(t)'
    BY <1>1, <1>2, <1>3, <1>5, <2>1 DEF Place, WorkerPlace, ClaimPlace, Publishing
  <2>3. ~Released(t) /\ ~Released(t)' /\ ~Serving(t)
    BY <1>1, <1>2, <1>5, <2>1 DEF Released, Serving
  <2>4. \A h \in Graphs : canceled'[h] <=> canceled[h] \/ (canceled[Invoked(t)] /\ h = graphOf[slot[t]])
    BY <1>1, <1>5 DEF Cancels, IInv, TypeOK, GraphTypes
  <2>5. graphOf[slot[t]] \in Graphs
    BY <2>1, FlowAssumption
  <2>6. pc'[t] \notin {"push", "go", "pop"} /\ pc[t] \notin {"push", "go"}
    BY <1>1, <1>2, <1>5
  <2>7. QED
    BY <1>1, <1>2, <1>3, <1>5, <2>1, <2>2, <2>3, <2>4, <2>5, <2>6, CancelGood
<1>6. QED
  BY <1>4, <1>5

\* A handler that panics, or that answers with a choice that does not exist.
LEMMA PanicGood ==
  ASSUME IInv, GInv, IInv', NEW w \in Workers, pc[w] = "handle", pc' = Goto(w, Deferred(slot[w])),
         UNCHANGED <<ret, todo, hand, wq, taskQ, slot, gJoin, mu>>,
         \A g \in Graphs : canceled'[g] <=>
           \/ canceled[g] \/ g = graphOf[slot[w]]
           \/ Typ[slot[w]] = "subflow" /\ g = subgraph[slot[w]]
  PROVE  GInv'
<1>1. slot[w] \in Nodes /\ graphOf[slot[w]] \in Graphs /\ todo[w] = {}
  BY SlotIsNode, NothingClaimed DEF Publishing
<1>2. Steps(w, Deferred(slot[w])) /\ pc'[w] = Deferred(slot[w])
  BY DeferredSteps
<1>3. /\ Typ[slot[w]] = "subflow" => Deferred(slot[w]) = "setup"
      /\ Typ[slot[w]] = "condition" => Deferred(slot[w]) = "deref"
      /\ Typ[slot[w]] = "static" => Deferred(slot[w]) \in {"drop", "resetup"}
      /\ Typ[slot[w]] \in {"static", "subflow", "condition"}
  BY <1>1, DeferredByType
<1>4. Place(w)'
  <2>1. w \notin Callers
    OBVIOUS
  <2>2. QED
    BY <1>1, <1>2, <1>3, <2>1 DEF Place, WorkerPlace, ClaimPlace, Publishing
<1>5. ~Released(w) /\ ~Released(w)' /\ ~Serving(w) /\ ~Driving(w)
  BY <1>2, <1>3 DEF Released, Serving
<1>6. QED
  BY <1>1, <1>2, <1>3, <1>4, <1>5, CancelGood

LEMMA ChoosePanicGood ==
  ASSUME IInv, GInv, NEW w \in Workers, ChoosePanic(w)
  PROVE  GInv'
<1>1. /\ pc[w] = "handle" /\ pc' = Goto(w, Deferred(slot[w])) /\ Typ[slot[w]] = "condition"
      /\ UNCHANGED <<ret, todo, hand, wq, taskQ, slot, gJoin, mu>>
      /\ canceled' = [canceled EXCEPT ![graphOf[slot[w]]] = TRUE]
  BY DEF ChoosePanic, poolVars
<1>2. \A g \in Graphs : canceled'[g] <=> canceled[g] \/ g = graphOf[slot[w]]
  BY <1>1 DEF IInv, TypeOK, GraphTypes
<1>3. IInv'
  BY ChoosePanicInv
<1>4. QED
  BY <1>1, <1>2, <1>3, PanicGood

LEMMA HandlerPanicGood ==
  ASSUME IInv, GInv, NEW w \in Workers, HandlerPanic(w)
  PROVE  GInv'
<1>1. /\ pc[w] = "handle" /\ pc' = Goto(w, Deferred(slot[w]))
      /\ UNCHANGED <<ret, todo, hand, wq, taskQ, slot, gJoin, mu>>
      /\ canceled' = [g \in Graphs |-> \/ canceled[g] \/ g = graphOf[slot[w]]
                                       \/ Typ[slot[w]] = "subflow" /\ g = subgraph[slot[w]]]
  BY DEF HandlerPanic, poolVars
<1>2. \A g \in Graphs : canceled'[g] <=>
        \/ canceled[g] \/ g = graphOf[slot[w]]
        \/ Typ[slot[w]] = "subflow" /\ g = subgraph[slot[w]]
  BY <1>1
<1>3. IInv'
  BY HandlerPanicInv
<1>4. QED
  BY <1>1, <1>2, <1>3, PanicGood

-----------------------------------------------------------------------------
(***************************************************************************)
(* The steps that schedule, move and release nodes.                        *)
(***************************************************************************)

\* A thread in the loop of invokeGraph drives a graph.
LEMMA InvokedType ==
  ASSUME IInv, GInv, NEW t \in Threads, Driving(t)
  PROVE  Invoked(t) \in Graphs
<1>1. CASE t \in Callers
  BY <1>1, FlowAssumption DEF Invoked
<1>2. CASE t \in Workers
  BY <1>2, SlotIsNode, FlowAssumption DEF Invoked
<1>3. QED
  BY <1>1, <1>2

\* One thread moves at a time.
LEMMA PartsMove ==
  ASSUME TypeOK, TypeOK', NEW t \in Threads, NEW l, Steps(t, l), NEW g
  PROVE  /\ Cardinality(Carried(g))' + (IF t \in Carried(g) THEN 1 ELSE 0)
              = Cardinality(Carried(g)) + (IF t \in Carried(g)' THEN 1 ELSE 0)
         /\ Cardinality(Unreleased(g))' + (IF t \in Unreleased(g) THEN 1 ELSE 0)
              = Cardinality(Unreleased(g)) + (IF t \in Unreleased(g)' THEN 1 ELSE 0)
         /\ Cardinality(Carried(g)) \in Nat /\ Cardinality(Carried(g))' \in Nat
         /\ Cardinality(Unreleased(g)) \in Nat /\ Cardinality(Unreleased(g))' \in Nat
<1>1. /\ Carried(g) \in SUBSET Threads /\ Carried(g)' \in SUBSET Threads
      /\ Unreleased(g) \in SUBSET Threads /\ Unreleased(g)' \in SUBSET Threads
  BY DEF Carried, Unreleased, InHand, GoPool!Running
<1>2. ASSUME NEW u \in Threads \ {t} PROVE u \in Carried(g) <=> u \in Carried(g)'
  BY OthersStay DEF Carried, InHand, Steps
<1>3. ASSUME NEW u \in Threads \ {t} PROVE u \in Unreleased(g) <=> u \in Unreleased(g)'
  BY OthersStay DEF Unreleased, GoPool!Running, Steps
<1>4. QED
  BY <1>1, <1>2, <1>3, CountMoves

\* What one step adds to the counter it adds to what is scheduled.
LEMMA JoinAfter ==
  ASSUME IInv, GInv, IInv', canceled' = canceled,
         \A g \in Graphs : ~canceled[g] /\ gJoin[g] = Scheduled(g) => gJoin'[g] = Scheduled(g)'
  PROVE  JoinAccounting'
<1>1. JoinEach
  BY JoinByParts DEF GInv, IInv
<1>2. JoinEach'
  BY <1>1 DEF JoinEach
<1>3. TypeOK' => (JoinAccounting' <=> JoinEach')
  BY JoinByParts, PTL
<1>4. QED
  BY <1>2, <1>3 DEF IInv

LEMMA ResetGood ==
  ASSUME IInv, GInv, OneDriver, NEW t \in Threads, Reset(t)
  PROVE  GInv'
<1> DEFINE g == Invoked(t)
<1>1. Steps(t, "entries") /\ pc'[t] = "entries"
  BY ResetSteps
<1>2. /\ pc[t] = "setup" /\ gJoin' = [gJoin EXCEPT ![g] = 0]
      /\ UNCHANGED <<ret, todo, hand, wq, taskQ, slot, canceled, mu>>
  BY DEF Reset, poolVars
<1>3. Driving(t) /\ Driving(t)' /\ ~Serving(t)
  BY <1>1, <1>2 DEF Serving
<1>4. g \in Graphs /\ gJoin \in [Graphs -> Int]
  BY <1>3, InvokedType DEF IInv, TypeOK, GraphTypes
<1>5. ~canceled[g] => gJoin[g] = 0
  <2> SUFFICES ASSUME ~canceled[g], gJoin[g] /= 0 PROVE FALSE
    OBVIOUS
  <2>1. PICK u \in Threads : Serving(u) /\ Invoked(u) = g
    BY <1>4 DEF GInv, Quiet
  <2>2. Driving(u) /\ u /= t
    BY <1>3, <2>1 DEF Serving
  <2>3. QED
    BY <1>3, <2>1, <2>2 DEF OneDriver
<1> HIDE DEF g
<1>6. \A h \in Graphs : gJoin'[h] = gJoin[h] \/ (h = g /\ gJoin'[h] = 0)
  BY <1>2, <1>4
<1>7. \A h \in Graphs : (~canceled[h] => gJoin'[h] = gJoin[h]) /\ (gJoin[h] = 0 => gJoin'[h] = 0)
  BY <1>5, <1>6
<1>8. Places'
  <2>1. todo[t] = {}
    BY <1>2, NothingClaimed DEF Publishing
  <2>2. Place(t)'
    BY <1>1, <1>2, <1>3, <2>1
       DEF GInv, Places, Place, CallerPlace, CallerPCs, WorkerPlace, ClaimPlace, Publishing
  <2>3. QED
    BY <1>1, <1>2, <2>2, PlacesStay DEF GInv
<1>9. JoinAccounting'
  <2>1. Released(t)' <=> Released(t)
    BY <1>1, <1>2 DEF Released
  <2>2. IInv'
    BY ResetInv
  <2>3. QED
    BY <1>1, <1>2, <1>7, <2>1, <2>2, JoinStays DEF GInv, IInv
<1>10. Quiet'
  BY <1>1, <1>2, <1>3, <1>7, QuietStays DEF GInv
<1>11. PopKept'
  <2>1. \A u \in Threads : pc[u] = "pop" => Invoked(u) \in Graphs
    BY InvokedType
  <2>2. QED
    BY <1>1, <1>2, <1>7, <2>1, PopKeptStays DEF GInv
<1>12. MarksTravel'
  BY <1>1, <1>2, <1>3, MarksStay DEF GInv
<1>13. QED
  BY <1>8, <1>9, <1>10, <1>11, <1>12 DEF GInv

LEMMA ScheduleRefGood ==
  ASSUME IInv, GInv, OneDriver, NEW t \in Threads, ScheduleRef(t)
  PROVE  GInv'
<1> DEFINE g == graphOf[hand[t]]
<1>1. Steps(t, "push") /\ pc'[t] = "push" /\ hand[t] \in Nodes /\ g \in Graphs
  BY ScheduleRefSteps
<1>2. /\ pc[t] = "ref" /\ gJoin' = [gJoin EXCEPT ![g] = gJoin[g] + 1]
      /\ UNCHANGED <<ret, todo, hand, wq, taskQ, slot, canceled, mu>>
  BY DEF ScheduleRef, poolVars
<1> HIDE DEF g
<1>3. gJoin \in [Graphs -> Int]
  BY DEF IInv, TypeOK, GraphTypes
<1>4. \A h \in Graphs : gJoin'[h] = gJoin[h] + (IF h = g THEN 1 ELSE 0)
  BY <1>1, <1>2, <1>3
<1>5. Origin(t) = g
  BY <1>2 DEF GInv, Places, Place, ClaimPlace, g
<1>6. /\ Driving(t)' <=> Driving(t)
      /\ Serving(t)' <=> Driving(t)
      /\ Invoked(t)' = Invoked(t) /\ Origin(t)' = Origin(t)
  BY <1>1, <1>2 DEF Serving, Invoked, Origin, Publishing
<1>7. (Driving(t) /\ Invoked(t) = g) \/ canceled[g] \/ gJoin[g] /= 0
  <2>1. CASE ret[t] = "loop"
    BY <1>2, <1>5, <2>1 DEF Origin, Publishing
  <2>2. CASE ret[t] /= "loop"
    <3>1. t \in Workers /\ t \notin Callers
      BY <1>2, <2>2 DEF GInv, Places, Place, CallerPlace, Publishing
    <3>2. slot[t] \in Nodes /\ ~Released(t) /\ graphOf[slot[t]] = g
      BY <1>2, <1>5, <2>2, <3>1, SlotIsNode DEF Released, Origin
    <3>3. QED
      BY <3>1, <3>2, WorkerCounts DEF GInv, IInv
  <2>3. QED
    BY <2>1, <2>2
<1>8. Places'
  <2>1. t \in Callers => CallerPlace(t)'
    BY <1>1, <1>2 DEF CallerPlace, CallerPCs, Publishing, GInv, Places, Place
  <2>2. t \in Workers => WorkerPlace(t)'
    BY <1>1, <1>2, <1>6 DEF WorkerPlace, GInv, Places, Place
  <2>3. ClaimPlace(t)'
    BY <1>1, <1>2, <1>6 DEF GInv, Places, Place, ClaimPlace, Publishing
  <2>4. Place(t)'
    BY <1>1, <2>1, <2>2, <2>3 DEF Place
  <2>5. QED
    BY <1>1, <1>2, <2>4, PlacesStay DEF GInv
<1>9. JoinAccounting'
  <2>1. IInv'
    BY ScheduleRefInv
  <2>2. ASSUME NEW h \in Graphs, gJoin[h] = Scheduled(h)
        PROVE  gJoin'[h] = Scheduled(h)'
    <3>1. t \notin Carried(h) /\ (t \in Carried(h)' <=> h = g)
      BY <1>1, <1>2 DEF Carried, InHand, g
    <3>2. t \in Unreleased(h)' <=> t \in Unreleased(h)
      BY <1>1, <1>2 DEF Unreleased, GoPool!Running, Released
    <3>3. UNCHANGED <<Count(wq, Tasks(h)), Count(taskQ, Tasks(h))>>
      BY <1>2
    <3>4. QED
      BY <1>1, <1>4, <2>1, <2>2, <3>1, <3>2, <3>3, PartsMove, PartTypes DEF Scheduled, IInv
  <2>3. QED
    BY <1>2, <2>1, <2>2, JoinAfter
<1>10. Quiet'
  BY <1>1, <1>2, <1>3, <1>4, <1>6, <1>7, QuietStays DEF GInv, Serving
<1>11. PopKept'
  <2>1. ASSUME NEW u \in Threads \ {t}, pc[u] = "pop", gJoin[Invoked(u)] = 0,
               ~canceled[Invoked(u)]
        PROVE  gJoin'[Invoked(u)] = 0
    <3>1. Driving(u) /\ Invoked(u) \in Graphs
      BY <2>1, InvokedType
    <3>2. Invoked(u) /= g
      BY <1>7, <2>1, <3>1 DEF OneDriver
    <3>3. QED
      BY <1>4, <2>1, <3>1, <3>2
  <2>2. QED
    BY <1>1, <1>2, <2>1, PopKeptStays DEF GInv
<1>12. MarksTravel'
  BY <1>1, <1>2, <1>6, MarksStay DEF GInv
<1>13. QED
  BY <1>8, <1>9, <1>10, <1>11, <1>12 DEF GInv

LEMMA SchedulePushGood ==
  ASSUME IInv, GInv, NEW t \in Threads, SchedulePush(t)
  PROVE  GInv'
<1>1. /\ Steps(t, pc'[t])
      /\ pc'[t] = IF todo[t] = {} THEN ret[t] ELSE "schedule"
      /\ ret[t] \in {"loop", "deref"}
      /\ hand[t] \in Nodes
  BY SchedulePushSteps
<1>2. /\ pc[t] = "push" /\ wq' = Append(wq, hand[t])
      /\ UNCHANGED <<ret, todo, taskQ, slot, gJoin, canceled, mu>>
  BY DEF SchedulePush, poolVars, graphVars
<1>3. wq \in Seq(Nodes) /\ wq' /= <<>>
  BY <1>1, <1>2 DEF IInv, TypeOK, QueueTypes
<1>4. /\ Driving(t)' <=> Driving(t)
      /\ Serving(t)' <=> Serving(t)
      /\ Invoked(t)' = Invoked(t)
      /\ Publishing(t)' => Origin(t)' = Origin(t)
  BY <1>1, <1>2 DEF Serving, Invoked, Origin, Publishing
<1>5. Places'
  <2>1. t \in Callers => CallerPlace(t)'
    BY <1>1, <1>2 DEF CallerPlace, CallerPCs, Publishing, GInv, Places, Place
  <2>2. t \in Workers => WorkerPlace(t)'
    BY <1>1, <1>2, <1>4 DEF WorkerPlace, GInv, Places, Place
  <2>3. ClaimPlace(t)'
    BY <1>1, <1>2, <1>4 DEF GInv, Places, Place, ClaimPlace, Publishing
  <2>4. Place(t)'
    BY <1>1, <2>1, <2>2, <2>3 DEF Place
  <2>5. QED
    BY <1>1, <1>2, <2>4, PlacesStay DEF GInv
<1>6. JoinAccounting'
  <2>1. IInv'
    BY SchedulePushInv
  <2>2. ASSUME NEW g \in Graphs, gJoin[g] = Scheduled(g)
        PROVE  gJoin'[g] = Scheduled(g)'
    <3>1. t \notin Carried(g)' /\ (t \in Carried(g) <=> graphOf[hand[t]] = g)
      BY <1>1, <1>2 DEF Carried, InHand
    <3>2. t \in Unreleased(g)' <=> t \in Unreleased(g)
      BY <1>1, <1>2 DEF Unreleased, GoPool!Running, Released
    <3>3. Count(taskQ, Tasks(g))' = Count(taskQ, Tasks(g))
      BY <1>2
    <3>4. Count(wq, Tasks(g))' = Count(wq, Tasks(g)) + (IF graphOf[hand[t]] = g THEN 1 ELSE 0)
      <4>1. hand[t] \in Tasks(g) <=> graphOf[hand[t]] = g
        BY <1>1 DEF Tasks
      <4>2. Count(Append(wq, hand[t]), Tasks(g))
              = Count(wq, Tasks(g)) + (IF hand[t] \in Tasks(g) THEN 1 ELSE 0)
        BY <1>1, <1>3, CountAppend
      <4>3. Tasks(g)' = Tasks(g)
        BY DEF Tasks
      <4>4. Count(wq, Tasks(g))' = Count(Append(wq, hand[t]), Tasks(g))
        BY <1>2, <4>3 DEF Count
      <4>5. QED
        BY <4>1, <4>2, <4>4
    <3>5. QED
      BY <1>1, <1>2, <2>1, <2>2, <3>1, <3>2, <3>3, <3>4, PartsMove, PartTypes DEF Scheduled, IInv
  <2>3. QED
    BY <1>2, <2>1, <2>2, JoinAfter
<1>7. Quiet'
  BY <1>1, <1>2, <1>4, QuietStays DEF GInv
<1>8. PopKept'
  BY <1>1, <1>3, PopKeptStays DEF GInv
<1>9. MarksTravel'
  BY <1>1, <1>2, <1>4, MarksStay DEF GInv
<1>10. QED
  BY <1>5, <1>6, <1>7, <1>8, <1>9 DEF GInv

\* What an operation that takes the head of a queue does to its count.
LEMMA HeadCounts ==
  ASSUME NEW s \in Seq(Nodes), s /= <<>>, NEW g
  PROVE  /\ Head(s) \in Nodes
         /\ Count(s, Tasks(g)) = Count(Tail(s), Tasks(g)) + (IF graphOf[Head(s)] = g THEN 1 ELSE 0)
         /\ Count(Tail(s), Tasks(g)) \in Nat
<1>1. Head(s) \in Nodes /\ Tail(s) \in Seq(Nodes)
  OBVIOUS
<1>2. QED
  BY <1>1, CountTail, CountType DEF Tasks

LEMMA InvokePopGood ==
  ASSUME IInv, GInv, NEW t \in Threads, InvokePop(t)
  PROVE  GInv'
<1>1. /\ Steps(t, "go") /\ pc'[t] = "go" /\ hand'[t] = Head(wq)
      /\ wq \in Seq(Nodes) /\ wq /= <<>> /\ Head(wq) \in Nodes /\ wq' = Tail(wq)
  BY InvokePopSteps
<1>2. /\ pc[t] = "pop" /\ mu' = None
      /\ UNCHANGED <<ret, todo, taskQ, slot, gJoin, canceled>>
  BY DEF InvokePop, poolVars, graphVars
<1>3. mu = t /\ \A u \in Threads \ {t} : pc[u] /= "pop"
  BY <1>2 DEF GInv, Places, Place
<1>4. Driving(t)' /\ Driving(t) /\ Serving(t)' /\ Serving(t) /\ Invoked(t)' = Invoked(t)
  BY <1>1, <1>2 DEF Serving, Invoked
<1>5. Places'
  <2>1. todo[t] = {}
    BY <1>2, NothingClaimed DEF Publishing
  <2>2. Place(t)'
    BY <1>1, <1>2, <1>4, <2>1
       DEF GInv, Places, Place, CallerPlace, CallerPCs, WorkerPlace, ClaimPlace, Publishing
  <2>3. QED
    BY <1>1, <1>3, <2>2, PlacesStay DEF GInv
<1>6. JoinAccounting'
  <2>1. IInv'
    BY InvokePopInv
  <2>2. ASSUME NEW g \in Graphs, gJoin[g] = Scheduled(g)
        PROVE  gJoin'[g] = Scheduled(g)'
    <3>1. t \notin Carried(g) /\ (t \in Carried(g)' <=> graphOf[Head(wq)] = g)
      BY <1>1, <1>2 DEF Carried, InHand
    <3>2. t \in Unreleased(g)' <=> t \in Unreleased(g)
      BY <1>1, <1>2 DEF Unreleased, GoPool!Running, Released
    <3>3. Count(taskQ, Tasks(g))' = Count(taskQ, Tasks(g)) /\ Tasks(g)' = Tasks(g)
      BY <1>2 DEF Tasks
    <3>4. Count(wq, Tasks(g))
            = Count(wq, Tasks(g))' + (IF graphOf[Head(wq)] = g THEN 1 ELSE 0)
      <4>1. Count(wq, Tasks(g))' = Count(Tail(wq), Tasks(g))
        BY <1>1, <3>3
      <4>2. QED
        BY <1>1, <4>1, HeadCounts
    <3>5. Count(wq, Tasks(g))' \in Nat
      BY <1>1, <3>3, HeadCounts
    <3>6. /\ Cardinality(Carried(g))' + (IF t \in Carried(g) THEN 1 ELSE 0)
               = Cardinality(Carried(g)) + (IF t \in Carried(g)' THEN 1 ELSE 0)
          /\ Cardinality(Unreleased(g))' + (IF t \in Unreleased(g) THEN 1 ELSE 0)
               = Cardinality(Unreleased(g)) + (IF t \in Unreleased(g)' THEN 1 ELSE 0)
          /\ Cardinality(Carried(g))' \in Nat /\ Cardinality(Unreleased(g))' \in Nat
      BY <1>1, <2>1, PartsMove DEF IInv
    <3>7. QED
      BY <1>2, <2>2, <3>1, <3>2, <3>3, <3>4, <3>5, <3>6, PartTypes DEF Scheduled, IInv
  <2>3. QED
    BY <1>2, <2>1, <2>2, JoinAfter
<1>7. Quiet'
  BY <1>1, <1>2, <1>4, QuietStays DEF GInv
<1>8. PopKept'
  BY <1>1, <1>3, PopKeptStays DEF GInv
<1>9. MarksTravel'
  BY <1>1, <1>2, <1>4, MarksStay DEF GInv
<1>10. QED
  BY <1>5, <1>6, <1>7, <1>8, <1>9 DEF GInv

LEMMA InvokeNodeGood ==
  ASSUME IInv, GInv, NEW t \in Threads, InvokeNode(t)
  PROVE  GInv'
<1>1. Steps(t, "loop") /\ pc'[t] = "loop" /\ hand[t] \in Nodes
  BY InvokeNodeSteps
<1>2. /\ pc[t] = "go" /\ taskQ' = Append(taskQ, hand[t])
      /\ UNCHANGED <<ret, todo, wq, slot, gJoin, canceled, mu>>
  BY DEF InvokeNode, GoPool!Submit, graphVars
<1>3. taskQ \in Seq(Nodes)
  BY DEF IInv, TypeOK, QueueTypes, GoPool!TypeOK
<1>4. Driving(t)' /\ Driving(t) /\ Serving(t)' /\ Serving(t) /\ Invoked(t)' = Invoked(t)
  BY <1>1, <1>2 DEF Serving, Invoked
<1>5. Places'
  <2>1. todo[t] = {}
    BY <1>2, NothingClaimed DEF Publishing
  <2>2. Place(t)'
    BY <1>1, <1>2, <1>4, <2>1
       DEF GInv, Places, Place, CallerPlace, CallerPCs, WorkerPlace, ClaimPlace, Publishing
  <2>3. QED
    BY <1>1, <1>2, <2>2, PlacesStay DEF GInv
<1>6. JoinAccounting'
  <2>1. IInv'
    BY InvokeNodeInv
  <2>2. ASSUME NEW g \in Graphs, gJoin[g] = Scheduled(g)
        PROVE  gJoin'[g] = Scheduled(g)'
    <3>1. t \notin Carried(g)' /\ (t \in Carried(g) <=> graphOf[hand[t]] = g)
      BY <1>1, <1>2 DEF Carried, InHand
    <3>2. t \in Unreleased(g)' <=> t \in Unreleased(g)
      BY <1>1, <1>2 DEF Unreleased, GoPool!Running, Released
    <3>3. Count(wq, Tasks(g))' = Count(wq, Tasks(g)) /\ Tasks(g)' = Tasks(g)
      BY <1>2 DEF Tasks
    <3>4. hand[t] \in Tasks(g) <=> graphOf[hand[t]] = g
      BY <1>1 DEF Tasks
    <3>5. Count(taskQ, Tasks(g))' = Count(Append(taskQ, hand[t]), Tasks(g))
      BY <1>2, <3>3
    <3>6. Count(Append(taskQ, hand[t]), Tasks(g))
            = Count(taskQ, Tasks(g)) + (IF hand[t] \in Tasks(g) THEN 1 ELSE 0)
      BY <1>1, <1>3, CountAppend
    <3>7. /\ Cardinality(Carried(g))' + (IF t \in Carried(g) THEN 1 ELSE 0)
                = Cardinality(Carried(g)) + (IF t \in Carried(g)' THEN 1 ELSE 0)
          /\ Cardinality(Unreleased(g))' + (IF t \in Unreleased(g) THEN 1 ELSE 0)
                = Cardinality(Unreleased(g)) + (IF t \in Unreleased(g)' THEN 1 ELSE 0)
          /\ Cardinality(Carried(g)) \in Nat /\ Cardinality(Carried(g))' \in Nat
          /\ Cardinality(Unreleased(g)) \in Nat /\ Cardinality(Unreleased(g))' \in Nat
      BY <1>1, <2>1, PartsMove DEF IInv
    <3>8. Count(wq, Tasks(g)) \in Nat /\ Count(taskQ, Tasks(g)) \in Nat
      BY PartTypes DEF IInv
    <3>9. gJoin'[g] = gJoin[g]
      BY <1>1, <1>2
    <3>10. QED
      BY <2>2, <3>1, <3>2, <3>3, <3>4, <3>5, <3>6, <3>7, <3>8, <3>9 DEF Scheduled
  <2>3. QED
    BY <1>2, <2>1, <2>2, JoinAfter
<1>7. Quiet'
  BY <1>1, <1>2, <1>4, QuietStays DEF GInv
<1>8. PopKept'
  BY <1>1, <1>2, PopKeptStays DEF GInv
<1>9. MarksTravel'
  BY <1>1, <1>2, <1>4, MarksStay DEF GInv
<1>10. QED
  BY <1>5, <1>6, <1>7, <1>8, <1>9 DEF GInv

LEMMA TakeTaskGood ==
  ASSUME IInv, GInv, NEW w \in Workers, TakeTask(w)
  PROVE  GInv'
<1>1. /\ Steps(w, "begin") /\ pc'[w] = "begin"
      /\ slot[w] = None /\ slot'[w] = Head(taskQ) /\ taskQ' = Tail(taskQ)
      /\ taskQ \in Seq(Nodes) /\ taskQ /= <<>> /\ Head(taskQ) \in Nodes
  BY TakeTaskSteps
<1>2. pc[w] = "idle" /\ UNCHANGED <<ret, todo, hand, wq, gJoin, canceled, mu>>
  BY DEF TakeTask, graphVars
<1>3. ~Driving(w) /\ ~Serving(w)
  BY <1>2 DEF Serving
<1>4. Places'
  <2>1. todo[w] = {}
    BY <1>2, NothingClaimed DEF Publishing
  <2>2. Place(w)'
    BY <1>1, <1>2, <2>1 DEF Place, WorkerPlace, ClaimPlace, Publishing
  <2>3. QED
    BY <1>1, <1>2, <2>2, PlacesStay DEF GInv
<1>5. JoinAccounting'
  <2>1. IInv'
    BY TakeTaskInv
  <2>2. ASSUME NEW g \in Graphs, gJoin[g] = Scheduled(g)
        PROVE  gJoin'[g] = Scheduled(g)'
    <3>1. w \notin Carried(g) /\ w \notin Carried(g)'
      BY <1>1, <1>2 DEF Carried, InHand
    <3>2. w \notin Unreleased(g) /\ (w \in Unreleased(g)' <=> graphOf[Head(taskQ)] = g)
      BY <1>1, <1>2 DEF Unreleased, GoPool!Running, Released
    <3>3. Count(wq, Tasks(g))' = Count(wq, Tasks(g)) /\ Tasks(g)' = Tasks(g)
      BY <1>2 DEF Tasks
    <3>4. Count(taskQ, Tasks(g))
            = Count(taskQ, Tasks(g))' + (IF graphOf[Head(taskQ)] = g THEN 1 ELSE 0)
      <4>1. Count(taskQ, Tasks(g))' = Count(Tail(taskQ), Tasks(g))
        BY <1>1, <3>3
      <4>2. QED
        BY <1>1, <4>1, HeadCounts
    <3>5. Count(taskQ, Tasks(g))' \in Nat
      BY <1>1, <3>3, HeadCounts
    <3>6. /\ Cardinality(Carried(g))' + (IF w \in Carried(g) THEN 1 ELSE 0)
               = Cardinality(Carried(g)) + (IF w \in Carried(g)' THEN 1 ELSE 0)
          /\ Cardinality(Unreleased(g))' + (IF w \in Unreleased(g) THEN 1 ELSE 0)
               = Cardinality(Unreleased(g)) + (IF w \in Unreleased(g)' THEN 1 ELSE 0)
          /\ Cardinality(Carried(g))' \in Nat /\ Cardinality(Unreleased(g))' \in Nat
      BY <1>1, <2>1, PartsMove DEF IInv
    <3>7. QED
      BY <1>2, <2>2, <3>1, <3>2, <3>3, <3>4, <3>5, <3>6, PartTypes DEF Scheduled, IInv
  <2>3. QED
    BY <1>2, <2>1, <2>2, JoinAfter
<1>6. Quiet'
  BY <1>1, <1>2, <1>3, QuietStays DEF GInv
<1>7. PopKept'
  BY <1>1, <1>2, PopKeptStays DEF GInv
<1>8. MarksTravel'
  BY <1>1, <1>2, <1>3, MarksStay DEF GInv
<1>9. QED
  BY <1>4, <1>5, <1>6, <1>7, <1>8 DEF GInv

LEMMA DerefGood ==
  ASSUME IInv, GInv, NEW w \in Workers, Deref(w)
  PROVE  GInv'
<1> DEFINE g == graphOf[slot[w]]
<1>1. /\ Steps(w, pc'[w]) /\ pc[w] = "deref" /\ UNCHANGED <<hand, todo, slot>>
      /\ slot[w] \in Nodes /\ g \in Graphs
      /\ pc'[w] = IF Typ[slot[w]] = "condition" THEN "resetup" ELSE "done"
      /\ gJoin' = [gJoin EXCEPT ![g] = gJoin[g] - 1]
  BY DerefSteps
<1>2. UNCHANGED <<ret, wq, taskQ, canceled, mu>>
  BY DEF Deref, poolVars
<1>3. ~Driving(w) /\ ~Serving(w) /\ ~Released(w) /\ Released(w)'
  BY <1>1 DEF Serving, Released
<1>4. canceled[g] \/ gJoin[g] /= 0
  BY <1>1, <1>3, WorkerCounts DEF GInv, IInv
<1>5. gJoin \in [Graphs -> Int]
  BY DEF IInv, TypeOK, GraphTypes
<1> HIDE DEF g
<1>6. \A h \in Graphs : gJoin'[h] = gJoin[h] - (IF h = g THEN 1 ELSE 0)
  BY <1>1, <1>5
<1>7. \A h \in Graphs : ~canceled[h] /\ gJoin[h] = 0 => gJoin'[h] = 0
  BY <1>4, <1>5, <1>6
<1>8. Places'
  <2>1. todo[w] = {}
    BY <1>1, NothingClaimed DEF Publishing
  <2>2. Place(w)'
    BY <1>1, <2>1 DEF Place, WorkerPlace, ClaimPlace, Publishing
  <2>3. QED
    BY <1>1, <1>2, <2>2, PlacesStay DEF GInv
<1>9. JoinAccounting'
  <2>1. IInv'
    BY DerefInv
  <2>2. ASSUME NEW h \in Graphs, gJoin[h] = Scheduled(h)
        PROVE  gJoin'[h] = Scheduled(h)'
    <3>1. w \notin Carried(h) /\ w \notin Carried(h)'
      BY <1>1 DEF Carried, InHand
    <3>2. w \notin Unreleased(h)' /\ (w \in Unreleased(h) <=> h = g)
      BY <1>1, <1>3 DEF Unreleased, GoPool!Running, g
    <3>3. UNCHANGED <<Count(wq, Tasks(h)), Count(taskQ, Tasks(h))>>
      BY <1>2
    <3>4. QED
      BY <1>1, <1>6, <2>1, <2>2, <3>1, <3>2, <3>3, PartsMove, PartTypes DEF Scheduled, IInv
  <2>3. QED
    BY <1>2, <2>1, <2>2, JoinAfter
<1>10. Quiet'
  BY <1>1, <1>2, <1>3, <1>7, QuietStays DEF GInv
<1>11. PopKept'
  <2>1. \A u \in Threads : pc[u] = "pop" => Invoked(u) \in Graphs
    BY InvokedType
  <2>2. QED
    BY <1>1, <1>2, <1>7, <2>1, PopKeptStays DEF GInv
<1>12. MarksTravel'
  BY <1>1, <1>2, <1>3, MarksStay DEF GInv
<1>13. QED
  BY <1>8, <1>9, <1>10, <1>11, <1>12 DEF GInv

LEMMA DoneGood ==
  ASSUME IInv, GInv, NEW w \in Workers, Done(w)
  PROVE  GInv'
<1>1. /\ Steps(w, "idle") /\ pc[w] = "done" /\ pc'[w] = "idle"
      /\ slot[w] \in Nodes /\ slot'[w] = None
  BY DoneSteps
<1>2. UNCHANGED <<ret, todo, hand, wq, taskQ, gJoin, canceled, mu>>
  BY DEF Done, GoPool!Finish, graphVars
<1>3. ~Driving(w) /\ ~Serving(w) /\ Released(w)
  BY <1>1 DEF Serving, Released
<1>4. Places'
  <2>1. todo[w] = {}
    BY <1>1, NothingClaimed DEF Publishing
  <2>2. Place(w)'
    BY <1>1, <1>2, <2>1 DEF Place, WorkerPlace, ClaimPlace, Publishing
  <2>3. QED
    BY <1>1, <1>2, <2>2, PlacesStay DEF GInv
<1>5. JoinAccounting'
  <2>1. IInv'
    BY DoneInv
  <2>2. ASSUME NEW g \in Graphs, gJoin[g] = Scheduled(g)
        PROVE  gJoin'[g] = Scheduled(g)'
    <3>1. w \notin Carried(g) /\ w \notin Carried(g)'
      BY <1>1 DEF Carried, InHand
    <3>2. w \notin Unreleased(g) /\ w \notin Unreleased(g)'
      BY <1>1, <1>3 DEF Unreleased, GoPool!Running
    <3>3. UNCHANGED <<Count(wq, Tasks(g)), Count(taskQ, Tasks(g))>>
      BY <1>2
    <3>4. QED
      BY <1>1, <1>2, <2>1, <2>2, <3>1, <3>2, <3>3, PartsMove, PartTypes DEF Scheduled, IInv
  <2>3. QED
    BY <1>2, <2>1, <2>2, JoinAfter
<1>6. Quiet'
  BY <1>1, <1>2, <1>3, QuietStays DEF GInv
<1>7. PopKept'
  BY <1>1, <1>2, PopKeptStays DEF GInv
<1>8. MarksTravel'
  BY <1>1, <1>2, <1>3, MarksStay DEF GInv
<1>9. QED
  BY <1>4, <1>5, <1>6, <1>7, <1>8 DEF GInv

-----------------------------------------------------------------------------
(***************************************************************************)
(* GInv is inductive while no graph has two drivers.                       *)
(***************************************************************************)

LEMMA InitGood ==
  ASSUME Init
  PROVE  GInv
<1>1. /\ pc = [t \in Threads |-> "idle"] /\ slot = [w \in Workers |-> None]
      /\ todo = [t \in Threads |-> {}]
      /\ gJoin = [g \in Graphs |-> 0] /\ canceled = [g \in Graphs |-> FALSE]
      /\ wq = <<>> /\ taskQ = <<>>
  BY DEF Init, GoPool!Init
<1>2. Places
  BY <1>1 DEF Places, Place, CallerPlace, CallerPCs, WorkerPlace, ClaimPlace, Publishing
<1>3. JoinAccounting
  <2> SUFFICES ASSUME NEW g \in Graphs PROVE gJoin[g] = Scheduled(g)
    BY InitInv, JoinByParts DEF JoinEach, IInv
  <2>1. Carried(g) = {} /\ Unreleased(g) = {}
    BY <1>1 DEF Carried, Unreleased, InHand, GoPool!Running
  <2>2. Cardinality(Carried(g)) = 0 /\ Cardinality(Unreleased(g)) = 0
    BY <2>1, FS_EmptySet
  <2>3. Count(wq, Tasks(g)) = 0 /\ Count(taskQ, Tasks(g)) = 0
    BY <1>1, CountEmpty
  <2>4. QED
    BY <1>1, <2>2, <2>3 DEF Scheduled
<1>4. Quiet /\ PopKept
  BY <1>1 DEF Quiet, PopKept
<1>5. MarksTravel
  <2>1. \A o \in Nodes : ~canceled[subgraph[o]]
    BY <1>1, FlowAssumption
  <2>2. QED
    BY <2>1 DEF MarksTravel
<1>6. QED
  BY <1>2, <1>3, <1>4, <1>5 DEF GInv

LEMMA StutterGood ==
  ASSUME GInv, UNCHANGED vars
  PROVE  GInv'
<1>1. UNCHANGED <<pc, ret, todo, hand, taskQ, slot, wq, mu, gJoin, canceled>>
  BY DEF vars, threadVars, poolVars, graphVars
<1>2. Places'
  BY <1>1 DEF GInv, Places, Place, CallerPlace, WorkerPlace, ClaimPlace, Publishing, Origin, Invoked
<1>3. JoinAccounting'
  BY <1>1 DEF GInv, JoinAccounting, InGraph, InHand, GoPool!Running, Released
<1>4. Quiet' /\ PopKept' /\ MarksTravel'
  BY <1>1 DEF GInv, Quiet, PopKept, MarksTravel, Serving, Invoked
<1>5. QED
  BY <1>2, <1>3, <1>4 DEF GInv

LEMMA NextGood ==
  ASSUME IInv, GInv, OneDriver, [Next]_vars
  PROVE  GInv'
<1>1. ASSUME NEW c \in Callers, Run(c) \/ Wait(c) PROVE GInv'
  BY <1>1, RunGood, WaitGood
<1>2. ASSUME NEW t \in Threads, ScheduleStep(t) PROVE GInv'
  BY <1>2, ScheduleAddGood, ScheduleRefGood, SchedulePushGood, ScheduleCanceledGood
     DEF ScheduleStep
<1>3. ASSUME NEW t \in Threads, InvokeStep(t) PROVE GInv'
  BY <1>3, InvokeLoopGood, InvokeLeaveGood, InvokePopGood, InvokeNodeGood DEF InvokeStep
<1>4. ASSUME NEW t \in Threads, GraphStep(t) PROVE GInv'
  BY <1>2, <1>3, <1>4, ResetGood, SetupGood, GraphReturnGood DEF GraphStep
<1>5. ASSUME NEW w \in Workers, HandlerStep(w) PROVE GInv'
  BY <1>5, ReturnStaticGood, ReturnSubflowGood, ReturnConditionGood, ChoosePanicGood,
     HandlerPanicGood DEF HandlerStep
<1>6. ASSUME NEW w \in Workers, WorkerStep(w) PROVE GInv'
  BY <1>5, <1>6, TakeTaskGood, BeginGood, DropGood, CheckSuccessorGood, ResetupGood, DerefGood,
     DoneGood DEF WorkerStep
<1>7. CASE Terminated \/ UNCHANGED vars
  BY <1>7, StutterGood DEF Terminated
<1>8. QED
  BY <1>1, <1>4, <1>6, <1>7 DEF Next

\* In every execution in which no graph has two drivers, GInv holds throughout.
THEOREM GraphInvariance == Spec /\ []OneDriver => []GInv
<1>1. Init => GInv
  BY InitGood
<1>2. IInv /\ GInv /\ OneDriver /\ [Next]_vars => GInv'
  BY NextGood
<1>3. QED
  BY <1>1, <1>2, Invariance, PTL DEF Spec

LEMMA PopSafeFollows == IInv /\ GInv => PopSafe
BY DEF GInv, PopKept, PopSafe, Leaving

\* Nobody serves the graph of a caller outside its Run.
LEMMA ReturnedIsQuiet ==
  ASSUME IInv, GInv, NEW c \in Callers, pc[c] = "returned", ~canceled[root[c]]
  PROVE  gJoin[root[c]] = 0
<1> SUFFICES ASSUME gJoin[root[c]] /= 0 PROVE FALSE
  OBVIOUS
<1>1. root[c] \in Graphs
  BY FlowAssumption
<1>2. PICK u \in Threads : Serving(u) /\ Invoked(u) = root[c]
  BY <1>1 DEF GInv, Quiet
<1>3. CASE u \in Callers
  BY <1>2, <1>3, FlowAssumption DEF Serving, Invoked
<1>4. CASE u \in Workers
  <2>1. slot[u] \in Nodes /\ Typ[slot[u]] = "subflow"
    BY <1>2, <1>4, SlotIsNode DEF GInv, Places, Place, WorkerPlace, Serving
  <2>2. Invoked(u) = subgraph[slot[u]]
    BY <1>4 DEF Invoked
  <2>3. subgraph[slot[u]] /= root[c]
    BY <2>1, NestingAssumption
  <2>4. QED
    BY <1>2, <2>2, <2>3
<1>5. QED
  BY <1>3, <1>4

\* What Run leaves behind: unless the flow is canceled no task of it is queued,
\* on its way to a queue, or executed by a worker that has not released it.
Drained(g) ==
  /\ \A i \in DOMAIN wq : graphOf[wq[i]] /= g
  /\ \A i \in DOMAIN taskQ : graphOf[taskQ[i]] /= g
  /\ Carried(g) = {} /\ Unreleased(g) = {}

RunDrains == \A c \in Callers : pc[c] = "returned" /\ ~canceled[root[c]] => Drained(root[c])

LEMMA CountZero ==
  ASSUME NEW s \in Seq(Nodes), NEW g, Count(s, Tasks(g)) = 0
  PROVE  \A i \in DOMAIN s : graphOf[s[i]] /= g
<1>1. {i \in DOMAIN s : s[i] \in Tasks(g)} = {}
  BY CountType, FS_EmptySet DEF Count
<1>2. \A i \in DOMAIN s : s[i] \in Nodes
  OBVIOUS
<1>3. QED
  BY <1>1, <1>2 DEF Tasks

LEMMA ZeroDrains ==
  ASSUME IInv, GInv, NEW g \in Graphs, ~canceled[g], gJoin[g] = 0
  PROVE  Drained(g)
<1>1. Scheduled(g) = 0
  BY JoinByParts DEF JoinEach, GInv, IInv
<1>2. /\ Count(wq, Tasks(g)) = 0 /\ Count(taskQ, Tasks(g)) = 0
      /\ Cardinality(Carried(g)) = 0 /\ Cardinality(Unreleased(g)) = 0
  BY <1>1, PartTypes DEF Scheduled, IInv
<1>3. Carried(g) = {} /\ Unreleased(g) = {}
  BY <1>2, PartTypes, FS_EmptySet DEF IInv
<1>4. wq \in Seq(Nodes) /\ taskQ \in Seq(Nodes)
  BY DEF IInv, TypeOK, QueueTypes, GoPool!TypeOK
<1>5. QED
  BY <1>2, <1>3, <1>4, CountZero DEF Drained

LEMMA RunDrainsFollows == IInv /\ GInv => RunDrains
BY ReturnedIsQuiet, ZeroDrains, FlowAssumption DEF RunDrains

\* Nothing of a graph that is not canceled is on its way.
Settled(g) == ~canceled[g] /\ Drained(g)

\* What is inside a settled graph is settled.
LEMMA SettledInside ==
  ASSUME IInv, GInv, NEW o \in Nodes, Typ[o] = "subflow", Settled(graphOf[o])
  PROVE  Settled(subgraph[o])
<1>1. \A w \in Workers : ~(Driving(w) /\ slot[w] = o)
  BY DEF Settled, Drained, Unreleased, Released, GoPool!Running
<1>2. ~canceled[subgraph[o]] /\ subgraph[o] \in Graphs
  BY <1>1, FlowAssumption DEF GInv, MarksTravel, Settled
<1>3. gJoin[subgraph[o]] = 0
  <2> SUFFICES ASSUME gJoin[subgraph[o]] /= 0 PROVE FALSE
    OBVIOUS
  <2>1. PICK t \in Threads : Serving(t) /\ Invoked(t) = subgraph[o]
    BY <1>2 DEF GInv, Quiet
  <2>2. CASE t \in Callers
    BY <2>1, <2>2, NestingAssumption DEF Invoked
  <2>3. CASE t \in Workers
    <3>1. slot[t] \in Nodes /\ Typ[slot[t]] = "subflow" /\ Driving(t)
      BY <2>1, <2>3, SlotIsNode DEF GInv, Places, Place, WorkerPlace, Serving
    <3>2. subgraph[slot[t]] = subgraph[o]
      BY <2>1, <2>3 DEF Invoked
    <3>3. slot[t] = o
      BY <3>1, <3>2, NestingAssumption
    <3>4. QED
      BY <1>1, <2>3, <3>1, <3>3
  <2>4. QED
    BY <2>2, <2>3
<1>4. QED
  BY <1>2, <1>3, ZeroDrains DEF Settled

-----------------------------------------------------------------------------
(***************************************************************************)
(* The calls of the handlers, and the panics among them.                   *)
(***************************************************************************)

\* The workers in a call of n's handler.
Calling(n) == {w \in Workers : pc[w] = "handle" /\ slot[w] = n}

\* Every call of n's handler is going on or has returned.
Answered(n) ==
  IF Typ[n] = "subflow"
  THEN ran[n] > 0 => instantiated[subgraph[n]] \/ Calling(n) /= {}
  ELSE ran[n] = fin[n] + Cardinality(Calling(n))

\* A call that ended by a panic has canceled the graph of its node.
CallsKept == \A n \in Nodes : ~canceled[graphOf[n]] => Answered(n)

LEMMA CallingType ==
  ASSUME NEW n
  PROVE  IsFiniteSet(Calling(n)) /\ Cardinality(Calling(n)) \in Nat
<1>1. Calling(n) \subseteq Workers
  BY DEF Calling
<1>2. IsFiniteSet(Calling(n))
  BY <1>1, FS_Subset
<1>3. QED
  BY <1>2, FS_CardinalityType

\* Other threads enter and leave no handler.
LEMMA CallingStays ==
  ASSUME NEW t \in Threads, NEW l, Steps(t, l), NEW n,
         pc[t] /= "handle" \/ slot[t] /= n, l /= "handle" \/ slot'[t] /= n
  PROVE  Calling(n)' = Calling(n)
BY DEF Calling, Steps, Moves

LEMMA CallingGains ==
  ASSUME NEW w \in Workers, Steps(w, "handle"), pc[w] /= "handle", NEW n, slot'[w] = n
  PROVE  Cardinality(Calling(n)') = Cardinality(Calling(n)) + 1 /\ Calling(n)' /= {}
<1>1. Calling(n)' = Calling(n) \cup {w} /\ w \notin Calling(n)
  BY DEF Calling, Steps, Moves
<1>2. QED
  BY <1>1, CallingType, CountAdd

LEMMA CallingLoses ==
  ASSUME NEW w \in Workers, NEW l, l /= "handle", Steps(w, l), pc[w] = "handle", NEW n, slot[w] = n
  PROVE  Cardinality(Calling(n)) = Cardinality(Calling(n)') + 1
<1>1. Calling(n)' = Calling(n) \ {w} /\ w \in Calling(n)
  BY DEF Calling, Steps, Moves
<1>2. QED
  BY <1>1, CallingType, CountRemove

\* What a step must leave alone so that n's calls stay answered.
LEMMA AnsweredStays ==
  ASSUME NEW n, Answered(n), Calling(n)' = Calling(n), ran'[n] = ran[n],
         Typ[n] /= "subflow" => fin'[n] = fin[n],
         Typ[n] = "subflow" => (instantiated[subgraph[n]] => instantiated'[subgraph[n]])
  PROVE  Answered(n)'
BY DEF Answered

\* A step outside the handlers.
LEMMA CallsStay ==
  ASSUME CallsKept, NEW t \in Threads, NEW l, Steps(t, l), pc[t] /= "handle", l /= "handle",
         ran' = ran, instantiated' = instantiated,
         \A n \in Nodes : Typ[n] /= "subflow" => fin'[n] = fin[n],
         \A g \in Graphs : canceled[g] => canceled'[g]
  PROVE  CallsKept'
<1> SUFFICES ASSUME NEW n \in Nodes, ~canceled'[graphOf[n]] PROVE Answered(n)'
  BY DEF CallsKept
<1>1. Answered(n)
  BY FlowAssumption DEF CallsKept
<1>2. Calling(n)' = Calling(n)
  BY CallingStays
<1>3. QED
  BY <1>1, <1>2, AnsweredStays

\* A step of a worker in its handler, or into it: the other nodes.
LEMMA OthersAnswered ==
  ASSUME IInv, CallsKept, NEW w \in Workers, NEW l, Steps(w, l), slot' = slot,
         \A g \in Graphs : canceled[g] => canceled'[g],
         \A g \in Graphs : instantiated[g] => instantiated'[g],
         NEW n \in Nodes, n /= slot[w], ran'[n] = ran[n], fin'[n] = fin[n], ~canceled'[graphOf[n]]
  PROVE  Answered(n)'
<1>1. Answered(n) /\ subgraph[n] \in Graphs
  BY FlowAssumption DEF CallsKept
<1>2. Calling(n)' = Calling(n)
  BY CallingStays
<1>3. QED
  BY <1>1, <1>2, AnsweredStays

LEMMA BeginCalls ==
  ASSUME IInv, CallsKept, NEW w \in Workers, Begin(w)
  PROVE  CallsKept'
<1>0. PICK m \in Nodes : m = slot[w]
  BY SlotIsNode DEF Begin
<1>1. /\ pc[w] = "begin" /\ slot[w] = m /\ UNCHANGED <<slot, canceled, instantiated, fin>>
      /\ ran \in [Nodes -> Nat] /\ fin \in [Nodes -> Nat]
  BY <1>0 DEF Begin, poolVars, graphVars, IInv, TypeOK, NodeTypes
<1>2. CASE canceled[graphOf[m]]
  <2>1. ran' = ran /\ Steps(w, Deferred(m)) /\ Deferred(m) /= "handle"
    BY <1>1, <1>2, BeginSteps, DeferredPlace DEF Begin, Steps, Moves
  <2>2. QED
    BY <1>1, <2>1, CallsStay
<1>3. CASE ~canceled[graphOf[m]]
  <2>1. Steps(w, "handle") /\ ran' = [ran EXCEPT ![m] = ran[m] + 1]
    BY <1>1, <1>3, BeginSteps DEF Begin, Steps, Moves
  <2>2. ASSUME NEW n \in Nodes, ~canceled'[graphOf[n]], n /= m PROVE Answered(n)'
    BY <1>1, <2>1, <2>2, OthersAnswered
  <2>3. Cardinality(Calling(m)') = Cardinality(Calling(m)) + 1 /\ Calling(m)' /= {}
    BY <1>1, <2>1, CallingGains
  <2>4. Answered(m)
    BY <1>1, <1>3 DEF CallsKept
  <2>5. ran'[m] = ran[m] + 1 /\ fin'[m] = fin[m] /\ ran[m] \in Nat /\ fin[m] \in Nat
    BY <1>1, <2>1
  <2>6. Answered(m)'
    BY <2>3, <2>4, <2>5, CallingType DEF Answered
  <2>7. QED
    BY <2>2, <2>6 DEF CallsKept
<1>4. QED
  BY <1>2, <1>3

\* A call that returns in a static task or a condition.
LEMMA ReturnCalls ==
  ASSUME IInv, CallsKept, NEW w \in Workers, NEW l, l /= "handle", Steps(w, l),
         pc[w] = "handle", Typ[slot[w]] /= "subflow",
         UNCHANGED <<slot, canceled, instantiated, ran>>,
         fin' = [fin EXCEPT ![slot[w]] = @ + 1]
  PROVE  CallsKept'
<1>0. PICK m \in Nodes : m = slot[w]
  BY SlotIsNode
<1>1. slot[w] = m /\ ran \in [Nodes -> Nat] /\ fin \in [Nodes -> Nat]
  BY <1>0 DEF IInv, TypeOK, NodeTypes
<1>2. ASSUME NEW n \in Nodes, ~canceled'[graphOf[n]], n /= m PROVE Answered(n)'
  BY <1>1, <1>2, OthersAnswered
<1>3. Cardinality(Calling(m)) = Cardinality(Calling(m)') + 1
  BY <1>1, CallingLoses
<1>4. ran'[m] = ran[m] /\ fin'[m] = fin[m] + 1 /\ ran[m] \in Nat /\ fin[m] \in Nat
  BY <1>1
<1>5. Cardinality(Calling(m)) \in Nat /\ Cardinality(Calling(m)') \in Nat
  <2>1. Calling(m)' \subseteq Calling(m)
    BY DEF Calling, Steps, Moves
  <2>2. QED
    BY <2>1, CallingType, FS_Subset, FS_CardinalityType
<1>6. ~canceled[graphOf[m]] => Answered(m)'
  BY <1>1, <1>3, <1>4, <1>5 DEF CallsKept, Answered
<1>7. QED
  BY <1>2, <1>6 DEF CallsKept

LEMMA ReturnSubflowCalls ==
  ASSUME IInv, CallsKept, NEW w \in Workers, ReturnSubflow(w)
  PROVE  CallsKept'
<1>0. PICK m \in Nodes : m = slot[w]
  BY SlotIsNode DEF ReturnSubflow
<1>1. /\ pc[w] = "handle" /\ pc' = Goto(w, Deferred(m)) /\ slot[w] = m /\ Typ[m] = "subflow"
      /\ UNCHANGED <<hand, ret, todo, slot, canceled, ran, fin>>
      /\ instantiated' = [instantiated EXCEPT ![subgraph[m]] = TRUE]
      /\ instantiated \in [Graphs -> BOOLEAN] /\ subgraph[m] \in Graphs
  BY <1>0, FlowAssumption DEF ReturnSubflow, poolVars, histVars, IInv, TypeOK, GraphTypes
<1>2. Steps(w, Deferred(m))
  BY <1>1, DeferredSteps
<1>3. instantiated'[subgraph[m]] /\ \A g \in Graphs : instantiated[g] => instantiated'[g]
  BY <1>1
<1>4. ASSUME NEW n \in Nodes, ~canceled'[graphOf[n]], n /= m PROVE Answered(n)'
  BY <1>1, <1>2, <1>3, <1>4, OthersAnswered
<1>5. Answered(m)'
  BY <1>1, <1>3 DEF Answered
<1>6. QED
  BY <1>4, <1>5 DEF CallsKept

\* A call that ends by a panic.
LEMMA PanicCalls ==
  ASSUME IInv, CallsKept, NEW w \in Workers, pc[w] = "handle", pc' = Goto(w, Deferred(slot[w])),
         UNCHANGED <<hand, ret, todo, slot, instantiated, fin>>,
         \A g \in Graphs : canceled[g] => canceled'[g], canceled'[graphOf[slot[w]]],
         \A n \in Nodes : n /= slot[w] => ran'[n] = ran[n]
  PROVE  CallsKept'
<1>1. Steps(w, Deferred(slot[w]))
  BY DeferredSteps
<1>2. QED
  BY <1>1, OthersAnswered DEF CallsKept

LEMMA ChoosePanicCalls ==
  ASSUME IInv, CallsKept, NEW w \in Workers, ChoosePanic(w)
  PROVE  CallsKept'
<1>1. /\ pc[w] = "handle" /\ pc' = Goto(w, Deferred(slot[w]))
      /\ UNCHANGED <<hand, ret, todo, slot, instantiated, fin>>
      /\ canceled' = [canceled EXCEPT ![graphOf[slot[w]]] = TRUE]
      /\ canceled \in [Graphs -> BOOLEAN] /\ graphOf[slot[w]] \in Graphs
  BY SlotIsNode DEF ChoosePanic, poolVars, IInv, TypeOK, GraphTypes
<1>2. ran' = [ran EXCEPT ![slot[w]] = @ + 1] \/ ran' = ran
  BY DEF ChoosePanic
<1>3. \A n \in Nodes : n /= slot[w] => ran'[n] = ran[n]
  BY <1>2 DEF IInv, TypeOK, NodeTypes
<1>4. canceled'[graphOf[slot[w]]] /\ \A g \in Graphs : canceled[g] => canceled'[g]
  BY <1>1
<1>5. QED
  BY <1>1, <1>3, <1>4, PanicCalls

LEMMA HandlerPanicCalls ==
  ASSUME IInv, CallsKept, NEW w \in Workers, HandlerPanic(w)
  PROVE  CallsKept'
<1>1. /\ pc[w] = "handle" /\ pc' = Goto(w, Deferred(slot[w]))
      /\ UNCHANGED <<hand, ret, todo, slot, instantiated, fin, ran>>
      /\ canceled' = [g \in Graphs |-> \/ canceled[g] \/ g = graphOf[slot[w]]
                                       \/ Typ[slot[w]] = "subflow" /\ g = subgraph[slot[w]]]
      /\ graphOf[slot[w]] \in Graphs
  BY SlotIsNode DEF HandlerPanic, poolVars, histVars
<1>2. canceled'[graphOf[slot[w]]] /\ \A g \in Graphs : canceled[g] => canceled'[g]
  BY <1>1
<1>3. QED
  BY <1>1, <1>2, PanicCalls

LEMMA GraphReturnCalls ==
  ASSUME IInv, GInv, CallsKept, NEW t \in Threads, GraphReturn(t)
  PROVE  CallsKept'
<1>1. /\ pc[t] = "return" /\ ran' = ran /\ instantiated' = instantiated
      /\ fin \in [Nodes -> Nat] /\ canceled \in [Graphs -> BOOLEAN]
  BY DEF GraphReturn, IInv, TypeOK, NodeTypes, GraphTypes
<1>2. Steps(t, pc'[t]) /\ pc'[t] /= "handle"
  BY GraphReturnSteps
<1>3. \A g \in Graphs : canceled[g] => canceled'[g]
  BY <1>1, GraphReturnSteps
<1>4. ASSUME NEW n \in Nodes, Typ[n] /= "subflow" PROVE fin'[n] = fin[n]
  <2>1. CASE t \in Callers
    BY <2>1 DEF GraphReturn
  <2>2. CASE t \in Workers
    <3>1. Typ[slot[t]] = "subflow"
      BY <1>1, <2>2 DEF GInv, Places, Place, WorkerPlace
    <3>2. \E k : fin' = [fin EXCEPT ![slot[t]] = k]
      BY <2>2 DEF GraphReturn
    <3>3. QED
      BY <1>1, <1>4, <3>1, <3>2
  <2>3. QED
    BY <2>1, <2>2
<1>5. QED
  BY <1>1, <1>2, <1>3, <1>4, CallsStay

LEMMA DriveCalls ==
  ASSUME IInv, CallsKept, NEW t \in Threads,
         Reset(t) \/ Setup(t) \/ ScheduleStep(t) \/ InvokeStep(t)
  PROVE  CallsKept'
<1>1. /\ pc[t] /= "handle" /\ UNCHANGED <<canceled, instantiated, ran, fin>>
  BY DEF Reset, Setup, ScheduleStep, ScheduleAdd, ScheduleRef, SchedulePush, ScheduleCanceled, InvokeStep,
         InvokeLoop, InvokeLeave, InvokePop, InvokeNode, graphVars, histVars
<1>2. Steps(t, pc'[t]) /\ pc'[t] /= "handle"
  <2>1. CASE Reset(t) \/ Setup(t)
    BY <2>1, ResetSteps, SetupSteps
  <2>2. CASE ScheduleStep(t)
    BY <2>2, ScheduleAddSteps, ScheduleRefSteps, SchedulePushSteps, ScheduleCanceledSteps DEF ScheduleStep
  <2>3. CASE InvokeStep(t)
    BY <2>3, InvokeLoopSteps, InvokeLeaveSteps, InvokePopSteps, InvokeNodeSteps DEF InvokeStep
  <2>4. QED
    BY <2>1, <2>2, <2>3
<1>3. QED
  BY <1>1, <1>2, CallsStay

LEMMA ReleaseCalls ==
  ASSUME IInv, CallsKept, NEW w \in Workers,
         TakeTask(w) \/ Drop(w) \/ CheckSuccessor(w) \/ Resetup(w) \/ Deref(w) \/ Done(w)
  PROVE  CallsKept'
<1>1. /\ pc[w] /= "handle" /\ UNCHANGED <<canceled, instantiated, ran, fin>>
  BY DEF TakeTask, Drop, CheckSuccessor, Resetup, Deref, Done, graphVars, histVars
<1>2. Steps(w, pc'[w]) /\ pc'[w] /= "handle"
  BY TakeTaskSteps, DropSteps, CheckSuccessorSteps, ResetupSteps, DerefSteps, DoneSteps
<1>3. QED
  BY <1>1, <1>2, CallsStay

LEMMA ReturnStaticCalls ==
  ASSUME IInv, CallsKept, NEW w \in Workers, ReturnStatic(w)
  PROVE  CallsKept'
<1>1. /\ pc[w] = "handle" /\ Typ[slot[w]] /= "subflow" /\ pc' = Goto(w, Deferred(slot[w]))
      /\ UNCHANGED <<hand, ret, todo, slot, canceled, instantiated, ran>>
      /\ fin' = [fin EXCEPT ![slot[w]] = @ + 1]
  BY DEF ReturnStatic, poolVars, graphVars
<1>2. Steps(w, Deferred(slot[w])) /\ Deferred(slot[w]) /= "handle"
  BY <1>1, DeferredSteps, DeferredPlace, SlotIsNode
<1>3. QED
  BY <1>1, <1>2, ReturnCalls

LEMMA ReturnConditionCalls ==
  ASSUME IInv, CallsKept, NEW w \in Workers, ReturnCondition(w)
  PROVE  CallsKept'
<1>1. /\ pc[w] = "handle" /\ Typ[slot[w]] /= "subflow"
      /\ UNCHANGED <<slot, canceled, instantiated, ran>>
      /\ fin' = [fin EXCEPT ![slot[w]] = @ + 1]
  BY DEF ReturnCondition, poolVars, graphVars
<1>2. Steps(w, "schedule")
  BY ReturnConditionSteps
<1>3. QED
  BY <1>1, <1>2, ReturnCalls

LEMMA ClientCalls ==
  ASSUME IInv, CallsKept, NEW c \in Callers, Run(c) \/ Wait(c)
  PROVE  CallsKept'
<1>1. /\ pc[c] /= "handle" /\ UNCHANGED <<canceled, instantiated, ran, fin>>
  BY DEF Run, Wait, graphVars, histVars
<1>2. Steps(c, pc'[c]) /\ pc'[c] /= "handle"
  BY RunSteps, WaitSteps
<1>3. QED
  BY <1>1, <1>2, CallsStay

LEMMA StutterCalls ==
  ASSUME CallsKept, UNCHANGED vars
  PROVE  CallsKept'
<1>1. UNCHANGED <<pc, slot, canceled, instantiated, ran, fin>>
  BY DEF vars, threadVars, poolVars, graphVars, histVars
<1>2. \A n \in Nodes : Calling(n)' = Calling(n)
  BY <1>1 DEF Calling
<1>3. QED
  BY <1>1, <1>2 DEF CallsKept, Answered

LEMMA CallsNext ==
  ASSUME IInv, GInv, CallsKept, [Next]_vars
  PROVE  CallsKept'
<1>1. ASSUME NEW t \in Threads, GraphStep(t) PROVE CallsKept'
  BY <1>1, DriveCalls, GraphReturnCalls DEF GraphStep
<1>2. ASSUME NEW w \in Workers, HandlerStep(w) PROVE CallsKept'
  BY <1>2, ReturnStaticCalls, ReturnSubflowCalls, ReturnConditionCalls, ChoosePanicCalls,
     HandlerPanicCalls DEF HandlerStep
<1>3. ASSUME NEW w \in Workers, WorkerStep(w) PROVE CallsKept'
  BY <1>2, <1>3, BeginCalls, ReleaseCalls DEF WorkerStep
<1>4. CASE Terminated \/ UNCHANGED vars
  BY <1>4, StutterCalls DEF Terminated
<1>5. QED
  BY <1>1, <1>3, <1>4, ClientCalls DEF Next

LEMMA CallsInit == Init => CallsKept
<1> SUFFICES ASSUME Init, NEW n \in Nodes PROVE Answered(n)
  BY DEF CallsKept
<1>1. ran[n] = 0 /\ fin[n] = 0
  BY DEF Init
<1>2. Calling(n) = {}
  BY DEF Init, Calling
<1>3. QED
  BY <1>1, <1>2, FS_EmptySet DEF Answered

\* A handler call that does not return has canceled the graph of its node.
THEOREM CallsInvariance == Spec /\ []OneDriver => []CallsKept
<1>1. IInv /\ GInv /\ CallsKept /\ [Next]_vars => CallsKept'
  BY CallsNext
<1>2. QED
  BY <1>1, CallsInit, Invariance, GraphInvariance, PTL DEF Spec

\* When nothing of a flow is left, nothing is left of any graph in it.
LEMMA BelowSettled ==
  ASSUME IInv, GInv, NEW g \in Graphs, Settled(g), NEW h \in Below(g)
  PROVE  h \in Graphs /\ Settled(h)
<1> DEFINE S == {k \in Graphs : Settled(k)}
<1>1. ASSUME NEW p \in S, NEW q \in Graphs, Encloses(p, q) PROVE q \in S
  BY <1>1, SettledInside DEF Encloses
<1>2. S \in SUBSET Graphs /\ g \in S
  OBVIOUS
<1> HIDE DEF S
<1>3. h \in S
  BY <1>1, <1>2 DEF Below
<1>4. QED
  BY <1>3 DEF S

LEMMA PanicPropagatesFollows == IInv /\ GInv /\ CallsKept => PanicPropagates
<1> SUFFICES ASSUME IInv, GInv, CallsKept, NEW c \in Callers, pc[c] = "returned", ~canceled[root[c]],
                    NEW g \in Below(root[c])
             PROVE  /\ ~canceled[g]
                    /\ \A n \in Nodes : graphOf[n] = g => HandlerReturned(n)
  BY DEF PanicPropagates
<1>1. Settled(root[c]) /\ root[c] \in Graphs
  BY RunDrainsFollows, FlowAssumption DEF RunDrains, Settled
<1>2. Settled(g)
  BY <1>1, BelowSettled
<1>3. ASSUME NEW n \in Nodes, graphOf[n] = g PROVE HandlerReturned(n)
  <2>1. Calling(n) = {}
    <3> SUFFICES ASSUME NEW w \in Workers, pc[w] = "handle", slot[w] = n PROVE FALSE
      BY DEF Calling
    <3>1. w \in Unreleased(g)
      BY <1>3 DEF Unreleased, Released, GoPool!Running
    <3>2. QED
      BY <1>2, <3>1 DEF Settled, Drained
  <2>2. Answered(n) /\ Cardinality(Calling(n)) = 0
    BY <1>2, <1>3, <2>1, FS_EmptySet DEF Settled, CallsKept
  <2>3. ran[n] \in Nat /\ fin[n] \in Nat
    BY DEF IInv, TypeOK, NodeTypes
  <2>4. QED
    BY <2>1, <2>2, <2>3 DEF Answered, HandlerReturned
<1>4. QED
  BY <1>2, <1>3 DEF Settled

-----------------------------------------------------------------------------
\* eGraph.joinCounter counts the tasks of a graph that are scheduled and not
\* released, for every flow, while no graph has two drivers: so it is zero, and
\* invokeGraph leaves, exactly when nothing of the graph is left.
THEOREM JoinCounts == Spec /\ []OneDriver => []JoinAccounting
<1>1. GInv => JoinAccounting
  BY DEF GInv
<1>2. QED
  BY <1>1, GraphInvariance, PTL

\* wq.Pop() never meets an empty queue, although invokeGraph does not test the
\* queue again after it has released scheCond.L.
THEOREM PopIsSafe == Spec /\ []OneDriver => []PopSafe
BY GraphInvariance, Invariance, PopSafeFollows, PTL

\* When Run returns and its flow is not canceled, no handler has panicked in any
\* graph of the flow, at any depth, and none of these graphs is canceled.
THEOREM PanicsPropagate == Spec /\ []OneDriver => []PanicPropagates
BY GraphInvariance, Invariance, CallsInvariance, PanicPropagatesFollows, PTL

\* Run of a flow that is not canceled returns only when no task of it is queued,
\* on its way to a queue, or executed before its deref().
THEOREM RunsDrain == Spec /\ []OneDriver => []RunDrains
BY GraphInvariance, Invariance, RunDrainsFollows, PTL
=============================================================================
