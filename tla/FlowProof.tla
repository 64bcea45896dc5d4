------------------------------ MODULE FlowProof ------------------------------
(***************************************************************************)
(* Flows without conditions: each run executes each task once, after those *)
(* it succeeds.                                                            *)
(*                                                                         *)
(* The invariant says of each graph that is not canceled, relative to how  *)
(* often it has been set up (d), where each of its nodes is in the current *)
(* round: waiting for predecessors, on its way to a worker, executed,      *)
(* dropping itself from its successors.  It rests on Single, since a node  *)
(* must not be in two of these places, and on NothingLeft, since the round *)
(* ends when joinCounter is zero.  The steps of Executor are then mapped   *)
(* to those of FlowSpec, and with one goroutine and one client a more      *)
(* urgent task is followed through the queues ahead of the others.         *)
(***************************************************************************)
EXTENDS DriverProof

USE ThreadsAssumption DEF Threads, Driving

NoConditions == \A n \in Nodes : Typ[n] /= "condition"

\* No cycle: every set of tasks has one that succeeds none of the others.
Acyclic ==
  \A S \in (SUBSET Nodes) \ {{}} : \E n \in S : \A e \in dependents[n] : e[1] \notin S

-----------------------------------------------------------------------------
(***************************************************************************)
(* Where a node can be.                                                    *)
(***************************************************************************)

InQueue(s, n) == \E i \in DOMAIN s : s[i] = n

\* Thread t has claimed n, or carries it, or is about to execute it.
Holds(t, n) ==
  \/ n \in todo[t]
  \/ t \in InHand /\ hand[t] = n
  \/ t \in Workers /\ slot[t] = n /\ pc[t] = "begin"

Queued(n) == InQueue(wq, n) \/ InQueue(taskQ, n) \/ \E t \in Threads : Holds(t, n)

\* The part of its closure that a worker is in.
Phase(w) ==
  IF pc[w] = "handle" \/ Driving(w) THEN "run"
  ELSE IF pc[w] \in {"drop", "check", "resetup"} THEN pc[w] ELSE "none"

RunsAt(n) == \E w \in Workers : slot[w] = n /\ Phase(w) = "run"
EndsAt(n) == \E w \in Workers : slot[w] = n /\ Phase(w) \in {"drop", "check", "resetup"}

\* The source of edge e has yet to be dropped from the counter at its end.
Drops(w, e) == slot[w] = e[1] /\ Phase(w) = "drop" /\ idx[w] <= e[2]
DropsAt(e)  == \E w \in Workers : Drops(w, e)

\* The source of an edge into n has yet to look whether n is ready.
Looks(w, e) == slot[w] = e[1] /\ (Phase(w) = "drop" \/ (Phase(w) = "check" /\ idx[w] <= e[2]))
LooksAt(n)  == \E w \in Workers, e \in dependents[n] : Looks(w, e)

\* The graph has been built and some thread is in the loop of invokeGraph for it.
Served(g) == instantiated[g] /\ \E t \in Threads : Serving(t) /\ Invoked(t) = g

-----------------------------------------------------------------------------
(***************************************************************************)
(* The invariant, for node n in round r of its graph.                      *)
(***************************************************************************)

Progress(n, r) ==
  /\ Queued(n) => ran[n] = r - 1 /\ fin[n] = r - 1
  /\ RunsAt(n) => ran[n] = r /\ fin[n] = r - 1
  /\ EndsAt(n) => ran[n] = r /\ fin[n] = r
  /\ ~Queued(n) /\ ~RunsAt(n) /\ ~EndsAt(n) => ran[n] = fin[n] /\ ran[n] \in {r - 1, r}

\* innerNode.joinCounter: the edges that have not been dropped, and those of the
\* next round once n has been set up again.
Missing(n, r)  == {e \in dependents[n] : ~(fin[e[1]] = r /\ ~DropsAt(e))}
Restored(n, r) == IF fin[n] = r /\ ~EndsAt(n) THEN Cardinality(dependents[n]) ELSE 0
Counter(n, r)  == nJoin[n] = Cardinality(Missing(n, r)) + Restored(n, r)

\* A node that is on its way, or has been executed, has been dropped by all its
\* predecessors.
InOrder(n, r) == Queued(n) \/ ran[n] = r => Missing(n, r) = {}

\* A node that has not been executed is claimed, or will be.
Pending(n, r) ==
  ran[n] = r - 1 =>
    /\ state[n] /= "idle" \/ dependents[n] = {} => Queued(n)
    /\ state[n] = "idle" /\ dependents[n] /= {} /\ nJoin[n] = 0 => LooksAt(n)

InRound(n, r) == Progress(n, r) /\ InOrder(n, r) /\ Counter(n, r) /\ Pending(n, r)
Between(n, r) == ran[n] = r /\ fin[n] = r

NodeInv(n, r) ==
  ~canceled[graphOf[n]] =>
    /\ Queued(n) \/ RunsAt(n) \/ EndsAt(n) => instantiated[graphOf[n]]
    /\ Served(graphOf[n]) => InRound(n, r)
    /\ ~Served(graphOf[n]) => Between(n, r)

\* Between reset() and the rest of setup() the counters are zero.
Cleared ==
  \A t \in Threads : pc[t] = "entries" /\ ~canceled[Invoked(t)] =>
    \A n \in NodesIn(Invoked(t)) : nJoin[n] = 0

\* A worker drives the graph of its subflow node after it has built it.
Opened ==
  \A w \in Workers : Driving(w) /\ ~canceled[graphOf[slot[w]]] =>
    state[slot[w]] = "finished" /\ instantiated[subgraph[slot[w]]]

Nodewise(d) == \A n \in Nodes : NodeInv(n, d[graphOf[n]])
Kept(d) == Nodewise(d) /\ Cleared /\ Opened /\ DepsRespected

-----------------------------------------------------------------------------
(***************************************************************************)
(* Queues.                                                                 *)
(***************************************************************************)

LEMMA QueueAppend ==
  ASSUME NEW s \in Seq(Nodes), NEW m \in Nodes, NEW n
  PROVE  InQueue(Append(s, m), n) <=> InQueue(s, n) \/ m = n
<1>1. /\ DOMAIN s = 1..Len(s) /\ Len(s) \in Nat /\ DOMAIN Append(s, m) = 1..(Len(s) + 1)
      /\ \A i \in 1..Len(s) : Append(s, m)[i] = s[i]
      /\ Append(s, m)[Len(s) + 1] = m
  OBVIOUS
<1>2. QED
  BY <1>1 DEF InQueue

LEMMA QueueTail ==
  ASSUME NEW s \in Seq(Nodes), s /= <<>>, NEW n
  PROVE  InQueue(s, n) <=> InQueue(Tail(s), n) \/ Head(s) = n
<1>1. /\ DOMAIN s = 1..Len(s) /\ Len(s) \in Nat \ {0} /\ DOMAIN Tail(s) = 1..(Len(s) - 1)
      /\ \A i \in 1..(Len(s) - 1) : Tail(s)[i] = s[i + 1]
      /\ Head(s) = s[1]
  OBVIOUS
<1>2. ASSUME InQueue(s, n), Head(s) /= n PROVE InQueue(Tail(s), n)
  <2>1. PICK i \in 1..Len(s) : s[i] = n
    BY <1>1, <1>2 DEF InQueue
  <2>2. i - 1 \in 1..(Len(s) - 1) /\ Tail(s)[i - 1] = n
    BY <1>1, <1>2, <2>1
  <2>3. QED
    BY <1>1, <2>2 DEF InQueue
<1>3. QED
  BY <1>1, <1>2 DEF InQueue

\* An edge joins nodes of one graph.
LEMMA EdgeEnds ==
  ASSUME NEW n \in Nodes, NEW e \in dependents[n]
  PROVE  /\ e[1] \in Nodes /\ graphOf[e[1]] = graphOf[n]
         /\ e[2] \in DOMAIN successors[e[1]] /\ successors[e[1]][e[2]] = n /\ e[2] \in Nat \ {0}
         /\ e = <<e[1], e[2]>>
<1>1. PICK p \in Nodes : e \in {<<p, i>> : i \in {j \in DOMAIN successors[p] : successors[p][j] = n}}
  BY DEF dependents
<1>2. PICK i \in DOMAIN successors[p] : e = <<p, i>> /\ successors[p][i] = n
  BY <1>1
<1>3. successors[p] \in Seq(Nodes)
  BY FlowAssumption
<1>4. i \in Nat \ {0}
  BY <1>2, <1>3
<1>5. QED
  BY <1>2, <1>4, NestingAssumption

LEMMA EdgeIsDependent ==
  ASSUME NEW p \in Nodes, NEW i \in DOMAIN successors[p]
  PROVE  /\ successors[p][i] \in Nodes
         /\ <<p, i>> \in dependents[successors[p][i]]
<1>1. successors[p][i] \in Nodes
  BY FlowAssumption
<1>2. QED
  BY <1>1 DEF dependents

-----------------------------------------------------------------------------
(***************************************************************************)
(* What a step of one thread leaves where it is.                           *)
(***************************************************************************)

Acts(t) == Steps(t, pc'[t]) /\ \A u \in Threads \ {t} : idx'[u] = idx[u]

LEMMA OthersView ==
  ASSUME NEW t \in Threads, Acts(t), NEW u \in Threads \ {t}
  PROVE  /\ \A n : Holds(u, n)' <=> Holds(u, n)
         /\ u \in Workers => /\ Phase(u)' = Phase(u) /\ slot'[u] = slot[u] /\ idx'[u] = idx[u]
                             /\ \A e : (Drops(u, e)' <=> Drops(u, e)) /\ (Looks(u, e)' <=> Looks(u, e))
<1>1. /\ pc'[u] = pc[u] \/ (pc[u] = "waiting" /\ pc'[u] = "loop")
      /\ Driving(u)' <=> Driving(u)
      /\ hand'[u] = hand[u] /\ todo'[u] = todo[u] /\ idx'[u] = idx[u]
      /\ u \in Workers => slot'[u] = slot[u]
  BY OthersStay DEF Acts, Steps
<1>2. \A n : Holds(u, n)' <=> Holds(u, n)
  BY <1>1 DEF Holds, InHand
<1>3. Phase(u)' = Phase(u)
  BY <1>1 DEF Phase
<1>4. QED
  BY <1>1, <1>2, <1>3 DEF Drops, Looks

\* A node that the thread is not executing.
LEMMA ViewsElsewhere ==
  ASSUME NEW t \in Threads, Acts(t), NEW n, t \in Workers => slot[t] /= n /\ slot'[t] /= n
  PROVE  (RunsAt(n)' <=> RunsAt(n)) /\ (EndsAt(n)' <=> EndsAt(n))
<1>1. ASSUME NEW u \in Workers PROVE (slot'[u] = n <=> slot[u] = n) /\ (slot[u] = n => Phase(u)' = Phase(u))
  <2>1. CASE u = t
    BY <2>1
  <2>2. CASE u /= t
    BY <2>2, OthersView
  <2>3. QED
    BY <2>1, <2>2
<1>2. QED
  BY <1>1 DEF RunsAt, EndsAt

LEMMA EdgesElsewhere ==
  ASSUME NEW t \in Threads, Acts(t), NEW e, t \in Workers => slot[t] /= e[1] /\ slot'[t] /= e[1]
  PROVE  /\ DropsAt(e)' <=> DropsAt(e)
         /\ \A u \in Workers : Looks(u, e)' <=> Looks(u, e)
<1>1. ASSUME NEW u \in Workers PROVE (Drops(u, e)' <=> Drops(u, e)) /\ (Looks(u, e)' <=> Looks(u, e))
  <2>1. CASE u = t
    BY <2>1 DEF Drops, Looks
  <2>2. CASE u /= t
    BY <2>2, OthersView
  <2>3. QED
    BY <2>1, <2>2
<1>2. QED
  BY <1>1 DEF DropsAt

\* A thread that stays in its part of the closure.
SamePart(t) ==
  /\ Phase(t)' = Phase(t)
  /\ Phase(t) /= "none" => slot'[t] = slot[t] /\ idx'[t] = idx[t]

SamePhase(t) == SamePart(t) /\ (Driving(t)' <=> Driving(t))

LEMMA SameViews ==
  ASSUME NEW t \in Threads, Acts(t), t \in Workers => SamePart(t)
  PROVE  /\ \A n : (RunsAt(n)' <=> RunsAt(n)) /\ (EndsAt(n)' <=> EndsAt(n))
         /\ \A e : DropsAt(e)' <=> DropsAt(e)
         /\ \A n : LooksAt(n)' <=> LooksAt(n)
<1>1. ASSUME NEW u \in Workers
      PROVE  /\ Phase(u)' = Phase(u) /\ (Phase(u) /= "none" => slot'[u] = slot[u] /\ idx'[u] = idx[u])
  <2>1. CASE u = t
    BY <2>1 DEF SamePart
  <2>2. CASE u /= t
    BY <2>2, OthersView
  <2>3. QED
    BY <2>1, <2>2
<1>2. \A n : (RunsAt(n)' <=> RunsAt(n)) /\ (EndsAt(n)' <=> EndsAt(n))
  BY <1>1 DEF RunsAt, EndsAt
<1>3. ASSUME NEW u \in Workers, NEW e
      PROVE  (Drops(u, e)' <=> Drops(u, e)) /\ (Looks(u, e)' <=> Looks(u, e))
  BY <1>1 DEF Drops, Looks
<1>4. QED
  BY <1>2, <1>3 DEF DropsAt, LooksAt

\* The queues and the other threads keep what they have.
LEMMA QueuedStays ==
  ASSUME NEW t \in Threads, Acts(t), NEW n,
         InQueue(wq, n)' \/ InQueue(taskQ, n)' \/ Holds(t, n)'
           <=> InQueue(wq, n) \/ InQueue(taskQ, n) \/ Holds(t, n)
  PROVE  Queued(n)' <=> Queued(n)
<1>1. \A u \in Threads \ {t} : Holds(u, n)' <=> Holds(u, n)
  BY OthersView
<1>2. QED
  BY <1>1 DEF Queued

\* Served changes with the thread that moves only.
SameService(t) ==
  \A g \in Graphs : (Serving(t) /\ Invoked(t) = g)' <=> (Serving(t) /\ Invoked(t) = g)

LEMMA ServedStays ==
  ASSUME NEW t \in Threads, NEW l, Steps(t, l), NEW g \in Graphs, instantiated'[g] = instantiated[g],
         (Serving(t) /\ Invoked(t) = g)' <=> (Serving(t) /\ Invoked(t) = g)
  PROVE  Served(g)' <=> Served(g)
<1>1. \A u \in Threads \ {t} : (Serving(u)' <=> Serving(u)) /\ Invoked(u)' = Invoked(u)
  BY OthersStay
<1>2. QED
  BY <1>1 DEF Served

-----------------------------------------------------------------------------
(***************************************************************************)
(* What the invariant needs of a step.                                     *)
(***************************************************************************)

SameData(n) == ran'[n] = ran[n] /\ fin'[n] = fin[n] /\ nJoin'[n] = nJoin[n] /\ state'[n] = state[n]

SameNode(n) ==
  /\ Queued(n)' <=> Queued(n)
  /\ RunsAt(n)' <=> RunsAt(n)
  /\ EndsAt(n)' <=> EndsAt(n)
  /\ SameData(n)

SameEdges(n, r) ==
  /\ Missing(n, r)' = Missing(n, r)
  /\ LooksAt(n) => LooksAt(n)'

LEMMA EdgesStay ==
  ASSUME NEW n \in Nodes, NEW r,
         \A e \in dependents[n] : fin'[e[1]] = fin[e[1]] /\ (DropsAt(e)' <=> DropsAt(e)),
         LooksAt(n) => LooksAt(n)'
  PROVE  SameEdges(n, r)
BY DEF Missing, SameEdges

LEMMA RoundStays ==
  ASSUME NEW n \in Nodes, NEW r \in Nat, SameNode(n), SameEdges(n, r), InRound(n, r)
  PROVE  InRound(n, r)'
<1>1. Missing(n, r)' = Missing(n, r)
  BY DEF SameEdges
<1>2. Progress(n, r)'
  BY DEF SameNode, SameData, InRound, Progress
<1>3. InOrder(n, r)'
  BY DEF SameNode, SameData, SameEdges, InRound, InOrder
<1>4. Restored(n, r)' = Restored(n, r)
  BY DEF SameNode, SameData, Restored
<1>5. Counter(n, r)'
  BY <1>1, <1>4 DEF SameNode, SameData, InRound, Counter
<1>6. Pending(n, r)'
  BY DEF SameNode, SameData, SameEdges, InRound, Pending
<1>7. QED
  BY <1>2, <1>3, <1>5, <1>6 DEF InRound

LEMMA NodeStays ==
  ASSUME NEW n \in Nodes, NEW r \in Nat, NodeInv(n, r), SameNode(n), SameEdges(n, r),
         canceled[graphOf[n]] => canceled'[graphOf[n]],
         instantiated'[graphOf[n]] = instantiated[graphOf[n]],
         Served(graphOf[n])' <=> Served(graphOf[n])
  PROVE  NodeInv(n, r)'
<1>1. InRound(n, r) => InRound(n, r)'
  BY RoundStays
<1>2. Between(n, r) => Between(n, r)'
  BY DEF SameNode, SameData, Between
<1>3. QED
  BY <1>1, <1>2 DEF NodeInv, SameNode

-----------------------------------------------------------------------------
(***************************************************************************)
(* Steps that neither start nor complete a node.                           *)
(***************************************************************************)

Before(d) == IInv /\ GInv /\ OneDriver /\ Single /\ Kept(d)

\* Counters change only where a thread serves the graph, not during its setup.
LEMMA ClearedStays ==
  ASSUME Cleared, OneDriver, NEW t \in Threads, NEW l, Steps(t, l), l /= "entries",
         \A g \in Graphs : canceled[g] => canceled'[g],
         \A u \in Threads \ {t} : pc[u] = "entries" =>
           instantiated'[Invoked(u)] = instantiated[Invoked(u)],
         \A n \in Nodes : \/ nJoin'[n] = nJoin[n]
                          \/ canceled'[graphOf[n]] \/ Served(graphOf[n])
  PROVE  Cleared'
<1> SUFFICES ASSUME NEW u \in Threads, pc'[u] = "entries", ~canceled'[Invoked(u)'],
                    NEW n \in Nodes, graphOf[n] = Invoked(u)', instantiated'[graphOf[n]]
             PROVE  nJoin'[n] = 0
  BY DEF Cleared, NodesIn
<1>1. u /= t /\ pc[u] = "entries" /\ Invoked(u)' = Invoked(u)
  BY OthersStay DEF Steps, Moves
<1>2. graphOf[n] \in Graphs /\ ~canceled[Invoked(u)]
  BY <1>1, FlowAssumption
<1>3. nJoin[n] = 0
  BY <1>1, <1>2 DEF Cleared, NodesIn
<1>4. ~Served(graphOf[n])
  BY <1>1 DEF Served, Serving, OneDriver
<1>5. QED
  BY <1>1, <1>3, <1>4

\* Another thread does not touch a subflow node while a worker drives its graph.
LEMMA OpenedStays ==
  ASSUME Opened, TypeOK, NEW t \in Threads, NEW l, Steps(t, l),
         \A g \in Graphs : canceled[g] => canceled'[g],
         \A g \in Graphs : instantiated[g] => instantiated'[g],
         t \in Workers /\ Driving(t)' /\ ~canceled'[graphOf[slot'[t]]] =>
           state'[slot'[t]] = "finished" /\ instantiated'[subgraph[slot'[t]]],
         \A w \in Workers \ {t} : Driving(w) /\ ~canceled'[graphOf[slot[w]]] =>
           /\ slot[w] \in Nodes
           /\ state'[slot[w]] = state[slot[w]] \/ state[slot[w]] = "idle" \/ state'[slot[w]] = "finished"
  PROVE  Opened'
<1> SUFFICES ASSUME NEW w \in Workers, Driving(w)', ~canceled'[graphOf[slot'[w]]], w /= t
             PROVE  state'[slot'[w]] = "finished" /\ instantiated'[subgraph[slot'[w]]]
  BY DEF Opened
<1>1. Driving(w) /\ slot'[w] = slot[w]
  BY OthersStay DEF Steps
<1>2. slot[w] \in Nodes /\ graphOf[slot[w]] \in Graphs /\ subgraph[slot[w]] \in Graphs
  BY <1>1, FlowAssumption
<1>3. state[slot[w]] = "finished" /\ instantiated[subgraph[slot[w]]]
  BY <1>1, <1>2 DEF Opened
<1>4. QED
  BY <1>1, <1>2, <1>3

\* Nothing starts, and what completes is in a canceled graph.
LEMMA DepsStay ==
  ASSUME TypeOK, DepsRespected, TypeOK', ran' = ran, \A n \in Nodes : fin'[n] >= fin[n]
  PROVE  DepsRespected'
<1> SUFFICES ASSUME NEW n \in Nodes, \A e \in dependents[n] : Typ[e[1]] /= "condition",
                    NEW e \in dependents[n]
             PROVE  ran'[n] <= fin'[e[1]]
  BY DEF DepsRespected
<1>1. e[1] \in Nodes
  BY EdgeEnds
<1>2. /\ ran[n] \in Nat /\ fin[e[1]] \in Nat /\ fin'[e[1]] \in Nat
      /\ ran[n] <= fin[e[1]] /\ fin'[e[1]] >= fin[e[1]]
  BY <1>1 DEF DepsRespected, TypeOK, NodeTypes
<1>3. QED
  BY <1>2

LEMMA SilentKept ==
  ASSUME NEW d \in [Graphs -> Nat], Before(d), IInv', NEW t \in Threads, Acts(t), pc'[t] /= "entries",
         \A g \in Graphs : canceled[g] => canceled'[g],
         UNCHANGED <<instantiated, ran>>, \A n \in Nodes : fin'[n] >= fin[n],
         \A n \in Nodes : SameData(n) \/ canceled'[graphOf[n]],
         \A n \in Nodes : ~canceled'[graphOf[n]] =>
           (InQueue(wq, n)' \/ InQueue(taskQ, n)' \/ Holds(t, n)'
             <=> InQueue(wq, n) \/ InQueue(taskQ, n) \/ Holds(t, n)),
         t \in Workers =>
           \/ SamePhase(t)
           \/ slot'[t] = slot[t] /\ slot[t] \in Nodes /\ canceled'[graphOf[slot[t]]],
         \A g \in Graphs : ~canceled'[g] => (Served(g)' <=> Served(g))
  PROVE  Kept(d)'
<1>1. ASSUME NEW n \in Nodes, ~canceled'[graphOf[n]] PROVE NodeInv(n, d[graphOf[n]])'
  <2>1. graphOf[n] \in Graphs /\ d[graphOf[n]] \in Nat /\ NodeInv(n, d[graphOf[n]])
    BY FlowAssumption DEF Before, Kept, Nodewise
  <2>2. SameData(n)
    BY <1>1
  <2>3. Queued(n)' <=> Queued(n)
    BY <1>1, QueuedStays
  <2>4. (RunsAt(n)' <=> RunsAt(n)) /\ (EndsAt(n)' <=> EndsAt(n))
    <3>1. CASE t \in Workers => SamePhase(t)
      BY <3>1, SameViews DEF SamePhase
    <3>2. CASE t \in Workers /\ slot'[t] = slot[t] /\ canceled'[graphOf[slot[t]]]
      BY <1>1, <3>2, ViewsElsewhere
    <3>3. QED
      BY <3>1, <3>2
  <2>5. /\ \A e \in dependents[n] : fin'[e[1]] = fin[e[1]] /\ (DropsAt(e)' <=> DropsAt(e))
        /\ LooksAt(n) => LooksAt(n)'
    <3>1. ASSUME NEW e \in dependents[n]
          PROVE  fin'[e[1]] = fin[e[1]] /\ (DropsAt(e)' <=> DropsAt(e))
                 /\ \A u \in Workers : Looks(u, e) => Looks(u, e)'
      <4>1. e[1] \in Nodes /\ graphOf[e[1]] = graphOf[n]
        BY EdgeEnds
      <4>2. CASE t \in Workers => SamePhase(t)
        <5>1. DropsAt(e)' <=> DropsAt(e)
          BY <4>2, SameViews DEF SamePhase
        <5>2. ASSUME NEW u \in Workers, Looks(u, e) PROVE Looks(u, e)'
          <6>1. CASE u = t
            BY <4>2, <5>2, <6>1 DEF SamePhase, SamePart, Looks
          <6>2. CASE u /= t
            BY <5>2, <6>2, OthersView
          <6>3. QED
            BY <6>1, <6>2
        <5>3. QED
          BY <1>1, <4>1, <5>1, <5>2 DEF SameData
      <4>3. CASE t \in Workers /\ slot'[t] = slot[t] /\ canceled'[graphOf[slot[t]]]
        <5>1. slot[t] /= e[1]
          BY <1>1, <4>1, <4>3
        <5>2. QED
          BY <1>1, <4>1, <4>3, <5>1, EdgesElsewhere DEF SameData
      <4>4. QED
        BY <4>2, <4>3
    <3>2. QED
      BY <3>1 DEF LooksAt
  <2>6. SameEdges(n, d[graphOf[n]])
    BY <2>5, EdgesStay
  <2>7. Served(graphOf[n])' <=> Served(graphOf[n])
    BY <1>1, <2>1
  <2>8. QED
    BY <1>1, <2>1, <2>2, <2>3, <2>4, <2>6, <2>7, NodeStays DEF SameNode
<1>2. Nodewise(d)'
  BY <1>1 DEF Nodewise, NodeInv
<1>3. Cleared'
  BY ClearedStays DEF Before, Kept, Acts, SameData
<1>4. DepsRespected'
  BY DepsStay DEF Before, Kept, IInv
<1>5. Opened'
  <2>1. \A w \in Workers : Driving(w) => slot[w] \in Nodes
    BY SlotIsNode DEF Before
  <2>2. ASSUME t \in Workers, Driving(t)', ~canceled'[graphOf[slot'[t]]]
        PROVE  state'[slot'[t]] = "finished" /\ instantiated'[subgraph[slot'[t]]]
    <3>1. SamePhase(t)
      BY <2>2
    <3>2. Driving(t) /\ slot'[t] = slot[t]
      BY <2>2, <3>1 DEF SamePhase, SamePart, Phase
    <3>3. slot[t] \in Nodes /\ graphOf[slot[t]] \in Graphs
      BY <2>1, <2>2, <3>2, FlowAssumption
    <3>4. state[slot[t]] = "finished" /\ instantiated[subgraph[slot[t]]]
      BY <2>2, <3>2, <3>3 DEF Before, Kept, Opened
    <3>5. QED
      BY <2>2, <3>2, <3>3, <3>4 DEF SameData
  <2>3. QED
    BY <2>1, <2>2, OpenedStays DEF Before, Kept, IInv, Acts, SameData
<1>6. QED
  BY <1>2, <1>3, <1>4, <1>5 DEF Kept

\* A step of a thread that stays in its part of the closure and serves as before.
LEMMA QuietKept ==
  ASSUME NEW d \in [Graphs -> Nat], Before(d), IInv', NEW t \in Threads, NEW l, Steps(t, l),
         l /= "entries", UNCHANGED <<idx, canceled, instantiated, nJoin, state, ran, fin>>,
         \A n \in Nodes : ~canceled[graphOf[n]] =>
           (InQueue(wq, n)' \/ InQueue(taskQ, n)' \/ Holds(t, n)'
             <=> InQueue(wq, n) \/ InQueue(taskQ, n) \/ Holds(t, n)),
         t \in Workers => SamePhase(t),
         Serving(t) \/ Serving(t)' => (Serving(t)' <=> Serving(t)) /\ Invoked(t)' = Invoked(t)
  PROVE  Kept(d)'
<1>1. Acts(t) /\ pc'[t] /= "entries"
  BY DEF Acts, Steps, Moves
<1>2. \A g \in Graphs : Served(g)' <=> Served(g)
  BY ServedStays
<1>3. \A n \in Nodes : SameData(n) /\ fin'[n] >= fin[n]
  BY DEF SameData, Before, IInv, TypeOK, NodeTypes
<1>4. QED
  BY <1>1, <1>2, <1>3, SilentKept

LEMMA RunKept ==
  ASSUME NEW d \in [Graphs -> Nat], Before(d), NEW c \in Callers, Run(c)
  PROVE  Kept(d)'
<1>1. Steps(c, "setup") /\ pc'[c] = "setup" /\ IInv' /\ c \in Threads /\ c \notin Workers
  BY RunSteps, RunInv DEF Before
<1>2. /\ pc[c] \in {"idle", "returned"}
      /\ UNCHANGED <<idx, hand, todo, wq, taskQ, slot, canceled, instantiated, nJoin, state, ran, fin>>
  BY DEF Run, poolVars, graphVars, nodeVars
<1>3. \A n : Holds(c, n)' <=> Holds(c, n)
  BY <1>1, <1>2 DEF Holds, InHand
<1>4. ~Serving(c) /\ ~Serving(c)'
  BY <1>1, <1>2 DEF Serving
<1>5. QED
  BY <1>1, <1>2, <1>3, <1>4, QuietKept

LEMMA WaitKept ==
  ASSUME NEW d \in [Graphs -> Nat], Before(d), NEW c \in Callers, Wait(c)
  PROVE  Kept(d)'
<1>1. Steps(c, "idle") /\ pc'[c] = "idle" /\ IInv' /\ c \in Threads /\ c \notin Workers
  BY WaitSteps, WaitInv DEF Before
<1>2. /\ pc[c] = "returned"
      /\ UNCHANGED <<idx, hand, todo, wq, taskQ, slot, canceled, instantiated, nJoin, state, ran, fin>>
  BY DEF Wait, poolVars, graphVars, nodeVars, histVars
<1>3. \A n : Holds(c, n)' <=> Holds(c, n)
  BY <1>1, <1>2 DEF Holds, InHand
<1>4. ~Serving(c) /\ ~Serving(c)'
  BY <1>1, <1>2 DEF Serving
<1>5. QED
  BY <1>1, <1>2, <1>3, <1>4, QuietKept

LEMMA ScheduleAddKept ==
  ASSUME NEW d \in [Graphs -> Nat], Before(d), NEW t \in Threads, ScheduleAdd(t)
  PROVE  Kept(d)'
<1>1. /\ Steps(t, "ref") /\ pc'[t] = "ref" /\ IInv'
      /\ hand'[t] \in todo[t] /\ todo'[t] = todo[t] \ {hand'[t]}
  BY ScheduleAddSteps, ScheduleAddInv DEF Before
<1>2. /\ pc[t] = "schedule"
      /\ UNCHANGED <<idx, ret, wq, taskQ, slot, canceled, instantiated, nJoin, state, ran, fin>>
  BY DEF ScheduleAdd, poolVars, graphVars, nodeVars, histVars
<1>3. \A n \in Nodes : Holds(t, n)' <=> Holds(t, n)
  BY <1>1, <1>2 DEF Holds, InHand
<1>4. (Driving(t)' <=> Driving(t)) /\ Invoked(t)' = Invoked(t)
  BY <1>1, <1>2 DEF Invoked
<1>5. (Serving(t)' <=> Serving(t)) /\ (t \in Workers => SamePhase(t))
  BY <1>1, <1>2, <1>4 DEF Serving, SamePhase, SamePart, Phase
<1>6. QED
  BY <1>1, <1>2, <1>3, <1>4, <1>5, QuietKept

LEMMA ScheduleRefKept ==
  ASSUME NEW d \in [Graphs -> Nat], Before(d), NEW t \in Threads, ScheduleRef(t)
  PROVE  Kept(d)'
<1>1. Steps(t, "push") /\ pc'[t] = "push" /\ IInv'
  BY ScheduleRefSteps, ScheduleRefInv DEF Before
<1>2. /\ pc[t] = "ref"
      /\ UNCHANGED <<idx, ret, todo, hand, wq, taskQ, slot, canceled, instantiated, nJoin, state, ran, fin>>
  BY DEF ScheduleRef, poolVars, nodeVars, histVars
<1>3. \A n \in Nodes : Holds(t, n)' <=> Holds(t, n)
  BY <1>1, <1>2 DEF Holds, InHand
<1>4. (Driving(t)' <=> Driving(t)) /\ Invoked(t)' = Invoked(t)
  BY <1>1, <1>2 DEF Invoked
<1>5. (Serving(t)' <=> Serving(t)) /\ (t \in Workers => SamePhase(t))
  BY <1>1, <1>2, <1>4 DEF Serving, SamePhase, SamePart, Phase
<1>6. QED
  BY <1>1, <1>2, <1>3, <1>4, <1>5, QuietKept

LEMMA SchedulePushKept ==
  ASSUME NEW d \in [Graphs -> Nat], Before(d), NEW t \in Threads, SchedulePush(t)
  PROVE  Kept(d)'
<1>1. /\ Steps(t, pc'[t]) /\ IInv' /\ hand[t] \in Nodes
      /\ ret[t] \in {"loop", "deref"}
      /\ pc'[t] = IF todo[t] = {} THEN ret[t] ELSE "schedule"
  BY SchedulePushSteps, SchedulePushInv DEF Before
<1>2. /\ pc[t] = "push" /\ wq' = Append(wq, hand[t])
      /\ UNCHANGED <<idx, ret, todo, taskQ, slot, canceled, instantiated, nJoin, state, ran, fin>>
  BY DEF SchedulePush, poolVars, graphVars, nodeVars, histVars
<1>3. \A n \in Nodes : InQueue(wq, n)' <=> InQueue(wq, n) \/ hand[t] = n
  <2>1. wq \in Seq(Nodes)
    BY DEF Before, IInv, TypeOK, QueueTypes
  <2>2. QED
    BY <1>1, <1>2, <2>1, QueueAppend
<1>4. \A n \in Nodes : Holds(t, n)' \/ hand[t] = n <=> Holds(t, n)
  BY <1>1, <1>2 DEF Holds, InHand
<1>5. (Driving(t)' <=> Driving(t)) /\ Invoked(t)' = Invoked(t)
  BY <1>1, <1>2 DEF Invoked
<1>6. (Serving(t)' <=> Serving(t)) /\ (t \in Workers => SamePhase(t))
  BY <1>1, <1>2, <1>5 DEF Serving, SamePhase, SamePart, Phase
<1>7. QED
  BY <1>1, <1>2, <1>3, <1>4, <1>5, <1>6, QuietKept

\* The claims that are dropped are those of the canceled graph.
LEMMA ScheduleCanceledKept ==
  ASSUME NEW d \in [Graphs -> Nat], Before(d), NEW t \in Threads, ScheduleCanceled(t)
  PROVE  Kept(d)'
<1>1. /\ Steps(t, ret[t]) /\ pc'[t] = ret[t] /\ ret[t] \in {"loop", "deref"} /\ todo'[t] = {}
      /\ IInv'
  BY ScheduleCanceledSteps, ScheduleCanceledInv DEF Before
<1>2. /\ pc[t] = "schedule"
      /\ UNCHANGED <<idx, ret, hand, wq, taskQ, slot, canceled, instantiated, nJoin, state, ran, fin>>
  BY DEF ScheduleCanceled, poolVars, graphVars, nodeVars, histVars
<1>3. PICK m \in todo[t] : canceled[graphOf[m]]
  BY DEF ScheduleCanceled, MostUrgent
<1>4. \A n \in todo[t] : canceled[graphOf[n]]
  BY <1>3 DEF Before, GInv, Places, Place, ClaimPlace
<1>5. \A n \in Nodes : ~canceled[graphOf[n]] => (Holds(t, n)' <=> Holds(t, n))
  BY <1>1, <1>2, <1>4 DEF Holds, InHand
<1>6. (Driving(t)' <=> Driving(t)) /\ Invoked(t)' = Invoked(t)
  BY <1>1, <1>2 DEF Invoked
<1>7. (Serving(t)' <=> Serving(t)) /\ (t \in Workers => SamePhase(t))
  BY <1>1, <1>2, <1>6 DEF Serving, SamePhase, SamePart, Phase
<1>8. QED
  BY <1>1, <1>2, <1>5, <1>6, <1>7, QuietKept

LEMMA InvokeLoopKept ==
  ASSUME NEW d \in [Graphs -> Nat], Before(d), NEW t \in Threads, InvokeLoop(t)
  PROVE  Kept(d)'
<1>1. Steps(t, pc'[t]) /\ pc'[t] \in {"waiting", "pop"} /\ IInv'
  BY InvokeLoopSteps, InvokeLoopInv DEF Before
<1>2. /\ pc[t] = "loop"
      /\ UNCHANGED <<idx, ret, todo, hand, wq, taskQ, slot, canceled, instantiated, nJoin, state, ran, fin>>
  BY DEF InvokeLoop, poolVars, graphVars, nodeVars, histVars
<1>3. \A n \in Nodes : Holds(t, n)' <=> Holds(t, n)
  BY <1>1, <1>2 DEF Holds, InHand
<1>4. (Driving(t)' <=> Driving(t)) /\ Invoked(t)' = Invoked(t)
  BY <1>1, <1>2 DEF Invoked
<1>5. (Serving(t)' <=> Serving(t)) /\ (t \in Workers => SamePhase(t))
  BY <1>1, <1>2, <1>4 DEF Serving, SamePhase, SamePart, Phase
<1>6. QED
  BY <1>1, <1>2, <1>3, <1>4, <1>5, QuietKept

LEMMA InvokePopKept ==
  ASSUME NEW d \in [Graphs -> Nat], Before(d), NEW t \in Threads, InvokePop(t)
  PROVE  Kept(d)'
<1>1. /\ Steps(t, "go") /\ pc'[t] = "go" /\ hand'[t] = Head(wq) /\ IInv'
      /\ wq \in Seq(Nodes) /\ wq /= <<>> /\ wq' = Tail(wq)
  BY InvokePopSteps, InvokePopInv DEF Before
<1>2. /\ pc[t] = "pop"
      /\ UNCHANGED <<idx, ret, todo, taskQ, slot, canceled, instantiated, nJoin, state, ran, fin>>
  BY DEF InvokePop, poolVars, graphVars, nodeVars, histVars
<1>3. \A n : InQueue(wq, n) <=> InQueue(wq, n)' \/ Head(wq) = n
  BY <1>1, QueueTail
<1>4. \A n \in Nodes : Holds(t, n)' <=> Holds(t, n) \/ Head(wq) = n
  BY <1>1, <1>2 DEF Holds, InHand
<1>5. (Driving(t)' <=> Driving(t)) /\ Invoked(t)' = Invoked(t)
  BY <1>1, <1>2 DEF Invoked
<1>6. (Serving(t)' <=> Serving(t)) /\ (t \in Workers => SamePhase(t))
  BY <1>1, <1>2, <1>5 DEF Serving, SamePhase, SamePart, Phase
<1>7. QED
  BY <1>1, <1>2, <1>3, <1>4, <1>5, <1>6, QuietKept

LEMMA InvokeNodeKept ==
  ASSUME NEW d \in [Graphs -> Nat], Before(d), NEW t \in Threads, InvokeNode(t)
  PROVE  Kept(d)'
<1>1. Steps(t, "loop") /\ pc'[t] = "loop" /\ hand[t] \in Nodes /\ IInv'
  BY InvokeNodeSteps, InvokeNodeInv DEF Before
<1>2. /\ pc[t] = "go" /\ taskQ' = Append(taskQ, hand[t])
      /\ UNCHANGED <<idx, ret, todo, wq, slot, canceled, instantiated, nJoin, state, ran, fin>>
  BY DEF InvokeNode, GoPool!Submit, graphVars, nodeVars, histVars
<1>3. \A n \in Nodes : InQueue(taskQ, n)' <=> InQueue(taskQ, n) \/ hand[t] = n
  <2>1. taskQ \in Seq(Nodes)
    BY DEF Before, IInv, TypeOK, QueueTypes, GoPool!TypeOK
  <2>2. QED
    BY <1>1, <1>2, <2>1, QueueAppend
<1>4. \A n \in Nodes : Holds(t, n)' \/ hand[t] = n <=> Holds(t, n)
  BY <1>1, <1>2 DEF Holds, InHand
<1>5. (Driving(t)' <=> Driving(t)) /\ Invoked(t)' = Invoked(t)
  BY <1>1, <1>2 DEF Invoked
<1>6. (Serving(t)' <=> Serving(t)) /\ (t \in Workers => SamePhase(t))
  BY <1>1, <1>2, <1>5 DEF Serving, SamePhase, SamePart, Phase
<1>7. QED
  BY <1>1, <1>2, <1>3, <1>4, <1>5, <1>6, QuietKept

LEMMA TakeTaskKept ==
  ASSUME NEW d \in [Graphs -> Nat], Before(d), NEW w \in Workers, TakeTask(w)
  PROVE  Kept(d)'
<1>1. /\ Steps(w, "begin") /\ pc'[w] = "begin" /\ IInv' /\ w \in Threads
      /\ slot[w] = None /\ slot'[w] = Head(taskQ) /\ taskQ' = Tail(taskQ)
      /\ taskQ \in Seq(Nodes) /\ taskQ /= <<>>
  BY TakeTaskSteps, TakeTaskInv DEF Before
<1>2. /\ pc[w] = "idle"
      /\ UNCHANGED <<idx, ret, todo, hand, wq, canceled, instantiated, nJoin, state, ran, fin>>
  BY DEF TakeTask, graphVars, nodeVars, histVars
<1>3. \A n : InQueue(taskQ, n) <=> InQueue(taskQ, n)' \/ Head(taskQ) = n
  BY <1>1, QueueTail
<1>4. \A n \in Nodes : Holds(w, n)' <=> Holds(w, n) \/ Head(taskQ) = n
  BY <1>1, <1>2 DEF Holds, InHand
<1>5. ~Serving(w) /\ ~Serving(w)' /\ SamePhase(w)
  BY <1>1, <1>2 DEF Serving, SamePhase, SamePart, Phase
<1>6. QED
  BY <1>1, <1>2, <1>3, <1>4, <1>5, QuietKept

LEMMA DerefKept ==
  ASSUME NoConditions, NEW d \in [Graphs -> Nat], Before(d), NEW w \in Workers, Deref(w)
  PROVE  Kept(d)'
<1>1. /\ Steps(w, pc'[w]) /\ pc[w] = "deref" /\ pc'[w] = "done" /\ UNCHANGED <<hand, todo, slot>>
      /\ IInv' /\ w \in Threads
  BY DerefSteps, DerefInv DEF Before, NoConditions
<1>2. UNCHANGED <<idx, ret, wq, taskQ, canceled, instantiated, nJoin, state, ran, fin>>
  BY DEF Deref, poolVars, nodeVars, histVars
<1>3. \A n \in Nodes : Holds(w, n)' <=> Holds(w, n)
  BY <1>1, <1>2 DEF Holds, InHand
<1>4. ~Serving(w) /\ ~Serving(w)' /\ SamePhase(w)
  BY <1>1, <1>2 DEF Serving, SamePhase, SamePart, Phase
<1>5. QED
  BY <1>1, <1>2, <1>3, <1>4, QuietKept

LEMMA DoneKept ==
  ASSUME NEW d \in [Graphs -> Nat], Before(d), NEW w \in Workers, Done(w)
  PROVE  Kept(d)'
<1>1. /\ Steps(w, "idle") /\ pc[w] = "done" /\ pc'[w] = "idle" /\ IInv' /\ w \in Threads
  BY DoneSteps, DoneInv DEF Before
<1>2. UNCHANGED <<idx, ret, todo, hand, wq, taskQ, canceled, instantiated, nJoin, state, ran, fin>>
  BY DEF Done, GoPool!Finish, graphVars, nodeVars, histVars
<1>3. \A n \in Nodes : Holds(w, n)' <=> Holds(w, n)
  BY <1>1, <1>2 DEF Holds, InHand
<1>4. ~Serving(w) /\ ~Serving(w)' /\ SamePhase(w)
  BY <1>1, <1>2 DEF Serving, SamePhase, SamePart, Phase
<1>5. QED
  BY <1>1, <1>2, <1>3, <1>4, QuietKept

LEMMA CallerReturnKept ==
  ASSUME NEW d \in [Graphs -> Nat], Before(d), NEW c \in Callers, GraphReturn(c)
  PROVE  Kept(d)'
<1>1. /\ Steps(c, "returned") /\ pc'[c] = "returned" /\ IInv' /\ c \in Threads /\ c \notin Workers
      /\ canceled' = canceled
  BY GraphReturnSteps, GraphReturnInv DEF Before
<1>2. /\ pc[c] = "return"
      /\ UNCHANGED <<idx, hand, todo, wq, taskQ, slot, canceled, instantiated, nJoin, state, ran, fin>>
  BY <1>1 DEF GraphReturn, poolVars, nodeVars
<1>3. \A n : Holds(c, n)' <=> Holds(c, n)
  BY <1>1, <1>2 DEF Holds, InHand
<1>4. ~Serving(c) /\ ~Serving(c)'
  BY <1>1, <1>2 DEF Serving
<1>5. QED
  BY <1>1, <1>2, <1>3, <1>4, QuietKept

\* A step of a closure whose graph is, or becomes, canceled.
LEMMA CanceledKept ==
  ASSUME NEW d \in [Graphs -> Nat], Before(d), IInv', NEW w \in Workers, NEW l, Steps(w, l),
         pc[w] \notin {"idle", "ref", "push", "go"},
         l \notin {"idle", "entries", "ref", "push", "go", "begin"},
         ~Serving(w), ~Serving(w)', canceled'[graphOf[slot[w]]],
         \A u \in Threads \ {w} : idx'[u] = idx[u],
         UNCHANGED <<hand, wq, taskQ, slot, instantiated, ran>>,
         \A g \in Graphs : canceled[g] => canceled'[g],
         \A n \in Nodes : fin'[n] >= fin[n],
         \A n \in Nodes : graphOf[n] /= graphOf[slot[w]] =>
           SameData(n) /\ (n \in todo'[w] <=> n \in todo[w])
  PROVE  Kept(d)'
<1>1. Acts(w) /\ pc'[w] = l /\ slot[w] \in Nodes
  BY SlotIsNode DEF Acts, Steps, Moves, Before
<1>2. \A g \in Graphs : Served(g)' <=> Served(g)
  BY ServedStays
<1>3. \A n \in Nodes : ~canceled'[graphOf[n]] => (Holds(w, n)' <=> Holds(w, n))
  BY <1>1 DEF Holds, InHand
<1>4. \A n \in Nodes : SameData(n) \/ canceled'[graphOf[n]]
  OBVIOUS
<1>5. QED
  BY <1>1, <1>2, <1>3, <1>4, SilentKept

LEMMA HandlerPanicKept ==
  ASSUME NoConditions, NEW d \in [Graphs -> Nat], Before(d), NEW w \in Workers, HandlerPanic(w)
  PROVE  Kept(d)'
<1>1. pc[w] = "handle" /\ slot[w] \in Nodes /\ graphOf[slot[w]] \in Graphs /\ IInv' /\ IInv
  BY SlotIsNode, HandlerPanicInv DEF HandlerPanic, Before
<1>2. /\ UNCHANGED <<idx, ret, hand, todo, wq, taskQ, slot, instantiated, nJoin, state, ran, fin>>
      /\ pc' = Goto(w, Deferred(slot[w]))
      /\ canceled'[graphOf[slot[w]]]
      /\ \A g \in Graphs : canceled[g] => canceled'[g]
  BY <1>1 DEF HandlerPanic, poolVars, nodeVars, histVars
<1>3. Steps(w, Deferred(slot[w])) /\ pc'[w] = Deferred(slot[w])
  BY <1>1, <1>2, DeferredSteps
<1>4. Deferred(slot[w]) \in {"drop", "resetup", "setup"}
  BY <1>1, DeferredByType DEF NoConditions
<1>5. ~Serving(w) /\ ~Serving(w)'
  BY <1>1, <1>3, <1>4 DEF Serving
<1>6. \A n \in Nodes : SameData(n) /\ fin'[n] >= fin[n]
  BY <1>1, <1>2 DEF SameData, IInv, TypeOK, NodeTypes
<1>7. QED
  BY <1>1, <1>2, <1>3, <1>4, <1>5, <1>6, CanceledKept

\* A closure that finds its graph canceled skips its handler.
LEMMA SkipKept ==
  ASSUME NoConditions, NEW d \in [Graphs -> Nat], Before(d), NEW w \in Workers, Begin(w),
         canceled[graphOf[slot[w]]]
  PROVE  Kept(d)'
<1>1. pc[w] = "begin" /\ slot[w] \in Nodes /\ graphOf[slot[w]] \in Graphs /\ IInv' /\ IInv
  BY SlotIsNode, BeginInv DEF Begin, Before
<1>2. /\ UNCHANGED <<idx, ret, hand, todo, wq, taskQ, slot, canceled, instantiated, nJoin, state, ran, fin>>
      /\ pc' = Goto(w, Deferred(slot[w]))
  BY <1>1 DEF Begin, poolVars, graphVars
<1>3. Steps(w, Deferred(slot[w])) /\ pc'[w] = Deferred(slot[w])
  BY <1>1, <1>2, DeferredSteps
<1>4. Deferred(slot[w]) \in {"drop", "resetup", "setup"}
  BY <1>1, DeferredByType DEF NoConditions
<1>5. ~Serving(w) /\ ~Serving(w)'
  BY <1>1, <1>3, <1>4 DEF Serving
<1>6. \A n \in Nodes : SameData(n) /\ fin'[n] >= fin[n]
  BY <1>1, <1>2 DEF SameData, IInv, TypeOK, NodeTypes
<1>7. QED
  BY <1>1, <1>2, <1>3, <1>4, <1>5, <1>6, CanceledKept

LEMMA StutterKept ==
  ASSUME NEW d \in [Graphs -> Nat], Kept(d), UNCHANGED vars
  PROVE  Kept(d)'
<1>1. UNCHANGED <<pc, ret, todo, idx, hand, taskQ, slot, wq, canceled, instantiated, nJoin, state,
                  ran, fin>>
  BY DEF vars, threadVars, poolVars, graphVars, nodeVars, histVars
<1>2. /\ \A n : (Queued(n)' <=> Queued(n)) /\ (RunsAt(n)' <=> RunsAt(n)) /\ (EndsAt(n)' <=> EndsAt(n))
      /\ \A n : LooksAt(n)' <=> LooksAt(n)
      /\ \A e : DropsAt(e)' <=> DropsAt(e)
      /\ \A g : Served(g)' <=> Served(g)
  BY <1>1 DEF Queued, InQueue, Holds, InHand, RunsAt, EndsAt, Phase, LooksAt, Looks, DropsAt, Drops,
              Served, Serving, Invoked
<1>3. ASSUME NEW n \in Nodes PROVE NodeInv(n, d[graphOf[n]])'
  <2>1. graphOf[n] \in Graphs /\ d[graphOf[n]] \in Nat /\ NodeInv(n, d[graphOf[n]])
    BY FlowAssumption DEF Kept, Nodewise
  <2>2. SameNode(n) /\ SameEdges(n, d[graphOf[n]])
    BY <1>1, <1>2, EdgesStay DEF SameNode, SameData
  <2>3. QED
    BY <1>1, <1>2, <2>1, <2>2, NodeStays
<1>4. Cleared'
  BY <1>1 DEF Kept, Cleared, NodesIn, Invoked
<1>5. DepsRespected' /\ Opened'
  BY <1>1 DEF Kept, DepsRespected, Opened
<1>6. QED
  BY <1>3, <1>4, <1>5 DEF Kept, Nodewise

-----------------------------------------------------------------------------
(***************************************************************************)
(* What Single says of the places of a node.                               *)
(***************************************************************************)

LEMMA CountNone ==
  ASSUME NEW s \in Seq(Nodes), NEW n, Count(s, {n}) = 0
  PROVE  ~InQueue(s, n)
<1>1. {i \in DOMAIN s : s[i] \in {n}} = {}
  BY CountType, FS_EmptySet DEF Count
<1>2. QED
  BY <1>1 DEF InQueue

LEMMA SpentPhase ==
  ASSUME NEW w \in Workers, Spent(w)
  PROVE  Phase(w) = "none" /\ pc[w] /= "begin"
BY DEF Spent, Publishing, Phase

\* Node n is nowhere but with worker w, and with workers that have spent it.
Only(w, n) ==
  /\ ~InQueue(wq, n) /\ ~InQueue(taskQ, n)
  /\ \A u \in Threads : n \notin todo[u] /\ ~(u \in InHand /\ hand[u] = n)
  /\ \A v \in Workers \ {w} : slot[v] = n => Phase(v) = "none" /\ pc[v] /= "begin"

LEMMA TokensGone ==
  ASSUME TypeOK, NEW n \in Nodes,
         Count(wq, {n}) = 0, Count(taskQ, {n}) = 0, Cardinality(Hands(n)) = 0, Claims(n) = 0
  PROVE  /\ ~InQueue(wq, n) /\ ~InQueue(taskQ, n)
         /\ \A u \in Threads : n \notin todo[u] /\ ~(u \in InHand /\ hand[u] = n)
<1>1. ~InQueue(wq, n) /\ ~InQueue(taskQ, n)
  BY CountNone DEF TypeOK, QueueTypes, GoPool!TypeOK
<1>2. Hands(n) = {} /\ Claimers(n) = {}
  <2>1. Hands(n) \subseteq Threads /\ Claimers(n) \subseteq Threads
    BY DEF Hands, Claimers, InHand
  <2>2. IsFiniteSet(Hands(n)) /\ IsFiniteSet(Claimers(n))
    BY <2>1, FiniteThreads, FS_Subset
  <2>3. QED
    BY <2>2, FS_EmptySet DEF Claims
<1>3. QED
  BY <1>1, <1>2 DEF Hands, Claimers

\* The node of a worker that has not spent it is with that worker alone.
LEMMA Alone ==
  ASSUME NoConditions, IInv, Single, NEW w \in Workers, pc[w] /= "idle", ~Spent(w),
         ~canceled[graphOf[slot[w]]]
  PROVE  Only(w, slot[w])
<1> DEFINE n == slot[w]
<1>1. n \in Nodes /\ n \in Protected
  BY SlotIsNode DEF Protected, NoConditions
<1>2. One(n) /\ Sizes(n)
  BY <1>1, TokenTypes DEF Single, IInv
<1>3. Cardinality(Execs(n)) /= 0
  <2>1. w \in Execs(n) /\ Execs(n) \subseteq Threads
    BY DEF Execs
  <2>2. IsFiniteSet(Execs(n))
    BY <2>1, FiniteThreads, FS_Subset
  <2>3. QED
    BY <2>1, <2>2, FS_EmptySet
<1>4. Count(wq, {n}) = 0 /\ Count(taskQ, {n}) = 0 /\ Cardinality(Hands(n)) = 0 /\ Claims(n) = 0
  <2>1. Tokens(n) + Claims(n) <= 1
    BY <1>2 DEF One
  <2>2. QED
    BY <1>2, <1>3, <2>1 DEF Tokens, Sizes
<1>5. ASSUME NEW v \in Workers \ {w}, slot[v] = n PROVE Phase(v) = "none" /\ pc[v] /= "begin"
  <2>1. Spent(v)
    BY <1>1, <1>5, ExecutedOnce
  <2>2. QED
    BY <2>1, SpentPhase
<1>6. QED
  BY <1>1, <1>4, <1>5, TokensGone DEF Only, IInv

\* So what is seen of the node is where that worker is.
Views(w, n) ==
  /\ Queued(n) <=> pc[w] = "begin"
  /\ RunsAt(n) <=> Phase(w) = "run"
  /\ EndsAt(n) <=> Phase(w) \in {"drop", "check", "resetup"}
  /\ \A e : e[1] = n => (DropsAt(e) <=> Drops(w, e))

LEMMA OnlyViews ==
  ASSUME NEW w \in Workers, NEW n, slot[w] = n, Only(w, n)
  PROVE  Views(w, n)
<1>1. Queued(n) <=> pc[w] = "begin"
  BY DEF Only, Queued, Holds
<1>2. (RunsAt(n) <=> Phase(w) = "run") /\ (EndsAt(n) <=> Phase(w) \in {"drop", "check", "resetup"})
  BY DEF Only, RunsAt, EndsAt
<1>3. \A e : e[1] = n => (DropsAt(e) <=> Drops(w, e))
  BY DEF Only, DropsAt, Drops
<1>4. QED
  BY <1>1, <1>2, <1>3 DEF Views

LEMMA OnlyViewsAfter ==
  ASSUME NEW w \in Workers, NEW n, slot[w] = n, Acts(w), Only(w, n), UNCHANGED <<wq, taskQ, slot>>,
         n \notin todo'[w], pc'[w] \notin {"ref", "push", "go"} \/ hand'[w] /= n
  PROVE  Views(w, n)'
<1>1. /\ ~InQueue(wq, n)' /\ ~InQueue(taskQ, n)'
      /\ \A u \in Threads : n \notin todo'[u] /\ ~(u \in InHand' /\ hand'[u] = n)
  <2>1. ASSUME NEW u \in Threads \ {w} PROVE n \notin todo'[u] /\ ~(u \in InHand' /\ hand'[u] = n)
    BY <2>1, OthersStay DEF Only, Acts, Steps, InHand
  <2>2. QED
    BY <2>1 DEF Only, InHand
<1>2. ASSUME NEW v \in Workers \ {w}, slot'[v] = n PROVE Phase(v)' = "none" /\ pc'[v] /= "begin"
  BY <1>2, OthersStay, OthersView DEF Only, Acts
<1>3. Queued(n)' <=> pc'[w] = "begin"
  BY <1>1, <1>2 DEF Queued, Holds
<1>4. /\ RunsAt(n)' <=> Phase(w)' = "run"
      /\ EndsAt(n)' <=> Phase(w)' \in {"drop", "check", "resetup"}
  BY <1>2 DEF RunsAt, EndsAt
<1>5. \A e : e[1] = n => (DropsAt(e)' <=> Drops(w, e)')
  BY <1>2 DEF DropsAt, Drops
<1>6. QED
  BY <1>3, <1>4, <1>5 DEF Views

-----------------------------------------------------------------------------
(***************************************************************************)
(* Steps of the closure of a node, in a graph that is not canceled.        *)
(***************************************************************************)

Working(w) == pc[w] /= "idle" /\ ~Spent(w) /\ ~canceled[graphOf[slot[w]]]

\* The graph of a node that a worker executes is in a round.
LEMMA AtWork ==
  ASSUME NoConditions, NEW d \in [Graphs -> Nat], Before(d), NEW w \in Workers, Working(w)
  PROVE  /\ slot[w] \in Nodes /\ graphOf[slot[w]] \in Graphs /\ d[graphOf[slot[w]]] \in Nat
         /\ Served(graphOf[slot[w]]) /\ Only(w, slot[w]) /\ Views(w, slot[w])
         /\ \A m \in Nodes : graphOf[m] = graphOf[slot[w]] => InRound(m, d[graphOf[slot[w]]])
<1> DEFINE n == slot[w]
           g == graphOf[n]
<1>1. n \in Nodes /\ g \in Graphs /\ d[g] \in Nat
  BY SlotIsNode DEF Before, Working
<1>2. Only(w, n) /\ Views(w, n)
  BY Alone, OnlyViews DEF Before, Working
<1>3. \E t \in Threads : Serving(t) /\ Invoked(t) = g
  <2>1. ~Released(w)
    BY <1>1 DEF Released, Working, Spent, NoConditions
  <2>2. gJoin[g] /= 0
    BY <1>1, <2>1, WorkerCounts DEF Before, IInv, GInv, Working
  <2>3. QED
    BY <1>1, <2>2 DEF Before, GInv, Quiet, Working
<1>4. instantiated[g]
  <2>1. pc[w] = "begin" \/ Phase(w) \in {"run", "drop", "check", "resetup"}
    <3>1. pc[w] \in PCs /\ pc[w] /= "returned" /\ ret[w] \in {"loop", "deref"}
      BY DEF Before, IInv, TypeOK, ThreadTypes, GInv, Places, Place, WorkerPlace
    <3>2. QED
      BY <3>1 DEF Working, Spent, Publishing, Phase, PCs
  <2>2. Queued(n) \/ RunsAt(n) \/ EndsAt(n)
    BY <1>2, <2>1 DEF Views
  <2>3. NodeInv(n, d[g])
    BY <1>1 DEF Before, Kept, Nodewise
  <2>4. QED
    BY <2>2, <2>3 DEF NodeInv, Working
<1>5. Served(g)
  BY <1>3, <1>4 DEF Served
<1>6. ASSUME NEW m \in Nodes, graphOf[m] = g PROVE InRound(m, d[g])
  <2>1. NodeInv(m, d[g])
    BY <1>6 DEF Before, Kept, Nodewise
  <2>2. QED
    BY <1>5, <1>6, <2>1 DEF NodeInv, Working
<1>7. QED
  BY <1>1, <1>2, <1>5, <1>6

\* A step of that worker changes its own graph only.
LEMMA ClosureKept ==
  ASSUME NoConditions, NEW d \in [Graphs -> Nat], Before(d), IInv', NEW w \in Workers, Working(w),
         Acts(w), ~Serving(w), ~Driving(w)',
         UNCHANGED <<hand, wq, taskQ, slot, canceled, instantiated>>,
         pc[w] \notin {"ref", "push", "go"}, pc'[w] \notin {"ref", "push", "go"},
         \A n \in Nodes : graphOf[n] /= graphOf[slot[w]] =>
           SameData(n) /\ (n \in todo'[w] <=> n \in todo[w]),
         \A n \in Nodes : n = slot[w] \/ state[n] = "idle" \/ state'[n] = state[n],
         \A n \in Nodes : graphOf[n] = graphOf[slot[w]] => InRound(n, d[graphOf[n]])',
         DepsRespected'
  PROVE  Kept(d)'
<1> DEFINE g == graphOf[slot[w]]
<1>1. slot[w] \in Nodes /\ g \in Graphs /\ Served(g)
  BY AtWork
<1>2. \A h \in Graphs : Served(h)' <=> Served(h)
  BY ServedStays DEF Acts, Serving
<1>3. ASSUME NEW n \in Nodes, ~canceled[graphOf[n]], graphOf[n] /= g PROVE NodeInv(n, d[graphOf[n]])'
  <2>1. graphOf[n] \in Graphs /\ d[graphOf[n]] \in Nat /\ NodeInv(n, d[graphOf[n]])
    BY FlowAssumption DEF Before, Kept, Nodewise
  <2>2. (RunsAt(n)' <=> RunsAt(n)) /\ (EndsAt(n)' <=> EndsAt(n))
    BY <1>3, ViewsElsewhere
  <2>3. Queued(n)' <=> Queued(n)
    <3>1. Holds(w, n)' <=> Holds(w, n)
      BY <1>3 DEF Holds, InHand
    <3>2. QED
      BY <3>1, QueuedStays
  <2>4. ASSUME NEW e \in dependents[n]
        PROVE  fin'[e[1]] = fin[e[1]] /\ (DropsAt(e)' <=> DropsAt(e))
               /\ \A u \in Workers : Looks(u, e) => Looks(u, e)'
    <3>1. e[1] \in Nodes /\ graphOf[e[1]] = graphOf[n] /\ slot[w] /= e[1]
      BY <1>3, EdgeEnds
    <3>2. QED
      BY <1>3, <3>1, EdgesElsewhere DEF SameData
  <2>5. SameEdges(n, d[graphOf[n]])
    <3>1. LooksAt(n) => LooksAt(n)'
      BY <2>4 DEF LooksAt
    <3>2. QED
      BY <2>4, <3>1, EdgesStay
  <2>6. QED
    BY <1>2, <1>3, <2>1, <2>2, <2>3, <2>5, NodeStays DEF SameNode
<1>4. ASSUME NEW n \in Nodes, graphOf[n] = g PROVE NodeInv(n, d[graphOf[n]])'
  BY <1>1, <1>2, <1>4 DEF NodeInv, Served
<1>5. Nodewise(d)'
  <2>1. \A n \in Nodes : canceled[graphOf[n]] => NodeInv(n, d[graphOf[n]])'
    BY DEF NodeInv
  <2>2. QED
    BY <1>3, <1>4, <2>1 DEF Nodewise
<1>6. Cleared'
  <2>1. \A n \in Nodes : nJoin'[n] = nJoin[n] \/ Served(graphOf[n])
    BY <1>1 DEF SameData
  <2>2. QED
    BY <2>1, ClearedStays DEF Before, Kept, Acts
<1>7. Opened'
  <2>1. \A v \in Workers : Driving(v) => slot[v] \in Nodes
    BY SlotIsNode DEF Before
  <2>2. ASSUME NEW v \in Workers \ {w}, Driving(v) PROVE slot[v] /= slot[w]
    BY <2>2, AtWork DEF Only, Phase
  <2>3. QED
    BY <2>1, <2>2, OpenedStays DEF Before, Kept, IInv, Acts
<1>8. QED
  BY <1>5, <1>6, <1>7 DEF Kept

LEMMA MissingType ==
  ASSUME NEW n \in Nodes, NEW r
  PROVE  IsFiniteSet(Missing(n, r)) /\ Cardinality(Missing(n, r)) \in Nat
<1>1. Missing(n, r) \subseteq dependents[n]
  BY DEF Missing
<1>2. QED
  BY <1>1, FiniteDependents, FS_Subset, FS_CardinalityType

\* A node that the worker is not executing.
LEMMA OtherNode ==
  ASSUME NEW w \in Workers, Acts(w), UNCHANGED <<hand, wq, taskQ, slot>>,
         pc[w] \notin {"ref", "push", "go"}, pc'[w] \notin {"ref", "push", "go"},
         NEW n, n /= slot[w], n \in todo'[w] <=> n \in todo[w]
  PROVE  (Queued(n)' <=> Queued(n)) /\ (RunsAt(n)' <=> RunsAt(n)) /\ (EndsAt(n)' <=> EndsAt(n))
<1>1. Holds(w, n)' <=> Holds(w, n)
  BY DEF Holds, InHand
<1>2. QED
  BY <1>1, QueuedStays, ViewsElsewhere

\* A worker outside the loops over the successors.
LEMMA OffTheEdges ==
  ASSUME NEW w \in Workers, Acts(w), Phase(w) \notin {"drop", "check"}, Phase(w)' \notin {"drop", "check"}
  PROVE  (\A e : DropsAt(e)' <=> DropsAt(e)) /\ (\A n : LooksAt(n)' <=> LooksAt(n))
<1>1. ASSUME NEW u \in Workers, NEW e PROVE (Drops(u, e)' <=> Drops(u, e)) /\ (Looks(u, e)' <=> Looks(u, e))
  <2>1. CASE u = w
    BY <2>1 DEF Drops, Looks
  <2>2. CASE u /= w
    BY <2>2, OthersView
  <2>3. QED
    BY <2>1, <2>2
<1>2. QED
  BY <1>1 DEF DropsAt, LooksAt

\* A node starts after its predecessors have completed.
LEMMA BeginKept ==
  ASSUME NoConditions, NEW d \in [Graphs -> Nat], Before(d), NEW w \in Workers, Begin(w),
         ~canceled[graphOf[slot[w]]]
  PROVE  Kept(d)'
<1>0. pc[w] = "begin" /\ slot[w] \in Nodes /\ graphOf[slot[w]] \in Graphs
  BY SlotIsNode DEF Begin, Before
<1> PICK n \in Nodes, r \in Nat : n = slot[w] /\ r = d[graphOf[n]]
  BY <1>0
<1>1. /\ pc[w] = "begin" /\ pc'[w] = "handle" /\ IInv' /\ IInv
      /\ Steps(w, "handle")
      /\ UNCHANGED <<idx, ret, hand, todo, wq, taskQ, slot, canceled, instantiated, nJoin, fin>>
      /\ state' = [state EXCEPT ![n] = "running"]
      /\ ran' = [ran EXCEPT ![n] = ran[n] + 1]
  <2>1. pc[w] = "begin" /\ IInv' /\ IInv
    BY BeginInv DEF Begin, Before
  <2>2. n \in Nodes /\ Typ[n] \in {"static", "subflow"} /\ Deferred(n) /= "handle"
    BY <2>1, SlotIsNode, DeferredByType DEF NoConditions
  <2>3. QED
    BY <2>1, <2>2, BeginSteps DEF Begin, poolVars, graphVars
<1>2. Working(w) /\ Acts(w) /\ Phase(w) = "none" /\ Phase(w)' = "run"
  BY <1>1 DEF Working, Spent, Publishing, Acts, Phase
<1>3. /\ n \in Nodes /\ r \in Nat /\ Only(w, n) /\ Views(w, n)
      /\ \A m \in Nodes : graphOf[m] = graphOf[n] => InRound(m, r)
  BY <1>2, AtWork
<1>4. (\A e : DropsAt(e)' <=> DropsAt(e)) /\ (\A m : LooksAt(m)' <=> LooksAt(m))
  BY <1>2, OffTheEdges
<1>5. Queued(n) /\ ran[n] = r - 1 /\ fin[n] = r - 1
  BY <1>1, <1>3 DEF Views, InRound, Progress
<1>6. ran'[n] = r /\ \A m \in Nodes : m /= n => ran'[m] = ran[m] /\ state'[m] = state[m]
  BY <1>1, <1>3, <1>5 DEF IInv, TypeOK, NodeTypes
<1>7. Views(w, n)'
  <2>1. n \notin todo'[w]
    BY <1>1, <1>3 DEF Only
  <2>2. QED
    BY <1>1, <1>2, <1>3, <2>1, OnlyViewsAfter
<1>8. InRound(n, r)'
  <2>1. Progress(n, r)'
    BY <1>1, <1>3, <1>2, <1>5, <1>6, <1>7 DEF Progress, Views
  <2>2. Missing(n, r)' = Missing(n, r)
    BY <1>1, <1>3, <1>4, EdgesStay DEF SameEdges
  <2>3. InOrder(n, r)'
    BY <1>1, <1>3, <1>5, <2>2 DEF InOrder, InRound
  <2>4. Restored(n, r)' = 0 /\ Restored(n, r) = 0
    BY <1>1, <1>3, <1>5 DEF Restored
  <2>5. Counter(n, r)'
    BY <1>1, <1>3, <2>2, <2>4 DEF Counter, InRound
  <2>6. Pending(n, r)'
    BY <1>3, <1>6 DEF Pending
  <2>7. QED
    BY <2>1, <2>3, <2>5, <2>6 DEF InRound
<1>9. ASSUME NEW m \in Nodes, graphOf[m] = graphOf[n], m /= n PROVE InRound(m, r)'
  <2>1. (Queued(m)' <=> Queued(m)) /\ (RunsAt(m)' <=> RunsAt(m)) /\ (EndsAt(m)' <=> EndsAt(m))
    BY <1>1, <1>2, <1>9, OtherNode
  <2>2. SameNode(m) /\ SameEdges(m, r)
    BY <1>1, <1>4, <1>6, <1>9, <2>1, EdgesStay DEF SameNode, SameData
  <2>3. QED
    BY <1>3, <1>9, <2>2, RoundStays
<1>10. DepsRespected'
  <2> SUFFICES ASSUME NEW m \in Nodes, \A e \in dependents[m] : Typ[e[1]] /= "condition",
                      NEW e \in dependents[m]
               PROVE  ran'[m] <= fin'[e[1]]
    BY DEF DepsRespected
  <2>1. CASE m = n
    <3>1. fin[e[1]] = r
      BY <1>3, <1>5, <2>1 DEF InRound, InOrder, Missing
    <3>2. QED
      BY <1>1, <1>3, <1>6, <2>1, <3>1
  <2>2. CASE m /= n
    BY <1>1, <1>6, <2>2 DEF Before, Kept, DepsRespected
  <2>3. QED
    BY <2>1, <2>2
<1>11. ~Serving(w) /\ ~Driving(w)'
  BY <1>1 DEF Serving
<1>12. \A m \in Nodes : graphOf[m] = graphOf[n] => InRound(m, d[graphOf[m]])'
  BY <1>8, <1>9
<1>13. \A m \in Nodes : graphOf[m] /= graphOf[n] => SameData(m)
  BY <1>1, <1>6 DEF SameData
<1>14. QED
  BY <1>1, <1>2, <1>10, <1>11, <1>12, <1>13, ClosureKept

\* The node completes: its successors have still to be told.
LEMMA FinishKept ==
  ASSUME NoConditions, NEW d \in [Graphs -> Nat], Before(d), IInv', NEW w \in Workers, Working(w),
         pc[w] \in {"handle", "return"}, NEW l \in {"drop", "resetup"}, Steps(w, l),
         l = "resetup" => successors[slot[w]] = <<>>,
         UNCHANGED <<idx, hand, todo, wq, taskQ, slot, canceled, instantiated, nJoin, ran>>,
         \A m \in Nodes : m /= slot[w] => state'[m] = state[m],
         fin' = [fin EXCEPT ![slot[w]] = fin[slot[w]] + 1]
  PROVE  Kept(d)'
<1>0. slot[w] \in Nodes /\ graphOf[slot[w]] \in Graphs /\ d[graphOf[slot[w]]] \in Nat
  BY AtWork
<1> PICK n \in Nodes, r \in Nat : n = slot[w] /\ r = d[graphOf[n]]
  BY <1>0
<1>1. Acts(w) /\ Phase(w) = "run" /\ pc'[w] = l /\ Phase(w)' = l
  BY DEF Acts, Phase, Steps, Moves
<1>2. Only(w, n) /\ Views(w, n) /\ \A m \in Nodes : graphOf[m] = graphOf[n] => InRound(m, r)
  BY AtWork
<1>3. ran[n] = r /\ fin[n] = r - 1
  BY <1>1, <1>2 DEF Views, InRound, Progress
<1>4. fin'[n] = r /\ \A m \in Nodes : m /= n => fin'[m] = fin[m]
  BY <1>3 DEF Before, IInv, TypeOK, NodeTypes
<1>5. Views(w, n)'
  <2>1. n \notin todo'[w]
    BY <1>2 DEF Only
  <2>2. QED
    BY <1>1, <1>2, <2>1, OnlyViewsAfter
<1>6. ASSUME NEW m \in Nodes, NEW e \in dependents[m]
      PROVE  /\ e[1] = n => DropsAt(e)'
             /\ e[1] /= n => (DropsAt(e)' <=> DropsAt(e)) /\ fin'[e[1]] = fin[e[1]]
  <2>1. e[1] \in Nodes /\ e[2] \in DOMAIN successors[e[1]] /\ e[2] \in Nat \ {0}
    BY EdgeEnds
  <2>2. CASE e[1] = n
    <3>1. l = "drop"
      BY <2>1, <2>2
    <3>2. idx'[w] = 1
      BY DEF Before, IInv, ThreadShape
    <3>3. Drops(w, e)'
      BY <1>1, <2>1, <2>2, <3>1, <3>2 DEF Drops
    <3>4. QED
      BY <2>2, <3>3 DEF DropsAt
  <2>3. CASE e[1] /= n
    BY <1>1, <1>4, <2>1, <2>3, EdgesElsewhere
  <2>4. QED
    BY <2>2, <2>3
<1>7. ASSUME NEW m \in Nodes PROVE SameEdges(m, r)
  <2>1. Missing(m, r)' = Missing(m, r)
    BY <1>3, <1>6 DEF Missing
  <2>2. ASSUME NEW u \in Workers, NEW e, Looks(u, e) PROVE Looks(u, e)'
    <3>1. u /= w
      BY <1>1, <2>2 DEF Looks
    <3>2. QED
      BY <1>1, <2>2, <3>1, OthersView
  <2>3. LooksAt(m) => LooksAt(m)'
    BY <2>2 DEF LooksAt
  <2>4. QED
    BY <2>1, <2>3 DEF SameEdges
<1>8. InRound(n, r)'
  <2>1. Progress(n, r)'
    BY <1>1, <1>3, <1>4, <1>5 DEF Progress, Views
  <2>2. InOrder(n, r)'
    BY <1>2, <1>3, <1>7 DEF InOrder, InRound, SameEdges
  <2>3. Restored(n, r)' = 0 /\ Restored(n, r) = 0
    BY <1>1, <1>3, <1>5 DEF Restored, Views
  <2>4. Counter(n, r)'
    BY <1>2, <1>7, <2>3 DEF Counter, InRound, SameEdges
  <2>5. Pending(n, r)'
    BY <1>3 DEF Pending
  <2>6. QED
    BY <2>1, <2>2, <2>4, <2>5 DEF InRound
<1>9. ASSUME NEW m \in Nodes, graphOf[m] = graphOf[n], m /= n PROVE InRound(m, r)'
  <2>1. (Queued(m)' <=> Queued(m)) /\ (RunsAt(m)' <=> RunsAt(m)) /\ (EndsAt(m)' <=> EndsAt(m))
    BY <1>1, <1>9, OtherNode
  <2>2. SameNode(m)
    BY <1>4, <1>9, <2>1 DEF SameNode, SameData
  <2>3. QED
    BY <1>2, <1>7, <1>9, <2>2, RoundStays
<1>10. DepsRespected'
  <2>1. \A m \in Nodes : fin'[m] >= fin[m]
    BY <1>3, <1>4 DEF Before, IInv, TypeOK, NodeTypes
  <2>2. QED
    BY <2>1, DepsStay DEF Before, Kept, IInv
<1>11. ~Serving(w) /\ ~Driving(w)'
  BY <1>1 DEF Serving
<1>12. \A m \in Nodes : graphOf[m] = graphOf[n] => InRound(m, d[graphOf[m]])'
  BY <1>8, <1>9
<1>13. \A m \in Nodes : graphOf[m] /= graphOf[n] => SameData(m)
  BY <1>4 DEF SameData
<1>14. QED
  BY <1>1, <1>10, <1>11, <1>12, <1>13, ClosureKept

LEMMA ReturnStaticKept ==
  ASSUME NoConditions, NEW d \in [Graphs -> Nat], Before(d), NEW w \in Workers, ReturnStatic(w)
  PROVE  Kept(d)'
<1>1. pc[w] = "handle" /\ slot[w] \in Nodes /\ Typ[slot[w]] = "static" /\ IInv' /\ IInv
  BY SlotIsNode, ReturnStaticInv DEF ReturnStatic, Before
<1>2. /\ UNCHANGED <<idx, ret, hand, todo, wq, taskQ, slot, canceled, instantiated, nJoin, ran>>
      /\ pc' = Goto(w, Deferred(slot[w]))
      /\ \A m \in Nodes : m /= slot[w] => state'[m] = state[m]
      /\ fin' = [fin EXCEPT ![slot[w]] = fin[slot[w]] + 1]
  BY <1>1 DEF ReturnStatic, poolVars, graphVars, IInv, TypeOK, NodeTypes
<1>3. Steps(w, Deferred(slot[w])) /\ pc'[w] = Deferred(slot[w])
  BY <1>1, <1>2, DeferredSteps
<1>4. /\ Deferred(slot[w]) \in {"drop", "resetup"}
      /\ Deferred(slot[w]) = "resetup" => successors[slot[w]] = <<>>
  BY <1>1, DeferredByType DEF Deferred, Dropping
<1>5. CASE ~canceled[graphOf[slot[w]]]
  <2>1. Working(w)
    BY <1>1, <1>5 DEF Working, Spent, Publishing
  <2>2. QED
    BY <1>1, <1>2, <1>3, <1>4, <2>1, FinishKept
<1>6. CASE canceled[graphOf[slot[w]]]
  <2>1. \A m \in Nodes : fin'[m] >= fin[m] /\ (m /= slot[w] => SameData(m))
    BY <1>1, <1>2 DEF SameData, IInv, TypeOK, NodeTypes
  <2>2. ~Serving(w) /\ ~Serving(w)'
    BY <1>1, <1>3, <1>4 DEF Serving
  <2>3. QED
    BY <1>1, <1>2, <1>3, <1>4, <1>6, <2>1, <2>2, CanceledKept
<1>7. QED
  BY <1>5, <1>6

\* A subflow node completes when its graph has been left.
LEMMA WorkerReturnKept ==
  ASSUME NoConditions, NEW d \in [Graphs -> Nat], Before(d), NEW w \in Workers, GraphReturn(w)
  PROVE  Kept(d)'
<1>1. /\ pc[w] = "return" /\ slot[w] \in Nodes /\ graphOf[slot[w]] \in Graphs /\ IInv' /\ IInv
      /\ Steps(w, pc'[w]) /\ pc'[w] \in {"drop", "resetup"}
  BY SlotIsNode, GraphReturnInv, GraphReturnSteps DEF GraphReturn, Before
<1>2. /\ UNCHANGED <<idx, ret, hand, todo, wq, taskQ, slot, instantiated, nJoin, state, ran>>
      /\ pc' \in Signal(Invoked(w), Goto(w, Dropping(slot[w])))
      /\ canceled' = [h \in Graphs |-> canceled[h] \/ h \in Cancels(w)]
      /\ fin' = [fin EXCEPT ![slot[w]] =
                   IF state[slot[w]] = "finished" THEN fin[slot[w]] + 1 ELSE fin[slot[w]]]
  BY <1>1 DEF GraphReturn, poolVars, nodeVars
<1>3. pc'[w] = Dropping(slot[w])
  <2>1. Dropping(slot[w]) \in PCs
    BY <1>1, DroppingPlace DEF PCs
  <2>2. QED
    BY <1>1, <1>2, <2>1, SignalSteps
<1>4. /\ \A g \in Graphs : canceled[g] => canceled'[g]
      /\ ~Serving(w) /\ ~Serving(w)'
  BY <1>1, <1>2 DEF Serving
<1>5. CASE canceled'[graphOf[slot[w]]]
  <2>1. \A m \in Nodes : fin'[m] >= fin[m] /\ (m /= slot[w] => SameData(m))
    BY <1>1, <1>2 DEF SameData, IInv, TypeOK, NodeTypes
  <2>2. QED
    BY <1>1, <1>2, <1>4, <1>5, <2>1, CanceledKept
<1>6. CASE ~canceled'[graphOf[slot[w]]]
  <2>1. canceled' = canceled /\ ~canceled[graphOf[slot[w]]]
    <3>1. Cancels(w) = {} /\ ~canceled[graphOf[slot[w]]]
      BY <1>1, <1>2, <1>6 DEF Cancels
    <3>2. canceled \in [Graphs -> BOOLEAN]
      BY <1>1 DEF IInv, TypeOK, GraphTypes
    <3>3. QED
      BY <1>2, <3>1, <3>2
  <2>2. state[slot[w]] = "finished"
    BY <1>1, <2>1 DEF Before, Kept, Opened
  <2>3. Working(w)
    BY <1>1, <2>1 DEF Working, Spent, Publishing
  <2>4. pc'[w] = "resetup" => successors[slot[w]] = <<>>
    BY <1>3 DEF Dropping
  <2>5. fin' = [fin EXCEPT ![slot[w]] = fin[slot[w]] + 1]
    BY <1>2, <2>2
  <2>6. QED
    BY <1>1, <1>2, <2>1, <2>3, <2>4, <2>5, FinishKept
<1>7. QED
  BY <1>5, <1>6

\* The node can be claimed again in the next round.
LEMMA ResetupKept ==
  ASSUME NoConditions, NEW d \in [Graphs -> Nat], Before(d), NEW w \in Workers, Resetup(w)
  PROVE  Kept(d)'
<1>1. /\ pc[w] = "resetup" /\ slot[w] \in Nodes /\ graphOf[slot[w]] \in Graphs /\ IInv' /\ IInv
      /\ Typ[slot[w]] /= "condition"
      /\ Steps(w, pc'[w]) /\ UNCHANGED <<hand, todo, slot>>
  BY SlotIsNode, ResetupInv, ResetupSteps DEF Resetup, Before, NoConditions
<1>2. /\ UNCHANGED <<idx, wq, taskQ, canceled, instantiated, ran, fin>>
      /\ state' = [state EXCEPT ![slot[w]] = "idle"]
      /\ nJoin' = [nJoin EXCEPT ![slot[w]] = nJoin[slot[w]] + strongDegree[slot[w]]]
      /\ ret'[w] = "deref" /\ pc'[w] \in {"schedule", "deref"}
  BY <1>1, ResetupSteps DEF Resetup, poolVars, graphVars, histVars, Before
<1>3. /\ Acts(w) /\ Phase(w) = "resetup" /\ Phase(w)' = "none"
      /\ ~Serving(w) /\ ~Driving(w)'
  BY <1>1, <1>2 DEF Acts, Phase, Serving
<1>4. \A m \in Nodes : fin'[m] >= fin[m] /\ (m /= slot[w] => SameData(m))
  BY <1>1, <1>2 DEF SameData, IInv, TypeOK, NodeTypes
<1>5. CASE canceled[graphOf[slot[w]]]
  BY <1>1, <1>2, <1>3, <1>4, <1>5, CanceledKept DEF Serving
<1>6. CASE ~canceled[graphOf[slot[w]]]
  <2>1. Working(w)
    BY <1>1, <1>6 DEF Working, Spent, Publishing
  <2>2. d[graphOf[slot[w]]] \in Nat
    BY <2>1, AtWork
  <2> PICK n \in Nodes, r \in Nat : n = slot[w] /\ r = d[graphOf[n]]
    BY <1>1, <2>2
  <2>3. Only(w, n) /\ Views(w, n) /\ \A m \in Nodes : graphOf[m] = graphOf[n] => InRound(m, r)
    BY <2>1, AtWork
  <2>4. ran[n] = r /\ fin[n] = r /\ EndsAt(n)
    BY <1>3, <2>3 DEF Views, InRound, Progress
  <2>5. (\A e : DropsAt(e)' <=> DropsAt(e)) /\ (\A m : LooksAt(m)' <=> LooksAt(m))
    BY <1>3, OffTheEdges
  <2>6. \A m \in Nodes : SameEdges(m, r)
    BY <1>2, <2>5, EdgesStay
  <2>7. Views(w, n)'
    <3>1. n \notin todo'[w]
      BY <1>1, <2>3 DEF Only
    <3>2. pc'[w] \notin {"ref", "push", "go"}
      BY <1>2
    <3>3. QED
      BY <1>1, <1>2, <1>3, <2>3, <3>1, <3>2, OnlyViewsAfter
  <2>8. InRound(n, r)'
    <3>1. ~Queued(n)' /\ ~RunsAt(n)' /\ ~EndsAt(n)'
      BY <1>2, <1>3, <2>7 DEF Views
    <3>2. Progress(n, r)'
      BY <1>2, <2>4, <3>1 DEF Progress
    <3>3. InOrder(n, r)'
      BY <1>2, <2>3, <2>4, <2>6 DEF InOrder, InRound, SameEdges
    <3>4. Counter(n, r)'
      <4>1. nJoin[n] = Cardinality(Missing(n, r)) + 0
        BY <2>3, <2>4 DEF InRound, Counter, Restored
      <4>2. strongDegree[n] = Cardinality(dependents[n])
        <5>1. {e \in dependents[n] : Typ[e[1]] /= "condition"} = dependents[n]
          BY EdgeEnds DEF NoConditions
        <5>2. QED
          BY <5>1 DEF strongDegree
      <4>3. nJoin'[n] = nJoin[n] + strongDegree[n]
        BY <1>1, <1>2 DEF IInv, TypeOK, NodeTypes
      <4>4. Restored(n, r)' = Cardinality(dependents[n])
        BY <1>2, <2>4, <3>1 DEF Restored
      <4>5. nJoin[n] \in Int
        BY <1>1 DEF IInv, TypeOK, NodeTypes
      <4>6. Missing(n, r)' = Missing(n, r)
        BY <2>6 DEF SameEdges
      <4>7. nJoin[n] = Cardinality(Missing(n, r))
        BY <4>1, <4>5, MissingType
      <4>8. QED
        BY <4>2, <4>3, <4>4, <4>6, <4>7 DEF Counter
    <3>5. Pending(n, r)'
      BY <1>2, <2>4 DEF Pending
    <3>6. QED
      BY <3>2, <3>3, <3>4, <3>5 DEF InRound
  <2>9. ASSUME NEW m \in Nodes, graphOf[m] = graphOf[n], m /= n PROVE InRound(m, r)'
    <3>1. (Queued(m)' <=> Queued(m)) /\ (RunsAt(m)' <=> RunsAt(m)) /\ (EndsAt(m)' <=> EndsAt(m))
      BY <1>1, <1>2, <1>3, <2>9, OtherNode
    <3>2. SameNode(m)
      BY <1>4, <2>9, <3>1 DEF SameNode
    <3>3. QED
      BY <2>3, <2>6, <2>9, <3>2, RoundStays
  <2>10. DepsRespected'
    BY <1>1, <1>2, <1>4, DepsStay DEF Before, Kept, IInv
  <2>11. \A m \in Nodes : graphOf[m] = graphOf[n] => InRound(m, d[graphOf[m]])'
    BY <2>8, <2>9
  <2>12. \A m \in Nodes : m = slot[w] \/ state'[m] = state[m]
    BY <1>4 DEF SameData
  <2>13. QED
    BY <1>1, <1>2, <1>3, <1>4, <2>1, <2>10, <2>11, <2>12, ClosureKept
<1>7. QED
  BY <1>5, <1>6

\* A turn of a loop over the successors, or its last turn.
LEMMA TurnMoves ==
  ASSUME IInv, NEW w \in Workers, NEW l \in {"drop", "check"}, NEW m \in {"check", "resetup"},
         pc[w] = l, NextSuccessor(w, slot[w], l, m), Steps(w, pc'[w])
  PROVE  /\ idx[w] \in DOMAIN successors[slot[w]] /\ idx[w] \in Nat \ {0}
         /\ \A u \in Threads \ {w} : idx'[u] = idx[u]
         /\ \/ pc'[w] = l /\ idx'[w] = idx[w] + 1
            \/ pc'[w] = m /\ idx'[w] = 1 /\ \A i \in DOMAIN successors[slot[w]] : i <= idx[w]
<1>1. /\ slot[w] \in Nodes /\ successors[slot[w]] \in Seq(Nodes)
      /\ idx[w] \in DOMAIN successors[slot[w]]
      /\ idx \in [Threads -> Nat \ {0}] /\ pc \in [Threads -> PCs]
  BY SlotIsNode DEF IInv, ThreadShape, TypeOK, ThreadTypes
<1>2. /\ Len(successors[slot[w]]) \in Nat
      /\ DOMAIN successors[slot[w]] = 1..Len(successors[slot[w]])
  BY <1>1
<1>3. CASE idx[w] < Len(successors[slot[w]])
  BY <1>1, <1>2, <1>3 DEF NextSuccessor, Goto
<1>4. CASE ~(idx[w] < Len(successors[slot[w]]))
  <2>1. idx' = [idx EXCEPT ![w] = 1] /\ pc' = Goto(w, m)
    BY <1>4 DEF NextSuccessor
  <2>2. \A i \in DOMAIN successors[slot[w]] : i <= idx[w]
    BY <1>1, <1>2, <1>4
  <2>3. QED
    BY <1>1, <2>1, <2>2 DEF Goto
<1>5. QED
  BY <1>3, <1>4

\* One successor is told that the node has completed.
LEMMA DropKept ==
  ASSUME NoConditions, NEW d \in [Graphs -> Nat], Before(d), NEW w \in Workers, Drop(w)
  PROVE  Kept(d)'
<1>1. /\ pc[w] = "drop" /\ slot[w] \in Nodes /\ graphOf[slot[w]] \in Graphs /\ IInv' /\ IInv
      /\ Steps(w, pc'[w]) /\ pc'[w] \in {"drop", "check"}
  BY SlotIsNode, DropInv, DropSteps DEF Drop, Before
<1>2. /\ UNCHANGED <<ret, todo, hand, wq, taskQ, slot, canceled, instantiated, state, ran, fin>>
      /\ nJoin' = [nJoin EXCEPT ![Candidate(w)] = nJoin[Candidate(w)] - 1]
      /\ NextSuccessor(w, slot[w], "drop", "check")
  BY DEF Drop, poolVars, graphVars, histVars, Candidate
<1>3. /\ idx[w] \in DOMAIN successors[slot[w]] /\ idx[w] \in Nat \ {0}
      /\ \A u \in Threads \ {w} : idx'[u] = idx[u]
      /\ \/ pc'[w] = "drop" /\ idx'[w] = idx[w] + 1
         \/ pc'[w] = "check" /\ idx'[w] = 1 /\ \A i \in DOMAIN successors[slot[w]] : i <= idx[w]
  BY <1>1, <1>2, TurnMoves
<1> PICK n \in Nodes, i \in Nat \ {0}, p \in Nodes : n = slot[w] /\ i = idx[w] /\ p = Candidate(w)
  <2>1. Candidate(w) \in Nodes
    BY <1>1, <1>3, FlowAssumption DEF Candidate
  <2>2. QED
    BY <1>1, <1>3, <2>1
<1>4. <<n, i>> \in dependents[p] /\ graphOf[p] = graphOf[n]
  <2>1. <<n, i>> \in dependents[p]
    BY <1>3, EdgeIsDependent DEF Candidate
  <2>2. QED
    BY <2>1, EdgeEnds
<1>5. Acts(w) /\ ~Serving(w) /\ ~Serving(w)' /\ ~Driving(w)'
  BY <1>1, <1>3 DEF Acts, Serving
<1>6. \A m \in Nodes : fin'[m] >= fin[m] /\ (m /= p => SameData(m))
  BY <1>1, <1>2 DEF SameData, IInv, TypeOK, NodeTypes
<1>7. CASE canceled[graphOf[n]]
  BY <1>1, <1>2, <1>3, <1>4, <1>5, <1>6, <1>7, CanceledKept
<1>8. CASE ~canceled[graphOf[n]]
  <2>1. Working(w)
    BY <1>1, <1>8 DEF Working, Spent, Publishing
  <2>2. d[graphOf[n]] \in Nat
    BY <2>1, AtWork
  <2> PICK r \in Nat : r = d[graphOf[n]]
    BY <2>2
  <2>3. Only(w, n) /\ Views(w, n) /\ \A m \in Nodes : graphOf[m] = graphOf[n] => InRound(m, r)
    BY <2>1, AtWork
  <2>4. Phase(w) = "drop" /\ Phase(w)' = pc'[w] /\ pc'[w] \in {"drop", "check"}
    BY <1>1 DEF Phase
  <2>5. fin[n] = r
    BY <2>3, <2>4 DEF Views, InRound, Progress
  <2>6. Views(w, n)'
    <3>1. n \notin todo'[w]
      BY <1>2, <2>3 DEF Only
    <3>2. QED
      BY <1>1, <1>2, <1>5, <2>3, <3>1, OnlyViewsAfter
  <2>7. ASSUME NEW m \in Nodes, NEW e \in dependents[m]
        PROVE  DropsAt(e)' <=> DropsAt(e) /\ e /= <<n, i>>
    <3>1. e[1] \in Nodes /\ e[2] \in DOMAIN successors[e[1]] /\ e[2] \in Nat \ {0} /\ e = <<e[1], e[2]>>
      BY EdgeEnds
    <3>2. CASE e[1] = n
      <4>1. DropsAt(e) <=> i <= e[2]
        BY <2>3, <2>4, <3>2 DEF Views, Drops
      <4>2. DropsAt(e)' <=> pc'[w] = "drop" /\ idx'[w] <= e[2]
        BY <1>2, <2>4, <2>6, <3>2 DEF Views, Drops
      <4>3. e /= <<n, i>> <=> e[2] /= i
        BY <3>1, <3>2
      <4>4. CASE pc'[w] = "drop"
        <5>1. idx'[w] = i + 1
          BY <1>3, <4>4
        <5>2. QED
          BY <3>1, <4>1, <4>2, <4>3, <4>4, <5>1
      <4>5. CASE pc'[w] = "check"
        <5>1. e[2] <= i
          BY <1>3, <3>1, <3>2, <4>5
        <5>2. QED
          BY <3>1, <4>1, <4>2, <4>3, <4>5, <5>1
      <4>6. QED
        BY <2>4, <4>4, <4>5
    <3>3. CASE e[1] /= n
      BY <1>2, <1>5, <3>1, <3>3, EdgesElsewhere
    <3>4. QED
      BY <3>2, <3>3
  <2>8. \A m \in Nodes : Missing(m, r)' = Missing(m, r) \ {<<n, i>>}
    BY <1>2, <2>5, <2>7 DEF Missing
  <2>9. ASSUME NEW m \in Nodes, m /= p PROVE <<n, i>> \notin dependents[m]
    BY <1>4, <2>9, EdgeEnds
  <2>10. ASSUME NEW m \in Nodes, NEW e \in dependents[m], e[1] = n PROVE Looks(w, e)'
    <3>1. e[2] \in Nat \ {0}
      BY EdgeEnds
    <3>2. slot'[w] = e[1] /\ (Phase(w)' = "drop" \/ (Phase(w)' = "check" /\ idx'[w] <= e[2]))
      BY <1>2, <1>3, <2>4, <2>10, <3>1
    <3>3. QED
      BY <3>2 DEF Looks
  <2>11. ASSUME NEW m \in Nodes, LooksAt(m) PROVE LooksAt(m)'
    <3>1. PICK u \in Workers, e \in dependents[m] : Looks(u, e)
      BY <2>11 DEF LooksAt
    <3>2. Looks(u, e)'
      <4>1. CASE u = w
        BY <2>10, <3>1, <4>1 DEF Looks
      <4>2. CASE u /= w
        BY <1>5, <3>1, <4>2, OthersView
      <4>3. QED
        BY <4>1, <4>2
    <3>3. QED
      BY <3>2 DEF LooksAt
  <2>12. ASSUME NEW m \in Nodes
         PROVE  (Queued(m)' <=> Queued(m)) /\ (RunsAt(m)' <=> RunsAt(m)) /\ (EndsAt(m)' <=> EndsAt(m))
    <3>1. CASE m = n
      BY <1>1, <2>3, <2>4, <2>6, <3>1 DEF Views
    <3>2. CASE m /= n
      BY <1>1, <1>2, <1>5, <3>2, OtherNode
    <3>3. QED
      BY <3>1, <3>2
  <2>13. ASSUME NEW m \in Nodes, graphOf[m] = graphOf[n], m /= p PROVE InRound(m, r)'
    <3>1. SameNode(m)
      BY <1>6, <2>12, <2>13 DEF SameNode
    <3>2. Missing(m, r)' = Missing(m, r)
      BY <2>8, <2>9, <2>13 DEF Missing
    <3>3. SameEdges(m, r)
      BY <1>2, <2>11, <3>2 DEF SameEdges
    <3>4. QED
      BY <2>3, <2>13, <3>1, <3>3, RoundStays
  <2>14. InRound(p, r)'
    <3>1. InRound(p, r)
      BY <1>4, <2>3
    <3>2. Progress(p, r)' /\ InOrder(p, r)'
      BY <1>2, <2>8, <2>12, <3>1 DEF InRound, Progress, InOrder
    <3>3. Counter(p, r)'
      <4>1. <<n, i>> \in Missing(p, r)
        <5>1. Drops(w, <<n, i>>)
          BY <2>4 DEF Drops
        <5>2. QED
          BY <1>4, <5>1 DEF Missing, DropsAt
      <4>2. /\ Cardinality(Missing(p, r)') \in Nat
            /\ Cardinality(Missing(p, r)) = Cardinality(Missing(p, r)') + 1
        <5>1. IsFiniteSet(Missing(p, r))
          BY MissingType
        <5>2. /\ Cardinality(Missing(p, r) \ {<<n, i>>}) \in Nat
              /\ Cardinality(Missing(p, r)) = Cardinality(Missing(p, r) \ {<<n, i>>}) + 1
          BY <4>1, <5>1, CountRemove
        <5>3. QED
          BY <2>8, <5>2
      <4>3. Restored(p, r)' = Restored(p, r) /\ Restored(p, r) \in Nat
        BY <1>2, <2>12, FiniteDependents, FS_CardinalityType DEF Restored
      <4>4. nJoin'[p] = nJoin[p] - 1 /\ nJoin[p] = Cardinality(Missing(p, r)) + Restored(p, r)
        BY <1>1, <1>2, <3>1 DEF InRound, Counter, IInv, TypeOK, NodeTypes
      <4>5. nJoin'[p] = Cardinality(Missing(p, r)') + Restored(p, r)'
        BY <4>2, <4>3, <4>4
      <4>6. QED
        BY <4>5 DEF Counter
    <3>4. LooksAt(p)'
      BY <1>4, <2>10 DEF LooksAt
    <3>5. Pending(p, r)'
      BY <1>2, <2>12, <3>1, <3>4 DEF InRound, Pending
    <3>6. QED
      BY <3>2, <3>3, <3>5 DEF InRound
  <2>15. DepsRespected'
    BY <1>1, <1>2, <1>6, DepsStay DEF Before, Kept, IInv
  <2>16. \A m \in Nodes : graphOf[m] = graphOf[n] => InRound(m, d[graphOf[m]])'
    BY <2>13, <2>14
  <2>17. \A m \in Nodes : graphOf[m] /= graphOf[n] => SameData(m)
    BY <1>4, <1>6
  <2>18. QED
    BY <1>1, <1>2, <1>5, <2>1, <2>15, <2>16, <2>17, ClosureKept
<1>9. QED
  BY <1>7, <1>8

\* A node without tokens and claims is nowhere.
Nowhere(n) == ~Queued(n) /\ ~RunsAt(n) /\ ~EndsAt(n)

LEMMA TokensNone ==
  ASSUME TypeOK, NEW n \in Nodes, Tokens(n) = 0, Claims(n) = 0
  PROVE  Nowhere(n)
<1>1. /\ Count(wq, {n}) = 0 /\ Count(taskQ, {n}) = 0 /\ Cardinality(Hands(n)) = 0
      /\ Cardinality(Execs(n)) = 0
  BY TokenTypes DEF Tokens, Sizes
<1>2. /\ ~InQueue(wq, n) /\ ~InQueue(taskQ, n)
      /\ \A u \in Threads : n \notin todo[u] /\ ~(u \in InHand /\ hand[u] = n)
  BY <1>1, TokensGone
<1>3. Execs(n) = {}
  <2>1. Execs(n) \subseteq Threads
    BY DEF Execs
  <2>2. IsFiniteSet(Execs(n))
    BY <2>1, FiniteThreads, FS_Subset
  <2>3. QED
    BY <1>1, <2>2, FS_EmptySet
<1>4. \A v \in Workers : slot[v] = n => Phase(v) = "none" /\ pc[v] /= "begin"
  BY <1>3, SpentPhase DEF Execs
<1>5. QED
  BY <1>2, <1>4 DEF Nowhere, Queued, Holds, RunsAt, EndsAt

\* A node that a predecessor may claim has no token.
LEMMA IdleNowhere ==
  ASSUME NoConditions, IInv, Single, NEW n \in Nodes, ~canceled[graphOf[n]],
         dependents[n] /= {}, state[n] = "idle"
  PROVE  Nowhere(n)
<1>1. n \in Protected
  BY DEF Protected, NoConditions
<1>2. One(n) /\ Tokens(n) \in Nat /\ Claims(n) \in Nat
  BY <1>1, TokensAreCounted DEF Single, IInv, Counted
<1>3. Tokens(n) = 0 /\ Claims(n) = 0
  BY <1>2 DEF One
<1>4. QED
  BY <1>3, TokensNone DEF IInv

\* So when it is claimed it has not been executed, and all its predecessors have.
LEMMA ClaimedInTime ==
  ASSUME TypeOK, NEW n \in Nodes, NEW r \in Nat, InRound(n, r), Nowhere(n),
         nJoin[n] = 0, dependents[n] /= {}
  PROVE  ran[n] = r - 1 /\ fin[n] = r - 1 /\ Missing(n, r) = {}
<1>1. ran[n] = fin[n] /\ ran[n] \in {r - 1, r}
  BY DEF InRound, Progress, Nowhere
<1>2. /\ Cardinality(Missing(n, r)) \in Nat /\ Restored(n, r) \in Nat
      /\ 0 = Cardinality(Missing(n, r)) + Restored(n, r)
  BY MissingType, FiniteDependents, FS_CardinalityType DEF InRound, Counter, Restored
<1>3. Cardinality(Missing(n, r)) = 0 /\ Restored(n, r) = 0
  BY <1>2
<1>4. Cardinality(dependents[n]) /= 0
  BY FiniteDependents, FS_EmptySet
<1>5. fin[n] /= r
  BY <1>3, <1>4 DEF Restored, Nowhere
<1>6. Missing(n, r) = {}
  BY <1>3, MissingType, FS_EmptySet
<1>7. QED
  BY <1>1, <1>5, <1>6

\* A successor is claimed when it is ready.
LEMMA CheckSuccessorKept ==
  ASSUME NoConditions, NEW d \in [Graphs -> Nat], Before(d), NEW w \in Workers, CheckSuccessor(w)
  PROVE  Kept(d)'
<1>1. /\ pc[w] = "check" /\ slot[w] \in Nodes /\ graphOf[slot[w]] \in Graphs /\ IInv' /\ IInv
      /\ Steps(w, pc'[w]) /\ pc'[w] \in {"check", "resetup"}
      /\ Candidate(w) \in Nodes
  BY SlotIsNode, CheckSuccessorInv, CheckSuccessorSteps DEF CheckSuccessor, Before
<1>2. /\ UNCHANGED <<ret, hand, wq, taskQ, slot, canceled, instantiated, nJoin, ran, fin>>
      /\ NextSuccessor(w, slot[w], "check", "resetup")
  BY DEF CheckSuccessor, poolVars, graphVars, histVars
<1>3. /\ idx[w] \in DOMAIN successors[slot[w]] /\ idx[w] \in Nat \ {0}
      /\ \A u \in Threads \ {w} : idx'[u] = idx[u]
      /\ \/ pc'[w] = "check" /\ idx'[w] = idx[w] + 1
         \/ pc'[w] = "resetup" /\ idx'[w] = 1 /\ \A i \in DOMAIN successors[slot[w]] : i <= idx[w]
  BY <1>1, <1>2, TurnMoves
<1> PICK n \in Nodes, i \in Nat \ {0}, p \in Nodes : n = slot[w] /\ i = idx[w] /\ p = Candidate(w)
  BY <1>1, <1>3
<1>4. <<n, i>> \in dependents[p] /\ graphOf[p] = graphOf[n]
  <2>1. <<n, i>> \in dependents[p]
    BY <1>3, EdgeIsDependent DEF Candidate
  <2>2. QED
    BY <2>1, EdgeEnds
<1>5. /\ Claimable(p) => state'[p] = "waiting" /\ todo'[w] = todo[w] \cup {p}
      /\ ~Claimable(p) => state' = state /\ todo' = todo
      /\ \A m \in Nodes : m /= p => state'[m] = state[m]
      /\ \A m \in Nodes : m /= p => (m \in todo'[w] <=> m \in todo[w])
  BY <1>1 DEF CheckSuccessor, Candidate, IInv, TypeOK, NodeTypes, ThreadTypes
<1>6. Acts(w) /\ ~Serving(w) /\ ~Serving(w)' /\ ~Driving(w)'
  BY <1>1, <1>3 DEF Acts, Serving
<1>7. \A m \in Nodes : fin'[m] >= fin[m] /\ (m /= p => SameData(m))
  BY <1>1, <1>2, <1>5 DEF SameData, IInv, TypeOK, NodeTypes
<1>8. CASE canceled[graphOf[n]]
  BY <1>1, <1>2, <1>3, <1>4, <1>5, <1>6, <1>7, <1>8, CanceledKept
<1>9. CASE ~canceled[graphOf[n]]
  <2>1. Working(w)
    BY <1>1, <1>9 DEF Working, Spent, Publishing
  <2>2. d[graphOf[n]] \in Nat
    BY <2>1, AtWork
  <2> PICK r \in Nat : r = d[graphOf[n]]
    BY <2>2
  <2>3. Only(w, n) /\ Views(w, n) /\ \A m \in Nodes : graphOf[m] = graphOf[n] => InRound(m, r)
    BY <2>1, AtWork
  <2>4. Phase(w) = "check" /\ Phase(w)' = pc'[w] /\ pc'[w] \in {"check", "resetup"}
    BY <1>1 DEF Phase
  <2>5. EndsAt(n)
    BY <2>3, <2>4 DEF Views
  <2>6. Claimable(p) => Nowhere(p) /\ p /= n
    <3>1. dependents[p] /= {} /\ ~canceled[graphOf[p]]
      BY <1>4, <1>9
    <3>2. QED
      BY <1>1, <2>5, <3>1, IdleNowhere DEF Claimable, Nowhere, Before
  <2>7. Views(w, n)'
    <3>1. n \notin todo'[w]
      BY <1>5, <2>3, <2>6 DEF Only
    <3>2. QED
      BY <1>1, <1>2, <1>6, <2>3, <3>1, OnlyViewsAfter
  <2>8. ASSUME NEW e PROVE DropsAt(e)' <=> DropsAt(e)
    <3>1. ~Drops(w, e) /\ ~Drops(w, e)'
      BY <2>4 DEF Drops
    <3>2. \A u \in Workers \ {w} : Drops(u, e)' <=> Drops(u, e)
      BY <1>6, OthersView
    <3>3. QED
      BY <3>1, <3>2 DEF DropsAt
  <2>9. ASSUME NEW m \in Nodes, m /= p, LooksAt(m) PROVE LooksAt(m)'
    <3>1. PICK u \in Workers, e \in dependents[m] : Looks(u, e)
      BY <2>9 DEF LooksAt
    <3>2. Looks(u, e)'
      <4>1. CASE u = w
        <5>1. /\ slot[w] = e[1] /\ idx[w] <= e[2] /\ e = <<e[1], e[2]>>
              /\ e[2] \in Nat \ {0} /\ e[2] \in DOMAIN successors[e[1]]
              /\ successors[e[1]][e[2]] = m
          BY <2>4, <3>1, <4>1, EdgeEnds DEF Looks
        <5>2. e[2] /= i
          BY <2>9, <5>1 DEF Candidate
        <5>3. pc'[w] = "check" /\ idx'[w] = i + 1
          BY <1>3, <5>1, <5>2
        <5>4. idx'[w] <= e[2]
          BY <5>1, <5>2, <5>3
        <5>5. QED
          BY <1>2, <2>4, <4>1, <5>1, <5>3, <5>4 DEF Looks
      <4>2. CASE u /= w
        BY <1>6, <3>1, <4>2, OthersView
      <4>3. QED
        BY <4>1, <4>2
    <3>3. QED
      BY <3>2 DEF LooksAt
  <2>10. ASSUME NEW m \in Nodes
         PROVE  (RunsAt(m)' <=> RunsAt(m)) /\ (EndsAt(m)' <=> EndsAt(m))
    <3>1. CASE m = n
      BY <2>3, <2>4, <2>7, <3>1 DEF Views
    <3>2. CASE m /= n
      BY <1>2, <1>6, <3>2, ViewsElsewhere
    <3>3. QED
      BY <3>1, <3>2
  <2>11. ASSUME NEW m \in Nodes, m \in todo'[w] <=> m \in todo[w] PROVE Queued(m)' <=> Queued(m)
    <3>1. Holds(w, m)' <=> Holds(w, m)
      BY <1>1, <1>2, <2>11 DEF Holds, InHand
    <3>2. QED
      BY <1>2, <1>6, <3>1, QueuedStays
  <2>12. \A m \in Nodes : Missing(m, r)' = Missing(m, r)
    BY <1>2, <2>8 DEF Missing
  <2>13. ASSUME NEW m \in Nodes, graphOf[m] = graphOf[n], m /= p PROVE InRound(m, r)'
    <3>1. SameNode(m)
      BY <1>5, <1>7, <2>10, <2>11, <2>13 DEF SameNode
    <3>2. SameEdges(m, r)
      BY <1>2, <2>9, <2>12, <2>13 DEF SameEdges
    <3>3. QED
      BY <2>3, <2>13, <3>1, <3>2, RoundStays
  <2>14. InRound(p, r)
    BY <1>4, <2>3
  <2>15. Restored(p, r)' = Restored(p, r)
    BY <1>2, <2>10 DEF Restored
  <2>16. Counter(p, r)'
    BY <1>2, <2>12, <2>14, <2>15 DEF InRound, Counter
  <2>17. InRound(p, r)'
    <3>1. CASE ~Claimable(p)
      <4>1. Queued(p)' <=> Queued(p)
        BY <1>5, <2>11, <3>1
      <4>2. Progress(p, r)' /\ InOrder(p, r)'
        BY <1>2, <2>10, <2>12, <2>14, <4>1 DEF InRound, Progress, InOrder
      <4>3. Pending(p, r)'
        BY <1>2, <1>5, <2>14, <3>1, <4>1 DEF InRound, Pending, Claimable
      <4>4. QED
        BY <2>16, <4>2, <4>3 DEF InRound
    <3>2. CASE Claimable(p)
      <4>1. ran[p] = r - 1 /\ fin[p] = r - 1 /\ Missing(p, r) = {}
        BY <1>1, <1>4, <2>6, <2>14, <3>2, ClaimedInTime DEF IInv, Claimable
      <4>2. Queued(p)' /\ ~RunsAt(p)' /\ ~EndsAt(p)'
        BY <1>5, <2>6, <2>10, <3>2 DEF Queued, Holds, Nowhere
      <4>3. Progress(p, r)'
        BY <1>2, <4>1, <4>2 DEF Progress
      <4>4. InOrder(p, r)'
        BY <2>12, <4>1 DEF InOrder
      <4>5. Pending(p, r)'
        BY <1>5, <3>2, <4>2 DEF Pending
      <4>6. QED
        BY <2>16, <4>3, <4>4, <4>5 DEF InRound
    <3>3. QED
      BY <3>1, <3>2
  <2>18. DepsRespected'
    BY <1>1, <1>2, <1>7, DepsStay DEF Before, Kept, IInv
  <2>19. \A m \in Nodes : graphOf[m] = graphOf[n] => InRound(m, d[graphOf[m]])'
    BY <2>13, <2>17
  <2>20. /\ \A m \in Nodes : graphOf[m] /= graphOf[n] => SameData(m) /\ (m \in todo'[w] <=> m \in todo[w])
         /\ \A m \in Nodes : state[m] = "idle" \/ state'[m] = state[m]
    BY <1>4, <1>5, <1>7 DEF Claimable
  <2>21. QED
    BY <1>1, <1>2, <1>6, <2>1, <2>18, <2>19, <2>20, ClosureKept
<1>10. QED
  BY <1>8, <1>9

-----------------------------------------------------------------------------
(***************************************************************************)
(* Steps that open, reset, set up and leave a graph.                       *)
(***************************************************************************)

\* Nobody else drives the graph of a subflow node that a worker executes.
LEMMA SubgraphFree ==
  ASSUME NoConditions, IInv, GInv, Single, NEW w \in Workers, pc[w] /= "idle", ~Spent(w),
         Typ[slot[w]] = "subflow", NEW u \in Threads \ {w}, Driving(u)
  PROVE  Invoked(u) /= subgraph[slot[w]]
<1>1. slot[w] \in Nodes
  BY SlotIsNode
<1>2. CASE u \in Callers
  BY <1>1, <1>2, NestingAssumption DEF Invoked
<1>3. CASE u \in Workers
  <2>1. slot[u] \in Nodes /\ Typ[slot[u]] = "subflow"
    BY <1>3, SlotIsNode DEF GInv, Places, Place, WorkerPlace
  <2>2. slot[u] \in Protected /\ ~Spent(u)
    BY <2>1 DEF Protected, NoConditions, Spent, Publishing
  <2>3. slot[u] /= slot[w]
    BY <1>3, <2>2, ExecutedOnce
  <2>4. QED
    BY <1>1, <1>3, <2>1, <2>3, NestingAssumption DEF Invoked
<1>4. QED
  BY <1>2, <1>3

\* A subflow is not in its own graph.
LEMMA SubgraphElsewhere ==
  ASSUME NEW o \in Nodes, Typ[o] = "subflow"
  PROVE  subgraph[o] /= graphOf[o]
<1>1. {o} \in (SUBSET Nodes) \ {{}}
  OBVIOUS
<1>2. QED
  BY <1>1, FoundedAssumption

\* The nodes of a subflow appear.
LEMMA ReturnSubflowKept ==
  ASSUME NoConditions, NEW d \in [Graphs -> Nat], Before(d), NEW w \in Workers, ReturnSubflow(w)
  PROVE  Kept(d)'
<1>1. /\ pc[w] = "handle" /\ slot[w] \in Nodes /\ Typ[slot[w]] = "subflow" /\ IInv' /\ IInv
      /\ graphOf[slot[w]] \in Graphs /\ subgraph[slot[w]] \in Graphs
  BY SlotIsNode, ReturnSubflowInv, FlowAssumption DEF ReturnSubflow, Before
<1>2. /\ UNCHANGED <<idx, ret, hand, todo, wq, taskQ, slot, canceled, nJoin, ran, fin>>
      /\ pc' = Goto(w, "setup")
      /\ state' = [state EXCEPT ![slot[w]] = "finished"]
      /\ instantiated' = [instantiated EXCEPT ![subgraph[slot[w]]] = TRUE]
  BY <1>1, DeferredByType DEF ReturnSubflow, poolVars, histVars
<1>3. Steps(w, "setup") /\ pc'[w] = "setup"
  BY <1>1, <1>2, GotoSteps DEF PCs
<1> PICK o \in Nodes, sub \in Graphs : o = slot[w] /\ sub = subgraph[o]
  BY <1>1
<1>4. /\ Acts(w) /\ SamePart(w) /\ ~Serving(w) /\ ~Serving(w)'
      /\ \A n : Holds(w, n)' <=> Holds(w, n)
  BY <1>1, <1>2, <1>3 DEF Acts, SamePart, Phase, Serving, Holds, InHand
<1>5. \A u \in Threads \ {w} : Driving(u) => Invoked(u) /= sub
  BY <1>1, SubgraphFree DEF Spent, Publishing, Before
<1>6. ~Served(sub) /\ ~Served(sub)'
  <2>1. \A u \in Threads \ {w} : ~(Serving(u) /\ Invoked(u) = sub) /\ ~(Serving(u) /\ Invoked(u) = sub)'
    BY <1>3, <1>5, OthersStay DEF Serving
  <2>2. QED
    BY <1>4, <2>1 DEF Served
<1>7. \A g \in Graphs : g /= sub => instantiated'[g] = instantiated[g] /\ (Served(g)' <=> Served(g))
  <2>1. ASSUME NEW g \in Graphs, g /= sub PROVE instantiated'[g] = instantiated[g]
    BY <1>1, <1>2, <2>1 DEF IInv, TypeOK, GraphTypes
  <2>2. ASSUME NEW g \in Graphs, g /= sub PROVE Served(g)' <=> Served(g)
    BY <1>3, <1>4, <2>1, <2>2, ServedStays
  <2>3. QED
    BY <2>1, <2>2
<1>8. /\ \A n : (RunsAt(n)' <=> RunsAt(n)) /\ (EndsAt(n)' <=> EndsAt(n)) /\ (LooksAt(n)' <=> LooksAt(n))
      /\ \A e : DropsAt(e)' <=> DropsAt(e)
  BY <1>4, SameViews
<1>9. \A n : Queued(n)' <=> Queued(n)
  BY <1>2, <1>4, QueuedStays
<1>10. /\ instantiated'[sub] /\ \A g \in Graphs : instantiated[g] => instantiated'[g]
       /\ state'[o] = "finished"
       /\ \A n \in Nodes : n /= o => SameData(n)
  BY <1>1, <1>2 DEF SameData, IInv, TypeOK, GraphTypes, NodeTypes
<1>11. ASSUME NEW n \in Nodes PROVE NodeInv(n, d[graphOf[n]])'
  <2>1. graphOf[n] \in Graphs /\ d[graphOf[n]] \in Nat /\ NodeInv(n, d[graphOf[n]])
    BY FlowAssumption DEF Before, Kept, Nodewise
  <2> PICK r \in Nat : r = d[graphOf[n]]
    BY <2>1
  <2>2. SameEdges(n, r)
    BY <1>2, <1>8, EdgesStay
  <2>3. CASE graphOf[n] = sub
    BY <1>2, <1>6, <1>10, <2>1, <2>3 DEF NodeInv, Between
  <2>4. CASE graphOf[n] /= sub /\ n /= o
    BY <1>2, <1>7, <1>8, <1>9, <1>10, <2>1, <2>2, <2>4, NodeStays DEF SameNode
  <2>5. CASE n = o /\ ~canceled[graphOf[o]]
    <3>1. Working(w)
      BY <1>1, <2>5 DEF Working, Spent, Publishing
    <3>2. Views(w, o) /\ InRound(o, r) /\ Served(graphOf[o])
      BY <2>5, <3>1, AtWork
    <3>3. graphOf[o] /= sub
      BY <1>1, SubgraphElsewhere
    <3>4. ran[o] = r /\ fin[o] = r - 1
      BY <1>1, <3>2 DEF Views, Phase, InRound, Progress
    <3>5. Progress(o, r)' /\ InOrder(o, r)'
      BY <1>2, <1>8, <1>9, <2>2, <2>5, <3>2 DEF InRound, Progress, InOrder, SameEdges
    <3>6. Counter(o, r)'
      BY <1>2, <1>8, <2>2, <2>5, <3>2 DEF InRound, Counter, Restored, SameEdges
    <3>7. Pending(o, r)'
      BY <1>2, <3>4 DEF Pending
    <3>8. InRound(o, r)'
      BY <3>5, <3>6, <3>7 DEF InRound
    <3>9. QED
      BY <1>2, <1>7, <1>8, <1>9, <2>1, <2>5, <3>2, <3>3, <3>8 DEF NodeInv
  <2>6. CASE canceled[graphOf[n]]
    BY <1>2, <2>6 DEF NodeInv
  <2>7. QED
    BY <2>3, <2>4, <2>5, <2>6
<1>12. Cleared'
  <2>1. \A u \in Threads \ {w} : pc[u] = "entries" => Invoked(u) \in Graphs /\ Invoked(u) /= sub
    BY <1>5, InvokedType DEF Before
  <2>2. QED
    BY <1>2, <1>3, <1>7, <2>1, ClearedStays DEF Before, Kept
<1>13. Opened'
  <2>1. \A v \in Workers : Driving(v) => slot[v] \in Nodes
    BY SlotIsNode DEF Before
  <2>2. QED
    BY <1>1, <1>2, <1>3, <1>10, <2>1, OpenedStays DEF Before, Kept, IInv, SameData
<1>14. DepsRespected'
  BY <1>2 DEF Before, Kept, DepsRespected
<1>15. QED
  BY <1>11, <1>12, <1>13, <1>14 DEF Kept, Nodewise

\* Nobody is in the loop of a graph that is being reset or set up.
LEMMA NotServed ==
  ASSUME OneDriver, NEW t \in Threads, Driving(t), ~Serving(t)
  PROVE  ~Served(Invoked(t))
BY DEF Served, Serving, OneDriver

LEMMA ResetKept ==
  ASSUME NEW d \in [Graphs -> Nat], Before(d), NEW t \in Threads, Reset(t)
  PROVE  Kept(d)'
<1>1. /\ pc[t] = "setup" /\ IInv' /\ IInv /\ Invoked(t) \in Graphs
      /\ Steps(t, "entries") /\ pc'[t] = "entries"
  BY ResetInv, ResetSteps, InvokedType DEF Reset, Before
<1>2. /\ UNCHANGED <<idx, ret, hand, todo, wq, taskQ, slot, canceled, instantiated, state, ran, fin>>
      /\ \A n \in Nodes : nJoin'[n] = IF n \in NodesIn(Invoked(t)) THEN 0 ELSE nJoin[n]
  BY DEF Reset, poolVars, histVars
<1>3. /\ Acts(t) /\ SamePart(t) /\ ~Serving(t) /\ ~Serving(t)' /\ Driving(t)
      /\ \A n : Holds(t, n)' <=> Holds(t, n)
      /\ Invoked(t)' = Invoked(t)
  BY <1>1, <1>2 DEF Acts, SamePart, Phase, Serving, Holds, InHand, Invoked
<1>4. /\ \A n : (RunsAt(n)' <=> RunsAt(n)) /\ (EndsAt(n)' <=> EndsAt(n)) /\ (LooksAt(n)' <=> LooksAt(n))
      /\ \A e : DropsAt(e)' <=> DropsAt(e)
  BY <1>3, SameViews
<1>5. \A n : Queued(n)' <=> Queued(n)
  BY <1>2, <1>3, QueuedStays
<1>6. \A g \in Graphs : Served(g)' <=> Served(g)
  BY <1>1, <1>2, <1>3, ServedStays
<1>7. ~Served(Invoked(t))
  BY <1>3, NotServed DEF Before
<1>8. ASSUME NEW n \in Nodes PROVE NodeInv(n, d[graphOf[n]])'
  <2>1. graphOf[n] \in Graphs /\ d[graphOf[n]] \in Nat /\ NodeInv(n, d[graphOf[n]])
    BY FlowAssumption DEF Before, Kept, Nodewise
  <2>2. CASE graphOf[n] = Invoked(t)
    BY <1>2, <1>4, <1>5, <1>6, <1>7, <2>1, <2>2 DEF NodeInv, Between
  <2>3. CASE graphOf[n] /= Invoked(t)
    <3>1. SameNode(n)
      BY <1>2, <1>4, <1>5, <2>3 DEF SameNode, SameData, NodesIn
    <3>2. SameEdges(n, d[graphOf[n]])
      BY <1>2, <1>4, EdgesStay
    <3>3. QED
      BY <1>2, <1>6, <2>1, <3>1, <3>2, NodeStays
  <2>4. QED
    BY <2>2, <2>3
<1>9. Cleared'
  <2> SUFFICES ASSUME NEW u \in Threads, pc'[u] = "entries", ~canceled'[Invoked(u)'],
                      NEW n \in Nodes, graphOf[n] = Invoked(u)', instantiated'[graphOf[n]]
               PROVE  nJoin'[n] = 0
    BY DEF Cleared, NodesIn
  <2>1. CASE u = t
    BY <1>2, <1>3, <2>1 DEF NodesIn
  <2>2. CASE u /= t
    <3>1. pc[u] = "entries" /\ Invoked(u)' = Invoked(u)
      BY <1>1, <2>2, OthersStay
    <3>2. nJoin[n] = 0
      BY <1>2, <3>1 DEF Before, Kept, Cleared, NodesIn
    <3>3. QED
      BY <1>2, <3>2
  <2>3. QED
    BY <2>1, <2>2
<1>10. Opened'
  <2>1. \A w \in Workers : Driving(w)' => Driving(w)
    BY <1>1, <1>3, OthersStay
  <2>2. QED
    BY <1>2, <2>1 DEF Before, Kept, Opened
<1>11. DepsRespected'
  BY <1>2 DEF Before, Kept, DepsRespected
<1>12. QED
  BY <1>8, <1>9, <1>10, <1>11 DEF Kept, Nodewise

\* Without a graph to set up nothing happens.
LEMMA SetupNothingKept ==
  ASSUME NEW d \in [Graphs -> Nat], Before(d), NEW t \in Threads, Setup(t),
         canceled[Invoked(t)] \/ ~instantiated[Invoked(t)]
  PROVE  Kept(d)'
<1>1. /\ pc[t] = "entries" /\ IInv' /\ IInv /\ Invoked(t) \in Graphs
      /\ Steps(t, pc'[t]) /\ pc'[t] = (IF todo'[t] = {} THEN "loop" ELSE "schedule")
      /\ ret'[t] = "loop" /\ todo'[t] = {n \in NodesIn(Invoked(t)) : dependents[n] = {}}
  BY SetupInv, SetupSteps, InvokedType DEF Setup, Before
<1>2. /\ UNCHANGED <<idx, hand, wq, taskQ, slot, canceled, instantiated, ran, fin>>
      /\ \A n \in Nodes : n \notin NodesIn(Invoked(t)) => nJoin'[n] = nJoin[n] /\ state'[n] = state[n]
  BY DEF Setup, poolVars, graphVars, histVars
<1>3. todo[t] = {}
  BY <1>1, NothingClaimed DEF Before, Publishing
<1>4. /\ Acts(t) /\ SamePart(t) /\ ~Serving(t) /\ Serving(t)' /\ Driving(t) /\ Driving(t)'
      /\ Invoked(t)' = Invoked(t)
  BY <1>1, <1>2 DEF Acts, SamePart, Phase, Serving, Invoked
<1>5. \A n \in Nodes : ~canceled[graphOf[n]] => n \notin NodesIn(Invoked(t))
  BY DEF NodesIn
<1>6. \A n \in Nodes : SameData(n) \/ canceled[graphOf[n]]
  BY <1>2, <1>5 DEF SameData
<1>7. \A n \in Nodes : ~canceled[graphOf[n]] => (Holds(t, n)' <=> Holds(t, n))
  BY <1>1, <1>2, <1>3, <1>5 DEF Holds, InHand
<1>8. ASSUME NEW g \in Graphs, ~canceled[g] PROVE Served(g)' <=> Served(g)
  <2>1. CASE g = Invoked(t)
    BY <1>2, <1>8, <2>1 DEF Served
  <2>2. CASE g /= Invoked(t)
    BY <1>1, <1>2, <1>4, <2>2, ServedStays
  <2>3. QED
    BY <2>1, <2>2
<1>9. \A n \in Nodes : fin'[n] >= fin[n]
  BY <1>1, <1>2 DEF IInv, TypeOK, NodeTypes
<1>10. pc'[t] /= "entries" /\ (t \in Workers => SamePhase(t))
  BY <1>1, <1>4 DEF SamePhase
<1>11. QED
  BY <1>1, <1>2, <1>4, <1>6, <1>7, <1>8, <1>9, <1>10, SilentKept

\* The next round begins.
LEMMA SetupRoundKept ==
  ASSUME NoConditions, NEW d \in [Graphs -> Nat], Before(d), NEW t \in Threads, Setup(t),
         ~canceled[Invoked(t)], instantiated[Invoked(t)],
         NEW D \in [Graphs -> Nat], D[Invoked(t)] = d[Invoked(t)] + 1,
         \A h \in Graphs \ {Invoked(t)} : D[h] = d[h]
  PROVE  Kept(D)'
<1>1. /\ pc[t] = "entries" /\ IInv' /\ IInv /\ Invoked(t) \in Graphs
      /\ Steps(t, pc'[t]) /\ pc'[t] = (IF todo'[t] = {} THEN "loop" ELSE "schedule")
      /\ ret'[t] = "loop" /\ todo'[t] = {n \in NodesIn(Invoked(t)) : dependents[n] = {}}
  BY SetupInv, SetupSteps, InvokedType DEF Setup, Before
<1> PICK g \in Graphs, r \in Nat : g = Invoked(t) /\ r = d[g]
  BY <1>1
<1>2. /\ UNCHANGED <<idx, hand, wq, taskQ, slot, canceled, instantiated, ran, fin>>
      /\ \A n \in Nodes : graphOf[n] /= g => nJoin'[n] = nJoin[n] /\ state'[n] = state[n]
      /\ \A n \in Nodes : graphOf[n] = g => nJoin'[n] = nJoin[n] + strongDegree[n] /\ state'[n] = "idle"
      /\ \A n \in Nodes : n \in todo'[t] <=> graphOf[n] = g /\ dependents[n] = {}
  BY <1>1 DEF Setup, NodesIn, poolVars, graphVars, histVars
<1>3. todo[t] = {}
  BY <1>1, NothingClaimed DEF Before, Publishing
<1>4. /\ Acts(t) /\ SamePart(t) /\ ~Serving(t) /\ Serving(t)' /\ Driving(t) /\ Driving(t)'
      /\ Invoked(t)' = Invoked(t)
  BY <1>1, <1>2 DEF Acts, SamePart, Phase, Serving, Invoked
<1>5. /\ \A n : (RunsAt(n)' <=> RunsAt(n)) /\ (EndsAt(n)' <=> EndsAt(n)) /\ (LooksAt(n)' <=> LooksAt(n))
      /\ \A e : DropsAt(e)' <=> DropsAt(e)
  BY <1>4, SameViews
<1>6. \A h \in Graphs : h /= g => (Served(h)' <=> Served(h))
  BY <1>1, <1>2, <1>4, ServedStays
<1>7. ~Served(g) /\ Served(g)'
  BY <1>2, <1>4, NotServed DEF Before, Served
<1>8. ASSUME NEW n \in Nodes, graphOf[n] = g
      PROVE  /\ Nowhere(n) /\ Between(n, r) /\ nJoin[n] = 0
             /\ Queued(n)' <=> dependents[n] = {}
  <2>1. n \in Protected
    BY DEF Protected, NoConditions
  <2>2. Nowhere(n)
    BY <1>1, <1>8, <2>1, SetupFindsNone, TokensNone DEF Before, IInv
  <2>3. NodeInv(n, r)
    BY <1>8 DEF Before, Kept, Nodewise
  <2>4. Between(n, r)
    BY <1>7, <1>8, <2>3 DEF NodeInv
  <2>5. nJoin[n] = 0
    BY <1>1, <1>8 DEF Before, Kept, Cleared, NodesIn
  <2>6. Queued(n)' <=> dependents[n] = {}
    <3>1. ~InQueue(wq, n)' /\ ~InQueue(taskQ, n)'
      BY <1>2, <2>2 DEF Nowhere, Queued, InQueue
    <3>2. \A u \in Threads \ {t} : ~Holds(u, n)'
      BY <1>4, <2>2, OthersView DEF Nowhere, Queued
    <3>3. Holds(t, n)' <=> dependents[n] = {}
      BY <1>1, <1>2, <1>8 DEF Holds, InHand
    <3>4. QED
      BY <3>1, <3>2, <3>3 DEF Queued
  <2>7. QED
    BY <2>2, <2>4, <2>5, <2>6
<1>9. ASSUME NEW n \in Nodes, graphOf[n] = g PROVE InRound(n, r + 1)'
  <2>1. /\ ran'[n] = r /\ fin'[n] = r /\ state'[n] = "idle" /\ nJoin'[n] = 0 + strongDegree[n]
        /\ ~RunsAt(n)' /\ ~EndsAt(n)' /\ (Queued(n)' <=> dependents[n] = {})
    BY <1>2, <1>5, <1>8, <1>9 DEF Nowhere, Between
  <2>2. \A e \in dependents[n] : fin'[e[1]] = r
    BY <1>2, <1>8, <1>9, EdgeEnds DEF Between
  <2>3. Missing(n, r + 1)' = dependents[n]
    BY <2>2 DEF Missing
  <2>4. strongDegree[n] = Cardinality(dependents[n]) /\ Cardinality(dependents[n]) \in Nat
    <3>1. {e \in dependents[n] : Typ[e[1]] /= "condition"} = dependents[n]
      BY EdgeEnds DEF NoConditions
    <3>2. QED
      BY <3>1, FiniteDependents, FS_CardinalityType DEF strongDegree
  <2>5. Progress(n, r + 1)'
    BY <2>1 DEF Progress
  <2>6. InOrder(n, r + 1)'
    BY <2>1, <2>3 DEF InOrder
  <2>7. Counter(n, r + 1)'
    <3>1. Restored(n, r + 1)' = 0
      BY <2>1 DEF Restored
    <3>2. nJoin'[n] = Cardinality(dependents[n]) + 0
      BY <2>1, <2>4
    <3>3. QED
      BY <2>3, <3>1, <3>2 DEF Counter
  <2>8. Pending(n, r + 1)'
    <3>1. dependents[n] /= {} => nJoin'[n] /= 0
      BY <2>1, <2>4, FiniteDependents, FS_EmptySet
    <3>2. QED
      BY <2>1, <3>1 DEF Pending
  <2>9. QED
    BY <2>5, <2>6, <2>7, <2>8 DEF InRound
<1>10. ASSUME NEW n \in Nodes PROVE NodeInv(n, D[graphOf[n]])'
  <2>1. graphOf[n] \in Graphs /\ d[graphOf[n]] \in Nat /\ NodeInv(n, d[graphOf[n]])
    BY FlowAssumption DEF Before, Kept, Nodewise
  <2>2. CASE graphOf[n] = g
    BY <1>2, <1>7, <1>9, <2>2 DEF NodeInv
  <2>3. CASE graphOf[n] /= g
    <3>1. Holds(t, n)' <=> Holds(t, n)
      BY <1>1, <1>2, <1>3, <2>3 DEF Holds, InHand
    <3>2. Queued(n)' <=> Queued(n)
      BY <1>2, <1>4, <3>1, QueuedStays
    <3>3. SameNode(n)
      BY <1>2, <1>5, <2>3, <3>2 DEF SameNode, SameData
    <3>4. SameEdges(n, d[graphOf[n]])
      BY <1>2, <1>5, EdgesStay
    <3>5. NodeInv(n, d[graphOf[n]])'
      BY <1>2, <1>6, <2>1, <2>3, <3>3, <3>4, NodeStays
    <3>6. QED
      BY <2>1, <2>3, <3>5
  <2>4. QED
    BY <2>2, <2>3
<1>11. Cleared'
  <2> SUFFICES ASSUME NEW u \in Threads, pc'[u] = "entries", ~canceled'[Invoked(u)'],
                      NEW n \in Nodes, graphOf[n] = Invoked(u)', instantiated'[graphOf[n]]
               PROVE  nJoin'[n] = 0
    BY DEF Cleared, NodesIn
  <2>1. u /= t /\ pc[u] = "entries" /\ Invoked(u)' = Invoked(u)
    BY <1>1, OthersStay
  <2>2. Invoked(u) /= g
    BY <1>4, <2>1 DEF Before, OneDriver
  <2>3. nJoin[n] = 0
    BY <1>2, <2>1 DEF Before, Kept, Cleared, NodesIn
  <2>4. QED
    BY <1>2, <2>1, <2>2, <2>3
<1>12. Opened'
  <2> SUFFICES ASSUME NEW w \in Workers, Driving(w)', ~canceled'[graphOf[slot'[w]]]
               PROVE  state'[slot'[w]] = "finished" /\ instantiated'[subgraph[slot'[w]]]
    BY DEF Opened
  <2>1. Driving(w)
    BY <1>1, <1>4, OthersStay
  <2>2. slot[w] \in Nodes /\ RunsAt(slot[w])
    BY <2>1, SlotIsNode DEF Before, RunsAt, Phase
  <2>3. graphOf[slot[w]] /= g
    BY <1>8, <2>2 DEF Nowhere
  <2>4. QED
    BY <1>2, <2>1, <2>2, <2>3 DEF Before, Kept, Opened
<1>13. DepsRespected'
  BY <1>2 DEF Before, Kept, DepsRespected
<1>14. QED
  BY <1>10, <1>11, <1>12, <1>13 DEF Kept, Nodewise

\* A round in which nothing is left has executed every node: a first one that
\* was not executed would be ready.
LEMMA RoundOver ==
  ASSUME Acyclic, TypeOK, NEW g, NEW r \in Nat,
         \A n \in Nodes : graphOf[n] = g => InRound(n, r) /\ Nowhere(n)
  PROVE  \A n \in Nodes : graphOf[n] = g => Between(n, r)
<1>1. \A n \in Nodes : graphOf[n] = g => ran[n] = fin[n] /\ ran[n] \in {r - 1, r}
  BY DEF InRound, Progress, Nowhere
<1>2. SUFFICES ASSUME NEW m \in Nodes, graphOf[m] = g, ran[m] /= r PROVE FALSE
  BY <1>1 DEF Between
<1> DEFINE S == {n \in Nodes : graphOf[n] = g /\ ran[n] /= r}
<1>3. S \in (SUBSET Nodes) \ {{}}
  BY <1>2
<1>4. PICK n \in S : \A e \in dependents[n] : e[1] \notin S
  BY <1>3 DEF Acyclic
<1>5. n \in Nodes /\ graphOf[n] = g /\ ran[n] = r - 1 /\ fin[n] = r - 1
  BY <1>1
<1>6. ASSUME NEW e \in dependents[n] PROVE fin[e[1]] = r /\ ~EndsAt(e[1])
  <2>1. e[1] \in Nodes /\ graphOf[e[1]] = g
    BY <1>5, EdgeEnds
  <2>2. QED
    BY <1>1, <1>4, <2>1 DEF Nowhere
<1>7. \A e \in dependents[n] : ~DropsAt(e)
  BY <1>6 DEF DropsAt, Drops, EndsAt
<1>8. ~LooksAt(n)
  BY <1>6 DEF LooksAt, Looks, EndsAt
<1>9. Missing(n, r) = {} /\ Restored(n, r) = 0
  BY <1>5, <1>6, <1>7 DEF Missing, Restored
<1>10. nJoin[n] = 0
  <2>1. Counter(n, r)
    BY <1>5 DEF InRound
  <2>2. Cardinality(Missing(n, r)) = 0
    BY <1>9, FS_EmptySet
  <2>3. QED
    BY <1>9, <2>1, <2>2 DEF Counter
<1>11. ~Queued(n) /\ Pending(n, r)
  BY <1>5 DEF InRound, Nowhere
<1>12. QED
  BY <1>5, <1>8, <1>10, <1>11 DEF Pending

\* A graph is left when its round is over.
LEMMA InvokeLeaveKept ==
  ASSUME NoConditions, Acyclic, NEW d \in [Graphs -> Nat], Before(d), NEW t \in Threads, InvokeLeave(t)
  PROVE  Kept(d)'
<1>1. /\ pc[t] = "pop" /\ IInv' /\ IInv /\ Invoked(t) \in Graphs
      /\ Steps(t, "return") /\ pc'[t] = "return"
      /\ gJoin[Invoked(t)] = 0 \/ canceled[Invoked(t)]
  BY InvokeLeaveInv, InvokeLeaveSteps, InvokedType DEF InvokeLeave, Leaving, Before
<1>2. UNCHANGED <<idx, ret, hand, todo, wq, taskQ, slot, canceled, instantiated, nJoin, state, ran, fin>>
  BY DEF InvokeLeave, poolVars, graphVars, nodeVars, histVars
<1>3. /\ Acts(t) /\ SamePart(t) /\ Driving(t) /\ Driving(t)' /\ ~Serving(t)'
      /\ \A n : Holds(t, n)' <=> Holds(t, n)
      /\ Invoked(t)' = Invoked(t)
  BY <1>1, <1>2 DEF Acts, SamePart, Phase, Serving, Holds, InHand, Invoked
<1>4. \A g \in Graphs : g /= Invoked(t) => (Served(g)' <=> Served(g))
  BY <1>1, <1>2, <1>3, ServedStays
<1>5. \A n \in Nodes : SameData(n) /\ fin'[n] >= fin[n]
  BY <1>1, <1>2 DEF SameData, IInv, TypeOK, NodeTypes
<1>6. pc'[t] /= "entries" /\ (t \in Workers => SamePhase(t))
  BY <1>1, <1>3 DEF SamePhase
<1>7. CASE canceled[Invoked(t)]
  <2>1. \A g \in Graphs : ~canceled[g] => (Served(g)' <=> Served(g))
    BY <1>4, <1>7
  <2>2. QED
    BY <1>1, <1>2, <1>3, <1>5, <1>6, <2>1, SilentKept
<1>8. CASE ~canceled[Invoked(t)]
  <2> PICK g \in Graphs, r \in Nat : g = Invoked(t) /\ r = d[g]
    BY <1>1
  <2>1. ~Served(g)'
    <3>1. \A u \in Threads \ {t} : ~(Driving(u) /\ Invoked(u) = g)
      BY <1>3 DEF Before, OneDriver
    <3>2. \A u \in Threads \ {t} : ~(Serving(u) /\ Invoked(u) = g)'
      BY <1>1, <3>1, OthersStay DEF Serving
    <3>3. QED
      BY <1>3, <3>2 DEF Served
  <2>2. ASSUME NEW n \in Nodes, graphOf[n] = g PROVE Nowhere(n)
    <3>1. n \in Protected
      BY DEF Protected, NoConditions
    <3>2. \A u \in Threads : Driving(u) /\ Invoked(u) = g => u = t
      BY <1>3 DEF Before, OneDriver
    <3>3. Tokens(n) = 0 /\ Claims(n) = 0
      BY <1>1, <1>8, <2>2, <3>1, <3>2, NothingLeft DEF Before, Publishing
    <3>4. QED
      BY <3>3, TokensNone DEF Before, IInv
  <2>3. \A n \in Nodes : graphOf[n] = g => NodeInv(n, r)
    BY DEF Before, Kept, Nodewise
  <2>4. \A n \in Nodes : graphOf[n] = g => Between(n, r)
    <3>1. CASE Served(g)
      <4>1. \A n \in Nodes : graphOf[n] = g => InRound(n, r)
        BY <1>8, <2>3, <3>1 DEF NodeInv
      <4>2. QED
        BY <1>1, <2>2, <4>1, RoundOver DEF IInv
    <3>2. CASE ~Served(g)
      BY <1>8, <2>3, <3>2 DEF NodeInv
    <3>3. QED
      BY <3>1, <3>2
  <2>5. /\ \A n : (RunsAt(n)' <=> RunsAt(n)) /\ (EndsAt(n)' <=> EndsAt(n)) /\ (LooksAt(n)' <=> LooksAt(n))
        /\ \A e : DropsAt(e)' <=> DropsAt(e)
    BY <1>3, SameViews
  <2>6. \A n : Queued(n)' <=> Queued(n)
    BY <1>2, <1>3, QueuedStays
  <2>7. ASSUME NEW n \in Nodes PROVE NodeInv(n, d[graphOf[n]])'
    <3>1. graphOf[n] \in Graphs /\ d[graphOf[n]] \in Nat /\ NodeInv(n, d[graphOf[n]])
      BY FlowAssumption DEF Before, Kept, Nodewise
    <3>2. CASE graphOf[n] = g
      BY <1>2, <2>1, <2>2, <2>4, <2>5, <2>6, <3>2 DEF NodeInv, Nowhere, Between
    <3>3. CASE graphOf[n] /= g
      <4>1. SameNode(n) /\ SameEdges(n, d[graphOf[n]])
        BY <1>2, <1>5, <2>5, <2>6, EdgesStay DEF SameNode
      <4>2. QED
        BY <1>2, <1>4, <3>1, <3>3, <4>1, NodeStays
    <3>4. QED
      BY <3>2, <3>3
  <2>8. Cleared'
    BY <1>1, <1>2, <1>6, ClearedStays DEF Before, Kept
  <2>9. Opened'
    <3>1. \A w \in Workers : Driving(w)' => Driving(w)
      BY <1>1, <1>3, OthersStay
    <3>2. QED
      BY <1>2, <3>1 DEF Before, Kept, Opened
  <2>10. DepsRespected'
    BY <1>2 DEF Before, Kept, DepsRespected
  <2>11. QED
    BY <2>7, <2>8, <2>9, <2>10 DEF Kept, Nodewise
<1>9. QED
  BY <1>7, <1>8

-----------------------------------------------------------------------------
(***************************************************************************)
(* Rounds: how often a graph has been set up.                              *)
(***************************************************************************)

\* A caller that has still to set up its graph for this run.
Setting(c) == pc[c] \in {"setup", "entries"}

\* A worker that executes subflow o and has still to set up its graph.
Early(w, o) == slot[w] = o /\ pc[w] \in {"handle", "setup", "entries"}
EarlyAt(o)  == \E w \in Workers : Early(w, o)

CallerRounds(d) ==
  \A c \in Callers :
    /\ instantiated[root[c]]
    /\ ~canceled[root[c]] => runs[c] = d[root[c]] + (IF Setting(c) THEN 1 ELSE 0)

SubflowRounds(d) ==
  \A o \in Nodes : Typ[o] = "subflow" /\ ~canceled[graphOf[o]] /\ ~canceled[subgraph[o]] =>
    ran[o] = d[subgraph[o]] + (IF EarlyAt(o) THEN 1 ELSE 0)

Rounds(d) == CallerRounds(d) /\ SubflowRounds(d)

\* Marks grow: what is canceled and what has been instantiated stays so.
Grows == \A g \in Graphs : (canceled[g] => canceled'[g]) /\ (instantiated[g] => instantiated'[g])

LEMMA OthersEarly ==
  ASSUME NEW t \in Threads, NEW l, Steps(t, l), NEW u \in Threads \ {t}
  PROVE  /\ Setting(u)' <=> Setting(u)
         /\ u \in Workers => \A o : Early(u, o)' <=> Early(u, o)
BY OthersStay DEF Setting, Early, Steps

LEMMA RoundsStay ==
  ASSUME NEW d \in [Graphs -> Nat], Rounds(d), NEW t \in Threads, NEW l, Steps(t, l), Grows,
         UNCHANGED <<ran, runs>>,
         t \in Callers => (Setting(t)' <=> Setting(t)),
         t \in Workers => \A o \in Nodes : Typ[o] = "subflow" /\ ~canceled'[graphOf[o]] =>
                            (Early(t, o)' <=> Early(t, o))
  PROVE  Rounds(d)'
<1>1. ASSUME NEW c \in Callers
      PROVE  /\ instantiated'[root[c]]
             /\ ~canceled'[root[c]] => runs'[c] = d[root[c]] + (IF Setting(c)' THEN 1 ELSE 0)
  <2>1. root[c] \in Graphs /\ (Setting(c)' <=> Setting(c))
    BY OthersEarly, FlowAssumption
  <2>2. QED
    BY <2>1 DEF Rounds, CallerRounds, Grows
<1>2. ASSUME NEW o \in Nodes, Typ[o] = "subflow", ~canceled'[graphOf[o]], ~canceled'[subgraph[o]]
      PROVE  ran'[o] = d[subgraph[o]] + (IF EarlyAt(o)' THEN 1 ELSE 0)
  <2>1. graphOf[o] \in Graphs /\ subgraph[o] \in Graphs
    BY FlowAssumption
  <2>2. \A u \in Workers : Early(u, o)' <=> Early(u, o)
    BY <1>2, OthersEarly
  <2>3. EarlyAt(o)' <=> EarlyAt(o)
    BY <2>2 DEF EarlyAt
  <2>4. QED
    BY <1>2, <2>1, <2>3 DEF Rounds, SubflowRounds, Grows
<1>3. QED
  BY <1>1, <1>2 DEF Rounds, CallerRounds, SubflowRounds

\* A step in other parts of the code.
LEMMA RoundsQuiet ==
  ASSUME NEW d \in [Graphs -> Nat], Rounds(d), NEW t \in Threads, Steps(t, pc'[t]), Grows,
         UNCHANGED <<ran, runs>>,
         pc[t] \notin {"handle", "setup", "entries"}, pc'[t] \notin {"handle", "setup", "entries"}
  PROVE  Rounds(d)'
<1>1. \A o : Early(t, o)' <=> Early(t, o)
  BY DEF Early
<1>2. Setting(t)' <=> Setting(t)
  BY DEF Setting
<1>3. QED
  BY <1>1, <1>2, RoundsStay

LEMMA RunRounds ==
  ASSUME NEW d \in [Graphs -> Nat], IInv, Rounds(d), NEW c \in Callers, Run(c)
  PROVE  Rounds(d)'
<1>1. Steps(c, "setup") /\ pc'[c] = "setup" /\ pc[c] \in {"idle", "returned"}
  BY RunSteps DEF Run
<1>2. UNCHANGED <<slot, canceled, instantiated, ran>> /\ runs' = [runs EXCEPT ![c] = runs[c] + 1]
  BY DEF Run, poolVars, graphVars
<1>3. ASSUME NEW e \in Callers
      PROVE  /\ instantiated'[root[e]]
             /\ ~canceled'[root[e]] => runs'[e] = d[root[e]] + (IF Setting(e)' THEN 1 ELSE 0)
  <2>1. /\ instantiated[root[e]] /\ d[root[e]] \in Nat /\ runs[e] \in Nat
        /\ ~canceled[root[e]] => runs[e] = d[root[e]] + (IF Setting(e) THEN 1 ELSE 0)
    BY FlowAssumption DEF Rounds, CallerRounds, IInv, TypeOK, NodeTypes
  <2>2. runs'[e] = IF e = c THEN runs[e] + 1 ELSE runs[e]
    BY <1>2 DEF IInv, TypeOK, NodeTypes
  <2>3. CASE e = c
    <3>1. ~Setting(e) /\ Setting(e)'
      BY <1>1, <2>3 DEF Setting
    <3>2. QED
      BY <1>2, <2>1, <2>2, <2>3, <3>1
  <2>4. CASE e /= c
    <3>1. Setting(e)' <=> Setting(e)
      BY <1>1, <2>4, OthersEarly
    <3>2. QED
      BY <1>2, <2>1, <2>2, <2>4, <3>1
  <2>5. QED
    BY <2>3, <2>4
<1>4. \A o : EarlyAt(o)' <=> EarlyAt(o)
  <2>1. \A u \in Workers : u /= c
    BY DEF ThreadsAssumption
  <2>2. \A u \in Workers : \A o : Early(u, o)' <=> Early(u, o)
    BY <1>1, <2>1, OthersEarly
  <2>3. QED
    BY <2>2 DEF EarlyAt
<1>5. SubflowRounds(d)'
  BY <1>2, <1>4 DEF Rounds, SubflowRounds
<1>6. QED
  BY <1>3, <1>5 DEF Rounds, CallerRounds

LEMMA BeginRounds ==
  ASSUME NoConditions, NEW d \in [Graphs -> Nat], Before(d), Rounds(d), NEW w \in Workers, Begin(w)
  PROVE  Rounds(d)'
<1>1. /\ pc[w] = "begin" /\ slot[w] \in Nodes /\ IInv /\ Steps(w, pc'[w])
      /\ UNCHANGED <<slot, canceled, instantiated, runs>>
      /\ w \notin Callers
  BY SlotIsNode, BeginSteps DEF Begin, poolVars, graphVars, Before
<1>2. CASE canceled[graphOf[slot[w]]]
  <2>1. ran' = ran
    BY <1>2 DEF Begin
  <2>2. \A o \in Nodes : ~canceled'[graphOf[o]] => (Early(w, o)' <=> Early(w, o))
    BY <1>1, <1>2 DEF Early
  <2>3. QED
    BY <1>1, <2>1, <2>2, RoundsStay DEF Grows
<1>3. CASE ~canceled[graphOf[slot[w]]]
  <2>1. /\ pc'[w] = "handle" /\ ran' = [ran EXCEPT ![slot[w]] = ran[slot[w]] + 1]
        /\ Deferred(slot[w]) \in {"drop", "resetup", "setup"}
    BY <1>1, <1>3, BeginSteps, DeferredByType DEF Begin, NoConditions
  <2>2. Views(w, slot[w])
    BY <1>1, <1>3, AtWork DEF Working, Spent, Publishing
  <2>3. ~EarlyAt(slot[w])
    BY <1>1, <2>2 DEF Views, Phase, RunsAt, EarlyAt, Early
  <2>4. ASSUME NEW o \in Nodes, Typ[o] = "subflow", ~canceled'[graphOf[o]], ~canceled'[subgraph[o]]
        PROVE  ran'[o] = d[subgraph[o]] + (IF EarlyAt(o)' THEN 1 ELSE 0)
    <3>1. /\ ran[o] = d[subgraph[o]] + (IF EarlyAt(o) THEN 1 ELSE 0)
          /\ d[subgraph[o]] \in Nat /\ ran[o] \in Nat
      BY <1>1, <2>4, FlowAssumption DEF Rounds, SubflowRounds, IInv, TypeOK, NodeTypes
    <3>2. ran'[o] = IF o = slot[w] THEN ran[o] + 1 ELSE ran[o]
      BY <1>1, <2>1 DEF IInv, TypeOK, NodeTypes
    <3>3. CASE o = slot[w]
      <4>1. EarlyAt(o)'
        BY <1>1, <2>1, <3>3 DEF EarlyAt, Early
      <4>2. QED
        BY <2>3, <3>1, <3>2, <3>3, <4>1
    <3>4. CASE o /= slot[w]
      <4>1. \A u \in Workers : Early(u, o)' <=> Early(u, o)
        <5>1. Early(w, o)' <=> Early(w, o)
          BY <1>1, <3>4 DEF Early
        <5>2. QED
          BY <1>1, <5>1, OthersEarly
      <4>2. EarlyAt(o)' <=> EarlyAt(o)
        BY <4>1 DEF EarlyAt
      <4>3. QED
        BY <3>1, <3>2, <3>4, <4>2
    <3>5. QED
      BY <3>3, <3>4
  <2>5. \A c \in Callers : Setting(c)' <=> Setting(c)
    BY <1>1, OthersEarly
  <2>6. CallerRounds(d)'
    BY <1>1, <2>5 DEF Rounds, CallerRounds
  <2>7. QED
    BY <2>4, <2>6 DEF Rounds, SubflowRounds
<1>4. QED
  BY <1>2, <1>3

LEMMA SetupRounds ==
  ASSUME NoConditions, NEW d \in [Graphs -> Nat], Before(d), Rounds(d), NEW t \in Threads, Setup(t),
         NEW D \in [Graphs -> Nat],
         \A h \in Graphs : D[h] = IF h = Invoked(t) /\ ~canceled[h] /\ instantiated[h]
                                  THEN d[h] + 1 ELSE d[h]
  PROVE  Rounds(D)'
<1>1. /\ pc[t] = "entries" /\ IInv /\ Invoked(t) \in Graphs
      /\ Steps(t, pc'[t]) /\ pc'[t] \in {"loop", "schedule"}
      /\ UNCHANGED <<slot, canceled, instantiated, ran, runs>>
  BY SetupSteps, InvokedType DEF Setup, poolVars, graphVars, histVars, Before
<1>2. ASSUME NEW c \in Callers
      PROVE  /\ instantiated'[root[c]]
             /\ ~canceled'[root[c]] => runs'[c] = D[root[c]] + (IF Setting(c)' THEN 1 ELSE 0)
  <2>1. /\ root[c] \in Graphs /\ instantiated[root[c]] /\ d[root[c]] \in Nat
        /\ ~canceled[root[c]] => runs[c] = d[root[c]] + (IF Setting(c) THEN 1 ELSE 0)
    BY FlowAssumption DEF Rounds, CallerRounds
  <2>2. CASE c = t
    <3>1. Setting(c) /\ ~Setting(c)' /\ Invoked(t) = root[c]
      BY <1>1, <2>2 DEF Setting, Invoked
    <3>2. QED
      BY <1>1, <2>1, <3>1
  <2>3. CASE c /= t
    <3>1. Setting(c)' <=> Setting(c)
      BY <1>1, <2>3, OthersEarly
    <3>2. Invoked(t) /= root[c]
      <4>1. CASE t \in Callers
        BY <2>3, <4>1, FlowAssumption DEF Invoked
      <4>2. CASE t \in Workers
        <5>1. slot[t] \in Nodes /\ Typ[slot[t]] = "subflow"
          BY <1>1, <4>2, SlotIsNode DEF Before, GInv, Places, Place, WorkerPlace
        <5>2. QED
          BY <4>2, <5>1, NestingAssumption DEF Invoked
      <4>3. QED
        BY <4>1, <4>2
    <3>3. QED
      BY <1>1, <2>1, <3>1, <3>2
  <2>4. QED
    BY <2>2, <2>3
<1>3. ASSUME NEW o \in Nodes, Typ[o] = "subflow", ~canceled'[graphOf[o]], ~canceled'[subgraph[o]]
      PROVE  ran'[o] = D[subgraph[o]] + (IF EarlyAt(o)' THEN 1 ELSE 0)
  <2>1. /\ ran[o] = d[subgraph[o]] + (IF EarlyAt(o) THEN 1 ELSE 0)
        /\ d[subgraph[o]] \in Nat /\ subgraph[o] \in Graphs
    BY <1>1, <1>3, FlowAssumption DEF Rounds, SubflowRounds
  <2>2. CASE t \in Workers /\ slot[t] = o
    <3>1. Early(t, o) /\ ~Early(t, o)' /\ Invoked(t) = subgraph[o]
      BY <1>1, <2>2 DEF Early, Invoked
    <3>2. Only(t, o)
      BY <1>1, <1>3, <2>2, AtWork DEF Working, Spent, Publishing
    <3>3. \A u \in Workers \ {t} : ~Early(u, o)
      BY <3>2 DEF Only, Early, Phase
    <3>4. EarlyAt(o) /\ ~EarlyAt(o)'
      BY <1>1, <2>2, <3>1, <3>3, OthersEarly DEF EarlyAt
    <3>5. instantiated[subgraph[o]]
      BY <1>1, <1>3, <2>2 DEF Before, Kept, Opened
    <3>6. D[subgraph[o]] = d[subgraph[o]] + 1
      BY <1>1, <1>3, <2>1, <3>1, <3>5
    <3>7. QED
      BY <1>1, <2>1, <3>4, <3>6
  <2>3. CASE ~(t \in Workers /\ slot[t] = o)
    <3>1. \A u \in Workers : Early(u, o)' <=> Early(u, o)
      <4>1. t \in Workers => (Early(t, o)' <=> Early(t, o))
        BY <1>1, <2>3 DEF Early
      <4>2. QED
        BY <1>1, <4>1, OthersEarly
    <3>2. EarlyAt(o)' <=> EarlyAt(o)
      BY <3>1 DEF EarlyAt
    <3>3. Invoked(t) /= subgraph[o]
      <4>1. CASE t \in Callers
        BY <1>3, <4>1, NestingAssumption DEF Invoked
      <4>2. CASE t \in Workers /\ t \notin Callers
        <5>1. slot[t] \in Nodes /\ Typ[slot[t]] = "subflow"
          BY <1>1, <4>2, SlotIsNode DEF Before, GInv, Places, Place, WorkerPlace
        <5>2. QED
          BY <1>3, <2>3, <4>2, <5>1, NestingAssumption DEF Invoked
      <4>3. QED
        BY <4>1, <4>2
    <3>4. D[subgraph[o]] = d[subgraph[o]]
      BY <2>1, <3>3
    <3>5. QED
      BY <1>1, <2>1, <3>2, <3>4
  <2>4. QED
    BY <2>2, <2>3
<1>4. QED
  BY <1>2, <1>3 DEF Rounds, CallerRounds, SubflowRounds

-----------------------------------------------------------------------------
(***************************************************************************)
(* The steps together.                                                     *)
(***************************************************************************)

InFlow(d) == Kept(d) /\ Rounds(d)
FlowInv   == \E d \in [Graphs -> Nat] : InFlow(d)

LEMMA ScheduleStepFlow ==
  ASSUME NoConditions, NEW d \in [Graphs -> Nat], Before(d), Rounds(d), NEW t \in Threads, ScheduleStep(t)
  PROVE  InFlow(d)'
<1>1. Kept(d)'
  BY ScheduleAddKept, ScheduleRefKept, SchedulePushKept, ScheduleCanceledKept DEF ScheduleStep
<1>2. /\ Steps(t, pc'[t])
      /\ pc[t] \in {"schedule", "ref", "push"}
      /\ pc'[t] \in {"schedule", "ref", "push", "loop", "deref"}
  <2>1. CASE ScheduleAdd(t)
    BY <2>1, ScheduleAddSteps DEF ScheduleAdd, Before
  <2>2. CASE ScheduleRef(t)
    BY <2>2, ScheduleRefSteps DEF ScheduleRef, Before
  <2>3. CASE SchedulePush(t)
    BY <2>3, SchedulePushSteps DEF SchedulePush, Before
  <2>4. CASE ScheduleCanceled(t)
    BY <2>4, ScheduleCanceledSteps DEF ScheduleCanceled, Before
  <2>5. QED
    BY <2>1, <2>2, <2>3, <2>4 DEF ScheduleStep
<1>3. UNCHANGED <<canceled, instantiated, ran, runs>>
  BY DEF ScheduleStep, ScheduleAdd, ScheduleRef, SchedulePush, ScheduleCanceled, graphVars, histVars
<1>4. Rounds(d)'
  BY <1>2, <1>3, RoundsQuiet DEF Grows
<1>5. QED
  BY <1>1, <1>4 DEF InFlow

LEMMA InvokeStepFlow ==
  ASSUME NoConditions, Acyclic, NEW d \in [Graphs -> Nat], Before(d), Rounds(d), NEW t \in Threads,
         InvokeStep(t)
  PROVE  InFlow(d)'
<1>1. Kept(d)'
  BY InvokeLoopKept, InvokeLeaveKept, InvokePopKept, InvokeNodeKept DEF InvokeStep
<1>2. /\ Steps(t, pc'[t])
      /\ pc[t] \in {"loop", "pop", "go"}
      /\ pc'[t] \in {"loop", "waiting", "pop", "go", "return"}
  <2>1. CASE InvokeLoop(t)
    BY <2>1, InvokeLoopSteps DEF InvokeLoop, Before
  <2>2. CASE InvokeLeave(t)
    BY <2>2, InvokeLeaveSteps DEF InvokeLeave, Before
  <2>3. CASE InvokePop(t)
    BY <2>3, InvokePopSteps DEF InvokePop, Before
  <2>4. CASE InvokeNode(t)
    BY <2>4, InvokeNodeSteps DEF InvokeNode, Before
  <2>5. QED
    BY <2>1, <2>2, <2>3, <2>4 DEF InvokeStep
<1>3. UNCHANGED <<canceled, instantiated, ran, runs>>
  BY DEF InvokeStep, InvokeLoop, InvokeLeave, InvokePop, InvokeNode, graphVars, histVars
<1>4. Rounds(d)'
  BY <1>2, <1>3, RoundsQuiet DEF Grows
<1>5. QED
  BY <1>1, <1>4 DEF InFlow

LEMMA SetupFlow ==
  ASSUME NoConditions, NEW d \in [Graphs -> Nat], Before(d), Rounds(d), NEW t \in Threads, Setup(t)
  PROVE  FlowInv'
<1> DEFINE g == Invoked(t)
           D == [h \in Graphs |-> IF h = g /\ ~canceled[h] /\ instantiated[h] THEN d[h] + 1 ELSE d[h]]
<1>1. g \in Graphs
  BY InvokedType DEF Setup, Before
<1>2. PICK E \in [Graphs -> Nat] :
        \A h \in Graphs : E[h] = IF h = Invoked(t) /\ ~canceled[h] /\ instantiated[h]
                                 THEN d[h] + 1 ELSE d[h]
  <2>1. D \in [Graphs -> Nat]
    OBVIOUS
  <2>2. QED
    BY <2>1
<1>3. Rounds(E)'
  BY <1>2, SetupRounds
<1>4. Kept(E)'
  <2>1. CASE canceled[g] \/ ~instantiated[g]
    <3>1. E = d
      BY <1>2, <2>1
    <3>2. QED
      BY <2>1, <3>1, SetupNothingKept
  <2>2. CASE ~canceled[g] /\ instantiated[g]
    <3>1. E[g] = d[g] + 1 /\ \A h \in Graphs \ {g} : E[h] = d[h]
      BY <1>1, <1>2, <2>2
    <3>2. QED
      BY <2>2, <3>1, SetupRoundKept
  <2>3. QED
    BY <2>1, <2>2
<1>5. QED
  BY <1>3, <1>4 DEF FlowInv, InFlow

LEMMA ResetFlow ==
  ASSUME NEW d \in [Graphs -> Nat], Before(d), Rounds(d), NEW t \in Threads, Reset(t)
  PROVE  InFlow(d)'
<1>1. /\ Steps(t, "entries") /\ pc[t] = "setup" /\ pc'[t] = "entries"
      /\ UNCHANGED <<slot, canceled, instantiated, ran, runs>>
  BY ResetSteps DEF Reset, poolVars, histVars, Before
<1>2. (Setting(t)' <=> Setting(t)) /\ \A o : Early(t, o)' <=> Early(t, o)
  BY <1>1 DEF Setting, Early
<1>3. Rounds(d)'
  BY <1>1, <1>2, RoundsStay DEF Grows
<1>4. QED
  BY <1>3, ResetKept DEF InFlow

LEMMA ReturnFlow ==
  ASSUME NoConditions, NEW d \in [Graphs -> Nat], Before(d), Rounds(d), NEW t \in Threads, GraphReturn(t)
  PROVE  InFlow(d)'
<1>1. Kept(d)'
  BY CallerReturnKept, WorkerReturnKept
<1>2. /\ Steps(t, pc'[t]) /\ pc[t] = "return" /\ pc'[t] \in {"returned", "resetup", "drop"}
      /\ UNCHANGED <<instantiated, ran, runs>>
  BY GraphReturnSteps DEF GraphReturn, Before
<1>3. Grows
  BY <1>2 DEF GraphReturn, Grows
<1>4. Rounds(d)'
  BY <1>2, <1>3, RoundsQuiet
<1>5. QED
  BY <1>1, <1>4 DEF InFlow

\* The end of a handler.
LEMMA HandlerFlow ==
  ASSUME NoConditions, NEW d \in [Graphs -> Nat], Before(d), Rounds(d), NEW w \in Workers, HandlerStep(w)
  PROVE  InFlow(d)'
<1>1. pc[w] = "handle" /\ slot[w] \in Nodes /\ Typ[slot[w]] /= "condition" /\ w \notin Callers /\ IInv
  BY SlotIsNode DEF NoConditions, Before, HandlerStep, ReturnStatic, ReturnSubflow, ReturnCondition,
                    ChoosePanic, HandlerPanic
<1>2. ReturnStatic(w) \/ ReturnSubflow(w) \/ HandlerPanic(w)
  BY <1>1 DEF HandlerStep, ReturnCondition, ChoosePanic
<1>3. Kept(d)'
  BY <1>2, ReturnStaticKept, ReturnSubflowKept, HandlerPanicKept
<1>4. UNCHANGED <<hand, ret, todo, slot, ran, runs>> /\ pc' = Goto(w, Deferred(slot[w]))
  BY <1>2 DEF ReturnStatic, ReturnSubflow, HandlerPanic, poolVars, histVars
<1>5. Steps(w, Deferred(slot[w])) /\ pc'[w] = Deferred(slot[w])
  BY <1>1, <1>4, DeferredSteps
<1>6. Grows
  BY <1>1, <1>2 DEF ReturnStatic, ReturnSubflow, HandlerPanic, graphVars, Grows, IInv, TypeOK, GraphTypes
<1>7. ASSUME NEW o \in Nodes, Typ[o] = "subflow" PROVE Early(w, o)' <=> Early(w, o)
  <2>1. CASE slot[w] = o
    <3>1. pc'[w] = "setup"
      BY <1>5, <1>7, <2>1, DeferredByType
    <3>2. QED
      BY <1>1, <1>4, <3>1 DEF Early
  <2>2. CASE slot[w] /= o
    BY <1>4, <2>2 DEF Early
  <2>3. QED
    BY <2>1, <2>2
<1>8. Rounds(d)'
  BY <1>1, <1>4, <1>5, <1>6, <1>7, RoundsStay
<1>9. QED
  BY <1>3, <1>8 DEF InFlow

LEMMA WorkerFlow ==
  ASSUME NoConditions, NEW d \in [Graphs -> Nat], Before(d), Rounds(d), NEW w \in Workers, WorkerStep(w)
  PROVE  InFlow(d)'
<1>1. CASE HandlerStep(w)
  BY <1>1, HandlerFlow
<1>2. CASE Begin(w)
  <2>1. Kept(d)'
    BY <1>2, BeginKept, SkipKept
  <2>2. QED
    BY <1>2, <2>1, BeginRounds DEF InFlow
<1>3. CASE TakeTask(w) \/ Drop(w) \/ CheckSuccessor(w) \/ Resetup(w) \/ Deref(w) \/ Done(w)
  <2>1. Kept(d)'
    BY <1>3, TakeTaskKept, DropKept, CheckSuccessorKept, ResetupKept, DerefKept, DoneKept
  <2>2. UNCHANGED <<canceled, instantiated, ran, runs>>
    BY <1>3 DEF TakeTask, Drop, CheckSuccessor, Resetup, Deref, Done, graphVars, histVars
  <2>3. /\ Steps(w, pc'[w])
        /\ pc[w] \in {"idle", "drop", "check", "resetup", "deref", "done"}
        /\ pc'[w] \in {"begin", "drop", "check", "resetup", "schedule", "deref", "done", "idle"}
    <3>1. CASE TakeTask(w)
      BY <3>1, TakeTaskSteps DEF TakeTask, Before
    <3>2. CASE Drop(w)
      BY <3>2, DropSteps DEF Drop, Before
    <3>3. CASE CheckSuccessor(w)
      BY <3>3, CheckSuccessorSteps DEF CheckSuccessor, Before
    <3>4. CASE Resetup(w)
      BY <3>4, ResetupSteps DEF Before
    <3>5. CASE Deref(w)
      BY <3>5, DerefSteps DEF Before
    <3>6. CASE Done(w)
      BY <3>6, DoneSteps DEF Before
    <3>7. QED
      BY <1>3, <3>1, <3>2, <3>3, <3>4, <3>5, <3>6
  <2>4. Rounds(d)'
    BY <2>2, <2>3, RoundsQuiet DEF Grows
  <2>5. QED
    BY <2>1, <2>4 DEF InFlow
<1>4. QED
  BY <1>1, <1>2, <1>3 DEF WorkerStep

LEMMA RunFlow ==
  ASSUME NEW d \in [Graphs -> Nat], Before(d), Rounds(d), NEW c \in Callers, Run(c) \/ Wait(c)
  PROVE  InFlow(d)'
<1>1. CASE Run(c)
  BY <1>1, RunKept, RunRounds DEF InFlow, Before
<1>2. CASE Wait(c)
  <2>1. /\ Steps(c, pc'[c]) /\ pc[c] = "returned" /\ pc'[c] = "idle"
        /\ UNCHANGED <<canceled, instantiated, ran, runs>>
    BY <1>2, WaitSteps DEF Wait, graphVars, histVars, Before
  <2>2. Rounds(d)'
    BY <2>1, RoundsQuiet DEF Grows
  <2>3. QED
    BY <1>2, <2>2, WaitKept DEF InFlow
<1>3. QED
  BY <1>1, <1>2

LEMMA StutterFlow ==
  ASSUME NEW d \in [Graphs -> Nat], InFlow(d), UNCHANGED vars
  PROVE  InFlow(d)'
<1>1. Kept(d)'
  BY StutterKept DEF InFlow
<1>2. UNCHANGED <<pc, slot, canceled, instantiated, ran, runs>>
  BY DEF vars, threadVars, poolVars, graphVars, histVars
<1>3. Rounds(d)'
  BY <1>2 DEF InFlow, Rounds, CallerRounds, SubflowRounds, Setting, EarlyAt, Early
<1>4. QED
  BY <1>1, <1>3 DEF InFlow

LEMMA InitFlow ==
  ASSUME Init
  PROVE  FlowInv
<1>1. /\ pc = [t \in Threads |-> "idle"] /\ slot = [w \in Workers |-> None]
      /\ todo = [t \in Threads |-> {}] /\ wq = <<>> /\ taskQ = <<>>
      /\ canceled = [g \in Graphs |-> FALSE]
      /\ instantiated = [g \in Graphs |-> \E c \in Callers : root[c] = g]
      /\ ran = [n \in Nodes |-> 0] /\ fin = [n \in Nodes |-> 0] /\ runs = [c \in Callers |-> 0]
  BY DEF Init, GoPool!Init
<1>2. PICK d \in [Graphs -> Nat] : \A g \in Graphs : d[g] = 0
  <2>1. [g \in Graphs |-> 0] \in [Graphs -> Nat]
    OBVIOUS
  <2>2. QED
    BY <2>1
<1>3. \A t \in Threads : ~Driving(t)
  BY <1>1
<1>4. \A n : ~Queued(n) /\ ~RunsAt(n) /\ ~EndsAt(n)
  BY <1>1, <1>3 DEF Queued, InQueue, Holds, InHand, RunsAt, EndsAt, Phase
<1>5. \A g : ~Served(g)
  BY <1>3 DEF Served, Serving
<1>6. Nodewise(d)
  <2> SUFFICES ASSUME NEW n \in Nodes PROVE NodeInv(n, d[graphOf[n]])
    BY DEF Nodewise
  <2>1. d[graphOf[n]] = 0
    BY <1>2, FlowAssumption
  <2>2. QED
    BY <1>1, <1>4, <1>5, <2>1 DEF NodeInv, Between
<1>7. Cleared /\ Opened
  BY <1>1, <1>3 DEF Cleared, Opened
<1>8. DepsRespected
  <2> SUFFICES ASSUME NEW n \in Nodes, NEW e \in dependents[n] PROVE ran[n] <= fin[e[1]]
    BY DEF DepsRespected
  <2>1. e[1] \in Nodes
    BY EdgeEnds
  <2>2. QED
    BY <1>1, <2>1
<1>9. CallerRounds(d)
  <2> SUFFICES ASSUME NEW c \in Callers PROVE instantiated[root[c]] /\ runs[c] = d[root[c]] /\ ~Setting(c)
    BY <1>2, FlowAssumption DEF CallerRounds
  <2>1. root[c] \in Graphs
    BY FlowAssumption
  <2>2. QED
    BY <1>1, <1>2, <2>1 DEF Setting
<1>10. SubflowRounds(d)
  <2> SUFFICES ASSUME NEW o \in Nodes PROVE ran[o] = d[subgraph[o]] /\ ~EarlyAt(o)
    BY <1>2, FlowAssumption DEF SubflowRounds
  <2>1. subgraph[o] \in Graphs
    BY FlowAssumption
  <2>2. QED
    BY <1>1, <1>2, <2>1 DEF EarlyAt, Early
<1>11. QED
  BY <1>6, <1>7, <1>8, <1>9, <1>10 DEF FlowInv, InFlow, Kept, Rounds

LEMMA NextFlow ==
  ASSUME NoConditions, Acyclic, IInv, GInv, OneDriver, Single, FlowInv, [Next]_vars
  PROVE  FlowInv'
<1>1. PICK d \in [Graphs -> Nat] : InFlow(d)
  BY DEF FlowInv
<1>2. Before(d) /\ Rounds(d)
  BY <1>1 DEF Before, InFlow
<1>3. InFlow(d)' => FlowInv'
  BY DEF FlowInv
<1>4. ASSUME NEW c \in Callers, Run(c) \/ Wait(c) PROVE InFlow(d)'
  BY <1>2, <1>4, RunFlow
<1>5. ASSUME NEW t \in Threads, GraphStep(t) PROVE FlowInv'
  <2>1. CASE ScheduleStep(t)
    BY <1>2, <1>3, <2>1, ScheduleStepFlow
  <2>2. CASE InvokeStep(t)
    BY <1>2, <1>3, <2>2, InvokeStepFlow
  <2>3. CASE Setup(t)
    BY <1>2, <2>3, SetupFlow
  <2>4. CASE Reset(t)
    BY <1>2, <1>3, <2>4, ResetFlow
  <2>5. CASE GraphReturn(t)
    BY <1>2, <1>3, <2>5, ReturnFlow
  <2>6. QED
    BY <1>5, <2>1, <2>2, <2>3, <2>4, <2>5 DEF GraphStep
<1>6. ASSUME NEW w \in Workers, WorkerStep(w) PROVE InFlow(d)'
  BY <1>2, <1>6, WorkerFlow
<1>7. CASE Terminated \/ UNCHANGED vars
  BY <1>1, <1>3, <1>7, StutterFlow DEF Terminated
<1>8. QED
  BY <1>3, <1>4, <1>5, <1>6, <1>7 DEF Next

\* What holds throughout for a flow without conditions and cycles.
AllInv == IInv /\ GInv /\ OneDriver /\ Single /\ FlowInv

\* In every reachable state each graph that is not canceled is between two rounds
\* or in one, with each of its nodes and counters where the round puts them.
THEOREM FlowInvariance ==
  ASSUME NoConditions, Acyclic
  PROVE  Spec => []AllInv
<1>1. SubflowsUnchosen
  BY DEF SubflowsUnchosen, NoConditions
<1>2. IInv /\ GInv /\ Single => OneDriver
  BY <1>1, OneDriverFollows
<1>3. Init => AllInv
  BY <1>2, InitInv, InitGood, InitSingle, InitFlow DEF AllInv
<1>4. AllInv /\ [Next]_vars => AllInv'
  <2> SUFFICES ASSUME AllInv, [Next]_vars PROVE AllInv'
    OBVIOUS
  <2>1. IInv' /\ GInv' /\ Single' /\ FlowInv'
    BY NextInv, NextGood, NextSingle, NextFlow DEF AllInv
  <2>2. OneDriver'
    <3>1. (IInv /\ GInv /\ Single => OneDriver)'
      BY <1>2, PTL
    <3>2. QED
      BY <2>1, <3>1
  <2>3. QED
    BY <2>1, <2>2 DEF AllInv
<1>5. QED
  BY <1>3, <1>4, PTL DEF Spec

-----------------------------------------------------------------------------
(***************************************************************************)
(* Results.                                                                *)
(***************************************************************************)

\* A task starts no more often than each task it succeeds has completed, for
\* every flow without conditions and cycles, however often it is run, on any
\* number of goroutines, and whatever panics.
THEOREM TasksFollow ==
  ASSUME NoConditions, Acyclic
  PROVE  Spec => []DepsRespected
<1>1. AllInv => DepsRespected
  BY DEF AllInv, FlowInv, InFlow, Kept
<1>2. QED
  BY <1>1, FlowInvariance, PTL

\* A caller that is not in Run has had each task of its flow executed by each Run.
LEMMA RestingCaller ==
  ASSUME IInv, GInv, NEW d \in [Graphs -> Nat], InFlow(d),
         NEW c \in Callers, pc[c] \in {"idle", "returned"}, ~canceled[root[c]],
         NEW n \in Nodes, graphOf[n] = root[c]
  PROVE  ran[n] = runs[c] /\ fin[n] = runs[c]
<1>1. ~Served(root[c])
  <2> SUFFICES ASSUME NEW t \in Threads, Serving(t), Invoked(t) = root[c] PROVE FALSE
    BY DEF Served
  <2>1. CASE t \in Callers
    BY <2>1, FlowAssumption DEF Invoked, Serving
  <2>2. CASE t \in Workers /\ t \notin Callers
    <3>1. Driving(t) /\ pc[t] /= "idle"
      BY DEF Serving
    <3>2. slot[t] \in Nodes /\ Typ[slot[t]] = "subflow"
      BY <2>2, <3>1, SlotIsNode DEF GInv, Places, Place, WorkerPlace
    <3>3. QED
      BY <2>2, <3>2, NestingAssumption DEF Invoked
  <2>3. QED
    BY <2>1, <2>2
<1>2. Between(n, d[root[c]])
  BY <1>1 DEF InFlow, Kept, Nodewise, NodeInv
<1>3. runs[c] = d[root[c]]
  <2>1. ~Setting(c) /\ d[root[c]] \in Nat
    BY FlowAssumption DEF Setting
  <2>2. QED
    BY <2>1 DEF InFlow, Rounds, CallerRounds
<1>4. QED
  BY <1>2, <1>3 DEF Between

\* When Run returns, and no task has panicked, every task of the flow has been
\* executed once for each Run: a round that ends has left nobody out.
LEMMA RunCompleteFollows == AllInv => RunComplete
<1> SUFFICES ASSUME AllInv, NEW c \in Callers, pc[c] = "returned", ~canceled[root[c]],
                    NEW n \in Nodes, graphOf[n] = root[c]
             PROVE  ran[n] = runs[c] /\ fin[n] = runs[c]
  BY DEF RunComplete
<1>1. PICK d \in [Graphs -> Nat] : InFlow(d)
  BY DEF AllInv, FlowInv
<1>2. QED
  BY <1>1, RestingCaller DEF AllInv

\* So it is in every execution of a flow without conditions and cycles, for any
\* number of clients, goroutines and runs.
THEOREM RunsComplete ==
  ASSUME NoConditions, Acyclic
  PROVE  Spec => []RunComplete
BY FlowInvariance, RunCompleteFollows, PTL

\* A subflow whose graph and the graph around it are not canceled.
LiveSubflow(o) == o \in Nodes /\ Typ[o] = "subflow" /\ ~canceled[graphOf[o]] /\ ~canceled[subgraph[o]]

\* While it is not executed, each of its tasks has been executed as often as it has.
LEMMA LiveSubflowComplete ==
  ASSUME NoConditions, AllInv, NEW o, LiveSubflow(o), fin[o] = ran[o],
         NEW n \in Nodes, graphOf[n] = subgraph[o]
  PROVE  ran[n] = ran[o] /\ fin[n] = fin[o]
<1>1. PICK d \in [Graphs -> Nat] : InFlow(d)
  BY DEF AllInv, FlowInv
<1>2. /\ Before(d) /\ Rounds(d) /\ o \in Nodes /\ Typ[o] = "subflow"
      /\ subgraph[o] \in Graphs /\ d[subgraph[o]] \in Nat
  BY <1>1, FlowAssumption DEF Before, AllInv, InFlow, LiveSubflow
<1>3. ASSUME NEW w \in Workers, slot[w] = o, Phase(w) = "run" PROVE FALSE
  <2>1. Working(w)
    BY <1>3 DEF Working, Spent, Publishing, Phase, LiveSubflow
  <2>2. /\ d[graphOf[o]] \in Nat /\ Views(w, o) /\ InRound(o, d[graphOf[o]])
    BY <1>2, <1>3, <2>1, AtWork
  <2>3. ran[o] = d[graphOf[o]] /\ fin[o] = d[graphOf[o]] - 1
    BY <1>3, <2>2 DEF Views, InRound, Progress
  <2>4. QED
    BY <2>2, <2>3
<1>4. ~EarlyAt(o)
  BY <1>3 DEF EarlyAt, Early, Phase
<1>5. ran[o] = d[subgraph[o]]
  BY <1>2, <1>4 DEF Rounds, SubflowRounds, LiveSubflow
<1>6. ~Served(subgraph[o])
  <2> SUFFICES ASSUME NEW t \in Threads, Serving(t), Invoked(t) = subgraph[o] PROVE FALSE
    BY DEF Served
  <2>1. CASE t \in Callers
    BY <1>2, <2>1, NestingAssumption DEF Invoked
  <2>2. CASE t \in Workers /\ t \notin Callers
    <3>1. Driving(t) /\ pc[t] /= "idle"
      BY DEF Serving
    <3>2. slot[t] \in Nodes /\ Typ[slot[t]] = "subflow"
      BY <2>2, <3>1, SlotIsNode DEF AllInv, GInv, Places, Place, WorkerPlace
    <3>3. slot[t] = o
      BY <1>2, <2>2, <3>2, NestingAssumption DEF Invoked
    <3>4. QED
      BY <1>3, <2>2, <3>1, <3>3 DEF Phase
  <2>3. QED
    BY <2>1, <2>2
<1>7. Between(n, d[subgraph[o]])
  BY <1>1, <1>6 DEF InFlow, Kept, Nodewise, NodeInv, LiveSubflow
<1>8. QED
  BY <1>5, <1>7 DEF Between

\* Nothing is canceled when no handler panics and nobody chooses past the end.
Uncanceled == \A g \in Graphs : ~canceled[g]

LEMMA NothingCanceled ==
  ASSUME NoConditions, MayPanic = {}
  PROVE  Spec => []Uncanceled
<1>1. Init => Uncanceled
  BY DEF Init, Uncanceled
<1>2. IInv /\ GInv /\ Uncanceled /\ [Next]_vars => Uncanceled'
  <2> SUFFICES ASSUME IInv, GInv, Uncanceled, [Next]_vars PROVE canceled' = canceled
    BY DEF Uncanceled
  <2>1. canceled \in [Graphs -> BOOLEAN]
    BY DEF IInv, TypeOK, GraphTypes
  <2>2. ASSUME NEW c \in Callers, Run(c) \/ Wait(c) PROVE canceled' = canceled
    BY <2>2 DEF Run, Wait, graphVars
  <2>3. ASSUME NEW t \in Threads, GraphReturn(t) PROVE canceled' = canceled
    <3>1. CASE t \in Callers
      BY <2>3, <3>1, GraphReturnSteps
    <3>2. CASE t \in Workers
      <4>1. pc[t] = "return" /\ Driving(t) /\ Invoked(t) \in Graphs
        BY <2>3, InvokedType DEF GraphReturn
      <4>2. Cancels(t) = {}
        BY <4>1 DEF Cancels, Uncanceled
      <4>3. canceled' = [h \in Graphs |-> canceled[h] \/ h \in Cancels(t)]
        BY <2>3, <3>2, GraphReturnSteps
      <4>4. QED
        BY <2>1, <4>2, <4>3
    <3>3. QED
      BY <3>1, <3>2
  <2>4. ASSUME NEW t \in Threads, GraphStep(t) PROVE canceled' = canceled
    BY <2>3, <2>4 DEF GraphStep, Reset, Setup, ScheduleStep, ScheduleAdd, ScheduleRef, SchedulePush,
       ScheduleCanceled, InvokeStep, InvokeLoop, InvokeLeave, InvokePop, InvokeNode, graphVars
  <2>5. ASSUME NEW w \in Workers, HandlerStep(w) PROVE canceled' = canceled
    <3>1. slot[w] \in Nodes /\ Typ[slot[w]] /= "condition"
      BY <2>5, SlotIsNode DEF NoConditions, HandlerStep, ReturnStatic, ReturnSubflow, ReturnCondition,
                              ChoosePanic, HandlerPanic
    <3>2. QED
      BY <2>5, <3>1 DEF HandlerStep, ReturnStatic, ReturnSubflow, ReturnCondition, ChoosePanic,
                        HandlerPanic, graphVars
  <2>6. ASSUME NEW w \in Workers, WorkerStep(w) PROVE canceled' = canceled
    BY <2>5, <2>6 DEF WorkerStep, TakeTask, Begin, Drop, CheckSuccessor, Resetup, Deref, Done, graphVars
  <2>7. CASE Terminated \/ UNCHANGED vars
    BY <2>7 DEF Terminated, vars, graphVars
  <2>8. QED
    BY <2>2, <2>4, <2>6, <2>7 DEF Next
<1>3. Spec => []OneDriver
  <2>1. SubflowsUnchosen
    BY DEF SubflowsUnchosen, NoConditions
  <2>2. QED
    BY <2>1, OneDriverHolds
<1>4. QED
  BY <1>1, <1>2, <1>3, Invariance, GraphInvariance, PTL DEF Spec

\* So a subflow node completes when every task of the subflow has been executed
\* once for each of its own executions, in a flow in which nothing panics.
THEOREM SubflowsComplete ==
  ASSUME NoConditions, Acyclic, MayPanic = {}
  PROVE  Spec => []SubflowComplete
<1>1. AllInv /\ Uncanceled => SubflowComplete
  <2> SUFFICES ASSUME AllInv, Uncanceled, NEW o \in Nodes, Typ[o] = "subflow", fin[o] = ran[o],
                      NEW n \in Nodes, graphOf[n] = subgraph[o]
               PROVE  ran[n] = ran[o] /\ fin[n] = fin[o]
    BY DEF SubflowComplete
  <2>1. LiveSubflow(o)
    BY FlowAssumption DEF LiveSubflow, Uncanceled
  <2>2. QED
    BY <2>1, LiveSubflowComplete
<1>2. QED
  BY <1>1, FlowInvariance, NothingCanceled, PTL

-----------------------------------------------------------------------------
(***************************************************************************)
(* Executor implements FlowSpec.                                           *)
(***************************************************************************)

\* Every task belongs to the flow of a caller or to a subflow.
Owned ==
  \A n \in Nodes : \/ \E c \in Callers : root[c] = graphOf[n]
                   \/ \E o \in Nodes : Typ[o] = "subflow" /\ subgraph[o] = graphOf[n]

\* How often each subflow has built its flow: the refinement mapping of Flow.
Opens ==
  [n \in Nodes |-> IF Typ[n] /= "subflow" THEN 0 ELSE IF state[n] = "finished" THEN ran[n] ELSE fin[n]]

LEMMA OwnerOf ==
  ASSUME NEW n \in Nodes
  PROVE  /\ \A o \in Nodes : Typ[o] = "subflow" /\ subgraph[o] = graphOf[n] => owner[n] = o
         /\ \A o \in Nodes : owner[n] = o => Typ[o] = "subflow" /\ subgraph[o] = graphOf[n]
<1> DEFINE P(o) == Typ[o] = "subflow" /\ subgraph[o] = graphOf[n]
<1>1. owner[n] = IF \E o \in Nodes : P(o) THEN CHOOSE o \in Nodes : P(o) ELSE None
  BY DEF owner
<1>2. None \notin Nodes
  BY ThreadsAssumption
<1>3. ASSUME NEW o \in Nodes, P(o) PROVE owner[n] = o
  <2>1. owner[n] \in Nodes /\ P(owner[n])
    BY <1>1, <1>3
  <2>2. QED
    BY <1>3, <2>1, NestingAssumption
<1>4. ASSUME NEW o \in Nodes, owner[n] = o PROVE P(o)
  BY <1>1, <1>2, <1>4
<1>5. QED
  BY <1>3, <1>4

LEMMA CallerOf ==
  ASSUME NEW n \in Nodes, NEW c \in Callers, root[c] = graphOf[n]
  PROVE  owner[n] = None /\ caller[n] = c
<1>1. owner[n] = None
  <2>1. \A o \in Nodes : ~(Typ[o] = "subflow" /\ subgraph[o] = graphOf[n])
    BY NestingAssumption
  <2>2. QED
    BY <2>1 DEF owner
<1> DEFINE P(e) == IF owner[n] = None THEN e /= None /\ root[e] = graphOf[n] ELSE e = None
<1>2. caller[n] = CHOOSE e \in Callers \cup {None} : P(e)
  BY DEF caller
<1>3. c \in Callers \cup {None} /\ P(c)
  BY <1>1, ThreadsAssumption
<1>4. caller[n] \in Callers \cup {None} /\ P(caller[n])
  BY <1>2, <1>3
<1>5. caller[n] \in Callers /\ root[caller[n]] = graphOf[n]
  BY <1>1, <1>4
<1>6. QED
  BY <1>1, <1>5, FlowAssumption

\* The round that a graph is in has been asked for.
LEMMA RoundIsDue ==
  ASSUME Uncanceled, NEW d \in [Graphs -> Nat], Before(d), Rounds(d),
         NEW n \in Nodes, Served(graphOf[n])
  PROVE  Flow!Due(n) \in Nat /\ d[graphOf[n]] <= Flow!Due(n)
<1>1. graphOf[n] \in Graphs /\ d[graphOf[n]] \in Nat
  BY FlowAssumption
<1>2. PICK t \in Threads : Serving(t) /\ Invoked(t) = graphOf[n]
  BY DEF Served
<1>3. CASE t \in Callers
  <2>1. owner[n] = None /\ caller[n] = t
    BY <1>2, <1>3, CallerOf DEF Invoked
  <2>2. Flow!Due(n) = runs[t]
    BY <2>1 DEF Flow!Due
  <2>3. runs[t] = d[graphOf[n]] + (IF Setting(t) THEN 1 ELSE 0)
    BY <1>1, <1>2, <1>3 DEF Rounds, CallerRounds, Uncanceled, Invoked
  <2>4. QED
    BY <1>1, <2>2, <2>3
<1>4. CASE t \in Workers /\ t \notin Callers
  <2>1. Driving(t) /\ pc[t] /= "idle"
    BY <1>2 DEF Serving
  <2> PICK o \in Nodes : o = slot[t] /\ graphOf[o] \in Graphs
    BY <1>4, <2>1, SlotIsNode DEF Before
  <2>2. Typ[o] = "subflow" /\ subgraph[o] = graphOf[n]
    BY <1>2, <1>4, <2>1 DEF Before, GInv, Places, Place, WorkerPlace, Invoked
  <2>3. owner[n] = o /\ owner[n] /= None
    BY <2>2, OwnerOf, ThreadsAssumption
  <2>4. state[o] = "finished"
    BY <1>4, <2>1 DEF Before, Kept, Opened, Uncanceled
  <2>5. Flow!Due(n) = ran[o]
    BY <2>2, <2>3, <2>4 DEF Flow!Due
  <2>6. ran[o] = d[graphOf[n]] + (IF EarlyAt(o) THEN 1 ELSE 0)
    BY <1>1, <2>2 DEF Rounds, SubflowRounds, Uncanceled
  <2>7. QED
    BY <1>1, <2>5, <2>6
<1>5. QED
  BY <1>3, <1>4

LEMMA OpensStay ==
  ASSUME UNCHANGED <<ran, fin>>,
         \A n \in Nodes : Typ[n] = "subflow" /\ ran[n] /= fin[n] =>
           (state'[n] = "finished" <=> state[n] = "finished")
  PROVE  Opens' = Opens
BY DEF Opens

\* A step that FlowSpec does not see.
Unseen == UNCHANGED <<runs, ran, fin, Opens>>

LEMMA RunMaps ==
  ASSUME Owned, Uncanceled, IInv, GInv, NEW d \in [Graphs -> Nat], InFlow(d), NEW c \in Callers, Run(c)
  PROVE  Flow!Run(c)
<1>1. /\ pc[c] \in {"idle", "returned"} /\ runs[c] < MaxRuns
      /\ runs' = [runs EXCEPT ![c] = runs[c] + 1] /\ UNCHANGED <<ran, fin, state>>
  BY DEF Run, nodeVars
<1>2. ASSUME NEW n \in Nodes, owner[n] = None, caller[n] = c PROVE fin[n] = runs[c]
  <2>1. \A o \in Nodes : ~(Typ[o] = "subflow" /\ subgraph[o] = graphOf[n])
    BY <1>2, OwnerOf, ThreadsAssumption
  <2>2. PICK e \in Callers : root[e] = graphOf[n]
    BY <2>1 DEF Owned
  <2>3. root[c] = graphOf[n] /\ root[c] \in Graphs
    BY <1>2, <2>2, CallerOf, FlowAssumption
  <2>4. QED
    BY <1>1, <2>3, RestingCaller DEF Uncanceled
<1>3. Opens' = Opens
  BY <1>1, OpensStay
<1>4. QED
  BY <1>1, <1>2, <1>3 DEF Flow!Run, Opens

LEMMA BeginMaps ==
  ASSUME NoConditions, Uncanceled, NEW d \in [Graphs -> Nat], Before(d), Rounds(d),
         NEW w \in Workers, Begin(w)
  PROVE  Flow!Start(slot[w])
<1>1. pc[w] = "begin" /\ slot[w] \in Nodes /\ graphOf[slot[w]] \in Graphs /\ IInv
  BY SlotIsNode DEF Begin, Before
<1> PICK n \in Nodes, r \in Nat : n = slot[w] /\ r = d[graphOf[n]]
  BY <1>1
<1>2. /\ ran' = [ran EXCEPT ![n] = ran[n] + 1] /\ state' = [state EXCEPT ![n] = "running"]
      /\ UNCHANGED <<fin, runs>>
  BY <1>1 DEF Begin, Uncanceled
<1>3. Working(w)
  BY <1>1 DEF Working, Spent, Publishing, Uncanceled
<1>4. Views(w, n) /\ Served(graphOf[n]) /\ InRound(n, r)
  BY <1>3, AtWork
<1>5. Queued(n) /\ ran[n] = r - 1 /\ fin[n] = r - 1 /\ \A e \in dependents[n] : fin[e[1]] = r
  BY <1>1, <1>4 DEF Views, InRound, Progress, InOrder, Missing
<1>6. Flow!Due(n) \in Nat /\ r <= Flow!Due(n)
  BY <1>4, RoundIsDue
<1>7. \A p \in pred[n] : fin[p] > ran[n]
  BY <1>5 DEF pred
<1>8. Opens' = Opens
  <2>1. \A m \in Nodes : m /= n => ran'[m] = ran[m] /\ state'[m] = state[m]
    BY <1>1, <1>2 DEF IInv, TypeOK, NodeTypes
  <2>2. state'[n] = "running"
    BY <1>1, <1>2 DEF IInv, TypeOK, NodeTypes
  <2>3. QED
    BY <1>2, <1>5, <2>1, <2>2 DEF Opens
<1>9. ran[n] < Flow!Due(n)
  BY <1>5, <1>6
<1>10. QED
  BY <1>2, <1>5, <1>7, <1>8, <1>9 DEF Flow!Start, Opens

\* The handler of a subflow returns: its flow is open, unless it already was.
LEMMA OpenMaps ==
  ASSUME NoConditions, Uncanceled, NEW d \in [Graphs -> Nat], Before(d), NEW w \in Workers, ReturnSubflow(w)
  PROVE  Flow!Open(slot[w]) \/ Unseen
<1>1. /\ pc[w] = "handle" /\ slot[w] \in Nodes /\ graphOf[slot[w]] \in Graphs
      /\ Typ[slot[w]] = "subflow" /\ IInv
  BY SlotIsNode DEF ReturnSubflow, Before
<1> PICK n \in Nodes, r \in Nat : n = slot[w] /\ r = d[graphOf[n]]
  BY <1>1
<1>2. state' = [state EXCEPT ![n] = "finished"] /\ UNCHANGED <<runs, ran, fin>>
  BY <1>1 DEF ReturnSubflow, histVars
<1>3. Working(w)
  BY <1>1 DEF Working, Spent, Publishing, Uncanceled
<1>4. ran[n] = r /\ fin[n] = r - 1
  BY <1>1, <1>3, AtWork DEF Views, Phase, InRound, Progress
<1>5. state'[n] = "finished" /\ \A m \in Nodes : m /= n => state'[m] = state[m]
  BY <1>1, <1>2 DEF IInv, TypeOK, NodeTypes
<1>6. CASE state[n] = "finished"
  BY <1>2, <1>5, <1>6, OpensStay DEF Unseen
<1>7. CASE state[n] /= "finished"
  <2>1. Opens[n] = fin[n] /\ Opens' = [Opens EXCEPT ![n] = ran[n]]
    BY <1>1, <1>2, <1>5, <1>7 DEF Opens
  <2>2. Opens[n] < ran[n]
    BY <1>4, <2>1
  <2>3. QED
    BY <1>1, <1>2, <2>1, <2>2 DEF Flow!Open, Opens
<1>8. QED
  BY <1>6, <1>7

LEMMA StaticMaps ==
  ASSUME NoConditions, Uncanceled, NEW d \in [Graphs -> Nat], Before(d), NEW w \in Workers, ReturnStatic(w)
  PROVE  Flow!Finish(slot[w])
<1>1. /\ pc[w] = "handle" /\ slot[w] \in Nodes /\ graphOf[slot[w]] \in Graphs
      /\ Typ[slot[w]] = "static" /\ IInv
  BY SlotIsNode DEF ReturnStatic, Before
<1> PICK n \in Nodes, r \in Nat : n = slot[w] /\ r = d[graphOf[n]]
  BY <1>1
<1>2. /\ state' = [state EXCEPT ![n] = "finished"] /\ fin' = [fin EXCEPT ![n] = fin[n] + 1]
      /\ UNCHANGED <<runs, ran>>
  BY <1>1 DEF ReturnStatic
<1>3. Working(w)
  BY <1>1 DEF Working, Spent, Publishing, Uncanceled
<1>4. ran[n] = r /\ fin[n] = r - 1
  BY <1>1, <1>3, AtWork DEF Views, Phase, InRound, Progress
<1>5. \A m \in Nodes : m /= n => fin'[m] = fin[m] /\ state'[m] = state[m]
  BY <1>1, <1>2 DEF IInv, TypeOK, NodeTypes
<1>6. Opens' = Opens
  BY <1>1, <1>2, <1>5 DEF Opens
<1>7. fin[n] < ran[n]
  BY <1>4
<1>8. QED
  BY <1>1, <1>2, <1>6, <1>7 DEF Flow!Finish, Opens

\* A subflow completes with all its tasks.
LEMMA SubflowMaps ==
  ASSUME NoConditions, Uncanceled, NEW d \in [Graphs -> Nat], Before(d), Rounds(d),
         NEW w \in Workers, GraphReturn(w)
  PROVE  Flow!Finish(slot[w])
<1>1. /\ pc[w] = "return" /\ slot[w] \in Nodes /\ graphOf[slot[w]] \in Graphs
      /\ Typ[slot[w]] = "subflow" /\ IInv /\ Driving(w)
  BY SlotIsNode DEF GraphReturn, Before, GInv, Places, Place, WorkerPlace
<1> PICK n \in Nodes, r \in Nat : n = slot[w] /\ r = d[graphOf[n]]
  BY <1>1
<1>2. Working(w)
  BY <1>1 DEF Working, Spent, Publishing, Uncanceled
<1>3. Only(w, n) /\ ran[n] = r /\ fin[n] = r - 1
  BY <1>1, <1>2, AtWork DEF Views, Phase, InRound, Progress
<1>4. state[n] = "finished"
  BY <1>1 DEF Before, Kept, Opened, Uncanceled
<1>5. fin' = [fin EXCEPT ![n] = fin[n] + 1] /\ UNCHANGED <<state, runs, ran>>
  BY <1>1, <1>4, ThreadsAssumption DEF GraphReturn, nodeVars
<1>6. subgraph[n] \in Graphs /\ d[subgraph[n]] \in Nat
  BY FlowAssumption
<1>7. ran[n] = d[subgraph[n]]
  <2>1. ~EarlyAt(n)
    BY <1>1, <1>3 DEF Only, EarlyAt, Early, Phase
  <2>2. QED
    BY <1>1, <1>6, <2>1 DEF Rounds, SubflowRounds, Uncanceled
<1>8. ~Served(subgraph[n])
  <2>1. Invoked(w) = subgraph[n]
    BY ThreadsAssumption DEF Invoked
  <2>2. QED
    BY <1>1, <2>1, NotServed DEF Before, Serving
<1>9. ASSUME NEW m \in Nodes, owner[m] = n PROVE fin[m] = Opens[n]
  <2>1. graphOf[m] = subgraph[n]
    BY <1>9, OwnerOf
  <2>2. fin[m] = d[subgraph[n]]
    BY <1>6, <1>8, <2>1 DEF Before, Kept, Nodewise, NodeInv, Between, Uncanceled
  <2>3. QED
    BY <1>1, <1>4, <1>7, <2>2 DEF Opens
<1>10. Opens[n] = ran[n]
  BY <1>1, <1>4 DEF Opens
<1>11. Opens' = Opens
  <2>1. \A m \in Nodes : m /= n => fin'[m] = fin[m]
    BY <1>1, <1>5 DEF IInv, TypeOK, NodeTypes
  <2>2. QED
    BY <1>4, <1>5, <2>1 DEF Opens
<1>12. fin[n] < ran[n]
  BY <1>3
<1>13. QED
  BY <1>1, <1>5, <1>9, <1>10, <1>11, <1>12 DEF Flow!Finish, Flow!Inner, Opens

LEMMA QuietMaps ==
  ASSUME UNCHANGED <<runs, ran, fin, state>>
  PROVE  Unseen
BY OpensStay DEF Unseen

\* The graph is set up for the next round: none of its subflows is being executed.
LEMMA SetupMaps ==
  ASSUME Uncanceled, NEW d \in [Graphs -> Nat], Before(d), NEW t \in Threads, Setup(t)
  PROVE  Unseen
<1>1. pc[t] = "entries" /\ Driving(t) /\ ~Serving(t) /\ Invoked(t) \in Graphs
  BY InvokedType DEF Setup, Serving, Before
<1>2. /\ UNCHANGED <<runs, ran, fin>>
      /\ \A n \in Nodes : graphOf[n] /= Invoked(t) => state'[n] = state[n]
  BY DEF Setup, histVars, NodesIn
<1>3. ~Served(Invoked(t))
  BY <1>1, NotServed DEF Before
<1>4. ASSUME NEW n \in Nodes, graphOf[n] = Invoked(t) PROVE ran[n] = fin[n]
  BY <1>1, <1>3, <1>4 DEF Before, Kept, Nodewise, NodeInv, Between, Uncanceled
<1>5. QED
  BY <1>2, <1>4, OpensStay DEF Unseen

LEMMA CheckMaps ==
  ASSUME IInv, NEW w \in Workers, CheckSuccessor(w)
  PROVE  Unseen
<1>1. UNCHANGED <<runs, ran, fin>>
  BY DEF CheckSuccessor, histVars
<1>2. \A n \in Nodes : state'[n] = "finished" <=> state[n] = "finished"
  BY CheckSuccessorSteps DEF IInv, TypeOK, NodeTypes
<1>3. QED
  BY <1>1, <1>2, OpensStay DEF Unseen

\* A subflow can be claimed again after it has completed.
LEMMA ResetupMaps ==
  ASSUME NoConditions, Uncanceled, NEW d \in [Graphs -> Nat], Before(d), NEW w \in Workers, Resetup(w)
  PROVE  Unseen
<1>1. /\ pc[w] = "resetup" /\ slot[w] \in Nodes /\ graphOf[slot[w]] \in Graphs /\ IInv
      /\ UNCHANGED <<runs, ran, fin>>
  BY SlotIsNode DEF Resetup, histVars, Before
<1>2. \A n \in Nodes : n /= slot[w] => state'[n] = state[n]
  BY <1>1 DEF Resetup, IInv, TypeOK, NodeTypes
<1>3. Working(w)
  BY <1>1 DEF Working, Spent, Publishing, Uncanceled
<1>4. ran[slot[w]] = fin[slot[w]]
  BY <1>1, <1>3, AtWork DEF Views, Phase, InRound, Progress
<1>5. QED
  BY <1>1, <1>2, <1>4, OpensStay DEF Unseen

LEMMA NextMaps ==
  ASSUME NoConditions, Owned, AllInv, Uncanceled, MayPanic = {}, [Next]_vars
  PROVE  [Flow!Next]_(Flow!flowVars)
<1> DEFINE Seen == (\E c \in Callers : Flow!Run(c)) \/ (\E n \in Nodes : Flow!Step(n))
<1>1. PICK d \in [Graphs -> Nat] : InFlow(d)
  BY DEF AllInv, FlowInv
<1>2. Before(d) /\ Rounds(d) /\ IInv /\ GInv
  BY <1>1 DEF AllInv, Before, InFlow
<1>3. ASSUME NEW c \in Callers, Run(c) PROVE Seen
  BY <1>1, <1>2, <1>3, RunMaps
<1>4. ASSUME NEW c \in Callers, Wait(c) PROVE Unseen
  BY <1>4, QuietMaps DEF Wait, nodeVars, histVars
<1>5. ASSUME NEW t \in Threads, ScheduleStep(t) \/ InvokeStep(t) PROVE Unseen
  BY <1>5, QuietMaps DEF ScheduleStep, ScheduleAdd, ScheduleRef, SchedulePush, ScheduleCanceled,
     InvokeStep, InvokeLoop, InvokeLeave, InvokePop, InvokeNode, nodeVars, histVars
<1>6. ASSUME NEW t \in Threads, GraphReturn(t) PROVE Seen \/ Unseen
  <2>1. CASE t \in Callers /\ t \notin Workers
    BY <1>6, <2>1, QuietMaps DEF GraphReturn, nodeVars
  <2>2. CASE t \in Workers
    <3>1. slot[t] \in Nodes /\ Flow!Finish(slot[t])
      BY <1>2, <1>6, <2>2, SlotIsNode, SubflowMaps DEF GraphReturn
    <3>2. QED
      BY <3>1 DEF Flow!Step
  <2>3. QED
    BY <2>1, <2>2
<1>7. ASSUME NEW t \in Threads, GraphStep(t) PROVE Seen \/ Unseen
  <2>1. CASE Reset(t)
    BY <2>1, QuietMaps DEF Reset, histVars
  <2>2. CASE Setup(t)
    BY <1>2, <2>2, SetupMaps
  <2>3. QED
    BY <1>5, <1>6, <1>7, <2>1, <2>2 DEF GraphStep
<1>8. ASSUME NEW w \in Workers, HandlerStep(w) PROVE Seen \/ Unseen
  <2>1. slot[w] \in Nodes
    BY <1>2, <1>8, SlotIsNode DEF HandlerStep, ReturnStatic, ReturnSubflow, ReturnCondition,
                                  ChoosePanic, HandlerPanic
  <2>2. ReturnStatic(w) \/ ReturnSubflow(w)
    BY <1>8, <2>1 DEF HandlerStep, ReturnCondition, ChoosePanic, HandlerPanic, NoConditions
  <2>3. Flow!Finish(slot[w]) \/ Flow!Open(slot[w]) \/ Unseen
    BY <1>2, <2>2, StaticMaps, OpenMaps
  <2>4. PICK n \in Nodes : n = slot[w]
    BY <2>1
  <2>5. Flow!Finish(n) \/ Flow!Open(n) \/ Unseen
    BY <2>3, <2>4 DEF Flow!Finish, Flow!Open
  <2>6. QED
    BY <2>5 DEF Flow!Step
<1>9. ASSUME NEW w \in Workers, Begin(w) PROVE Seen
  <2>1. slot[w] \in Nodes /\ Flow!Start(slot[w])
    BY <1>2, <1>9, SlotIsNode, BeginMaps DEF Begin
  <2>2. QED
    BY <2>1 DEF Flow!Step
<1>10. ASSUME NEW w \in Workers, TakeTask(w) \/ Drop(w) \/ Deref(w) \/ Done(w) PROVE Unseen
  BY <1>10, QuietMaps DEF TakeTask, Drop, Deref, Done, nodeVars, histVars
<1>11. ASSUME NEW w \in Workers, WorkerStep(w) PROVE Seen \/ Unseen
  <2>1. CASE HandlerStep(w)
    BY <1>8, <2>1
  <2>2. CASE Begin(w)
    BY <1>9, <2>2
  <2>3. CASE TakeTask(w) \/ Drop(w) \/ Deref(w) \/ Done(w)
    BY <1>10, <2>3
  <2>4. CASE CheckSuccessor(w)
    BY <1>2, <2>4, CheckMaps
  <2>5. CASE Resetup(w)
    BY <1>2, <2>5, ResetupMaps
  <2>6. QED
    BY <1>11, <2>1, <2>2, <2>3, <2>4, <2>5 DEF WorkerStep
<1>12. ASSUME Terminated \/ UNCHANGED vars PROVE Unseen
  BY <1>12, QuietMaps DEF Terminated, vars, nodeVars, histVars
<1>13. Seen \/ Unseen
  <2> HIDE DEF Seen
  <2>1. QED
    BY <1>3, <1>4, <1>7, <1>11, <1>12 DEF Next
<1>14. CASE Seen
  BY <1>14 DEF Flow!Next
<1>15. CASE Unseen
  BY <1>15 DEF Flow!flowVars, Unseen, Opens
<1>16. QED
  BY <1>13, <1>14, <1>15

LEMMA InitMaps ==
  ASSUME Init
  PROVE  Flow!Init
<1>1. /\ ran = [n \in Nodes |-> 0] /\ fin = [n \in Nodes |-> 0] /\ runs = [c \in Callers |-> 0]
  BY DEF Init
<1>2. Opens = [n \in Nodes |-> 0]
  BY <1>1 DEF Opens
<1>3. QED
  BY <1>1, <1>2 DEF Flow!Init, Opens

\* What ImplementsFlow says of steps: its fairness stays with TLC.
FlowSteps == Flow!Init /\ [][Flow!Next]_(Flow!flowVars)

\* Every step of the scheduler, of its queues, locks, signals and goroutines, is
\* a step of FlowSpec or one that FlowSpec does not see: each Run executes each
\* task once, in order, and a subflow with all its tasks.
THEOREM FlowImplemented ==
  ASSUME NoConditions, Acyclic, Owned, MayPanic = {}
  PROVE  Spec => FlowSteps
<1>1. Init => Flow!Init
  BY InitMaps
<1>2. AllInv /\ Uncanceled /\ [Next]_vars => [Flow!Next]_(Flow!flowVars)
  BY NextMaps
<1>3. QED
  BY <1>1, <1>2, FlowInvariance, NothingCanceled, PTL DEF Spec, FlowSteps

-----------------------------------------------------------------------------
(***************************************************************************)
(* The order of priorities, with one worker and one caller.                *)
(***************************************************************************)

\* Subflows need a second worker.
AllStatic == \A n \in Nodes : Typ[n] = "static"
OneByOne  == \E c \in Callers, w \in Workers : Callers = {c} /\ Workers = {w}

Entry(n) == dependents[n] = {}

\* The caller publishes the entries of its graph, the worker what it has claimed.
Origins ==
  \A t \in Threads :
    /\ \A n \in todo[t] : Entry(n) <=> t \in Callers
    /\ pc[t] \in {"ref", "push"} => (Entry(hand[t]) <=> t \in Callers)

\* The way of a node, from its end: about to begin, in the pool's queue, popped
\* and not yet submitted; before that in wq, and before that published.
AtBegin(n) == \E w \in Workers : pc[w] = "begin" /\ slot[w] = n
Popped(n)  == \E t \in Threads : pc[t] = "go" /\ hand[t] = n
Handed(n)  == AtBegin(n) \/ InQueue(taskQ, n) \/ Popped(n)
EarlierIn(s, n, i) == \E j \in DOMAIN s : j < i /\ s[j] = n

\* Wherever m is on this way, n is further.
Trails(n, m) ==
  /\ ~AtBegin(m)
  /\ \A i \in DOMAIN taskQ : taskQ[i] = m => AtBegin(n) \/ EarlierIn(taskQ, n, i)
  /\ Popped(m) => AtBegin(n) \/ InQueue(taskQ, n)
  /\ \A i \in DOMAIN wq : wq[i] = m => Handed(n) \/ EarlierIn(wq, n, i)
  /\ \A t \in Threads : pc[t] \in {"ref", "push"} /\ hand[t] = m => Handed(n) \/ InQueue(wq, n)

Urgent(n, m) == n \in Nodes /\ m \in Nodes /\ Siblings(n, m) /\ priority[n] < priority[m]

\* As long as n has not been executed in this round, it is ahead of m.
Ahead(n, m) ==
  /\ ran[m] <= ran[n]
  /\ ran[m] = ran[n] /\ ~canceled[graphOf[n]] => Trails(n, m)
Queueing == \A n, m \in Nodes : Urgent(n, m) => Ahead(n, m)

LEMMA TwoThreads ==
  ASSUME OneByOne
  PROVE  /\ \A t, u \in Threads : (t \in Callers <=> u \in Callers) => t = u
         /\ \A t \in Threads : t \in Callers <=> t \notin Workers
         /\ \A v, w \in Workers : v = w
BY DEF OneByOne

LEMMA NeverDrives ==
  ASSUME AllStatic, IInv, Places, NEW w \in Workers
  PROVE  ~Driving(w)
<1> SUFFICES ASSUME Driving(w) PROVE FALSE
  OBVIOUS
<1>1. pc[w] /= "idle" /\ Typ[slot[w]] = "subflow"
  BY DEF Places, Place, WorkerPlace
<1>2. QED
  BY <1>1, SlotIsNode DEF AllStatic

LEMMA SiblingsAlike ==
  ASSUME NEW n, NEW m, Urgent(n, m)
  PROVE  /\ n \in Nodes /\ m \in Nodes /\ n /= m /\ graphOf[n] = graphOf[m]
         /\ Entry(n) <=> Entry(m)
         /\ \A e \in dependents[n] : \E f \in dependents[m] : f[1] = e[1]
<1>1. n \in Nodes /\ m \in Nodes /\ graphOf[n] = graphOf[m] /\ priority[n] < priority[m]
      /\ {e[1] : e \in dependents[n]} = {e[1] : e \in dependents[m]}
  BY DEF Urgent, Siblings
<1>2. n /= m
  BY <1>1, FlowAssumption
<1>3. \A e \in dependents[n] : \E f \in dependents[m] : f[1] = e[1]
  BY <1>1
<1>4. \A e \in dependents[m] : \E f \in dependents[n] : f[1] = e[1]
  BY <1>1
<1>5. QED
  BY <1>1, <1>2, <1>3, <1>4 DEF Entry

LEMMA CanceledGrows ==
  ASSUME IInv, [Next]_vars, NEW g \in Graphs, canceled[g]
  PROVE  canceled'[g]
<1>1. canceled \in [Graphs -> BOOLEAN]
  BY DEF IInv, TypeOK, GraphTypes
<1>2. ASSUME NEW t \in Threads, GraphReturn(t)
      PROVE  canceled'[g]
  BY <1>1, <1>2 DEF GraphReturn
<1>3. ASSUME NEW w \in Workers, ChoosePanic(w) \/ HandlerPanic(w)
      PROVE  canceled'[g]
  BY <1>1, <1>3 DEF ChoosePanic, HandlerPanic
<1>4. ASSUME canceled' = canceled
      PROVE  canceled'[g]
  BY <1>4
<1>5. ASSUME NEW t \in Threads, GraphStep(t)
      PROVE  canceled'[g]
  <2>1. GraphReturn(t) \/ canceled' = canceled
    BY <1>5 DEF GraphStep, Reset, Setup, ScheduleStep, ScheduleAdd, ScheduleRef, SchedulePush,
                ScheduleCanceled, InvokeStep, InvokeLoop, InvokeLeave, InvokePop, InvokeNode, graphVars
  <2>2. QED
    BY <1>2, <1>4, <2>1
<1>6. ASSUME NEW w \in Workers, WorkerStep(w)
      PROVE  canceled'[g]
  <2>1. ChoosePanic(w) \/ HandlerPanic(w) \/ canceled' = canceled
    BY <1>6 DEF WorkerStep, HandlerStep, TakeTask, Begin, ReturnStatic, ReturnSubflow, ReturnCondition,
                Drop, CheckSuccessor, Resetup, Deref, Done, graphVars
  <2>2. QED
    BY <1>3, <1>4, <2>1
<1>7. ASSUME NEW c \in Callers, Run(c) \/ Wait(c)
      PROVE  canceled'[g]
  BY <1>4, <1>7 DEF Run, Wait, graphVars
<1>8. CASE UNCHANGED vars
  BY <1>4, <1>8 DEF vars, graphVars
<1>9. QED
  BY <1>5, <1>6, <1>7, <1>8 DEF Next, Terminated

LEMMA OriginsStay ==
  ASSUME Origins, NEW t \in Threads, NEW l, Steps(t, l),
         \A n \in todo'[t] : Entry(n) <=> t \in Callers,
         pc'[t] \in {"ref", "push"} => (Entry(hand'[t]) <=> t \in Callers)
  PROVE  Origins'
<1>1. ASSUME NEW u \in Threads, u /= t
      PROVE  /\ \A n \in todo'[u] : Entry(n) <=> u \in Callers
             /\ pc'[u] \in {"ref", "push"} => (Entry(hand'[u]) <=> u \in Callers)
  <2>1. todo'[u] = todo[u] /\ hand'[u] = hand[u] /\ (pc'[u] \in {"ref", "push"} => pc'[u] = pc[u])
    BY <1>1, OthersStay DEF Steps
  <2>2. QED
    BY <2>1 DEF Origins
<1>2. Entry(hand[t])' <=> Entry(hand'[t])
  BY DEF Entry
<1>3. \A u \in Threads : Entry(hand[u])' <=> Entry(hand'[u])
  BY DEF Entry
<1>4. \A n : Entry(n)' <=> Entry(n)
  BY DEF Entry
<1>5. QED
  BY <1>1, <1>3, <1>4 DEF Origins

\* A step that claims nothing and takes nothing from what was claimed.
LEMMA OriginsQuiet ==
  ASSUME Origins, NEW t \in Threads, NEW l, Steps(t, l), todo'[t] \subseteq todo[t],
         pc'[t] \in {"ref", "push"} => pc[t] \in {"ref", "push"} /\ hand'[t] = hand[t]
  PROVE  Origins'
<1>1. \A n \in todo'[t] : Entry(n) <=> t \in Callers
  BY DEF Origins
<1>2. pc'[t] \in {"ref", "push"} => (Entry(hand'[t]) <=> t \in Callers)
  BY DEF Origins
<1>3. QED
  BY <1>1, <1>2, OriginsStay

LEMMA OriginsNext ==
  ASSUME AllStatic, IInv, GInv, Origins, [Next]_vars
  PROVE  Origins'
<1> USE DEF GInv
<1>1. ASSUME NEW c \in Callers, Run(c) \/ Wait(c) PROVE Origins'
  <2>1. todo' = todo /\ c \in Threads
    BY <1>1 DEF Run, Wait
  <2>2. CASE Run(c)
    BY <2>1, <2>2, RunSteps, OriginsQuiet
  <2>3. CASE Wait(c)
    BY <2>1, <2>3, WaitSteps, OriginsQuiet
  <2>4. QED
    BY <1>1, <2>2, <2>3
<1>2. ASSUME NEW t \in Threads, GraphStep(t) PROVE Origins'
  <2>1. CASE Reset(t)
    BY <2>1, ResetSteps, OriginsQuiet DEF Reset
  <2>2. CASE Setup(t)
    <3>1. t \in Callers
      BY <2>2, NeverDrives DEF Setup
    <3>2. /\ Steps(t, pc'[t]) /\ pc'[t] \in {"loop", "schedule"}
          /\ todo'[t] = {n \in NodesIn(Invoked(t)) : dependents[n] = {}}
      BY <2>2, SetupSteps
    <3>3. QED
      BY <3>1, <3>2, OriginsStay DEF Entry
  <2>3. CASE ScheduleAdd(t)
    <3>1. Steps(t, "ref") /\ hand'[t] \in todo[t] /\ todo'[t] \subseteq todo[t]
      BY <2>3, ScheduleAddSteps
    <3>2. QED
      BY <3>1, OriginsStay DEF Origins
  <2>4. CASE ScheduleRef(t)
    BY <2>4, ScheduleRefSteps, OriginsQuiet DEF ScheduleRef
  <2>5. CASE SchedulePush(t)
    BY <2>5, SchedulePushSteps, OriginsQuiet DEF SchedulePush
  <2>6. CASE ScheduleCanceled(t)
    BY <2>6, ScheduleCanceledSteps, OriginsQuiet
  <2>7. CASE InvokeLoop(t)
    BY <2>7, InvokeLoopSteps, OriginsQuiet DEF InvokeLoop
  <2>8. CASE InvokeLeave(t)
    BY <2>8, InvokeLeaveSteps, OriginsQuiet DEF InvokeLeave
  <2>9. CASE InvokePop(t)
    BY <2>9, InvokePopSteps, OriginsQuiet DEF InvokePop
  <2>10. CASE InvokeNode(t)
    BY <2>10, InvokeNodeSteps, OriginsQuiet DEF InvokeNode
  <2>11. CASE GraphReturn(t)
    BY <2>11, GraphReturnSteps, OriginsQuiet DEF GraphReturn
  <2>12. QED
    BY <1>2, <2>1, <2>2, <2>3, <2>4, <2>5, <2>6, <2>7, <2>8, <2>9, <2>10, <2>11
       DEF GraphStep, ScheduleStep, InvokeStep
<1>3. ASSUME NEW w \in Workers, WorkerStep(w) PROVE Origins'
  <2>0. w \in Threads /\ w \notin Callers
    OBVIOUS
  <2>1. CASE TakeTask(w)
    BY <2>0, <2>1, TakeTaskSteps, OriginsQuiet DEF TakeTask
  <2>2. CASE Begin(w)
    <3>1. slot[w] \in Nodes /\ pc'[w] \notin {"ref", "push"} /\ Steps(w, pc'[w]) /\ todo' = todo
      BY <2>2, SlotIsNode, BeginSteps, DeferredByType DEF Begin
    <3>2. QED
      BY <2>0, <3>1, OriginsQuiet
  <2>3. CASE HandlerStep(w)
    <3>1. pc[w] = "handle" /\ slot[w] \in Nodes /\ Typ[slot[w]] = "static"
      BY <2>3, SlotIsNode DEF AllStatic, HandlerStep, ReturnStatic, ReturnSubflow, ReturnCondition,
                              ChoosePanic, HandlerPanic
    <3>2. pc' = Goto(w, Deferred(slot[w])) /\ UNCHANGED <<hand, ret, todo, slot>>
      BY <2>3, <3>1 DEF HandlerStep, ReturnStatic, ReturnSubflow, ReturnCondition, ChoosePanic,
                        HandlerPanic, poolVars
    <3>3. Steps(w, Deferred(slot[w])) /\ pc'[w] \in {"drop", "resetup"}
      BY <3>1, <3>2, DeferredSteps, DeferredByType
    <3>4. QED
      BY <2>0, <3>2, <3>3, OriginsQuiet
  <2>4. CASE Drop(w)
    BY <2>0, <2>4, DropSteps, OriginsQuiet DEF Drop
  <2>5. CASE CheckSuccessor(w)
    <3>1. /\ slot[w] \in Nodes /\ idx[w] \in DOMAIN successors[slot[w]]
          /\ Steps(w, pc'[w]) /\ pc'[w] \in {"check", "resetup"}
          /\ todo'[w] \subseteq todo[w] \cup {Candidate(w)}
      BY <2>5, SlotIsNode, CheckSuccessorSteps DEF CheckSuccessor, IInv, ThreadShape
    <3>2. ~Entry(Candidate(w))
      BY <3>1, EdgeIsDependent DEF Entry, Candidate
    <3>3. \A n \in todo[w] : ~Entry(n)
      BY <2>0 DEF Origins
    <3>4. QED
      BY <2>0, <3>1, <3>2, <3>3, OriginsStay
  <2>6. CASE Resetup(w)
    BY <2>0, <2>6, ResetupSteps, OriginsQuiet
  <2>7. CASE Deref(w)
    <3>1. Steps(w, pc'[w]) /\ pc'[w] \in {"resetup", "done"} /\ todo' = todo
      BY <2>7, DerefSteps DEF Deref
    <3>2. QED
      BY <2>0, <3>1, OriginsQuiet
  <2>8. CASE Done(w)
    BY <2>0, <2>8, DoneSteps, OriginsQuiet DEF Done
  <2>9. QED
    BY <1>3, <2>1, <2>2, <2>3, <2>4, <2>5, <2>6, <2>7, <2>8 DEF WorkerStep
<1>4. CASE UNCHANGED vars
  BY <1>4 DEF vars, threadVars, Origins, Entry
<1>5. QED
  BY <1>1, <1>2, <1>3, <1>4 DEF Next, Terminated

\* A node that is claimed is in a round of its graph.
LEMMA ClaimInRound ==
  ASSUME AllStatic, NEW d \in [Graphs -> Nat], Before(d), NEW t \in Threads, pc[t] = "schedule",
         NEW m \in todo[t], ~canceled[graphOf[m]]
  PROVE  /\ m \in Nodes /\ d[graphOf[m]] \in Nat
         /\ t \in Workers => Phase(t) = "none"
         /\ \A n \in Nodes : graphOf[n] = graphOf[m] => InRound(n, d[graphOf[m]])
<1>1. /\ IInv /\ GInv /\ Places /\ Place(t) /\ m \in Nodes /\ graphOf[m] \in Graphs
      /\ ret[t] \in {"loop", "deref"} /\ graphOf[m] = Origin(t) /\ d[graphOf[m]] \in Nat
  BY FlowAssumption DEF Before, GInv, Places, Place, ClaimPlace, IInv, TypeOK, ThreadTypes
<1>2. t \in Workers => ~Driving(t)
  BY <1>1, NeverDrives
<1>3. t \in Workers => Phase(t) = "none"
  BY <1>2 DEF Phase
<1>4. \E u \in Threads : Serving(u) /\ Invoked(u) = graphOf[m]
  <2>1. CASE t \in Callers
    BY <1>1, <2>1 DEF Place, CallerPlace, Publishing, Serving, Origin
  <2>2. CASE t \in Workers /\ t \notin Callers
    <3>1. ret[t] = "deref"
      BY <1>1, <1>2, <2>2
    <3>2. graphOf[m] = graphOf[slot[t]] /\ slot[t] \in Nodes /\ ~Released(t)
      BY <1>1, <2>2, <3>1, SlotIsNode DEF Origin, Released
    <3>3. gJoin[graphOf[m]] /= 0
      BY <1>1, <2>2, <3>2, WorkerCounts DEF IInv, GInv
    <3>4. QED
      BY <1>1, <3>3 DEF GInv, Quiet
  <2>3. QED
    BY <2>1, <2>2
<1>5. Served(graphOf[m])
  <2>1. Queued(m)
    BY DEF Queued, Holds
  <2>2. NodeInv(m, d[graphOf[m]])
    BY <1>1 DEF Before, Kept, Nodewise
  <2>3. QED
    BY <1>4, <2>1, <2>2 DEF NodeInv, Served
<1>6. ASSUME NEW n \in Nodes, graphOf[n] = graphOf[m] PROVE InRound(n, d[graphOf[m]])
  <2>1. NodeInv(n, d[graphOf[n]])
    BY DEF Before, Kept, Nodewise
  <2>2. QED
    BY <1>5, <1>6, <2>1 DEF NodeInv
<1>7. QED
  BY <1>1, <1>3, <1>6

\* A more urgent node that has not been executed in this round is claimed with m, or
\* further than that: its only predecessor is that of m, and has looked at both.
LEMMA ClaimedTogether ==
  ASSUME AllStatic, OneByOne, Origins, NEW d \in [Graphs -> Nat], Before(d), NEW n, NEW m, Urgent(n, m),
         ~canceled[graphOf[n]], ran[m] = ran[n], NEW t \in Threads, pc[t] = "schedule", m \in todo[t]
  PROVE  n \in todo[t] \/ Handed(n) \/ InQueue(wq, n)
<1> DEFINE r == d[graphOf[m]]
<1>1. /\ n \in Nodes /\ m \in Nodes /\ graphOf[n] = graphOf[m] /\ (Entry(n) <=> Entry(m))
      /\ \A e \in dependents[n] : \E f \in dependents[m] : f[1] = e[1]
  BY SiblingsAlike
<1>2. r \in Nat /\ InRound(n, r) /\ InRound(m, r) /\ (t \in Workers => Phase(t) = "none")
  BY <1>1, ClaimInRound
<1> HIDE DEF r
<1>3. Queued(m)
  BY DEF Queued, Holds
<1>4. ran[n] = r - 1 /\ ran[n] /= r
  BY <1>2, <1>3 DEF InRound, Progress
<1>5. Queued(n)
  <2> SUFFICES ASSUME ~Queued(n) PROVE FALSE
    OBVIOUS
  <2>1. state[n] = "idle" /\ dependents[n] /= {} /\ (nJoin[n] = 0 => LooksAt(n))
    BY <1>2, <1>4 DEF InRound, Pending
  <2>2. t \in Workers
    BY <1>1, <2>1 DEF Entry, Origins
  <2>3. \A v \in Workers : Phase(v) = "none"
    BY <1>2, <2>2, TwoThreads
  <2>4. Missing(n, r) = {}
    <3>1. Missing(m, r) = {}
      BY <1>2, <1>3 DEF InRound, InOrder
    <3>2. ASSUME NEW e \in dependents[n] PROVE fin[e[1]] = r /\ ~DropsAt(e)
      <4>1. PICK f \in dependents[m] : f[1] = e[1]
        BY <1>1
      <4>2. fin[f[1]] = r
        BY <3>1 DEF Missing
      <4>3. QED
        BY <2>3, <4>1, <4>2 DEF DropsAt, Drops
    <3>3. QED
      BY <3>2 DEF Missing
  <2>5. Restored(n, r) = 0
    <3>1. fin[n] /= r
      BY <1>2, <1>4 DEF InRound, Progress
    <3>2. QED
      BY <3>1 DEF Restored
  <2>6. nJoin[n] = 0
    BY <1>2, <2>4, <2>5, FS_EmptySet DEF InRound, Counter
  <2>7. PICK v \in Workers, e \in dependents[n] : Looks(v, e)
    BY <2>1, <2>6 DEF LooksAt
  <2>8. QED
    BY <2>3, <2>7 DEF Looks
<1>6. ASSUME NEW u \in Threads, n \in todo[u] PROVE n \in todo[t]
  <2>1. u = t
    BY <1>1, <1>6, TwoThreads DEF Origins
  <2>2. QED
    BY <1>6, <2>1
<1>7. ASSUME NEW u \in Threads, u \in InHand, hand[u] = n PROVE Handed(n)
  <2>1. pc[u] = "go" \/ u = t
    <3>1. CASE pc[u] \in {"ref", "push"}
      BY <1>1, <1>7, <3>1, TwoThreads DEF Origins
    <3>2. QED
      BY <1>7, <3>1 DEF InHand
  <2>2. QED
    BY <1>7, <2>1 DEF InHand, Handed, Popped
<1>8. ASSUME NEW u \in Workers, slot[u] = n, pc[u] = "begin" PROVE Handed(n)
  BY <1>8 DEF Handed, AtBegin
<1>9. QED
  BY <1>5, <1>6, <1>7, <1>8 DEF Queued, Holds, Handed

-----------------------------------------------------------------------------
\* A step that moves no node on this way.
LEMMA QueueingStays ==
  ASSUME Queueing, UNCHANGED <<wq, taskQ, ran>>,
         \A g \in Graphs : canceled[g] => canceled'[g],
         \A n \in Nodes : AtBegin(n)' <=> AtBegin(n),
         \A t \in Threads : /\ pc'[t] = "go" <=> pc[t] = "go"
                            /\ pc'[t] \in {"ref", "push"} <=> pc[t] \in {"ref", "push"}
                            /\ pc[t] \in {"ref", "push", "go"} => hand'[t] = hand[t]
  PROVE  Queueing'
<1> SUFFICES ASSUME NEW n \in Nodes, NEW m \in Nodes, Urgent(n, m) PROVE Ahead(n, m)'
  BY DEF Queueing, Urgent, Siblings
<1>1. Ahead(n, m) /\ graphOf[n] \in Graphs
  BY FlowAssumption DEF Queueing
<1>2. \A k \in Nodes : /\ Popped(k)' <=> Popped(k)
                       /\ InQueue(taskQ, k)' <=> InQueue(taskQ, k)
                       /\ InQueue(wq, k)' <=> InQueue(wq, k)
  BY DEF Popped, InQueue
<1>3. \A k \in Nodes : Handed(k)' <=> Handed(k)
  BY <1>2 DEF Handed
<1>4. ASSUME Trails(n, m) PROVE Trails(n, m)'
  <2>1. \A i : (EarlierIn(taskQ, n, i)' <=> EarlierIn(taskQ, n, i))
               /\ (EarlierIn(wq, n, i)' <=> EarlierIn(wq, n, i))
    BY DEF EarlierIn
  <2>2. QED
    BY <1>2, <1>3, <1>4, <2>1 DEF Trails
<1>5. QED
  BY <1>1, <1>4 DEF Ahead

\* Such a step, of one thread.
LEMMA QueueingQuiet ==
  ASSUME Queueing, NEW t \in Threads, NEW l, Steps(t, l), UNCHANGED <<wq, taskQ, ran>>,
         \A g \in Graphs : canceled[g] => canceled'[g],
         pc[t] /= "begin", pc'[t] /= "begin",
         pc'[t] = "go" <=> pc[t] = "go",
         pc'[t] \in {"ref", "push"} <=> pc[t] \in {"ref", "push"},
         pc[t] \in {"ref", "push", "go"} => hand'[t] = hand[t]
  PROVE  Queueing'
<1>1. ASSUME NEW u \in Threads, u /= t
      PROVE  /\ pc'[u] = "go" <=> pc[u] = "go"
             /\ pc'[u] \in {"ref", "push"} <=> pc[u] \in {"ref", "push"}
             /\ pc'[u] = "begin" <=> pc[u] = "begin"
             /\ hand'[u] = hand[u]
             /\ u \in Workers => slot'[u] = slot[u]
  BY <1>1, OthersStay DEF Steps
<1>2. \A n \in Nodes : AtBegin(n)' <=> AtBegin(n)
  BY <1>1 DEF AtBegin
<1>3. QED
  BY <1>1, <1>2, QueueingStays

\* The order in a queue that grows at its end, or loses its head.
LEMMA EarlierAppend ==
  ASSUME NEW s \in Seq(Nodes), NEW k \in Nodes, NEW n, NEW m, NEW H,
         \A i \in DOMAIN s : s[i] = m => H \/ EarlierIn(s, n, i),
         k = m => H \/ InQueue(s, n)
  PROVE  \A i \in DOMAIN Append(s, k) : Append(s, k)[i] = m => H \/ EarlierIn(Append(s, k), n, i)
<1> SUFFICES ASSUME NEW i \in DOMAIN Append(s, k), Append(s, k)[i] = m, ~H
             PROVE  EarlierIn(Append(s, k), n, i)
  OBVIOUS
<1>1. /\ DOMAIN s = 1..Len(s) /\ Len(s) \in Nat /\ DOMAIN Append(s, k) = 1..(Len(s) + 1)
      /\ \A j \in 1..Len(s) : Append(s, k)[j] = s[j]
      /\ Append(s, k)[Len(s) + 1] = k
  OBVIOUS
<1>2. CASE i \in DOMAIN s
  BY <1>1, <1>2 DEF EarlierIn
<1>3. CASE i = Len(s) + 1
  <2>1. PICK j \in DOMAIN s : s[j] = n
    BY <1>1, <1>3 DEF InQueue
  <2>2. j \in DOMAIN Append(s, k) /\ j < i /\ Append(s, k)[j] = n
    BY <1>1, <1>3, <2>1
  <2>3. QED
    BY <2>2 DEF EarlierIn
<1>4. QED
  BY <1>1, <1>2, <1>3

LEMMA EarlierTail ==
  ASSUME NEW s \in Seq(Nodes), s /= <<>>, NEW n, NEW m, NEW H,
         \A i \in DOMAIN s : s[i] = m => H \/ EarlierIn(s, n, i)
  PROVE  /\ Head(s) = m => H
         /\ \A i \in DOMAIN Tail(s) : Tail(s)[i] = m => H \/ Head(s) = n \/ EarlierIn(Tail(s), n, i)
<1>1. /\ DOMAIN s = 1..Len(s) /\ Len(s) \in Nat \ {0} /\ DOMAIN Tail(s) = 1..(Len(s) - 1)
      /\ \A i \in 1..(Len(s) - 1) : Tail(s)[i] = s[i + 1]
      /\ Head(s) = s[1]
  OBVIOUS
<1>2. ~EarlierIn(s, n, 1)
  BY <1>1 DEF EarlierIn
<1>3. ASSUME NEW i \in DOMAIN Tail(s), Tail(s)[i] = m, ~H, Head(s) /= n PROVE EarlierIn(Tail(s), n, i)
  <2>1. i + 1 \in DOMAIN s /\ s[i + 1] = m /\ i \in Nat
    BY <1>1, <1>3
  <2>2. PICK j \in DOMAIN s : j < i + 1 /\ s[j] = n
    BY <1>3, <2>1 DEF EarlierIn
  <2>3. j /= 1 /\ j \in Nat \ {0}
    BY <1>1, <1>3, <2>2
  <2>4. j - 1 \in DOMAIN Tail(s) /\ j - 1 < i /\ Tail(s)[j - 1] = n
    BY <1>1, <2>1, <2>2, <2>3
  <2>5. QED
    BY <2>4 DEF EarlierIn
<1>4. QED
  BY <1>1, <1>2, <1>3

\* What a step does to the nodes of a pair that is still in its queues.
LEMMA QueueingMoves ==
  ASSUME Queueing, ran' = ran, \A g \in Graphs : canceled[g] => canceled'[g],
         \A n, m \in Nodes : Urgent(n, m) /\ ran[m] = ran[n] /\ ~canceled[graphOf[n]] /\ Trails(n, m)
                             => Trails(n, m)'
  PROVE  Queueing'
<1> SUFFICES ASSUME NEW n \in Nodes, NEW m \in Nodes, Urgent(n, m) PROVE Ahead(n, m)'
  BY DEF Queueing, Urgent, Siblings
<1>1. Ahead(n, m) /\ graphOf[n] \in Graphs
  BY FlowAssumption DEF Queueing
<1>2. QED
  BY <1>1 DEF Ahead

\* schedule() takes the most urgent of the nodes that were claimed together.
LEMMA AddQueues ==
  ASSUME AllStatic, OneByOne, Origins, NEW d \in [Graphs -> Nat], Before(d), Queueing,
         NEW t \in Threads, ScheduleAdd(t)
  PROVE  Queueing'
<1>1. /\ IInv /\ pc[t] = "schedule" /\ pc'[t] = "ref" /\ Steps(t, "ref")
      /\ UNCHANGED <<wq, taskQ, slot, ran, canceled>>
  BY ScheduleAddSteps DEF ScheduleAdd, Before, poolVars, graphVars, histVars
<1>2. /\ hand'[t] \in todo[t] /\ \A k \in todo[t] : priority[hand'[t]] <= priority[k]
      /\ todo[t] \subseteq Nodes
  BY <1>1 DEF ScheduleAdd, MostUrgent, IInv, TypeOK, ThreadTypes
<1>3. ASSUME NEW u \in Threads, u /= t
      PROVE  /\ pc'[u] = "go" <=> pc[u] = "go"
             /\ pc'[u] \in {"ref", "push"} <=> pc[u] \in {"ref", "push"}
             /\ pc'[u] = "begin" <=> pc[u] = "begin"
             /\ hand'[u] = hand[u]
  BY <1>1, <1>3, OthersStay DEF Steps
<1>4. \A k : /\ AtBegin(k)' <=> AtBegin(k)
             /\ Popped(k)' <=> Popped(k)
             /\ InQueue(taskQ, k)' <=> InQueue(taskQ, k)
             /\ InQueue(wq, k)' <=> InQueue(wq, k)
  BY <1>1, <1>3 DEF AtBegin, Popped, InQueue
<1>5. \A k : Handed(k)' <=> Handed(k)
  BY <1>4 DEF Handed
<1>6. ASSUME NEW n \in Nodes, NEW m \in Nodes, Urgent(n, m), ran[m] = ran[n], ~canceled[graphOf[n]],
             Trails(n, m)
      PROVE  Trails(n, m)'
  <2>1. \A i : (EarlierIn(taskQ, n, i)' <=> EarlierIn(taskQ, n, i))
               /\ (EarlierIn(wq, n, i)' <=> EarlierIn(wq, n, i))
    BY <1>1 DEF EarlierIn
  <2>2. ASSUME NEW u \in Threads, pc'[u] \in {"ref", "push"}, hand'[u] = m
        PROVE  Handed(n) \/ InQueue(wq, n)
    <3>1. CASE u = t
      <4>1. n \notin todo[t]
        <5>1. priority[n] < priority[m] /\ priority[n] \in Nat /\ priority[m] \in Nat
          BY <1>6, FlowAssumption DEF Urgent
        <5>2. QED
          BY <1>2, <2>2, <3>1, <5>1
      <4>2. m \in todo[t]
        BY <1>2, <2>2, <3>1
      <4>3. QED
        BY <1>1, <1>6, <4>1, <4>2, ClaimedTogether
    <3>2. CASE u /= t
      BY <1>3, <1>6, <2>2, <3>2 DEF Trails
    <3>3. QED
      BY <3>1, <3>2
  <2>3. QED
    BY <1>1, <1>4, <1>5, <1>6, <2>1, <2>2 DEF Trails
<1>7. QED
  BY <1>1, <1>6, QueueingMoves

LEMMA PushQueues ==
  ASSUME IInv, Queueing, NEW t \in Threads, SchedulePush(t)
  PROVE  Queueing'
<1>1. /\ pc[t] = "push" /\ pc'[t] \notin {"ref", "push", "go", "begin"} /\ Steps(t, pc'[t])
      /\ wq' = Append(wq, hand[t]) /\ hand[t] \in Nodes /\ wq \in Seq(Nodes)
      /\ UNCHANGED <<taskQ, slot, ran, canceled>>
  BY SchedulePushSteps DEF SchedulePush, poolVars, graphVars, histVars, IInv, TypeOK, QueueTypes
<1>2. ASSUME NEW u \in Threads, u /= t
      PROVE  /\ pc'[u] = "go" <=> pc[u] = "go"
             /\ pc'[u] \in {"ref", "push"} <=> pc[u] \in {"ref", "push"}
             /\ pc'[u] = "begin" <=> pc[u] = "begin"
             /\ hand'[u] = hand[u]
  BY <1>1, <1>2, OthersStay DEF Steps
<1>3. \A k : /\ AtBegin(k)' <=> AtBegin(k)
             /\ Popped(k)' <=> Popped(k)
             /\ InQueue(taskQ, k)' <=> InQueue(taskQ, k)
  BY <1>1, <1>2 DEF AtBegin, Popped, InQueue
<1>4. \A k : (Handed(k)' <=> Handed(k)) /\ (InQueue(wq, k) => InQueue(wq, k)')
  <2>1. \A k : InQueue(wq', k) <=> InQueue(wq, k) \/ hand[t] = k
    BY <1>1, QueueAppend
  <2>2. \A k : InQueue(wq, k)' <=> InQueue(wq', k)
    BY DEF InQueue
  <2>3. QED
    BY <1>3, <2>1, <2>2 DEF Handed
<1>5. ASSUME NEW n \in Nodes, NEW m \in Nodes, Urgent(n, m), Trails(n, m)
      PROVE  Trails(n, m)'
  <2>1. \A i : EarlierIn(taskQ, n, i)' <=> EarlierIn(taskQ, n, i)
    BY <1>1 DEF EarlierIn
  <2>2. \A i \in DOMAIN wq' : wq'[i] = m => Handed(n) \/ EarlierIn(wq', n, i)
    <3>1. \A i \in DOMAIN wq : wq[i] = m => Handed(n) \/ EarlierIn(wq, n, i)
      BY <1>5 DEF Trails
    <3>2. hand[t] = m => Handed(n) \/ InQueue(wq, n)
      BY <1>1, <1>5 DEF Trails
    <3>3. QED
      BY <1>1, <3>1, <3>2, EarlierAppend
  <2>3. \A i : EarlierIn(wq, n, i)' <=> EarlierIn(wq', n, i)
    BY DEF EarlierIn
  <2>4. ASSUME NEW u \in Threads, pc'[u] \in {"ref", "push"}, hand'[u] = m
        PROVE  Handed(n) \/ InQueue(wq, n)
    BY <1>1, <1>2, <1>5, <2>4 DEF Trails
  <2>5. QED
    BY <1>1, <1>3, <1>4, <1>5, <2>1, <2>2, <2>3, <2>4 DEF Trails
<1>6. QED
  BY <1>1, <1>5, QueueingMoves

\* invokeGraph pops the node that was pushed first.
LEMMA PopQueues ==
  ASSUME AllStatic, OneByOne, IInv, Places, Queueing, NEW t \in Threads, InvokePop(t)
  PROVE  Queueing'
<1>1. /\ pc[t] = "pop" /\ pc'[t] = "go" /\ Steps(t, "go") /\ hand'[t] = Head(wq)
      /\ wq \in Seq(Nodes) /\ wq /= <<>> /\ wq' = Tail(wq)
      /\ UNCHANGED <<taskQ, slot, ran, canceled>>
  BY InvokePopSteps DEF InvokePop, poolVars, graphVars, histVars
<1>2. ASSUME NEW u \in Threads, u /= t
      PROVE  /\ pc[u] /= "go" /\ pc'[u] /= "go"
             /\ pc'[u] \in {"ref", "push"} <=> pc[u] \in {"ref", "push"}
             /\ pc'[u] = "begin" <=> pc[u] = "begin"
             /\ hand'[u] = hand[u]
  <2>1. t \in Callers
    BY <1>1, NeverDrives
  <2>2. u \in Workers
    BY <1>2, <2>1, TwoThreads
  <2>3. pc[u] /= "go"
    BY <2>2, NeverDrives
  <2>4. QED
    BY <1>1, <1>2, <2>3, OthersStay DEF Steps
<1>3. \A k : /\ AtBegin(k)' <=> AtBegin(k)
             /\ InQueue(taskQ, k)' <=> InQueue(taskQ, k)
             /\ ~Popped(k)
             /\ Popped(k)' <=> Head(wq) = k
  <2>1. \A k : AtBegin(k)' <=> AtBegin(k)
    BY <1>1, <1>2 DEF AtBegin
  <2>2. \A k : ~Popped(k) /\ (Popped(k)' <=> Head(wq) = k)
    BY <1>1, <1>2 DEF Popped
  <2>3. QED
    BY <1>1, <2>1, <2>2 DEF InQueue
<1>4. \A k : /\ Handed(k)' <=> Handed(k) \/ Head(wq) = k
             /\ InQueue(wq, k) <=> InQueue(wq, k)' \/ Head(wq) = k
  <2>1. \A k : InQueue(wq, k) <=> InQueue(wq', k) \/ Head(wq) = k
    BY <1>1, QueueTail
  <2>2. \A k : InQueue(wq, k)' <=> InQueue(wq', k)
    BY DEF InQueue
  <2>3. QED
    BY <1>3, <2>1, <2>2 DEF Handed
<1>5. ASSUME NEW n \in Nodes, NEW m \in Nodes, Urgent(n, m), Trails(n, m)
      PROVE  Trails(n, m)'
  <2>1. \A i : EarlierIn(taskQ, n, i)' <=> EarlierIn(taskQ, n, i)
    BY <1>1 DEF EarlierIn
  <2>2. \A i \in DOMAIN wq : wq[i] = m => Handed(n) \/ EarlierIn(wq, n, i)
    BY <1>5 DEF Trails
  <2>3. /\ Head(wq) = m => Handed(n)
        /\ \A i \in DOMAIN wq' : wq'[i] = m => Handed(n) \/ Head(wq) = n \/ EarlierIn(wq', n, i)
    BY <1>1, <2>2, EarlierTail
  <2>4. \A i : EarlierIn(wq, n, i)' <=> EarlierIn(wq', n, i)
    BY DEF EarlierIn
  <2>5. ASSUME NEW u \in Threads, pc'[u] \in {"ref", "push"}, hand'[u] = m
        PROVE  Handed(n) \/ InQueue(wq, n)
    BY <1>1, <1>2, <1>5, <2>5 DEF Trails
  <2>6. Handed(n) => AtBegin(n) \/ InQueue(taskQ, n)
    BY <1>3 DEF Handed
  <2>7. QED
    BY <1>1, <1>3, <1>4, <1>5, <2>1, <2>3, <2>4, <2>5, <2>6 DEF Trails
<1>6. QED
  BY <1>1, <1>5, QueueingMoves

\* And submits it to the pool before it pops the next one.
LEMMA SubmitQueues ==
  ASSUME AllStatic, OneByOne, IInv, Places, Queueing, NEW t \in Threads, InvokeNode(t)
  PROVE  Queueing'
<1>1. /\ pc[t] = "go" /\ pc'[t] = "loop" /\ Steps(t, "loop") /\ hand[t] \in Nodes
      /\ taskQ \in Seq(Nodes) /\ taskQ' = Append(taskQ, hand[t])
      /\ UNCHANGED <<wq, slot, ran, canceled>>
  BY InvokeNodeSteps DEF InvokeNode, GoPool!Submit, graphVars, histVars, IInv, TypeOK, QueueTypes,
                         GoPool!TypeOK
<1>2. ASSUME NEW u \in Threads, u /= t
      PROVE  /\ pc[u] /= "go" /\ pc'[u] /= "go"
             /\ pc'[u] \in {"ref", "push"} <=> pc[u] \in {"ref", "push"}
             /\ pc'[u] = "begin" <=> pc[u] = "begin"
             /\ hand'[u] = hand[u]
  <2>1. t \in Callers
    BY <1>1, NeverDrives
  <2>2. u \in Workers
    BY <1>2, <2>1, TwoThreads
  <2>3. pc[u] /= "go"
    BY <2>2, NeverDrives
  <2>4. QED
    BY <1>1, <1>2, <2>3, OthersStay DEF Steps
<1>3. \A k : /\ AtBegin(k)' <=> AtBegin(k)
             /\ InQueue(wq, k)' <=> InQueue(wq, k)
             /\ ~Popped(k)'
             /\ Popped(k) <=> hand[t] = k
  <2>1. \A k : AtBegin(k)' <=> AtBegin(k)
    BY <1>1, <1>2 DEF AtBegin
  <2>2. \A k : ~Popped(k)' /\ (Popped(k) <=> hand[t] = k)
    BY <1>1, <1>2 DEF Popped
  <2>3. QED
    BY <1>1, <2>1, <2>2 DEF InQueue
<1>4. \A k : /\ Handed(k)' <=> Handed(k)
             /\ InQueue(taskQ, k)' <=> InQueue(taskQ, k) \/ Popped(k)
  <2>1. \A k : InQueue(taskQ', k) <=> InQueue(taskQ, k) \/ hand[t] = k
    BY <1>1, QueueAppend
  <2>2. \A k : InQueue(taskQ, k)' <=> InQueue(taskQ', k)
    BY DEF InQueue
  <2>3. QED
    BY <1>3, <2>1, <2>2 DEF Handed
<1>5. ASSUME NEW n \in Nodes, NEW m \in Nodes, Urgent(n, m), Trails(n, m)
      PROVE  Trails(n, m)'
  <2>1. \A i : EarlierIn(wq, n, i)' <=> EarlierIn(wq, n, i)
    BY <1>1 DEF EarlierIn
  <2>2. \A i \in DOMAIN taskQ' : taskQ'[i] = m => AtBegin(n) \/ EarlierIn(taskQ', n, i)
    <3>1. \A i \in DOMAIN taskQ : taskQ[i] = m => AtBegin(n) \/ EarlierIn(taskQ, n, i)
      BY <1>5 DEF Trails
    <3>2. hand[t] = m => AtBegin(n) \/ InQueue(taskQ, n)
      BY <1>3, <1>5 DEF Trails
    <3>3. QED
      BY <1>1, <3>1, <3>2, EarlierAppend
  <2>3. \A i : EarlierIn(taskQ, n, i)' <=> EarlierIn(taskQ', n, i)
    BY DEF EarlierIn
  <2>4. ASSUME NEW u \in Threads, pc'[u] \in {"ref", "push"}, hand'[u] = m
        PROVE  Handed(n) \/ InQueue(wq, n)
    BY <1>1, <1>2, <1>5, <2>4 DEF Trails
  <2>5. QED
    BY <1>1, <1>3, <1>4, <1>5, <2>1, <2>2, <2>3, <2>4 DEF Trails
<1>6. QED
  BY <1>1, <1>5, QueueingMoves

\* The worker takes the node that was submitted first.
LEMMA TakeQueues ==
  ASSUME OneByOne, IInv, Queueing, NEW w \in Workers, TakeTask(w)
  PROVE  Queueing'
<1>1. /\ pc[w] = "idle" /\ pc'[w] = "begin" /\ Steps(w, "begin") /\ slot'[w] = Head(taskQ)
      /\ taskQ \in Seq(Nodes) /\ taskQ /= <<>> /\ taskQ' = Tail(taskQ)
      /\ UNCHANGED <<wq, ran, canceled, hand>>
  BY TakeTaskSteps DEF TakeTask, graphVars, histVars
<1>2. ASSUME NEW u \in Threads
      PROVE  /\ pc'[u] = "go" <=> pc[u] = "go"
             /\ pc'[u] \in {"ref", "push"} <=> pc[u] \in {"ref", "push"}
  BY <1>1, OthersStay
<1>3. \A k : /\ ~AtBegin(k)
             /\ AtBegin(k)' <=> Head(taskQ) = k
             /\ Popped(k)' <=> Popped(k)
             /\ InQueue(wq, k)' <=> InQueue(wq, k)
  <2>1. \A k : ~AtBegin(k) /\ (AtBegin(k)' <=> Head(taskQ) = k)
    BY <1>1, TwoThreads DEF AtBegin
  <2>2. \A k : Popped(k)' <=> Popped(k)
    BY <1>1, <1>2 DEF Popped
  <2>3. QED
    BY <1>1, <2>1, <2>2 DEF InQueue
<1>4. \A k : /\ Handed(k)' <=> Handed(k)
             /\ InQueue(taskQ, k) <=> InQueue(taskQ, k)' \/ Head(taskQ) = k
  <2>1. \A k : InQueue(taskQ, k) <=> InQueue(taskQ', k) \/ Head(taskQ) = k
    BY <1>1, QueueTail
  <2>2. \A k : InQueue(taskQ, k)' <=> InQueue(taskQ', k)
    BY DEF InQueue
  <2>3. QED
    BY <1>3, <2>1, <2>2 DEF Handed
<1>5. ASSUME NEW n \in Nodes, NEW m \in Nodes, Urgent(n, m), Trails(n, m)
      PROVE  Trails(n, m)'
  <2>1. \A i : EarlierIn(wq, n, i)' <=> EarlierIn(wq, n, i)
    BY <1>1 DEF EarlierIn
  <2>2. \A i \in DOMAIN taskQ : taskQ[i] = m => AtBegin(n) \/ EarlierIn(taskQ, n, i)
    BY <1>5 DEF Trails
  <2>3. /\ Head(taskQ) = m => AtBegin(n)
        /\ \A i \in DOMAIN taskQ' : taskQ'[i] = m => AtBegin(n) \/ Head(taskQ) = n \/ EarlierIn(taskQ', n, i)
    BY <1>1, <2>2, EarlierTail
  <2>4. \A i : EarlierIn(taskQ, n, i)' <=> EarlierIn(taskQ', n, i)
    BY DEF EarlierIn
  <2>5. ASSUME NEW u \in Threads, pc'[u] \in {"ref", "push"}, hand'[u] = m
        PROVE  Handed(n) \/ InQueue(wq, n)
    BY <1>1, <1>2, <1>5, <2>5 DEF Trails
  <2>6. Popped(m) => AtBegin(n) \/ InQueue(taskQ, n)
    BY <1>5 DEF Trails
  <2>7. QED
    BY <1>1, <1>3, <1>4, <1>5, <2>1, <2>3, <2>4, <2>5, <2>6 DEF Trails
<1>6. QED
  BY <1>1, <1>5, QueueingMoves

\* A node that begins is more urgent than those of its pairs that have not begun, and
\* is then nowhere on the way.
LEMMA BeginQueues ==
  ASSUME AllStatic, OneByOne, NEW d \in [Graphs -> Nat], Before(d), Queueing,
         NEW w \in Workers, Begin(w)
  PROVE  Queueing'
<1> DEFINE k == slot[w]
<1>1. /\ IInv /\ pc[w] = "begin" /\ k \in Nodes /\ Typ[k] = "static" /\ graphOf[k] \in Graphs
      /\ Steps(w, pc'[w]) /\ pc'[w] \in {"handle", "drop", "resetup"}
      /\ UNCHANGED <<wq, taskQ, slot, hand, canceled>>
  <2>1. IInv /\ pc[w] = "begin" /\ k \in Nodes /\ graphOf[k] \in Graphs
    BY SlotIsNode DEF Begin, Before
  <2>2. Typ[k] = "static"
    BY <2>1 DEF AllStatic
  <2>3. QED
    BY <2>1, <2>2, BeginSteps, DeferredByType DEF Begin, poolVars, graphVars
<1>2. /\ canceled[graphOf[k]] => ran' = ran
      /\ ~canceled[graphOf[k]] => ran' = [ran EXCEPT ![k] = @ + 1]
      /\ ran \in [Nodes -> Nat]
  BY <1>1 DEF Begin, IInv, TypeOK, NodeTypes
<1>3. ~canceled[graphOf[k]] => Only(w, k)
  <2>1. NoConditions
    BY DEF AllStatic, NoConditions
  <2>2. ~Spent(w)
    BY <1>1 DEF Spent, Publishing
  <2>3. QED
    BY <1>1, <2>1, <2>2, Alone DEF Before
<1>4. \A n : /\ AtBegin(n) <=> n = k
             /\ ~AtBegin(n)'
  BY <1>1, TwoThreads DEF AtBegin
<1> HIDE DEF k
<1>5. ASSUME NEW u \in Threads
      PROVE  /\ pc'[u] = "go" <=> pc[u] = "go"
             /\ pc'[u] \in {"ref", "push"} <=> pc[u] \in {"ref", "push"}
  BY <1>1, OthersStay
<1>6. \A n : /\ Popped(n)' <=> Popped(n)
             /\ InQueue(wq, n)' <=> InQueue(wq, n)
             /\ InQueue(taskQ, n)' <=> InQueue(taskQ, n)
  BY <1>1, <1>5 DEF Popped, InQueue
<1>7. \A n : n /= k => (Handed(n)' <=> Handed(n))
  BY <1>4, <1>6 DEF Handed
<1>8. ASSUME NEW n \in Nodes, NEW m \in Nodes, n /= k, m /= k, Trails(n, m)
      PROVE  Trails(n, m)'
  <2>1. \A i : /\ EarlierIn(wq, n, i)' <=> EarlierIn(wq, n, i)
               /\ EarlierIn(taskQ, n, i)' <=> EarlierIn(taskQ, n, i)
    BY <1>1 DEF EarlierIn
  <2>2. ASSUME NEW u \in Threads, pc'[u] \in {"ref", "push"}, hand'[u] = m
        PROVE  Handed(n) \/ InQueue(wq, n)
    BY <1>1, <1>5, <1>8, <2>2 DEF Trails
  <2>3. QED
    BY <1>1, <1>4, <1>6, <1>7, <1>8, <2>1, <2>2 DEF Trails
<1>9. CASE canceled[graphOf[k]]
  <2>1. ASSUME NEW n \in Nodes, NEW m \in Nodes, Urgent(n, m), ~canceled[graphOf[n]], Trails(n, m)
        PROVE  Trails(n, m)'
    BY <1>8, <1>9, <2>1, SiblingsAlike
  <2>2. QED
    BY <1>1, <1>2, <1>9, <2>1, QueueingMoves
<1>10. CASE ~canceled[graphOf[k]]
  <2> SUFFICES ASSUME NEW n \in Nodes, NEW m \in Nodes, Urgent(n, m) PROVE Ahead(n, m)'
    BY DEF Queueing, Urgent, Siblings
  <2>1. /\ Ahead(n, m) /\ n /= m /\ graphOf[n] = graphOf[m]
        /\ ran[n] \in Nat /\ ran[m] \in Nat /\ ran'[k] = ran[k] + 1
        /\ \A p \in Nodes \ {k} : ran'[p] = ran[p]
    BY <1>1, <1>2, <1>10, SiblingsAlike DEF Queueing
  <2>2. CASE n = k
    BY <2>1, <2>2 DEF Ahead
  <2>3. CASE m = k
    <3>1. ran'[m] <= ran'[n]
      <4>1. ran[m] /= ran[n]
        BY <1>4, <1>10, <2>1, <2>3 DEF Ahead, Trails
      <4>2. QED
        BY <2>1, <2>3, <4>1 DEF Ahead
    <3>2. Trails(n, m)'
      <4>1. ~InQueue(wq, m) /\ ~InQueue(taskQ, m) /\ \A u \in Threads : ~(u \in InHand /\ hand[u] = m)
        BY <1>3, <1>10, <2>3 DEF Only
      <4>2. ~Popped(m)
        BY <4>1 DEF Popped, InHand
      <4>3. \A u \in Threads : ~(pc'[u] \in {"ref", "push"} /\ hand'[u] = m)
        BY <1>1, <1>5, <4>1 DEF InHand
      <4>4. QED
        BY <1>1, <1>4, <1>6, <4>1, <4>2, <4>3 DEF Trails, InQueue
    <3>3. QED
      BY <3>1, <3>2 DEF Ahead
  <2>4. CASE n /= k /\ m /= k
    <3>1. ran'[n] = ran[n] /\ ran'[m] = ran[m]
      BY <2>1, <2>4
    <3>2. QED
      BY <1>1, <1>8, <2>1, <2>4, <3>1 DEF Ahead
  <2>5. QED
    BY <2>2, <2>3, <2>4
<1>11. QED
  BY <1>9, <1>10

LEMMA QueueingNext ==
  ASSUME AllStatic, OneByOne, Origins, NEW d \in [Graphs -> Nat], Before(d), Queueing, [Next]_vars
  PROVE  Queueing'
<1>0. IInv /\ GInv /\ Places /\ \A g \in Graphs : canceled[g] => canceled'[g]
  BY CanceledGrows DEF Before, GInv
<1>1. ASSUME NEW c \in Callers, Run(c) \/ Wait(c) PROVE Queueing'
  <2>1. /\ UNCHANGED <<wq, taskQ, hand>> /\ ran' = ran /\ c \in Threads
        /\ pc[c] \in {"idle", "returned"}
    BY <1>1 DEF Run, Wait, poolVars, histVars
  <2>2. CASE Run(c)
    BY <1>0, <2>1, <2>2, RunSteps, QueueingQuiet
  <2>3. CASE Wait(c)
    BY <1>0, <2>1, <2>3, WaitSteps, QueueingQuiet
  <2>4. QED
    BY <1>1, <2>2, <2>3
<1>2. ASSUME NEW t \in Threads, GraphStep(t) PROVE Queueing'
  <2>1. CASE Reset(t)
    BY <1>0, <2>1, ResetSteps, QueueingQuiet DEF Reset, poolVars, histVars
  <2>2. CASE Setup(t)
    <3>1. /\ pc[t] = "entries" /\ UNCHANGED <<wq, taskQ, ran>>
          /\ Steps(t, pc'[t]) /\ pc'[t] \in {"loop", "schedule"}
      BY <1>0, <2>2, SetupSteps DEF Setup, poolVars, histVars
    <3>2. QED
      BY <1>0, <3>1, QueueingQuiet
  <2>3. CASE ScheduleAdd(t)
    BY <2>3, AddQueues
  <2>4. CASE ScheduleRef(t)
    BY <1>0, <2>4, ScheduleRefSteps, QueueingQuiet DEF ScheduleRef, poolVars, histVars
  <2>5. CASE SchedulePush(t)
    BY <1>0, <2>5, PushQueues
  <2>6. CASE ScheduleCanceled(t)
    BY <1>0, <2>6, ScheduleCanceledSteps, QueueingQuiet DEF ScheduleCanceled, poolVars, histVars
  <2>7. CASE InvokeLoop(t)
    BY <1>0, <2>7, InvokeLoopSteps, QueueingQuiet DEF InvokeLoop, poolVars, histVars
  <2>8. CASE InvokeLeave(t)
    BY <1>0, <2>8, InvokeLeaveSteps, QueueingQuiet DEF InvokeLeave, poolVars, histVars
  <2>9. CASE InvokePop(t)
    BY <1>0, <2>9, PopQueues
  <2>10. CASE InvokeNode(t)
    BY <1>0, <2>10, SubmitQueues
  <2>11. CASE GraphReturn(t)
    <3>1. /\ pc[t] = "return" /\ UNCHANGED <<wq, taskQ, ran>>
          /\ Steps(t, pc'[t]) /\ pc'[t] \in {"returned", "resetup", "drop"}
      BY <1>0, <2>11, GraphReturnSteps DEF GraphReturn, poolVars
    <3>2. QED
      BY <1>0, <3>1, QueueingQuiet
  <2>12. QED
    BY <1>2, <2>1, <2>2, <2>3, <2>4, <2>5, <2>6, <2>7, <2>8, <2>9, <2>10, <2>11
       DEF GraphStep, ScheduleStep, InvokeStep
<1>3. ASSUME NEW w \in Workers, WorkerStep(w) PROVE Queueing'
  <2>0. w \in Threads
    OBVIOUS
  <2>1. CASE TakeTask(w)
    BY <1>0, <2>1, TakeQueues
  <2>2. CASE Begin(w)
    BY <2>2, BeginQueues
  <2>3. CASE HandlerStep(w)
    <3>1. pc[w] = "handle" /\ slot[w] \in Nodes /\ Typ[slot[w]] = "static"
      BY <1>0, <2>3, SlotIsNode DEF AllStatic, HandlerStep, ReturnStatic, ReturnSubflow, ReturnCondition,
                                    ChoosePanic, HandlerPanic
    <3>2. pc' = Goto(w, Deferred(slot[w])) /\ UNCHANGED <<wq, taskQ, ran, hand, ret, todo, slot>>
      BY <2>3, <3>1 DEF HandlerStep, ReturnStatic, ReturnSubflow, ReturnCondition, ChoosePanic,
                        HandlerPanic, poolVars, histVars
    <3>3. Steps(w, Deferred(slot[w])) /\ pc'[w] \in {"drop", "resetup"}
      BY <1>0, <3>1, <3>2, DeferredSteps, DeferredByType
    <3>4. QED
      BY <1>0, <2>0, <3>1, <3>2, <3>3, QueueingQuiet
  <2>4. CASE Drop(w)
    BY <1>0, <2>0, <2>4, DropSteps, QueueingQuiet DEF Drop, poolVars, histVars
  <2>5. CASE CheckSuccessor(w)
    BY <1>0, <2>0, <2>5, CheckSuccessorSteps, QueueingQuiet DEF CheckSuccessor, poolVars, histVars
  <2>6. CASE Resetup(w)
    BY <1>0, <2>0, <2>6, ResetupSteps, QueueingQuiet DEF Resetup, poolVars, histVars
  <2>7. CASE Deref(w)
    BY <1>0, <2>0, <2>7, DerefSteps, QueueingQuiet DEF Deref, poolVars, histVars
  <2>8. CASE Done(w)
    BY <1>0, <2>0, <2>8, DoneSteps, QueueingQuiet DEF Done, GoPool!Finish, histVars
  <2>9. QED
    BY <1>3, <2>1, <2>2, <2>3, <2>4, <2>5, <2>6, <2>7, <2>8 DEF WorkerStep
<1>4. CASE UNCHANGED vars
  <2>1. UNCHANGED <<pc, hand, wq, taskQ, slot, ran>>
    BY <1>4 DEF vars, threadVars, poolVars, histVars
  <2>2. \A n : AtBegin(n)' <=> AtBegin(n)
    BY <2>1 DEF AtBegin
  <2>3. QED
    BY <1>0, <2>1, <2>2, QueueingStays
<1>5. QED
  BY <1>1, <1>2, <1>3, <1>4 DEF Next, Terminated

\* Nothing is claimed, handed or executed at first.
LEMMA QueueingInit ==
  ASSUME Init
  PROVE  Origins /\ Queueing
<1>1. /\ \A t \in Threads : todo[t] = {} /\ pc[t] = "idle"
      /\ wq = <<>> /\ taskQ = <<>> /\ \A n \in Nodes : ran[n] = 0
  BY DEF Init, GoPool!Init
<1>2. Origins
  BY <1>1 DEF Origins
<1>3. \A n, m : Trails(n, m)
  BY <1>1 DEF Trails, AtBegin, Popped
<1>4. QED
  BY <1>1, <1>2, <1>3 DEF Queueing, Ahead, Urgent

\* Of two nodes that become ready together the more urgent one is never executed
\* less often, in every flow of plain tasks without cycles, with one goroutine and one
\* client, however often the flow is run and whatever panics: the order in which
\* schedule() publishes is kept by both queues, and the client, who publishes the
\* entries, cannot come between the nodes that the goroutine publishes.
THEOREM UrgentFirst ==
  ASSUME AllStatic, OneByOne, Acyclic
  PROVE  Spec => []PriorityOrder
<1> DEFINE QInv == Origins /\ Queueing
<1>1. NoConditions
  BY DEF AllStatic, NoConditions
<1>2. AllInv /\ QInv /\ [Next]_vars => QInv'
  <2> SUFFICES ASSUME AllInv, QInv, [Next]_vars PROVE QInv'
    OBVIOUS
  <2>1. PICK d \in [Graphs -> Nat] : InFlow(d)
    BY DEF AllInv, FlowInv
  <2>2. Before(d)
    BY <2>1 DEF Before, AllInv, InFlow
  <2>3. QED
    BY <2>2, OriginsNext, QueueingNext DEF AllInv
<1>3. Init => QInv
  BY QueueingInit
<1>4. QInv => PriorityOrder
  BY DEF PriorityOrder, Queueing, Urgent, Ahead
<1> HIDE DEF QInv
<1>5. QED
  BY <1>1, <1>2, <1>3, <1>4, FlowInvariance, PTL DEF Spec
=============================================================================
