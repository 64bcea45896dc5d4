------------------------------ MODULE Executor ------------------------------
(***************************************************************************)
(* The scheduler of go-taskflow: executor.go with the execution graph      *)
(* (graph.go) and its nodes (node.go).                                     *)
(*                                                                         *)
(* Threads are the callers of Executor.Run and the goroutines of the pool. *)
(* A caller runs scheduleGraph on the root graph of its flow; a pool       *)
(* worker runs the closure of one node, and a worker that executes a       *)
(* subflow node also runs scheduleGraph on the subflow's graph, blocking   *)
(* its goroutine meanwhile.  Every thread is a program counter pc[t]; a    *)
(* step is one access to shared state, or several made under one lock.     *)
(* The goroutine pool is the abstract one of Pool.tla.                     *)
(*                                                                         *)
(* A definition marked "Mutant" is a wrong version of the one that follows *)
(* it, which PROJECT.json names to show that a property can fail.          *)
(*                                                                         *)
(* The user's code (task handlers) is the environment: it may return or,   *)
(* for the nodes of MayPanic, panic; a condition's handler returns a       *)
(* number given by predict.                                                *)
(***************************************************************************)
EXTENDS Integers, Sequences, FiniteSets

CONSTANTS
  Nodes,           \* the tasks of all flows, those of subflows included
  Graphs,          \* one eGraph per flow and per subflow node
  Callers,         \* client goroutines calling Run and Wait
  Workers,         \* goroutines of the pool
  None,
  concurrency,     \* NewExecutor's argument, the capacity of the pool
  graphOf,         \* innerNode.g
  Typ,             \* innerNode.Typ
  successors,      \* innerNode.successors
  mapper,          \* Condition.mapper: choice i is mapper[n][i + 1]
  priority,        \* innerNode.priority, 1 is HIGH
  subgraph,        \* Subflow.g of a subflow node
  root,            \* the graph of the flow each caller runs
  predict,         \* what a condition returns: predict[n][k] is the set of
                   \* answers its k-th call may give (the last one repeats)
  MayPanic,        \* nodes whose handler may panic
  MaxRuns          \* bound: calls of Run made by each caller

Threads == Callers \cup Workers

ASSUME ThreadsAssumption ==
  /\ Callers \cap Workers = {}
  /\ None \notin Nodes \cup Threads
  /\ IsFiniteSet(Callers) /\ IsFiniteSet(Workers) /\ IsFiniteSet(Nodes)

\* NewExecutor panics when concurrency is 0.
ASSUME ConcurrencyAssumption ==
  concurrency \in Nat \ {0} /\ concurrency <= Cardinality(Workers)

ASSUME FlowAssumption ==
  /\ graphOf \in [Nodes -> Graphs]
  /\ Typ \in [Nodes -> {"static", "subflow", "condition"}]
  /\ successors \in [Nodes -> Seq(Nodes)]
  /\ mapper \in [Nodes -> Seq(Nodes)]
  /\ priority \in [Nodes -> Nat]
  /\ subgraph \in [Nodes -> Graphs]
  /\ root \in [Callers -> Graphs]
  /\ \A c, d \in Callers : c /= d => root[c] /= root[d]
  /\ MayPanic \subseteq Nodes
  /\ MaxRuns \in Nat

\* NewSubflow makes a graph for each subflow.  Edges join tasks of one graph, and
\* the mapper of a condition is made with its edges.
ASSUME NestingAssumption ==
  /\ \A n \in Nodes : \A i \in DOMAIN successors[n] : graphOf[successors[n][i]] = graphOf[n]
  /\ \A n \in Nodes : \A i \in DOMAIN mapper[n] :
       \E j \in DOMAIN successors[n] : successors[n][j] = mapper[n][i]
  /\ \A o \in Nodes : Typ[o] = "subflow" =>
       /\ \A c \in Callers : subgraph[o] /= root[c]
       /\ \A p \in Nodes : Typ[p] = "subflow" /\ p /= o => subgraph[p] /= subgraph[o]

\* A subflow is made by a task of the graph around it: no chain of subflows, each
\* inside the next, ends in itself.
ASSUME FoundedAssumption ==
  \A S \in (SUBSET Nodes) \ {{}} :
    \E n \in S : \A o \in S : Typ[o] = "subflow" => subgraph[o] /= graphOf[n]

ASSUME PredictAssumption ==
  \A n \in Nodes : Typ[n] = "condition" =>
    predict[n] \in Seq(SUBSET Nat) \ {<<>>}

(***************************************************************************)
(* The shape of a flow.                                                    *)
(***************************************************************************)

\* innerNode.dependents, one element for each edge into n: <<p, i>> stands for
\* the i-th entry of p.successors.
dependents ==
  [n \in Nodes |->
     UNION {{<<p, i>> : i \in {j \in DOMAIN successors[p] : successors[p][j] = n}} : p \in Nodes}]

\* Mutant: setup also counts the conditions.
allDegree == [n \in Nodes |-> Cardinality(dependents[n])]

\* How many derefs innerNode.setup makes n wait for: condition predecessors
\* do not count.
strongDegree ==
  [n \in Nodes |-> Cardinality({e \in dependents[n] : Typ[e[1]] /= "condition"})]

VARIABLES
  \* threads
  pc, ret,        \* where a thread is, and where schedule() returns to
  todo,           \* nodes that schedule() has still to publish
  idx,            \* position in the loop over the successors
  hand,           \* node between two structures, in a local variable
  slot,           \* Pool: the node a worker executes
  \* executor
  wq, taskQ,      \* executor.wq; Pool: submissions not yet started
  mu,             \* holder of executor.mu
  wg,             \* executor.wg
  \* graphs
  L,              \* holder of scheCond.L
  gJoin, canceled, instantiated,
  \* nodes
  nJoin, state,
  \* history, also read by the handlers: handler calls and completions
  ran, fin, runs

threadVars == <<pc, ret, todo, idx, hand>>
poolVars   == <<taskQ, slot>>
graphVars  == <<gJoin, canceled, instantiated>>
nodeVars   == <<nJoin, state>>
histVars   == <<ran, fin, runs>>
vars == <<threadVars, poolVars, wq, mu, wg, L, graphVars, nodeVars, histVars>>

GoPool == INSTANCE Pool WITH Jobs <- Nodes, cap <- concurrency

PCs == {"idle", "setup", "entries", "schedule", "ref", "push", "loop", "waiting", "pop", "go", "return",
        "returned", "begin", "handle", "drop", "check", "resetup", "deref", "done"}

Init ==
  /\ pc = [t \in Threads |-> "idle"]
  /\ ret = [t \in Threads |-> "loop"]
  /\ todo = [t \in Threads |-> {}]
  /\ idx = [t \in Threads |-> 1]
  /\ hand = [t \in Threads |-> None]
  /\ GoPool!Init
  /\ wq = <<>> /\ mu = None /\ wg = 0
  /\ L = [g \in Graphs |-> None]
  /\ gJoin = [g \in Graphs |-> 0]
  /\ canceled = [g \in Graphs |-> FALSE]
  /\ instantiated = [g \in Graphs |-> \E c \in Callers : root[c] = g]
  /\ nJoin = [n \in Nodes |-> 0]
  /\ state = [n \in Nodes |-> "new"]
  /\ ran = [n \in Nodes |-> 0]
  /\ fin = [n \in Nodes |-> 0]
  /\ runs = [c \in Callers |-> 0]

-----------------------------------------------------------------------------
\* The graph whose tasks thread t drives with invokeGraph.
Invoked(t) == IF t \in Callers THEN root[t] ELSE subgraph[slot[t]]

\* eGraph.nodes: empty until the subflow's instantiate function has run.
NodesIn(g) == {n \in Nodes : graphOf[n] = g /\ instantiated[g]}

Goto(t, l) == [pc EXCEPT ![t] = l]

\* scheCond.Signal(), made by a step that sets the program counters to f: one
\* waiter, if there is one, competes for the locks again.
Waiters(g) == {t \in Threads : pc[t] = "waiting" /\ Invoked(t) = g}

\* Mutant: no signal.
SignalNobody(g, f) == {f}

Signal(g, f) ==
  IF Waiters(g) = {} THEN {f} ELSE {[f EXCEPT ![t] = "loop"] : t \in Waiters(g)}

\* Mutant: no sort.
Unsorted(S) == S

\* slices.SortFunc by priority, then a loop over the result: the next element is
\* any of the most urgent ones left (the sort is not stable).
MostUrgent(S) == {n \in S : \A m \in S : priority[n] <= priority[m]}

\* Mutant: a node with nothing to schedule does not call deref().
SchedulingOnly(S, r) == IF S /= {} THEN "schedule" ELSE IF r = "deref" THEN "done" ELSE r

\* Where schedule(S...) starts when it returns to r.
Scheduling(S, r) == IF S = {} THEN r ELSE "schedule"

-----------------------------------------------------------------------------
(***************************************************************************)
(* The client.                                                             *)
(***************************************************************************)

\* A client may call Run again without calling Wait first.
Run(c) ==
  /\ pc[c] \in {"idle", "returned"}
  /\ runs[c] < MaxRuns
  /\ runs' = [runs EXCEPT ![c] = @ + 1]
  /\ pc' = Goto(c, "setup")
  /\ UNCHANGED <<ret, todo, idx, hand, poolVars, wq, mu, wg, L, graphVars, nodeVars, ran, fin>>

Wait(c) ==
  /\ pc[c] = "returned"
  /\ wg = 0
  /\ pc' = Goto(c, "idle")
  /\ UNCHANGED <<ret, todo, idx, hand, poolVars, wq, mu, wg, L, graphVars, nodeVars, histVars>>

-----------------------------------------------------------------------------
(***************************************************************************)
(* scheduleGraph and invokeGraph, run by a caller or by the worker of a    *)
(* subflow node.                                                           *)
(***************************************************************************)

\* g.setup() begins with g.reset(): the counters go to zero, without a lock.
Reset(t) ==
  LET g == Invoked(t) IN
  /\ pc[t] = "setup"
  /\ gJoin' = [gJoin EXCEPT ![g] = 0]
  /\ nJoin' = [n \in Nodes |-> IF n \in NodesIn(g) THEN 0 ELSE nJoin[n]]
  /\ pc' = Goto(t, "entries")
  /\ UNCHANGED <<ret, todo, idx, hand, poolVars, wq, mu, wg, L, canceled, instantiated, state,
                 histVars>>

\* Mutant: a node that only conditions precede is an entry.
SetupByCount(t) ==
  LET S == NodesIn(Invoked(t))
      entries == {n \in S : strongDegree[n] = 0}
  IN
  /\ pc[t] = "entries"
  /\ nJoin' = [n \in Nodes |-> IF n \in S THEN nJoin[n] + strongDegree[n] ELSE nJoin[n]]
  /\ state' = [n \in Nodes |-> IF n \in S THEN "idle" ELSE state[n]]
  /\ todo' = [todo EXCEPT ![t] = entries]
  /\ ret' = [ret EXCEPT ![t] = "loop"]
  /\ pc' = Goto(t, Scheduling(entries, "loop"))
  /\ UNCHANGED <<idx, hand, poolVars, wq, mu, wg, L, graphVars, histVars>>

\* The rest of g.setup(): setup() every node, collect the entries.
Setup(t) ==
  LET S == NodesIn(Invoked(t))
      entries == {n \in S : dependents[n] = {}}
  IN
  /\ pc[t] = "entries"
  /\ nJoin' = [n \in Nodes |-> IF n \in S THEN nJoin[n] + strongDegree[n] ELSE nJoin[n]]
  /\ state' = [n \in Nodes |-> IF n \in S THEN "idle" ELSE state[n]]
  /\ todo' = [todo EXCEPT ![t] = entries]
  /\ ret' = [ret EXCEPT ![t] = "loop"]
  /\ pc' = Goto(t, Scheduling(entries, "loop"))
  /\ UNCHANGED <<idx, hand, poolVars, wq, mu, wg, L, graphVars, histVars>>

\* One turn of schedule()'s loop.  The graph is not canceled: wg.Add(1).
ScheduleAdd(t) ==
  /\ pc[t] = "schedule"
  /\ \E n \in MostUrgent(todo[t]) :
       /\ ~canceled[graphOf[n]]
       /\ hand' = [hand EXCEPT ![t] = n]
       /\ todo' = [todo EXCEPT ![t] = @ \ {n}]
  /\ wg' = wg + 1
  /\ pc' = Goto(t, "ref")
  /\ UNCHANGED <<ret, idx, poolVars, wq, mu, L, graphVars, nodeVars, histVars>>

\* Lock L, ref().
ScheduleRef(t) ==
  LET g == graphOf[hand[t]] IN
  /\ pc[t] = "ref"
  /\ L[g] = None
  /\ L' = [L EXCEPT ![g] = t]
  /\ gJoin' = [gJoin EXCEPT ![g] = @ + 1]
  /\ pc' = Goto(t, "push")
  /\ UNCHANGED <<ret, todo, idx, hand, poolVars, wq, mu, wg, canceled, instantiated, nodeVars,
                 histVars>>

\* pushIntoQueue, Signal, unlock L.
SchedulePush(t) ==
  /\ pc[t] = "push"
  /\ mu = None
  /\ wq' = Append(wq, hand[t])
  /\ hand' = [hand EXCEPT ![t] = None]
  /\ L' = [L EXCEPT ![graphOf[hand[t]]] = None]
  /\ pc' \in Signal(graphOf[hand[t]], Goto(t, Scheduling(todo[t], ret[t])))
  /\ UNCHANGED <<ret, todo, idx, poolVars, mu, wg, graphVars, nodeVars, histVars>>

\* schedule() finds the graph canceled: signal it and drop the other nodes.
ScheduleCanceled(t) ==
  /\ pc[t] = "schedule"
  /\ \E n \in MostUrgent(todo[t]) :
       /\ canceled[graphOf[n]]
       /\ L[graphOf[n]] = None
       /\ pc' \in Signal(graphOf[n], Goto(t, ret[t]))
  /\ todo' = [todo EXCEPT ![t] = {}]
  /\ UNCHANGED <<ret, idx, hand, poolVars, wq, mu, wg, L, graphVars, nodeVars, histVars>>

\* Mutant: invokeGraph never waits.
NeverWaits(g) == FALSE

\* invokeGraph's waiting condition, evaluated with L and mu held.
NothingToDo(g) == gJoin[g] /= 0 /\ wq = <<>> /\ ~canceled[g]

\* Lock L and mu and evaluate it: scheCond.Wait() gives both up; otherwise L is
\* given up and mu kept.
InvokeLoop(t) ==
  /\ pc[t] = "loop"
  /\ L[Invoked(t)] = None
  /\ mu = None
  /\ \/ /\ NothingToDo(Invoked(t))
        /\ pc' = Goto(t, "waiting")
        /\ UNCHANGED mu
     \/ /\ ~NothingToDo(Invoked(t))
        /\ pc' = Goto(t, "pop")
        /\ mu' = t
  /\ UNCHANGED <<ret, todo, idx, hand, poolVars, wq, wg, L, graphVars, nodeVars, histVars>>

\* Mutants: invokeGraph leaves with one node to go; it misses a cancellation.
LeavesEarly(g) == gJoin[g] <= 1 \/ canceled[g]
LeavesAtZero(g) == gJoin[g] = 0

\* The condition tested a second time, L no longer held: leave the loop.
Leaving(g) == gJoin[g] = 0 \/ canceled[g]

InvokeLeave(t) ==
  /\ pc[t] = "pop"
  /\ Leaving(Invoked(t))
  /\ mu' = None
  /\ pc' = Goto(t, "return")
  /\ UNCHANGED <<ret, todo, idx, hand, poolVars, wq, wg, L, graphVars, nodeVars, histVars>>

\* Mutant: the loop looks at the first node (Queue.Top) and leaves it there.
InvokeTop(t) ==
  /\ pc[t] = "pop"
  /\ ~Leaving(Invoked(t))
  /\ wq /= <<>>
  /\ hand' = [hand EXCEPT ![t] = Head(wq)]
  /\ mu' = None
  /\ pc' = Goto(t, "go")
  /\ UNCHANGED <<ret, todo, idx, poolVars, wq, wg, L, graphVars, nodeVars, histVars>>

\* wq.Pop() panics on an empty queue: PopSafe says that this guard never blocks.
InvokePop(t) ==
  /\ pc[t] = "pop"
  /\ ~Leaving(Invoked(t))
  /\ wq /= <<>>
  /\ hand' = [hand EXCEPT ![t] = Head(wq)]
  /\ wq' = Tail(wq)
  /\ mu' = None
  /\ pc' = Goto(t, "go")
  /\ UNCHANGED <<ret, todo, idx, poolVars, wg, L, graphVars, nodeVars, histVars>>

\* invokeNode: hand the closure of the node to the pool.
InvokeNode(t) ==
  /\ pc[t] = "go"
  /\ GoPool!Submit(hand[t])
  /\ hand' = [hand EXCEPT ![t] = None]
  /\ pc' = Goto(t, "loop")
  /\ UNCHANGED <<ret, todo, idx, wq, mu, wg, L, graphVars, nodeVars, histVars>>

\* Leaving node.drop(): the code that follows is skipped when there are no
\* successors.
Dropping(n) == IF successors[n] = <<>> THEN "resetup" ELSE "drop"

\* Mutant: scheduleGraph ignores the result of invokeGraph.
CancelsNothing(w) == {}

\* What scheduleGraph cancels: the graph around a canceled subflow.
Cancels(w) == IF canceled[Invoked(w)] THEN {graphOf[slot[w]]} ELSE {}

\* invokeGraph has returned.
GraphReturn(t) ==
  LET g == Invoked(t) IN
  /\ pc[t] = "return"
  /\ \/ /\ t \in Callers
        /\ pc' \in Signal(g, Goto(t, "returned"))
        /\ UNCHANGED <<canceled, fin>>
     \/ /\ t \in Workers
        /\ canceled' = [h \in Graphs |-> canceled[h] \/ h \in Cancels(t)]
        /\ pc' \in Signal(g, Goto(t, Dropping(slot[t])))
        /\ fin' = [fin EXCEPT ![slot[t]] = IF state[slot[t]] = "finished" THEN @ + 1 ELSE @]
  /\ UNCHANGED <<ret, todo, idx, hand, poolVars, wq, mu, wg, L, gJoin, instantiated, nodeVars,
                 ran, runs>>

-----------------------------------------------------------------------------
(***************************************************************************)
(* invokeStatic, invokeSubflow and invokeCondition, run by a pool worker.  *)
(***************************************************************************)

TakeTask(w) ==
  /\ pc[w] = "idle"
  /\ GoPool!Start(w)
  /\ pc' = Goto(w, "begin")
  /\ UNCHANGED <<ret, todo, idx, hand, wq, mu, wg, L, graphVars, nodeVars, histVars>>

\* Where the deferred function of n's closure starts.
Deferred(n) ==
  CASE Typ[n] = "static"    -> Dropping(n)
    [] Typ[n] = "subflow"   -> "setup"
    [] Typ[n] = "condition" -> "deref"

\* The handler of a subflow is called only once.
CallsHandler(n) == Typ[n] = "subflow" => ~instantiated[subgraph[n]]

Begin(w) ==
  LET n == slot[w] IN
  /\ pc[w] = "begin"
  /\ \/ /\ canceled[graphOf[n]]
        /\ pc' = Goto(w, Deferred(n))
        /\ UNCHANGED <<state, ran>>
     \/ /\ ~canceled[graphOf[n]]
        /\ pc' = Goto(w, "handle")
        /\ state' = [state EXCEPT ![n] = "running"]
        /\ ran' = [ran EXCEPT ![n] = @ + 1]
  /\ UNCHANGED <<ret, todo, idx, hand, poolVars, wq, mu, wg, L, graphVars, nJoin, fin, runs>>

ReturnStatic(w) ==
  LET n == slot[w] IN
  /\ pc[w] = "handle" /\ Typ[n] = "static"
  /\ state' = [state EXCEPT ![n] = "finished"]
  /\ fin' = [fin EXCEPT ![n] = @ + 1]
  /\ pc' = Goto(w, Deferred(n))
  /\ UNCHANGED <<ret, todo, idx, hand, poolVars, wq, mu, wg, L, graphVars, nJoin, ran, runs>>

\* The instantiate function has built the graph of the subflow (or had done so
\* in an earlier execution).  The subflow completes in GraphReturn.
ReturnSubflow(w) ==
  LET n == slot[w] IN
  /\ pc[w] = "handle" /\ Typ[n] = "subflow"
  /\ state' = [state EXCEPT ![n] = "finished"]
  /\ instantiated' = [instantiated EXCEPT ![subgraph[n]] = TRUE]
  /\ pc' = Goto(w, Deferred(n))
  /\ UNCHANGED <<ret, todo, idx, hand, poolVars, wq, mu, wg, L, gJoin, canceled, nJoin, histVars>>

\* The answers the current call of a condition's handler may give.
Answers(n) == predict[n][IF ran[n] <= Len(predict[n]) THEN ran[n] ELSE Len(predict[n])]

\* Mutant: a condition releases all its successors, as other tasks do.
ChosenAll(n, choice) == {mapper[n][i] : i \in DOMAIN mapper[n]}

Chosen(n, choice) == {mapper[n][choice + 1]}

\* A choice that names a successor schedules it, whatever its joinCounter.
ReturnCondition(w) ==
  LET n == slot[w] IN
  /\ pc[w] = "handle" /\ Typ[n] = "condition"
  /\ \E choice \in Answers(n) :
       /\ choice < Len(mapper[n])
       /\ todo' = [todo EXCEPT ![w] = Chosen(n, choice)]
  /\ state' = [state EXCEPT ![n] = "finished"]
  /\ fin' = [fin EXCEPT ![n] = @ + 1]
  /\ ret' = [ret EXCEPT ![w] = Deferred(n)]
  /\ pc' = Goto(w, "schedule")
  /\ UNCHANGED <<idx, hand, poolVars, wq, mu, wg, L, graphVars, nJoin, ran, runs>>

\* A choice past the successors panics: explicitly, after a second call of the
\* handler, when it exceeds their number; in schedule(nil) when it equals it.
ChoosePanic(w) ==
  LET n == slot[w] IN
  /\ pc[w] = "handle" /\ Typ[n] = "condition"
  /\ \E choice \in Answers(n) :
       \/ /\ choice > Len(mapper[n])
          /\ ran' = [ran EXCEPT ![n] = @ + 1]
          /\ UNCHANGED state
       \/ /\ choice = Len(mapper[n])
          /\ state' = [state EXCEPT ![n] = "finished"]
          /\ UNCHANGED ran
  /\ canceled' = [canceled EXCEPT ![graphOf[n]] = TRUE]
  /\ pc' = Goto(w, Deferred(n))
  /\ UNCHANGED <<ret, todo, idx, hand, poolVars, wq, mu, wg, L, gJoin, instantiated, nJoin,
                 fin, runs>>

\* Mutant: the deferred function recovers and cancels nothing.
PanicRecovered(w) ==
  LET n == slot[w] IN
  /\ pc[w] = "handle" /\ n \in MayPanic /\ CallsHandler(n)
  /\ pc' = Goto(w, Deferred(n))
  /\ UNCHANGED <<ret, todo, idx, hand, poolVars, wq, mu, wg, L, graphVars, nodeVars, histVars>>

\* The handler panics; the deferred function recovers and cancels the graph of
\* the node, for a subflow also the graph being built.
HandlerPanic(w) ==
  LET n == slot[w] IN
  /\ pc[w] = "handle" /\ n \in MayPanic /\ CallsHandler(n)
  /\ canceled' = [g \in Graphs |-> \/ canceled[g] \/ g = graphOf[n]
                                   \/ Typ[n] = "subflow" /\ g = subgraph[n]]
  /\ pc' = Goto(w, Deferred(n))
  /\ UNCHANGED <<ret, todo, idx, hand, poolVars, wq, mu, wg, L, gJoin, instantiated, nodeVars,
                 histVars>>

\* The next turn of a loop over the successors of n at l, or its exit to m.
NextSuccessor(w, n, l, m) ==
  IF idx[w] < Len(successors[n])
  THEN /\ idx' = [idx EXCEPT ![w] = @ + 1]
       /\ pc' = Goto(w, l)
  ELSE /\ idx' = [idx EXCEPT ![w] = 1]
       /\ pc' = Goto(w, m)

\* node.drop(): one turn of its loop.
Drop(w) ==
  LET n == slot[w] IN
  /\ pc[w] = "drop"
  /\ nJoin' = [nJoin EXCEPT ![successors[n][idx[w]]] = @ - 1]
  /\ NextSuccessor(w, n, "drop", "check")
  /\ UNCHANGED <<ret, todo, hand, poolVars, wq, mu, wg, L, graphVars, state, histVars>>

\* Mutants: the counter is not tested; the state is not tested.
ClaimsIdle(m) == state[m] = "idle"
ClaimsReady(m) == nJoin[m] = 0

\* sche_successors claims a successor under its lock if its counter is zero and
\* nobody else has claimed it.
Claimable(m) == nJoin[m] = 0 /\ state[m] = "idle"

CheckSuccessor(w) ==
  LET n == slot[w]
      m == successors[n][idx[w]]
  IN
  /\ pc[w] = "check"
  /\ IF Claimable(m)
     THEN /\ state' = [state EXCEPT ![m] = "waiting"]
          /\ todo' = [todo EXCEPT ![w] = @ \cup {m}]
     ELSE UNCHANGED <<state, todo>>
  /\ NextSuccessor(w, n, "check", "resetup")
  /\ UNCHANGED <<ret, hand, poolVars, wq, mu, wg, L, graphVars, nJoin, histVars>>

\* node.setup() after the execution, before the claimed successors are
\* published; for a condition it comes after schedule() and deref().
Resetup(w) ==
  LET n == slot[w] IN
  /\ pc[w] = "resetup"
  /\ state' = [state EXCEPT ![n] = "idle"]
  /\ nJoin' = [nJoin EXCEPT ![n] = @ + strongDegree[n]]
  /\ \/ /\ Typ[n] = "condition"
        /\ pc' = Goto(w, "done")
        /\ UNCHANGED ret
     \/ /\ Typ[n] /= "condition"
        /\ pc' = Goto(w, Scheduling(todo[w], "deref"))
        /\ ret' = [ret EXCEPT ![w] = "deref"]
  /\ UNCHANGED <<todo, idx, hand, poolVars, wq, mu, wg, L, graphVars, histVars>>

\* node.g.deref().
Deref(w) ==
  LET n == slot[w] IN
  /\ pc[w] = "deref"
  /\ L[graphOf[n]] = None
  /\ gJoin' = [gJoin EXCEPT ![graphOf[n]] = @ - 1]
  /\ pc' \in Signal(graphOf[n], Goto(w, IF Typ[n] = "condition" THEN "resetup" ELSE "done"))
  /\ UNCHANGED <<ret, todo, idx, hand, poolVars, wq, mu, wg, L, canceled, instantiated, nodeVars,
                 histVars>>

\* Mutants: wg.Done() is missing; it is called twice.
DoneNever(w) ==
  /\ pc[w] = "done"
  /\ GoPool!Finish(w)
  /\ pc' = Goto(w, "idle")
  /\ UNCHANGED <<ret, todo, idx, hand, wq, mu, wg, L, graphVars, nodeVars, histVars>>
DoneTwice(w) ==
  /\ pc[w] = "done"
  /\ wg' = wg - 2
  /\ GoPool!Finish(w)
  /\ pc' = Goto(w, "idle")
  /\ UNCHANGED <<ret, todo, idx, hand, wq, mu, L, graphVars, nodeVars, histVars>>

\* wg.Done(), the end of the closure.
Done(w) ==
  /\ pc[w] = "done"
  /\ wg' = wg - 1
  /\ GoPool!Finish(w)
  /\ pc' = Goto(w, "idle")
  /\ UNCHANGED <<ret, todo, idx, hand, wq, mu, L, graphVars, nodeVars, histVars>>

-----------------------------------------------------------------------------
ScheduleStep(t) == ScheduleAdd(t) \/ ScheduleRef(t) \/ SchedulePush(t) \/ ScheduleCanceled(t)
InvokeStep(t)   == InvokeLoop(t) \/ InvokeLeave(t) \/ InvokePop(t) \/ InvokeNode(t)
GraphStep(t)    == Reset(t) \/ Setup(t) \/ ScheduleStep(t) \/ InvokeStep(t) \/ GraphReturn(t)
HandlerStep(w)  == ReturnStatic(w) \/ ReturnSubflow(w) \/ ReturnCondition(w)
                   \/ ChoosePanic(w) \/ HandlerPanic(w)
WorkerStep(w)   == TakeTask(w) \/ Begin(w) \/ HandlerStep(w) \/ Drop(w) \/ CheckSuccessor(w)
                   \/ Resetup(w) \/ Deref(w) \/ Done(w)

\* Every caller has made its runs and waited for the last one.
AllDone == \A t \in Threads : pc[t] = "idle" /\ (t \in Callers => runs[t] = MaxRuns)
Terminated == AllDone /\ UNCHANGED vars

Next ==
  \/ \E c \in Callers : Run(c) \/ Wait(c)
  \/ \E t \in Threads : GraphStep(t)
  \/ \E w \in Workers : WorkerStep(w)
  \/ Terminated

\* The Go scheduler runs every goroutine that can run, mutexes are granted in
\* the end, handlers end, and a client calls Wait after Run.
Fairness ==
  /\ \A c \in Callers : WF_vars(Wait(c))
  /\ \A t \in Threads : WF_vars(GraphStep(t))
  /\ \A w \in Workers : WF_vars(WorkerStep(w))

Spec == Init /\ [][Next]_vars
FairSpec == Spec /\ Fairness

-----------------------------------------------------------------------------
(***************************************************************************)
(* Properties.                                                             *)
(***************************************************************************)

ThreadTypes ==
  /\ pc \in [Threads -> PCs]
  /\ ret \in [Threads -> {"loop", "deref"}]
  /\ todo \in [Threads -> SUBSET Nodes]
  /\ idx \in [Threads -> Nat \ {0}]
  /\ hand \in [Threads -> Nodes \cup {None}]

QueueTypes ==
  /\ GoPool!TypeOK
  /\ wq \in Seq(Nodes)
  /\ mu \in Threads \cup {None}
  /\ wg \in Nat

GraphTypes ==
  /\ L \in [Graphs -> Threads \cup {None}]
  /\ gJoin \in [Graphs -> Int]
  /\ canceled \in [Graphs -> BOOLEAN]
  /\ instantiated \in [Graphs -> BOOLEAN]

NodeTypes ==
  /\ nJoin \in [Nodes -> Int]
  /\ state \in [Nodes -> {"new", "idle", "waiting", "running", "finished"}]
  /\ ran \in [Nodes -> Nat]
  /\ fin \in [Nodes -> Nat]
  /\ runs \in [Callers -> Nat]

\* Every variable has its type; in particular executor.wg never goes below
\* zero, where sync.WaitGroup panics.
TypeOK == ThreadTypes /\ QueueTypes /\ GraphTypes /\ NodeTypes

\* Threads that hold a node on its way between two queues, counted in wg.
InHand == {t \in Threads : pc[t] \in {"ref", "push", "go"}}

\* executor.wg counts the nodes that are scheduled and not completed: those in
\* the two queues, those between them and those a worker executes.  So Wait
\* returns only when nothing is left, whoever else uses the executor, and
\* Done never comes before its Add.
WgAccounting ==
  wg = Len(wq) + Len(taskQ) + Cardinality(InHand) + Cardinality(GoPool!Running)

InGraph(s, g) == Cardinality({i \in DOMAIN s : graphOf[s[i]] = g})

\* A worker that has executed node.g.deref().
Released(w) ==
  \/ pc[w] = "done"
  \/ pc[w] = "resetup" /\ Typ[slot[w]] = "condition"

\* eGraph.joinCounter counts the nodes of the graph that are scheduled and not
\* released, as long as the graph is not canceled: this is what invokeGraph
\* takes for the end of the graph when it reaches zero.
JoinAccounting ==
  \A g \in Graphs : ~canceled[g] =>
    gJoin[g] = InGraph(wq, g) + InGraph(taskQ, g)
               + Cardinality({t \in InHand : pc[t] /= "ref" /\ graphOf[hand[t]] = g})
               + Cardinality({w \in GoPool!Running : graphOf[slot[w]] = g /\ ~Released(w)})

\* A thread between the call and the return of scheduleGraph.
Driving(t) ==
  \/ pc[t] \in {"setup", "entries", "loop", "waiting", "pop", "go", "return"}
  \/ pc[t] \in {"schedule", "ref", "push"} /\ ret[t] = "loop"

\* No graph is driven by two threads at once: scheduleGraph resets the counters
\* of a graph without a lock, which is right only if nobody uses them.
OneDriver ==
  \A t, u \in Threads : Driving(t) /\ Driving(u) /\ t /= u => Invoked(t) /= Invoked(u)

\* invokeGraph tests its condition again after it has given up scheCond.L, and
\* pops without testing the queue ("so here no need to lock up"): the
\* queue cannot have become empty, nor the graph busy again, in between.
PopSafe == \A t \in Threads : pc[t] = "pop" /\ ~Leaving(Invoked(t)) => wq /= <<>>

\* A node starts no more often than each of its predecessors has completed,
\* in this run and in the earlier ones.  (A node with a condition among its
\* predecessors does not wait.)
DepsRespected ==
  \A n \in Nodes :
    (\A e \in dependents[n] : Typ[e[1]] /= "condition") =>
      \A e \in dependents[n] : ran[n] <= fin[e[1]]

\* The handler of a node is never executed by two goroutines at once, although
\* several predecessors may schedule it.
NoOverlap ==
  \A v, w \in Workers : pc[v] = "handle" /\ pc[w] = "handle" /\ v /= w => slot[v] /= slot[w]

\* The nodes whose execution depends on no condition.
unconditional ==
  [n \in Nodes |-> \E S \in SUBSET Nodes :
     /\ n \in S
     /\ \A m \in S : \A e \in dependents[m] : e[1] \in S /\ Typ[e[1]] /= "condition"]

\* Run returns, without a panic, only when every such node of the flow has been
\* executed once for each Run.
RunComplete ==
  \A c \in Callers : pc[c] = "returned" /\ ~canceled[root[c]] =>
    \A n \in Nodes : unconditional[n] /\ graphOf[n] = root[c] => ran[n] = runs[c] /\ fin[n] = runs[c]

\* A subflow node completes only when every such node of the subflow has been
\* executed once for each of its own executions.
SubflowComplete ==
  \A o \in Nodes : Typ[o] = "subflow" /\ fin[o] = ran[o] /\ ~canceled[subgraph[o]] =>
    \A n \in Nodes : unconditional[n] /\ graphOf[n] = subgraph[o] => ran[n] = ran[o] /\ fin[n] = fin[o]

\* g and the graphs of the subflows in it, at every depth: the least set with g
\* that is closed under Encloses.
Encloses(g, h) == \E n \in Nodes : Typ[n] = "subflow" /\ graphOf[n] = g /\ subgraph[n] = h
Below(g) ==
  {h \in Graphs : \A S \in SUBSET Graphs :
     g \in S /\ (\A p \in S : \A q \in Graphs : Encloses(p, q) => q \in S) => h \in S}

\* Every call of n's handler has returned, with an answer that names a successor
\* if n is a condition.  (A subflow completes only when its graph has been driven;
\* the one call of its handler has returned when its graph is instantiated.)
HandlerReturned(n) ==
  IF Typ[n] = "subflow" THEN ran[n] > 0 => instantiated[subgraph[n]] ELSE fin[n] = ran[n]

\* No panic gets lost: when Run returns and its flow is not canceled, no graph of
\* the flow is canceled, however deep it is nested, and no handler in any of them
\* has panicked.
PanicPropagates ==
  \A c \in Callers : pc[c] = "returned" /\ ~canceled[root[c]] =>
    \A g \in Below(root[c]) :
      /\ ~canceled[g]
      /\ \A n \in Nodes : graphOf[n] = g => HandlerReturned(n)

\* Two nodes become ready together when both are entries of one graph or both
\* have the same node as their only predecessor.
Siblings(n, m) ==
  /\ graphOf[n] = graphOf[m]
  /\ {e[1] : e \in dependents[n]} = {e[1] : e \in dependents[m]}
  /\ Cardinality(dependents[n]) <= 1

\* Of two nodes that become ready together the more urgent one starts first
\* ("higher-priority tasks are executed first"): with a single worker and a
\* single caller.
PriorityOrder ==
  \A n, m \in Nodes : Siblings(n, m) /\ priority[n] < priority[m] => ran[m] <= ran[n]

\* A loop ends by a choice of its condition: when Run returns without a panic
\* every condition has been called until it gives its last answer.
LoopsRunToExit ==
  \A c \in Callers : pc[c] = "returned" /\ ~canceled[root[c]] =>
    \A n \in Nodes : Typ[n] = "condition" => ran[n] >= Len(predict[n])

\* The nodes that only condition n can release, and the handler calls of a set of
\* nodes.
Branches(n) == {m \in Nodes : dependents[m] /= {} /\ \A e \in dependents[m] : e[1] = n}
Executions(S) == UNION {{m} \X (1..ran[m]) : m \in S}

\* A condition releases one of its successors for each answer, not those it did
\* not choose; and all of them have been executed when Run returns.  (A condition
\* whose answer exceeds its successors is called once more before the panic, so
\* conditions are not counted when the graph is canceled.)
OneBranch ==
  \A n \in Nodes : Typ[n] = "condition" =>
    /\ LET S == {m \in Branches(n) : canceled[graphOf[n]] => Typ[m] /= "condition"}
       IN  Cardinality(Executions(S)) <= fin[n]
    /\ \A c \in Callers :
         /\ pc[c] = "returned" /\ root[c] = graphOf[n] /\ ~canceled[root[c]]
         /\ \A i \in DOMAIN successors[n] : successors[n][i] \in Branches(n)
         => Cardinality(Executions(Branches(n))) = fin[n]

\* The tasks of a subflow are executed only as part of an execution of the
\* subflow node: not when the node is skipped because its graph is canceled.
InnerFollowsOwner ==
  \A o, n \in Nodes :
    Typ[o] = "subflow" /\ graphOf[n] = subgraph[o] /\ unconditional[n] => ran[n] <= ran[o]

\* Run returns, whatever the other callers do and whether or not tasks panic.
RunReturns == \A c \in Callers : pc[c] = "setup" ~> pc[c] = "returned"

\* So does Wait.
WaitReturns == \A c \in Callers : pc[c] = "returned" ~> pc[c] = "idle"

\* What FlowSpec sees of a flow: the subflow node that each node belongs to, or
\* the caller that runs its flow.
owner ==
  [n \in Nodes |-> IF \E o \in Nodes : Typ[o] = "subflow" /\ subgraph[o] = graphOf[n]
                  THEN CHOOSE o \in Nodes : Typ[o] = "subflow" /\ subgraph[o] = graphOf[n]
                  ELSE None]
caller == [n \in Nodes |-> CHOOSE c \in Callers \cup {None} :
                            IF owner[n] = None THEN c /= None /\ root[c] = graphOf[n] ELSE c = None]
pred == [n \in Nodes |-> {e[1] : e \in dependents[n]}]

\* Flows without conditions and panics do what FlowSpec says: the handler of a
\* subflow has built its flow while the node is in state finished.
Flow ==
  INSTANCE FlowSpec WITH
    Subflows <- {n \in Nodes : Typ[n] = "subflow"},
    started  <- ran,
    finished <- fin,
    opened   <- [n \in Nodes |-> IF Typ[n] /= "subflow" THEN 0
                                ELSE IF state[n] = "finished" THEN ran[n] ELSE fin[n]]
ImplementsFlow == Flow!Spec
=============================================================================
