# go-taskflow in TLA+

Models, model checking and proofs of [go-taskflow](https://github.com/noneback/go-taskflow),
a library that executes graphs of tasks (static tasks, subflows, conditions) on a pool of
goroutines. Everything is translated from the Go source; paths below are relative to `src/`.

- [The system](#the-system)
- [The modules](#the-modules)
- [The runs](#the-runs)
- [Bounds, fairness, assumptions](#bounds-fairness-assumptions)
- [What is proved](#what-is-proved)
- [Disagreements found](#disagreements-found)
- [What is not modelled](#what-is-not-modelled)
- [Plan](#plan)

## The system

| Component | State | Operations | Interacts with |
|---|---|---|---|
| Executor (`executor.go`) | `wq`, the queue of scheduled nodes, under `mu`; `wg`, a WaitGroup; `pool` | `Run`, `Wait`; inside: `scheduleGraph`, `invokeGraph`, `schedule`, `sche_successors`, the closures of `invokeStatic`, `invokeSubflow`, `invokeCondition` | called by clients and, for subflows, by the goroutines of its own pool; reads and writes graphs and nodes |
| Execution graph (`graph.go`) | `joinCounter`, nodes scheduled and not completed; `scheCond`, a condition variable; `canceled`; `instantiated` | `setup`, `reset`, `ref`, `deref` | the loop of `invokeGraph` waits on `scheCond` |
| Node (`node.go`) | `joinCounter`, predecessors not yet completed; `state` | `setup`, `drop`, `ref`, `deref` | predecessors drop, several goroutines at once |
| Copool (`utils/copool.go`) | `taskQ`, `coworker`, `corun`, recycled task objects | `Go`/`CtxGo`, the goroutine's loop, panic handler | runs the closures |
| Queue (`utils/queue.go`) | ring buffer, head, tail, count | `Put`, `Pop`, `TryPop`, `Get`, `Top`, `resize` | both queues above |
| ObjectPool (`utils/obj_pool.go`) | a `sync.Pool` | `Get`, `Put` | Copool |
| Builder (`flow.go`, `task.go`, `taskflow.go`) | the graph under construction, `frozen` | `NewTask`, `NewSubflow`, `NewCondition`, `Precede`, `Succeed`, `Priority`, `Reset` | makes the input of the executor |
| Observer (`tracer.go`, `profiler.go`) | spans, trace events | `openSpan`, `closeSpan`, `draw` | called around every closure |
| Validator (`validator.go`) | a trace and a flow | `run` | reads both |
| Visualizer (`visualizer*.go`) | none | `Dump` | reads the flow |

How a flow is executed: `Run` sets up the counters of the graph, puts its entries in `wq`
and turns in `invokeGraph`: pop a node, hand its closure to the pool, until the graph's
`joinCounter` is zero or the graph is canceled. A closure calls the user's function, then
drops itself from the counters of its successors, claims those that became ready, puts them in
`wq`, and derefs the graph. A subflow's closure runs the same loop for the inner graph and
blocks its goroutine meanwhile. Every loop takes from the same `wq`, whatever graph a node
belongs to. A condition puts the successor that its function chose in `wq`, whatever its counter.

What is hard, with the properties it calls for:

- **Two counters and two queues, changed in separate steps.** `wg` and `joinCounter` are each
  incremented before the node is visible and decremented after its successors are.
  `WgAccounting`, `JoinAccounting`, `RunComplete`, `SubflowComplete`.
- **A condition checked, then used without the lock.** `invokeGraph` tests its condition a second
  time after releasing `scheCond.L` and pops without looking at the queue. `PopSafe`.
- **Counters set to zero without a lock.** `setup` and `reset` are right only if nobody uses the
  graph; nothing in the code says so. `OneDriver`.
- **One wake-up for a condition that several goroutines change.** `RunReturns`, `WaitReturns`.
- **Several predecessors finish at once.** `NoOverlap`, `DepsRespected`, `ImplementsFlow`.
- **Panics.** They cancel one graph after the other on the way out, and nothing takes the marks
  away again. `PanicPropagates`, `WaitReturns`, `InnerFollowsOwner`.
- **Loops.** Nodes are set up again while others drop on them. `OneBranch`, `LoopsRunToExit`.
- **Priorities across two queues.** `PriorityOrder`.
- **The pool's goroutines come and go.** `NoStranded`, `WorkersCounted`, `EveryJobStarts`,
  `ObjSafe`, `CorunCounts`, `ImplementsPool`.
- **A ring buffer that grows and shrinks with wrapped contents.** `NoStaleCells`, `ImplementsFifo`.
- **What the observer records, and when.** A span is closed before the task releases its
  successors, in two critical sections, while other workers record spans of the same task.
  `TraceOrder`, `EventPerExecution`, `ProfileExact`, `ParentsFirst`, `ParentIsOwner`.
- **Telling a skipped branch from a missing task.** The validator excuses chains of tasks behind
  a condition. `TraceValid`, `RunValidates`.
- **A flow that is changed and run again.** Each edge is kept at both ends and, for conditions, a third
  time in the mapper. `Mirrored`, `LabelsAreAnswers`, `DumpShowsEveryEdge`.

`PROJECT.json` lists these hazards at their lines of code.

## The modules

```
FlowSpec   what a flow promises            Pool   what a goroutine pool promises
    ^ implemented by                        ^  \ used by          ^ implemented by
Executor ----------------------------------/    Executor        Copool
    ^ extended by                                                Queue  implements  Fifo
Traced     the observer around each closure
    | instantiates
Validator  a trace against a flow          Builder   the construction of a flow
    ^ instantiated by                        ^ extended by
Lifecycle  built, run, reset, changed, validated, drawn ----instantiates---> Dot

TLC:    MCExecutor  MCTraced  MCQueue  MCLifecycle
TLAPS:  ExecutorProof <- SchedulerProof <- DriverProof <- FlowProof <- TracedProof
        CopoolProof  QueueProof  LifecycleProof
```

### Executor

Threads are the clients (`Callers`) and the goroutines of the pool (`Workers`). Each has a
program counter and the local variables of the code that matter:

| Variable | Code |
|---|---|
| `pc`, `ret` | position; `ret` is where `schedule` returns to: `invokeGraph`'s loop, or the rest of the closure |
| `todo`, `idx`, `hand` | the argument of `schedule` not yet published (`candidate`, `entries`, the chosen successor); index of the `range` over successors; node popped and not yet submitted, or counted and not yet queued |
| `slot` | the node whose closure a worker executes |
| `wq`, `mu`, `wg` | fields of `innerExecutorImpl`; `mu` is kept across steps only where the code does work under it |
| `L`, `gJoin`, `canceled`, `instantiated` | `eGraph.scheCond.L`, `joinCounter`, `canceled`, `instantiated` |
| `nJoin`, `state` | `innerNode.joinCounter`, `state` |
| `taskQ` | the pool's queue (of Pool) |
| `ran`, `fin`, `runs` | history: handler calls, completions, calls of `Run` |

A step is one access to shared state, or several made under one lock. The places where the
code gives up a lock, or reads something it will use later, are steps of their own:

- `schedule` is four actions: `ScheduleAdd` (`wg.Add`), `ScheduleRef` (lock `scheCond.L`,
  `joinCounter`), `SchedulePush` (lock `mu`, `Put`, `Signal`, unlock) and `ScheduleCanceled`.
- `invokeGraph` is `InvokeLoop` (lock both, test, wait or go on with `mu` alone), `InvokeLeave`
  or `InvokePop` (test again) and `InvokeNode`.
- `scheCond.Wait` is the program counter `"waiting"`; `Signal` moves one waiter back to
  `"loop"`, where it competes for the locks. A signal without a waiter is lost.
- `sche_successors` and `drop` advance one successor at a time (`Drop`, `CheckSuccessor`);
  `node.setup` (`Resetup`) is one step, since it runs under the node's lock, like the claim.
- `eGraph.setup` is two steps: `Reset`, which stores zero in the counters without a lock, and
  `Setup`, which adds each node's strong predecessors. In the code both go node by node; others
  touch nodes of the graph at that time only when `Run` is called again before `Wait` (a condition's
  `Resetup`) or after a cancellation, and a step of theirs on one node comes before, between or
  after the two steps on that node, all of which are explored.
- `Deferred`, `Dropping` give the order of the deferred functions, which differ: a condition
  calls `deref` before `setup`, the others after it.

`slices.SortFunc` is not stable: `MostUrgent` lets any of the most urgent nodes be next.
The user's handlers are the environment: a handler of `MayPanic` may panic, a condition answers
with a number of `predict`, and a subflow's handler builds its graph (`instantiated`).

### FlowSpec

The promise of a flow without conditions and panics: each `Run` executes each task once, after
those it succeeds; a subflow opens its tasks and completes after them. `Flow` in Executor is the
refinement mapping: `started` is `ran`, `finished` is `fin`, and a subflow has been opened when
its node is in state `finished`, the state it has while `scheduleGraph` runs.

### Pool and Copool

Pool has a queue and slots: `Submit`, `Start`, `Finish`. Executor uses these actions; the pool's
own steps are checked in Copool, which has the critical sections of `CtxGo` and of the
goroutine's loop, the objects of the `sync.Pool`, panics with a handler and without. The mapping
of `ImplementsPool` reads the queued functions through the recycled objects, so an object that
is given back too early shows up as a wrong job. Copool takes its queue as a sequence;
Queue shows that `utils.Queue` is one.

### Queue

The buffer, the masks (`Wrap`; MCQueue compares them with the bitwise operator for every size
the run reaches), `resize` with both cases of the copy. `Get` reads the queue for the mapping
to Fifo, so it is checked as well.

### Traced

Extends Executor by the observer. The closure of a worker opens its span with its first step
(`Open`) and closes it first of all in its deferred function: `AddSpan`, the profiler's
critical section, then `AddEvent`, the tracer's. Until both are done the worker takes no other
step, while everybody else goes on. `parents` runs beside `taskQ` and holds the `parentSpan` that
`invokeNode` put into each closure; `parent` and `panicked` are local to the closure. The actions
of Executor are used as they are, so Traced adds steps and restricts nothing else;
`TracedProof` proves that.

The trace is kept as a bag, `events`: how many of each task. The order of events, and their
`parent`, are stated of the states in which an event enters the trace (`Recording`): an
invariant that holds in every state of the trace's growth is a statement about its order.
Durations are counted in executions, each costs 1, which is what shows whether the profiler adds
them up. Tasks have different names.

### Validator and Dot

Constant modules: the validator's steps 1 to 5, one operator for each list of its result, over any
set of names; and the nodes and edges that `visualizeG` draws. Both are instantiated by the models
whose state they read. The loop that runs until nothing changes is an iteration as often as
there are tasks not executed, which is at least as often as it can change something.

### Builder and Lifecycle

Builder has one operator for each call that builds a flow. Lifecycle lets a client make these
calls in any order, run the flow, reset it, change it and run it again. A subflow's graph is built
by its handler (`Instantiate`, then calls for that graph, then `Instantiated`), once, while other
tasks wait; `frozen` keeps tasks out of the TaskFlow meanwhile and not out of the subflow.

A run in Lifecycle has the grain of a task: a task may start when the scheduler would put it
in `wq` (`Released`), starts at any time after that, once in a run, and drops when it
finishes. When a graph is canceled, any of its tasks that may start may already be in a queue:
`left` holds them (`Leaves`). They are skipped (`Skip`), and a subflow among them still drives its
graph if that has been built (`executor.go:150`). The loop of a canceled graph does not wait, so its subflow may finish
before its tasks. Lifecycle leaves out what Executor is about (interleavings within closures, counters,
loops that turn several times, a `Wait` that a task in the queue blocks for ever) and allows what
remains for all flows instead of a few: Executor fixes the flow and explores the schedule, Lifecycle
fixes the grain and explores the flows. A condition in a loop may choose several of its answers, one
for each turn it stands for. `edited` (edges were added after a run) is history.

## The runs

| Run | Question |
|---|---|
| `flow` | A diamond and a subflow joined at the end, run twice, two workers: `TypeOK`, `DepsRespected`, `NoOverlap`, `OneDriver`, `RunComplete`, `SubflowComplete`; `RunReturns`, `WaitReturns`; `ImplementsFlow` |
| `clients` | Two clients of one executor, panics in a task, in a subflow's handler and inside the subflow: `WgAccounting`, `JoinAccounting`, `PopSafe`, `RunReturns` |
| `branch` | A loop around a subflow that contains a subflow, run twice, three workers, panics at three depths (innermost task, subflow's handler, answers out of range), a tracer and a profiler: `OneBranch`, `JoinAccounting`, `OneDriver`, `PanicPropagates`; `TracedTypeOK`, `TraceOrder`, `EventPerExecution`, `ParentsFirst`, `ProfileExact`, `TraceValid` |
| `single` | One worker, a loop whose last answer may be out of range, and three priorities: `LoopsRunToExit`, `PriorityOrder` |
| `copool` | Two clients, capacity two: the pool |
| `queue` | The ring buffer |
| `lifecycle` | Every flow of up to three tasks, two calls that add edges or priorities, two runs: `TypeOK`, `Mirrored`, `LabelsAreAnswers`, `DumpShowsEveryEdge`, `RunValidates` |
| `orphan`, `loop_parallel`, `loops`, `skipped`, `parents` | Violated; see [Disagreements found](#disagreements-found) |

`PROJECT.json` names for each property a mutant: a wrong version of a definition (a dropped
guard, a missing signal, a counter not decremented) that stands before the right one in the
module and makes TLC find the property violated.

Deadlock is checked in `flow`, `lifecycle`, `single`, `copool` and `queue`; `Terminated`,
or `Over` when the bounds are used up, is the only stop allowed. It is off in `clients` and `branch` because a flow with panics may
end in the state of the `orphan` run, where `Wait` blocks.

## Bounds, fairness, assumptions

The shape of flows is assumed as the builder makes it: `NestingAssumption`, an edge joins tasks of
one graph (`Precede` across graphs is not modelled), the mapper of a condition is made with its
edges (`task.go:18`), and `NewSubflow` makes a graph for each subflow (`flow.go:61`);
`FoundedAssumption`, a subflow is made by a task of the graph around it, so no chain of subflows ends in
itself; `FlowAssumption`, the clients run different flows. TLC evaluates them in every run.

- `MaxRuns`: calls of `Run` for each client, 1 or 2. Two are needed for what one execution
  leaves behind in counters, states and subflow graphs; a third starts in a state like the second.
- Two workers let two closures interleave in every step; three are used where two may be blocked
  in subflows. `concurrency` must exceed the number of subflows, as `executor.go:33` demands: each one
  at work blocks a goroutine, nested in another or beside it. All runs keep to that.
- The flows (`MCExecutor!Flows`) have five to nine nodes and contain what the code distinguishes: a
  join of two predecessors and of a task with a subflow, nested and repeated subflows, loops,
  nodes with both kinds of predecessors, equal and different priorities.
- `predict[n]` lists what a condition answers call by call; its last entry repeats.
- Copool: four objects are as many as can be in use at once with two clients, two workers;
  `MaxSubmits` is 2. Queue: `minQueueLen` is 2, not 16, so that growing to 16 cells and
  shrinking back takes at most nine values. The code's constant only starts the same sequence later.
- Join counters are `int32` and `wg` an `int`: no flow that fits in memory reaches their limits.
  Queue sizes and indices are below those as well.
- `branch`: two runs, since the trace and the profile go on from one run to the next and the
  validator must accept a trace of both. A task of the inner subflow panics, so that a panic has to climb
  twice, the outer subflow's handler, and the condition, when its answer is out of range; the second run meets graphs
  that are canceled already, and canceled runs are recorded too.
- `lifecycle`: three tasks allow a chain behind a condition, a loop of two, a join, and two
  subflows nested in each other; a call has one or two arguments, so that two calls give up to four edges,
  double ones among them. Edges join different tasks of one graph, and tasks are made before
  edges except after a run, which comes to the same; nothing is built after the last run.
  `Priority` is called with HIGH only; nothing that
  is checked depends on its value. Tasks are symmetric.
- Symmetry among workers is used where no liveness property is checked.

Fairness (`FairSpec`): weak fairness of every goroutine's steps, because the Go scheduler
preempts and runs every runnable goroutine, and Go's mutexes hand over to a waiter that has
starved for a millisecond; of the handlers, which are assumed to end; of `Wait`, since a client
that never calls it has no claim. `Run` is not fair. No strong fairness is needed: a thread that
wants a lock finds it free in the end and in the meantime its holder's step is fair; the checks
hold under the weak form. In Copool the same holds for a client between its two steps and for
the goroutines.

## What is proved

`ExecutorProof` proves, for all flows, clients, workers and numbers of runs that satisfy the
named assumptions (`ThreadsAssumption`, `FlowAssumption`, `PredictAssumption`):

| Theorem | Meaning |
|---|---|
| `TypeCorrect` | `Spec => []TypeOK`; in particular `wg` never goes below zero, where `sync.WaitGroup` panics |
| `WgCounts` | `Spec => []WgAccounting`: `wg` is the number of nodes in `wq`, in `taskQ`, in a thread's hand or executed by a worker |
| `WaitIsSound` | When `wg` is zero, and `Wait` returns, both queues are empty and every worker is idle |

The inductive invariant `IInv` is `TypeOK /\ ThreadShape /\ WgAccounting`. `TypeOK` alone is not
inductive: `Done` subtracts one from `wg`, and that `wg` is at least one then is
`WgAccounting`, which counts the worker. `ThreadShape` says what the program counter
implies for the local variables: `hand` is a node while one is carried, `slot` is empty exactly
when a worker is idle, `idx` is a position in the successor list in the two loops and 1 elsewhere,
and a handler that runs has been counted in `ran`, which makes `Answers` a set of numbers.
The argument: each action moves one thread (`Moves`), and perhaps wakes one; lemmas
`InHandStays`, `InHandGains`, `InHandLoses` and the corresponding facts on `Running` give what that
does to the counts, `ShapeOfAll` what it does to `ThreadShape`; `ClosureInv` and `LoopTurn` treat
the steps of a closure once for all. `StrongDegreeType` shows that the number of strong
predecessors of a node is a number, from the finiteness of `Nodes`.

`CopoolProof` proves of the pool, for every capacity and number of clients, goroutines and
objects (`CopoolAssumption`):

| Theorem | Meaning |
|---|---|
| `TypeCorrect` | `Spec => []TypeOK`; `coworker` does not wrap around |
| `CapacityKept` | `coworker` is the number of goroutines, at most `cap` |
| `NothingStranded` | a queued job has a goroutine that will come back to the queue |
| `CorunExact` | `corun` is the number of jobs submitted and not ended |
| `ObjectsSafe` | `Spec => []ObjSafe`: a recycled task object is in no use elsewhere |
| `PoolImplemented` | `Spec => ImplementsPool`: each step is one of Pool or a stutter |

Its invariant joins these with `Working`: a goroutine between `Pop` and `Recycle` has an object.
The critical facts are that `Put` starts a goroutine whenever there is none, and that `End` sees the
empty queue in the same critical section in which it counts the goroutine out. `ObjSafe` alone is not
inductive; `Owned` says that an object has one owner at a time: the queue, a client between
the two parts of `CtxGo`, or a goroutine. With it the mapping to Pool, which reads the queued functions
through the objects, commutes with every step.

`QueueProof` is for every minimal size, any values and any number of them (`QueueAssumption`):

| Theorem | Meaning |
|---|---|
| `IndicesInBuffer` | head and tail are cells of the buffer, and the tail is `count` cells after the head |
| `TypeCorrect` | `Spec => []BufferTypeOK`: the size is the minimal size doubled some number of times |
| `CellsExact` | `Spec => []NoStaleCells`: exactly the cells between head and tail hold a value |
| `FifoImplemented` | `Spec => ImplementsFifo` |

`Ring` says what a buffer, a head, a tail and a count must satisfy; `CellWritten`, `CellCleared` and
`Resized` say what the three ways of changing them do to a ring and to its content. `BufferTypeOK` writes the
size as a power of two times the minimal one. What the proof needs of powers is that one of them exceeds any number and
that the next is twice as much (`PowerExceeds`, `PowerDoubles`); `SizesDouble` says what doubling and halving
do to the set of sizes.

`SchedulerProof` builds on `ExecutorProof` and needs `NestingAssumption`. Its theorems are for every flow with
subflows, conditions, loops and panics, and for the executions in which no graph has two drivers
(`[]OneDriver`):

| Theorem | Meaning |
|---|---|
| `JoinCounts` | `[]JoinAccounting`: `joinCounter` is the number of tasks scheduled and not released |
| `PopIsSafe` | `[]PopSafe`: the `Pop` that does not look at the queue finds a node |
| `PanicsPropagate` | `[]PanicPropagates`: when `Run` returns and the flow is not canceled, no graph below it is, at any depth, and every call of a handler in them has returned |
| `RunsDrain` | when `Run` returns and the flow is not canceled, none of its tasks is queued, on its way to a queue or executed before its `deref` |

The hypothesis is needed: `Reset` stores zero in the counter of a graph that another thread still
drives, if there is one. The invariant `GInv` joins `Places` (which program counters
a client and a worker can have, which graph the nodes belong to that a thread has claimed, who holds `mu`), the
accounting itself, `Quiet` (a graph whose counter is not zero has a thread in its loop, so
`Reset` finds nothing that counts: `SetupFindsNone`), `PopKept` (what was true when the loop gave up
`scheCond.L` still is) and `MarksTravel` (a canceled subflow has canceled the graph around it, or its
driver is about to). `PanicsPropagate` needs one more invariant, `CallsKept`: a call of a handler that has
neither returned nor is going on has panicked, and its graph is canceled. When `Run` returns without a mark on the flow,
`BelowSettled` goes down from graph to graph: what is inside a graph with nothing on its way and no mark has nothing
on its way and no mark either.

`DriverProof` discharges the hypothesis:

| Theorem | Meaning |
|---|---|
| `SingleInvariance` | a node that is not a condition and that no condition chooses has one token at most: in a queue, in a hand, in a closure |
| `OneDriverHolds` | if conditions choose no subflow (`SubflowsUnchosen`), `Spec => []OneDriver` |
| `SchedulerIsSafe` | for such flows the four results above hold of every execution |
| `BranchesCounted` | `Spec /\ []OneDriver => []OneBranch`, for every flow, with loops and panics |
| `BranchesSafe` | if conditions choose no subflow, `Spec => []OneBranch` |
| `ExecutedByOne`, `NeverOverlaps` | the handler of such a node never runs twice at once; in a flow without conditions that is `NoOverlap` |

The two invariants lean on each other: `GInv` is preserved while `OneDriver` holds, `Single` while
`GInv` holds, and both together imply `OneDriver` in the next state, since two drivers would be two
tokens of the subflow's node. A condition may schedule a node that is still queued or executed, so
a subflow it chooses can in principle be driven twice; the flow of the `branch` run is of this kind, and the theorems that
assume `SubflowsUnchosen` do not speak of it (TLC checks `JoinAccounting` there). Conditions themselves are
not in `NeverOverlaps`: their `setup` comes after `deref` (`executor.go:181`), when `Run` may have
returned and been called again.

`OneBranch` is about the end of a run; its invariant `BInv` counts in every state. For a condition `n` and any set
`S` of the nodes that only `n` can release, `Given(S)` adds their executions to their places before: chosen and in
`todo`, in a hand, in a queue, taken by a worker. `Dealt` says that it is at most the number of answers of `n`, and the
same as long as the graph is not canceled. It is stated of all sets and not only of all
branches, since a condition among them leaves the count when its graph is canceled (`Tallied`). When
`Run` returns, `RunsDrain` empties every place but the executions. The theorem also covers nested and repeated
loops: that `loops` and `loop_parallel` lose iterations is not because a branch that was chosen is lost.

`FlowProof` is about flows without conditions (`NoConditions`) and without cycles (`Acyclic`: every set of tasks has
one that succeeds none of the others):

| Theorem | Meaning |
|---|---|
| `FlowInvariance` | `Spec => []AllInv`, the invariant below |
| `TasksFollow` | `Spec => []DepsRespected`, panics included |
| `RunsComplete` | `Spec => []RunComplete`: when `Run` returns and the flow is not canceled, each task has been executed once by each `Run` |
| `SubflowsComplete` | `Spec => []SubflowComplete`, when nothing panics |
| `UrgentFirst` | `Spec => []PriorityOrder`, when all tasks are static (`AllStatic`), with one goroutine and one client (`OneByOne`), panics included |
| `FlowImplemented` | every step is one of FlowSpec or one it does not see, when nothing panics and every task belongs to the flow of a client or to a subflow (`Owned`) |

`DepsRespected` is far from inductive. The invariant counts the rounds of each graph, `d[g]`, the times it has been set
up; `d` is not a variable but a function that exists in every state (`FlowInv`), and each step says which one
exists next: `Setup` adds one, everything else keeps it. `Rounds(d)` relates it to `runs` of a client and to `ran` of
the node of a subflow. Relative to round `r`, and as long as the graph is not canceled, `NodeInv` says of each node:

- `Progress`: where it is (queued, or claimed, or carried; in its handler; in the rest of its closure; nowhere) tells what
  `ran` and `fin` are. A node is in one of these places at most, by `Single`.
- `InOrder`: once it is queued, its predecessors have completed in this round and dropped it.
- `Counter`: `joinCounter` is the number of incoming edges whose source has not dropped it in this round, plus all of them
  once the node has ended its closure and been set up again (`node.go:53`).
- `Pending`: a node that has not been executed is queued, or some predecessor has yet to look at it. This is what the
  order drop, then look, in `sche_successors` is for: of two predecessors that drop at once, the one that is last to
  look finds zero.

A round ends when the graph's loop sees `joinCounter = 0`: nothing of the graph is queued or executed then (`NothingLeft`,
from `JoinAccounting`). If some task had not been executed, then by `Acyclic` one whose predecessors all have;
its counter would be zero and nobody left to look, against `Pending` (`RoundOver`). So every task is `Between` rounds, which is
`RunComplete`, and for subflows `SubflowComplete`. The refinement maps what FlowSpec sees of a subflow, that its flow has been built, to
the node's state (`Opens`); `RunMaps`, `BeginMaps`, `OpenMaps`, `StaticMaps` and `SubflowMaps` map the visible steps, the rest leaves
`runs`, `ran`, `fin` and `Opens` alone. `NoConditions`, `Acyclic`, `Owned` and `MayPanic = {}` hold of the flow in run `flow`; in
a cycle without a condition no task would ever be ready, which `RunComplete` excludes.

`UrgentFirst` follows two nodes that become ready together through the scheduler. `Trails(n, m)` says that wherever the
less urgent `m` is on its way (claimed, in `wq`, popped, in the pool's queue, about to begin), `n` is further; `Queueing` demands it
as long as both have been executed equally often. The queues keep it because they are first in, first out
(`EarlierAppend`, `EarlierTail`), and because only the client moves nodes from one to the other. It comes into being in `ScheduleAdd`: if `m` is the
most urgent of what is left to publish, `n` has gone before. That needs `ClaimedTogether`, that `n` is not still to be claimed,
which is where the rounds of the invariant above come in: `n` and `m` have one predecessor, which has looked at both, and
the counter of `n` is zero (`Counter`, `Pending`). The client publishes only entries and the goroutine none (`Origins`), so the two never
publish nodes of one pair between each other. With two goroutines the order of the handlers is not determined, and a subflow
needs a second one.

`TracedProof` carries the results of the modules before it over to the observed scheduler (`ObserverAssumption` says that the two
options are Booleans):

| Theorem | Meaning |
|---|---|
| `ObserverPassive` | `TracedSpec => Spec`: with an observer the scheduler does nothing it could not do without |
| `ObserverTypeCorrect` | `TracedSpec => []TracedTypeOK`: each queued closure has its `parentSpan` |
| `ObservedWgCounts` | `TracedSpec => []WgAccounting` |
| `ParentsAreFirst` | `TracedSpec => []ParentsFirst` |
| `ProfileIsExact` | `TracedSpec => []ProfileExact` |
| `EventsCount` | `TracedSpec /\ []OneDriver => []EventPerExecution` |
| `ObservedIsSafe` | for flows with `SubflowsUnchosen`, `EventPerExecution` and the results of `SchedulerIsSafe` hold of every observed execution |
| `OrderIsTraced` | `TracedSpec => []TraceOrder` for flows without conditions, cycles and panics |
| `TracesValidate` | `TracedSpec => []TraceValid` for the flow of a single client, without conditions and cycles, panics included |

The first is a step simulation: every action of Traced is an action of Executor with something
added, except `AddSpan` and `AddEvent`, which leave Executor's variables alone. `ObservedWgCounts`
then follows from `WgCounts` without another induction. The last six have a tracer (`hasTracer`, and `hasProfiler`
for the profile), since without one nothing enters `events`. Their invariants: `Spanned` gives the
places in a closure where its span is open; `ParentsShown`, that a `parentSpan` on its way is that of a
subflow in the trace; `Books`, that an execution is in the trace or has its span open, and that the profiler
has what was given to it. `EventsCount` follows from `Books` and `RunsDrain`: a drained graph has no open span. Which
graphs are drained is a walk down the subflows; `walk` is a recursive function on nodes; the proof shows that it is the least set closed
under the walk (`Visited`) and that nothing can be outside the drained part, by `FoundedAssumption`. `OrderIsTraced` adds `Fresh` to `FlowProof`'s `InOrder`: the node of
an open span has dropped none of its edges in this round, so none of its successors is on its way before the
span is in the trace; for the tasks of a subflow the same follows from `SubflowRounds`.
`TracesValidate` needs that nothing is missing in the trace and nothing in it is unknown to the validator. By `RoundOver` and `EventsCount` every task of a
graph that the walk reaches is in the trace (`AllExecuted`), and what is in the trace has been executed, so its graph is reached
(`NamesRecorded`, with `BuiltBefore`: a subflow that has completed in a graph that goes on has been built). The tracer belongs to
the executor and records the flows of all its clients, hence `OneClient`.

`LifecycleProof` is for any finite set of tasks and any number of calls, arguments and runs
(`BuilderAssumption`, `LifecycleAssumption`):

| Theorem | Meaning |
|---|---|
| `LifecycleTypeCorrect` | `Spec => []TypeOK` |
| `EdgesMirrored` | `Spec => []Mirrored`: an edge is counted the same at both of its ends |
| `LabelsShown` | `Spec => []LabelsAreAnswers`: the number that `Dump` writes at an edge of a condition is the answer that leads along it |
| `EveryEdgeDrawn` | `Spec => []DumpShowsEveryEdge`: each edge is drawn as often as it was made, at any depth of subflows |
| `SkippedIsClosure` | the validator's search for skipped tasks finds the least set that has the idle successors of conditions and, with a task, those that depend on it strongly; for every trace and flow |
| `RunsValidate` | `Spec => []RunValidates`: what the run of an unchanged flow without a panic records is accepted |

`Mirrored` rests on three lemmas on lists: how often a task occurs in a concatenation
(`OccurrencesConcat`, by a bijection between the positions of the second list and the last
positions of the concatenation) and in what `Links` makes. Whatever speaks of the graph of a task needs `OneGraph`:
a task is created once and enters one graph then.

The last four are about what `Dump`, `eGraph.walk` and the validator compute turn by turn. `TurnsExist` gives such a
sequence of sets its equation, `TurnsClose` says that as many turns as there are tasks reach the least closed
set, since each turn before that adds a task. Claims about turns are proved by the least turn that
breaks them (`LeastNat`), since no rule of induction is at hand. The invariant is `LInv`: `Mapped` (the mapper of
a condition is not ahead of its successors, and the same when it is as long), which is all that `LabelsShown` needs; `Homed` and
`Rooted` (each task is in a graph that is nested in the flow, and its neighbours in the same), which put every edge into
the drawing, once; and for `RunsValidate` `Inside` (a task is executed within an execution of its subflow, unless
that was canceled and did not wait), `Leftover` (what is in `left` has not been executed, and its graph is canceled),
`MarksClimb` (a canceled subflow has canceled the graph around it or will), `Exhausted` (a subflow that is not canceled finishes when
nothing of it can start) and `Traces` (an event has the edges the flow still has). A task that has not started at the end of a run is not
`Released`, so it has a condition before it, or a strong predecessor that has not started either; if it were not excused,
that predecessor would not be, and there would be a cycle, against `StrongAcyclic`.

Only model-checked:

- liveness under fairness (`RunReturns`, `WaitReturns`, `EveryJobStarts`), which is out of the
  prover's reach, with the fairness part of `ImplementsFlow`;
- `RunComplete`, `SubflowComplete`, `DepsRespected`, `TraceOrder` and `TraceValid` for flows with conditions, where a branch
  that is not chosen is not executed and a loop sets up its nodes in the middle of a round, so that the rounds of `FlowProof` do not
  describe them; `TraceOrder` and `SubflowComplete` for flows that panic;
- `LoopsRunToExit`: the code does not keep it (`loops`, `loop_parallel`), and what sets the flow of `single` apart, one
  worker and a loop that is entered once, is a matter of what `predict` answers.

## Disagreements found

- **`orphan`** (`executor.go:72`): after a panic `invokeGraph` leaves at once; nodes of the
  graph that are still in `wq` stay there, counted in `wg`, and `Wait` blocks, unless another
  loop pops them.
- **`loop_parallel`** (`executor.go:194`): a condition schedules its choice before its deferred
  `setup` makes it claimable again; with two workers the body of a loop can come back too early, and the
  loop ends with iterations missing.
- **`loops`** (`node.go:53`): `setup` adds the number of strong predecessors after each execution,
  also when the node was scheduled by a condition and nothing had been dropped; the entry of an
  inner loop is not claimable in the second turn of the outer loop, even with one worker.
- **`skipped`** (`executor.go:150`): a subflow node skipped because its graph is canceled
  still executes its tasks, if an earlier execution has built them.
- **`parents`** (`executor.go:79`): the loop of a subflow gives its span as the parent to every
  node it pops, also to one of the graph around it, and the other way round; the trace and the
  flame graph show tasks inside subflows they do not belong to.

Seen while modelling, without a run: `Reset` only thaws the flow (`taskflow.go:14`); nothing clears the `canceled` of its graph, so a
flow that has panicked once schedules nothing in any later `Run`, although `llms.txt:369` and `379` name `Reset` as the
way to reuse it; with a tracer and a profiler, the `Dur` of a task's later events
includes the earlier ones, since `AddSpan` adds to the span that `closeSpan` then traces
(`profiler.go:30`, `profiler.go:107`); a task skipped in a canceled graph is traced like one
that ran; a task that joins two branches, of which one is taken in one run and the other in the next, is never executed and is
missing to the validator, since the trace of both runs has both predecessors (`validator.go:92`); a flow that ends in a condition and is run again without `Wait` may skip tasks
(`executor.go:181`); `Succeed` on a condition adds a successor that no answer leads to (`task.go:23`).

## What is not modelled

What `Profile`, `Trace` and `Dump` write: JSON, flame graph lines, DOT attributes, colours and
quoting are layout (the nodes, edges and labels of the DOT text are modelled). The texts of the
validator's result. Names that are equal or contain commas: tasks are told apart by identity.
Wall-clock durations. Calls that panic because the flow is frozen change nothing and are not steps; edges
between tasks of different graphs; a `Subflow` used after its handler has returned. The
conversions of `utils.go` and the wrapper of the Go profiler; the example programs. In Queue the optional lock: the executor and the pool
leave it off, since each holds a mutex of its own, and only tests switch it on. `sync` and the
Go scheduler are taken to do what their documentation says: mutexes exclude, `Signal` wakes one
waiter, atomics are sequentially consistent.

## Plan

Done: Pool, FlowSpec, Executor, Copool, Fifo, Queue; Traced, Validator, Builder, Dot and Lifecycle;
the theorems above, which state every safety property of the passing runs but `LoopsRunToExit`. Left, in this order:

1. Proofs for flows with conditions outside of loops: rounds in which a node is not executed at all, for `RunComplete`, `TraceOrder`
   and `TraceValid`.
2. A run for `Run` called again before `Wait` on a flow that ends in a condition, whose `setup`
   comes after `deref`.
3. Durations: a `Dur` for each event, to state what the profiler adds to it.
