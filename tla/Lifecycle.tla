----------------------------- MODULE Lifecycle ------------------------------
(***************************************************************************)
(* The life of a TaskFlow: it is built, run, reset, changed and run again, *)
(* traced, drawn and validated.                                            *)
(*                                                                         *)
(* Run is Run followed by Wait, at the grain of one task: a task starts    *)
(* when the scheduler would schedule it, at any moment after that, and     *)
(* once in a run, since the validator sees only the last event of a name.  *)
(* When a graph is canceled some of its tasks are in the queue, or in      *)
(* that of the pool: their handlers are skipped, a subflow among them      *)
(* drives its graph all the same, and the loop of the canceled graph does  *)
(* not wait for them.  The interleavings and the counters are the subject  *)
(* of Executor.tla, and so is a Wait that such a task blocks for ever.     *)
(***************************************************************************)
EXTENDS Builder

Validation == INSTANCE Validator
Dump == INSTANCE Dot

CONSTANTS
  None,
  MaxCalls,      \* bound: calls of Precede, Succeed and Priority
  MaxArgs,       \* bound: the arguments of each
  MaxRuns        \* bound: calls of Run

ASSUME LifecycleAssumption ==
  None \notin Graphs /\ MaxCalls \in Nat /\ MaxArgs \in Nat /\ MaxRuns \in Nat

VARIABLES
  running,       \* Run has been called and Wait has not returned
  building,      \* the subflow whose instantiate function is running
  started, finished, chosen,   \* tasks, in this run; chosen by a condition
  canceled, instantiated,      \* of each graph
  left,          \* published before their graph was canceled, not yet executed
  trace,         \* the last event of each task: its dependents
  edited,        \* history: edges were added after a Run
  calls, runs

runVars == <<running, building, started, finished, chosen, canceled, instantiated, left, trace>>
lifeVars == <<flowVars, runVars, edited, calls, runs>>

Init ==
  /\ BuilderInit
  /\ running = FALSE /\ building = None
  /\ started = {} /\ finished = {} /\ chosen = {}
  /\ canceled = [g \in Graphs |-> FALSE]
  /\ instantiated = [g \in Graphs |-> g = Flow]
  /\ left = {} /\ trace = <<>>
  /\ edited = FALSE /\ calls = 0 /\ runs = 0

-----------------------------------------------------------------------------
(***************************************************************************)
(* The client, between runs; and the instantiate function of a subflow.    *)
(***************************************************************************)

\* The graph that is being built.  Bound: nothing is built after the last run.
Building(g) == IF running THEN g = building ELSE g = Flow /\ runs < MaxRuns

\* Tasks are made before edges, the other orders come to the same.
Create(g, t) ==
  /\ Building(g)
  /\ calls = 0 \/ runs > 0
  /\ \E kind \in Kinds :
       \/ running /\ NewInner(g, t, kind)
       \/ ~running /\ NewTask(t, kind)
  /\ UNCHANGED <<runVars, edited, calls, runs>>

Args(g, t) == UNION {[1..n -> ToSet(nodes[g]) \ {t}] : n \in 1..MaxArgs}

\* Edges are made between different tasks of one graph.
Connect(g, t) ==
  /\ Building(g) /\ t \in ToSet(nodes[g])
  /\ calls < MaxCalls /\ calls' = calls + 1
  /\ \E ts \in Args(g, t) : Precede(t, ts) \/ Succeed(t, ts)
  /\ edited' = (edited \/ (~running /\ runs > 0))
  /\ UNCHANGED <<runVars, runs>>

Prioritize(g, t) ==
  /\ Building(g) /\ t \in ToSet(nodes[g])
  /\ calls < MaxCalls /\ calls' = calls + 1
  /\ \E p \in Priorities : Priority(t, p)
  /\ UNCHANGED <<runVars, edited, runs>>

Reset ==
  /\ ~running /\ frozen
  /\ Thaw
  /\ UNCHANGED <<runVars, edited, calls, runs>>

-----------------------------------------------------------------------------
(***************************************************************************)
(* A run.                                                                  *)
(***************************************************************************)

Run ==
  /\ ~running /\ runs < MaxRuns
  /\ Freeze
  /\ running' = TRUE /\ runs' = runs + 1
  /\ UNCHANGED <<building, started, finished, chosen, canceled, instantiated, left, trace, edited,
                 calls>>

graphOf(t) == CHOOSE g \in Graphs : t \in ToSet(nodes[g])

\* What joinCounter counts.
Strong(t) == {p \in ToSet(dependents[t]) : Typ[p] /= "condition"}

\* The task is an entry, or its last strong predecessor has dropped, or a
\* condition has chosen it.
Released(t) ==
  \/ dependents[t] = <<>>
  \/ Strong(t) /= {} /\ Strong(t) \subseteq finished
  \/ t \in chosen

\* invokeGraph is in its loop for g.
Driven(g) == g = Flow \/ (g \in started \ finished /\ instantiated[g])

Startable(t) ==
  /\ running /\ building = None
  /\ Typ[t] /= "none" /\ t \notin started
  /\ Driven(graphOf(t)) /\ ~canceled[graphOf(t)]
  /\ Released(t)

\* Mutant: the loop over the dependents skips the first.
RecordRest(t) ==
  trace' = [u \in DOMAIN trace \cup {t} |->
              IF u = t THEN SubSeq(dependents[t], 2, Len(dependents[t])) ELSE trace[u]]

\* closeSpan: the event holds the names of the dependents at that time.
Record(t) == trace' = [u \in DOMAIN trace \cup {t} |-> IF u = t THEN dependents[t] ELSE trace[u]]

Static(t) ==
  /\ Startable(t) /\ Typ[t] = "static"
  /\ Record(t)
  /\ started' = started \cup {t} /\ finished' = finished \cup {t}
  /\ UNCHANGED <<flowVars, running, building, chosen, canceled, instantiated, left, edited, calls, runs>>

\* t comes after itself: it is executed several times in a run.
OnCycle(t) ==
  \E S \in SUBSET Tasks :
    /\ t \in S
    /\ \A u \in S : ToSet(successors[u]) \cap S /= {} /\ ToSet(dependents[u]) \cap S /= {}

\* The answers of a condition in this run: one, or more if it is in a loop.
Condition(t) ==
  /\ Startable(t) /\ Typ[t] = "condition"
  /\ \E S \in SUBSET ToSet(mapper[t]) :
       /\ S /= {} /\ (Cardinality(S) > 1 => OnCycle(t))
       /\ chosen' = chosen \cup S
  /\ Record(t)
  /\ started' = started \cup {t} /\ finished' = finished \cup {t}
  /\ UNCHANGED <<flowVars, running, building, canceled, instantiated, left, edited, calls, runs>>

\* A subflow that was built before.
Subflow(t) ==
  /\ Startable(t) /\ Typ[t] = "subflow" /\ instantiated[t]
  /\ Record(t)
  /\ started' = started \cup {t}
  /\ UNCHANGED <<flowVars, running, building, finished, chosen, canceled, instantiated, left, edited,
                 calls, runs>>

\* One that is not: its instantiate function starts, and returns.
Instantiate(t) ==
  /\ Startable(t) /\ Typ[t] = "subflow" /\ ~instantiated[t]
  /\ started' = started \cup {t}
  /\ building' = t
  /\ UNCHANGED <<flowVars, running, finished, chosen, canceled, instantiated, left, trace, edited,
                 calls, runs>>

Instantiated ==
  /\ building /= None
  /\ instantiated' = [instantiated EXCEPT ![building] = TRUE]
  /\ Record(building)
  /\ building' = None
  /\ UNCHANGED <<flowVars, running, started, finished, chosen, canceled, left, edited, calls, runs>>

\* What t leaves behind when its graph is canceled: of the tasks that may start,
\* those that had been published.  Nothing is published of a canceled graph.
Leaves(t) ==
  LET waiting == {u \in Tasks \ (started \cup {t}) : u \in ToSet(nodes[graphOf(t)]) /\ Released(u)}
  IN \E S \in SUBSET waiting : left' = left \cup S

\* A handler panics, or a condition answers a number that it has no task for.
Panic(t) ==
  /\ \/ Startable(t) /\ (Typ[t] = "subflow" => ~instantiated[t])
     \/ t = building
  /\ canceled' = [g \in Graphs |-> canceled[g] \/ g = graphOf(t) \/ (Typ[t] = "subflow" /\ g = t)]
  /\ Record(t)
  /\ started' = started \cup {t}
  /\ finished' = IF Typ[t] = "subflow" THEN finished ELSE finished \cup {t}
  /\ building' = None
  /\ Leaves(t)
  /\ UNCHANGED <<flowVars, running, chosen, instantiated, edited, calls, runs>>

\* A task whose graph has been canceled: its handler is not called, a condition
\* chooses nothing, and a subflow drives its graph.
Skip(t) ==
  /\ t \in left /\ building = None
  /\ left' = left \ {t}
  /\ Record(t)
  /\ started' = started \cup {t}
  /\ finished' = IF Typ[t] = "subflow" THEN finished ELSE finished \cup {t}
  /\ UNCHANGED <<flowVars, running, building, chosen, canceled, instantiated, edited, calls, runs>>

\* A task of graph g is executing or will.
Busy(g) == \E t \in ToSet(nodes[g]) : Startable(t) \/ t \in started \ finished

\* scheduleGraph returns in the closure of a subflow, which completes: when the graph
\* is done, or at once when it is canceled, which cancels the graph around it.
Finish(t) ==
  /\ t \in started \ finished /\ building = None
  /\ canceled[t] \/ ~Busy(t)
  /\ finished' = finished \cup {t}
  /\ canceled' = [g \in Graphs |-> canceled[g] \/ (canceled[t] /\ g = graphOf(t))]
  /\ IF canceled[t] /\ ~canceled[graphOf(t)] THEN Leaves(t) ELSE left' = left
  /\ UNCHANGED <<flowVars, running, building, started, chosen, instantiated, trace, edited, calls, runs>>

\* Nothing is executing, nothing has been left, nothing can start.
Ending ==
  /\ running /\ building = None
  /\ started \subseteq finished /\ left = {}
  /\ ~\E t \in Tasks : Startable(t)

\* Mutant: a set of the run is kept for the next one.
ReturnKeeping ==
  /\ Ending
  /\ running' = FALSE
  /\ started' = {} /\ chosen' = {}
  /\ UNCHANGED <<flowVars, building, finished, canceled, instantiated, left, trace, edited, calls, runs>>

\* Run and Wait return.
Return ==
  /\ Ending
  /\ running' = FALSE
  /\ started' = {} /\ finished' = {} /\ chosen' = {}
  /\ UNCHANGED <<flowVars, building, canceled, instantiated, left, trace, edited, calls, runs>>

-----------------------------------------------------------------------------
Client(g, t) == Create(g, t) \/ Connect(g, t) \/ Prioritize(g, t)
Execute(t) == Static(t) \/ Condition(t) \/ Subflow(t) \/ Instantiate(t) \/ Panic(t) \/ Skip(t) \/ Finish(t)

\* All the runs and calls of the bounds have been made.
Over == ~running /\ runs = MaxRuns /\ UNCHANGED lifeVars

Next ==
  \/ \E g \in Graphs, t \in Tasks : Client(g, t)
  \/ \E t \in Tasks : Execute(t)
  \/ Reset \/ Run \/ Instantiated \/ Return \/ Over

Spec == Init /\ [][Next]_lifeVars

-----------------------------------------------------------------------------
(***************************************************************************)
(* Properties.                                                             *)
(***************************************************************************)

TypeOK ==
  /\ BuilderTypeOK
  /\ running \in BOOLEAN /\ building \in Tasks \cup {None}
  /\ started \subseteq Tasks /\ finished \subseteq started /\ chosen \subseteq Tasks
  /\ canceled \in [Graphs -> BOOLEAN] /\ instantiated \in [Graphs -> BOOLEAN] /\ left \subseteq Tasks
  /\ DOMAIN trace \subseteq Tasks /\ \A t \in DOMAIN trace : trace[t] \in Seq(Tasks)
  /\ edited \in BOOLEAN /\ calls \in Nat /\ runs \in Nat

\* The number that Dump writes at an edge of a condition is the answer that
\* leads along it, for conditions that got all their edges from Precede.
LabelsAreAnswers ==
  \A e \in Dump!Edges :
    LET c == e.from.id IN
    Typ[c] = "condition" /\ Len(mapper[c]) = Len(successors[c]) =>
      \A k \in e.label : mapper[c][k + 1] = e.to.id

\* Dump draws each edge of each task of the flow, those of built subflows
\* included, as often as it was made.
DumpShowsEveryEdge ==
  LET drawn == Dump!Edges IN
  \A t, u \in Tasks :
    Occurrences(dependents[u], t) = Cardinality({e \in drawn : e.from.id = t /\ e.to.id = u})

\* eGraph.walk, and the dependents of what it finds.
Visited ==
  LET reached[k \in Nat] ==
        IF k = 0 THEN {Flow}
        ELSE reached[k - 1] \cup
             {t \in Tasks : Typ[t] = "subflow" /\ instantiated[t] /\
                            \E g \in reached[k - 1] : t \in ToSet(nodes[g])}
  IN UNION {ToSet(nodes[g]) : g \in reached[Cardinality(Tasks)]}
Expected ==
  [t \in Visited |-> [i \in DOMAIN dependents[t] |->
                        [name |-> dependents[t][i], Typ |-> Typ[dependents[t][i]]]]]

\* No task comes, by strong edges alone, after itself.
StrongAcyclic == \A S \in SUBSET Tasks \ {{}} : \E t \in S : Strong(t) \cap S = {}

\* The validator accepts what every run without a panic records, of every flow
\* whose strong edges have no cycle: what did not run is a branch not taken.  The
\* trace has what this run executed: for a trace to which an earlier run has
\* added another branch, see TraceValid of Traced.tla.
RunValidates ==
  Ending /\ ~canceled[Flow] /\ ~edited /\ DOMAIN trace \subseteq started /\ StrongAcyclic =>
    Validation!Valid(trace, Expected)
=============================================================================
