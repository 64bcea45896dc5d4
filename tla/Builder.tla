------------------------------ MODULE Builder -------------------------------
(***************************************************************************)
(* The construction of a flow: flow.go, task.go and the part of            *)
(* taskflow.go, graph.go and node.go that it uses.                         *)
(*                                                                         *)
(* One TaskFlow.  A graph is named by what owns it: Flow, or the task of a *)
(* subflow.  Calls that panic because the flow is frozen change nothing    *)
(* and are not steps.                                                      *)
(***************************************************************************)
EXTENDS Naturals, Sequences, FiniteSets, SequencesExt

CONSTANTS
  Tasks,         \* the tasks that may be created
  Flow,          \* the graph of the TaskFlow
  Priorities     \* bound: the arguments of Priority, 1 is HIGH

ASSUME BuilderAssumption ==
  /\ IsFiniteSet(Tasks) /\ Flow \notin Tasks
  /\ Priorities \subseteq Nat

VARIABLES
  frozen,        \* TaskFlow.frozen
  nodes,         \* eGraph.nodes
  Typ,           \* innerNode.Typ, "none" before the task is created
  successors, dependents, priority,
  mapper         \* Condition.mapper: answer i is mapper[c][i + 1]

flowVars == <<frozen, nodes, Typ, successors, dependents, priority, mapper>>

Graphs == Tasks \cup {Flow}
Kinds == {"static", "subflow", "condition"}

\* What newNode puts into a node, for every task that may be created.
newNode ==
  /\ successors = [t \in Tasks |-> <<>>]
  /\ dependents = [t \in Tasks |-> <<>>]
  /\ priority = [t \in Tasks |-> 2]

\* NewTaskFlow.
BuilderInit ==
  /\ frozen = FALSE
  /\ nodes = [g \in Graphs |-> <<>>]
  /\ Typ = [t \in Tasks |-> "none"]
  /\ newNode
  /\ mapper = [t \in Tasks |-> <<>>]

\* NewStatic, NewSubflow and NewCondition of flowBuilder.
NewNode(t, kind) == Typ[t] = "none" /\ Typ' = [Typ EXCEPT ![t] = kind]

\* eGraph.push
push(g, t) == nodes' = [nodes EXCEPT ![g] = Append(@, t)]

\* NewTask, NewSubflow and NewCondition of a TaskFlow, which panic when it is
\* frozen.
NewTask(t, kind) ==
  /\ ~frozen
  /\ NewNode(t, kind) /\ push(Flow, t)
  /\ UNCHANGED <<frozen, successors, dependents, priority, mapper>>

\* Those of a Subflow, which does not ask whether anything is frozen.
NewInner(g, t, kind) ==
  /\ NewNode(t, kind) /\ push(g, t)
  /\ UNCHANGED <<frozen, successors, dependents, priority, mapper>>

\* Mutant: the loop goes from the last argument to the first.
AnswersReversed(m, ts) == m \o Reverse(ts)

\* The mapper of a condition after Precede(ts...): the next index for each task.
AnswersAdded(m, ts) == m \o ts

\* Mutant: a task given twice is linked once.
LinksOnce(s, t, ts, u) == IF u \in ToSet(ts) THEN Append(s, t) ELSE s

\* A list of u to which t is added for each time that u is in ts.
Links(s, t, ts, u) == s \o [i \in 1..Cardinality({k \in DOMAIN ts : ts[k] = u}) |-> t]

\* t.Precede(ts...)
Precede(t, ts) ==
  /\ mapper' = IF Typ[t] = "condition"
               THEN [mapper EXCEPT ![t] = AnswersAdded(@, ts)]
               ELSE mapper
  /\ successors' = [successors EXCEPT ![t] = @ \o ts]
  /\ dependents' = [u \in Tasks |-> Links(dependents[u], t, ts, u)]
  /\ UNCHANGED <<frozen, nodes, Typ, priority>>

\* t.Succeed(ts...): the mapper of a condition among them stays as it is.
Succeed(t, ts) ==
  /\ successors' = [u \in Tasks |-> Links(successors[u], t, ts, u)]
  /\ dependents' = [dependents EXCEPT ![t] = @ \o ts]
  /\ UNCHANGED <<frozen, nodes, Typ, priority, mapper>>

\* t.Priority(p)
Priority(t, p) ==
  /\ priority' = [priority EXCEPT ![t] = p]
  /\ UNCHANGED <<frozen, nodes, Typ, successors, dependents, mapper>>

\* What Reset and Run do to the flow.
Thaw == frozen' = FALSE /\ UNCHANGED <<nodes, Typ, successors, dependents, priority, mapper>>
Freeze == frozen' = TRUE /\ UNCHANGED <<nodes, Typ, successors, dependents, priority, mapper>>

-----------------------------------------------------------------------------
BuilderTypeOK ==
  /\ frozen \in BOOLEAN
  /\ nodes \in [Graphs -> Seq(Tasks)]
  /\ Typ \in [Tasks -> Kinds \cup {"none"}]
  /\ successors \in [Tasks -> Seq(Tasks)]
  /\ dependents \in [Tasks -> Seq(Tasks)]
  /\ priority \in [Tasks -> Nat]
  /\ mapper \in [Tasks -> Seq(Tasks)]

Occurrences(s, t) == Cardinality({i \in DOMAIN s : s[i] = t})

\* Every edge stands in both of its ends' lists, as often in one as in the
\* other, whether it was made by Precede or Succeed: the scheduler counts
\* dependents up in setup and successors down in drop.
Mirrored ==
  \A t, u \in Tasks : Occurrences(successors[t], u) = Occurrences(dependents[u], t)
=============================================================================
