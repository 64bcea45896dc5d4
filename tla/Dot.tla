-------------------------------- MODULE Dot ---------------------------------
(***************************************************************************)
(* visualizer_dot.go: the nodes and edges of the drawing that Dump makes   *)
(* of a flow.  Attributes and layout are left out.                         *)
(***************************************************************************)
EXTENDS Naturals, Sequences, FiniteSets, SequencesExt

CONSTANTS Tasks, Flow, nodes, Typ, successors

\* Mutant: subflows are left out of nodeMap.
StaticNodes(g) == {t \in ToSet(nodes[g]) : Typ[t] /= "subflow"}

\* The tasks in nodeMap, each with a node of its own.
MappedNodes(g) == ToSet(nodes[g])

\* CreateNode: a node of the drawing of graph g, the cluster of g.
CreateNode(g, t) == [cluster |-> g, id |-> t]

\* nodeMap: a subflow is represented by a point within a cluster of its own, the
\* SubGraph that its tasks are drawn in.
nodeMap(g) ==
  [t \in MappedNodes(g) |-> CreateNode(IF Typ[t] = "subflow" THEN t ELSE g, t)]

\* The label of an edge: its position, for the successors of a condition.
label(t, i) == IF Typ[t] = "condition" THEN {i - 1} ELSE {}

\* CreateEdge, for the i-th successor of a task.
CreateEdge(from, to, i, l) == [from |-> from, to |-> to, i |-> i, label |-> l]

\* The edges that visualizeG draws in graph g: the i-th of each task, if both of
\* its ends are in nodeMap.
edges(g) ==
  LET map == nodeMap(g) IN
  UNION {{CreateEdge(map[t], map[successors[t][i]], i, label(t, i)) :
            i \in {j \in DOMAIN successors[t] : successors[t][j] \in DOMAIN map}} : t \in DOMAIN map}

\* The graphs that visualizeG comes to from g.
Drawn ==
  LET reached[k \in Nat] ==
        IF k = 0 THEN {Flow}
        ELSE reached[k - 1] \cup
             {t \in Tasks : Typ[t] = "subflow" /\ \E g \in reached[k - 1] : t \in ToSet(nodes[g])}
  IN reached[Cardinality(Tasks)]

\* Visualize
Edges == UNION {edges(g) : g \in Drawn}
=============================================================================
