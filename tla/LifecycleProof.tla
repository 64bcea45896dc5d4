--------------------------- MODULE LifecycleProof ---------------------------
(***************************************************************************)
(* What holds of Lifecycle.tla for any tasks and any number of calls, of   *)
(* arguments and of runs: the types, the mirrored lists of edges, what     *)
(* Dump draws and what the validator accepts.                              *)
(*                                                                         *)
(* IInv is what the first two need.  LInv is where everything is, in the   *)
(* graphs, in the run and in the trace: it is what the last three need.    *)
(* What Dump, eGraph.walk and the validator come to turn by turn is a      *)
(* least closed set (TurnsExist, TurnsClose); the proofs are by the least  *)
(* turn that breaks a claim (LeastNat), as there is no induction rule.     *)
(***************************************************************************)
EXTENDS Lifecycle, FiniteSetTheorems, WellFoundedInduction, TLAPS

USE BuilderAssumption, LifecycleAssumption

\* A task that is in a graph has been created, and is in no other.
In(t, g) == \E i \in DOMAIN nodes[g] : nodes[g][i] = t
OneGraph ==
  \A t \in Tasks :
    /\ \A g \in Graphs : In(t, g) => Typ[t] /= "none"
    /\ \A g, h \in Graphs : In(t, g) /\ In(t, h) => g = h

\* The part of TypeOK that is about the runs.
RunTypes ==
  /\ running \in BOOLEAN /\ building \in Tasks \cup {None}
  /\ started \subseteq Tasks /\ finished \subseteq started /\ chosen \subseteq Tasks
  /\ canceled \in [Graphs -> BOOLEAN] /\ instantiated \in [Graphs -> BOOLEAN] /\ left \subseteq Tasks
  /\ DOMAIN trace \subseteq Tasks /\ \A t \in DOMAIN trace : trace[t] \in Seq(Tasks)
  /\ edited \in BOOLEAN /\ calls \in Nat /\ runs \in Nat

\* The part of the invariant that is about the flow.
Built == BuilderTypeOK /\ Mirrored /\ OneGraph

IInv == Built /\ RunTypes

-----------------------------------------------------------------------------
(***************************************************************************)
(* How often a task occurs in a list.                                      *)
(***************************************************************************)

LEMMA OccurrencesType ==
  ASSUME NEW s \in Seq(Tasks), NEW u
  PROVE  IsFiniteSet({i \in DOMAIN s : s[i] = u}) /\ Occurrences(s, u) \in Nat
<1>1. DOMAIN s = 1..Len(s) /\ Len(s) \in Nat
  OBVIOUS
<1>2. IsFiniteSet(DOMAIN s)
  BY <1>1, FS_Interval
<1>3. IsFiniteSet({i \in DOMAIN s : s[i] = u})
  BY <1>2, FS_Subset
<1> QED
  BY <1>3, FS_CardinalityType DEF Occurrences

LEMMA OccurrencesConcat ==
  ASSUME NEW s \in Seq(Tasks), NEW r \in Seq(Tasks), NEW u
  PROVE  Occurrences(s \o r, u) = Occurrences(s, u) + Occurrences(r, u)
<1> DEFINE A == {i \in DOMAIN s : s[i] = u}
           R == {i \in DOMAIN r : r[i] = u}
           B == {i \in Len(s) + 1 .. Len(s) + Len(r) : r[i - Len(s)] = u}
           f == [i \in R |-> Len(s) + i]
<1>1. IsFiniteSet(A) /\ IsFiniteSet(R)
  BY OccurrencesType
<1>2. f \in Bijection(R, B)
  <2>1. f \in [R -> B]
    OBVIOUS
  <2>2. \A i, j \in R : f[i] = f[j] => i = j
    OBVIOUS
  <2>3. ASSUME NEW k \in B
        PROVE  \E i \in R : f[i] = k
    <3>1. k - Len(s) \in R /\ f[k - Len(s)] = k
      OBVIOUS
    <3> QED
      BY <3>1
  <2> QED
    BY <2>1, <2>2, <2>3 DEF Bijection, Injection, Surjection, IsInjective
<1>3. IsFiniteSet(B) /\ Cardinality(B) = Cardinality(R)
  <2>1. ExistsBijection(R, B)
    BY <1>2 DEF ExistsBijection
  <2> HIDE DEF B, R
  <2> QED
    BY <1>1, <2>1, FS_Bijection
<1>4. {i \in DOMAIN (s \o r) : (s \o r)[i] = u} = A \cup B
  OBVIOUS
<1>5. A \cap B = {}
  OBVIOUS
<1>6. Cardinality(A \cup B) = Cardinality(A) + Cardinality(B)
  <2> HIDE DEF A, B, R
  <2>1. Cardinality(A \cap B) = 0
    BY <1>5, FS_EmptySet
  <2>2. Cardinality(A) \in Nat /\ Cardinality(B) \in Nat
    BY <1>1, <1>3, FS_CardinalityType
  <2>3. Cardinality(A \cup B) = Cardinality(A) + Cardinality(B) - Cardinality(A \cap B)
    BY <1>1, <1>3, FS_Union
  <2> QED
    BY <2>1, <2>2, <2>3
<1> QED
  BY <1>3, <1>4, <1>6 DEF Occurrences

\* Links adds as many occurrences of t as u has in the arguments.
LEMMA OccurrencesLinks ==
  ASSUME NEW s, NEW t, NEW ts, NEW u, NEW v, NEW l,
         s \in Seq(Tasks), t \in Tasks, ts \in Seq(Tasks), l = Links(s, t, ts, u)
  PROVE  /\ l \in Seq(Tasks)
         /\ v = t => Occurrences(l, v) = Occurrences(s, v) + Occurrences(ts, u)
         /\ v /= t => Occurrences(l, v) = Occurrences(s, v)
<1> DEFINE n == Occurrences(ts, u)
           r == [i \in 1..n |-> t]
<1>1. n \in Nat
  BY OccurrencesType
<1> HIDE DEF n
<1>2. r \in Seq(Tasks) /\ DOMAIN r = 1..n
  BY <1>1
<1>3. l = s \o r
  BY DEF Links, Occurrences, n
<1>4. Occurrences(r, v) = IF v = t THEN n ELSE 0
  <2>1. CASE v = t
    <3>1. {i \in DOMAIN r : r[i] = v} = 1..n
      BY <2>1, <1>2
    <3>2. Cardinality(1..n) = n
      BY <1>1, FS_Interval
    <3> QED
      BY <2>1, <3>1, <3>2 DEF Occurrences
  <2>2. CASE v /= t
    <3>1. {i \in DOMAIN r : r[i] = v} = {}
      BY <2>2, <1>2
    <3> QED
      BY <2>2, <3>1, FS_EmptySet DEF Occurrences
  <2> QED
    BY <2>1, <2>2
<1>5. Occurrences(s \o r, v) = Occurrences(s, v) + Occurrences(r, v)
  BY <1>2, OccurrencesConcat
<1>6. s \o r \in Seq(Tasks)
  BY <1>2
<1>7. Occurrences(s, v) \in Nat
  BY OccurrencesType
<1> QED
  BY <1>1, <1>3, <1>4, <1>5, <1>6, <1>7 DEF n

-----------------------------------------------------------------------------
(***************************************************************************)
(* The construction of a flow.                                             *)
(***************************************************************************)

LEMMA PrecedeMirrors ==
  ASSUME BuilderTypeOK, Mirrored, NEW t \in Tasks, NEW ts \in Seq(Tasks), Precede(t, ts)
  PROVE  BuilderTypeOK' /\ Mirrored'
<1>1. successors' = [successors EXCEPT ![t] = @ \o ts]
      /\ dependents' = [u \in Tasks |-> Links(dependents[u], t, ts, u)]
  BY DEF Precede
<1>2. \A u \in Tasks : successors[u] \in Seq(Tasks) /\ dependents[u] \in Seq(Tasks)
  BY DEF BuilderTypeOK
<1>3. BuilderTypeOK'
  <2>1. mapper' \in [Tasks -> Seq(Tasks)]
    BY DEF Precede, BuilderTypeOK, AnswersAdded
  <2>2. successors' \in [Tasks -> Seq(Tasks)]
    BY <1>1 DEF BuilderTypeOK
  <2>3. dependents' \in [Tasks -> Seq(Tasks)]
    BY <1>1, <1>2, OccurrencesLinks
  <2> QED
    BY <2>1, <2>2, <2>3 DEF Precede, BuilderTypeOK
<1>4. ASSUME NEW v \in Tasks, NEW u \in Tasks
      PROVE  Occurrences(successors'[v], u) = Occurrences(dependents'[u], v)
  <2>1. /\ v = t => Occurrences(dependents'[u], v) = Occurrences(dependents[u], v) + Occurrences(ts, u)
        /\ v /= t => Occurrences(dependents'[u], v) = Occurrences(dependents[u], v)
    <3> DEFINE list == dependents[u]
               new == dependents'[u]
    <3>1. list \in Seq(Tasks) /\ new = Links(list, t, ts, u)
      BY <1>1, <1>2
    <3> HIDE DEF list, new
    <3>2. /\ v = t => Occurrences(new, v) = Occurrences(list, v) + Occurrences(ts, u)
          /\ v /= t => Occurrences(new, v) = Occurrences(list, v)
      BY <3>1, OccurrencesLinks
    <3> QED
      BY <3>2 DEF list, new
  <2>2. /\ Occurrences(dependents[u], v) = Occurrences(successors[v], u)
        /\ Occurrences(successors[v], u) \in Nat
    BY <1>2, OccurrencesType DEF Mirrored
  <2>3. CASE v = t
    <3>1. successors'[v] = successors[v] \o ts
      BY <1>1, <2>3 DEF BuilderTypeOK
    <3> QED
      BY <1>2, <2>1, <2>2, <2>3, <3>1, OccurrencesConcat
  <2>4. CASE v /= t
    <3>1. successors'[v] = successors[v]
      BY <1>1, <2>4 DEF BuilderTypeOK
    <3> QED
      BY <2>1, <2>2, <2>4, <3>1
  <2> QED
    BY <2>3, <2>4
<1> QED
  BY <1>3, <1>4 DEF Mirrored

LEMMA SucceedMirrors ==
  ASSUME BuilderTypeOK, Mirrored, NEW t \in Tasks, NEW ts \in Seq(Tasks), Succeed(t, ts)
  PROVE  BuilderTypeOK' /\ Mirrored'
<1>1. dependents' = [dependents EXCEPT ![t] = @ \o ts]
      /\ successors' = [u \in Tasks |-> Links(successors[u], t, ts, u)]
  BY DEF Succeed
<1>2. \A u \in Tasks : successors[u] \in Seq(Tasks) /\ dependents[u] \in Seq(Tasks)
  BY DEF BuilderTypeOK
<1>3. BuilderTypeOK'
  <2>1. dependents' \in [Tasks -> Seq(Tasks)]
    BY <1>1 DEF BuilderTypeOK
  <2>2. successors' \in [Tasks -> Seq(Tasks)]
    BY <1>1, <1>2, OccurrencesLinks
  <2> QED
    BY <2>1, <2>2 DEF Succeed, BuilderTypeOK
<1>4. ASSUME NEW v \in Tasks, NEW u \in Tasks
      PROVE  Occurrences(successors'[v], u) = Occurrences(dependents'[u], v)
  <2>1. /\ u = t => Occurrences(successors'[v], u) = Occurrences(successors[v], u) + Occurrences(ts, v)
        /\ u /= t => Occurrences(successors'[v], u) = Occurrences(successors[v], u)
    <3> DEFINE list == successors[v]
               new == successors'[v]
    <3>1. list \in Seq(Tasks) /\ new = Links(list, t, ts, v)
      BY <1>1, <1>2
    <3> HIDE DEF list, new
    <3>2. /\ u = t => Occurrences(new, u) = Occurrences(list, u) + Occurrences(ts, v)
          /\ u /= t => Occurrences(new, u) = Occurrences(list, u)
      BY <3>1, OccurrencesLinks
    <3> QED
      BY <3>2 DEF list, new
  <2>2. /\ Occurrences(dependents[u], v) = Occurrences(successors[v], u)
        /\ Occurrences(successors[v], u) \in Nat
    BY <1>2, OccurrencesType DEF Mirrored
  <2>3. CASE u = t
    <3>1. dependents'[u] = dependents[u] \o ts
      BY <1>1, <2>3 DEF BuilderTypeOK
    <3> QED
      BY <1>2, <2>1, <2>2, <2>3, <3>1, OccurrencesConcat
  <2>4. CASE u /= t
    <3>1. dependents'[u] = dependents[u]
      BY <1>1, <2>4 DEF BuilderTypeOK
    <3> QED
      BY <2>1, <2>2, <2>4, <3>1
  <2> QED
    BY <2>3, <2>4
<1> QED
  BY <1>3, <1>4 DEF Mirrored

\* A task that is created enters a graph for the first time.
LEMMA CreationBuilds ==
  ASSUME Built, NEW g \in Graphs, NEW t \in Tasks, NEW kind \in Kinds,
         NewInner(g, t, kind) \/ (g = Flow /\ NewTask(t, kind))
  PROVE  Built'
<1>1. /\ Typ[t] = "none" /\ Typ' = [Typ EXCEPT ![t] = kind]
      /\ nodes' = [nodes EXCEPT ![g] = Append(@, t)]
      /\ UNCHANGED <<frozen, successors, dependents, priority, mapper>>
  BY DEF NewInner, NewTask, NewNode, push
<1>2. BuilderTypeOK'
  BY <1>1 DEF Built, BuilderTypeOK
<1>3. Mirrored'
  BY <1>1 DEF Built, Mirrored, Occurrences
<1>4. \A h \in Graphs : ~In(t, h)
  BY <1>1 DEF Built, OneGraph
<1>5. ASSUME NEW u \in Tasks, NEW h \in Graphs, In(u, h)'
      PROVE  In(u, h) \/ (u = t /\ h = g)
  <2>1. CASE h = g
    <3>1. nodes'[h] = Append(nodes[h], t) /\ nodes[h] \in Seq(Tasks)
      BY <1>1, <2>1 DEF Built, BuilderTypeOK
    <3> QED
      BY <1>5, <2>1, <3>1 DEF In
  <2>2. CASE h /= g
    BY <1>1, <1>5, <2>2 DEF In, Built, BuilderTypeOK
  <2> QED
    BY <2>1, <2>2
<1>6. ASSUME NEW u \in Tasks
      PROVE  /\ \A h \in Graphs : In(u, h)' => Typ'[u] /= "none"
             /\ \A h, i \in Graphs : In(u, h)' /\ In(u, i)' => h = i
  <2>1. Typ[u] /= "none" \/ u = t => Typ'[u] /= "none"
    BY <1>1 DEF Built, BuilderTypeOK, Kinds
  <2> QED
    BY <1>4, <1>5, <2>1 DEF Built, OneGraph
<1>7. OneGraph'
  BY <1>6 DEF OneGraph
<1> QED
  BY <1>2, <1>3, <1>7 DEF Built

LEMMA FlowStays ==
  ASSUME Built, UNCHANGED <<nodes, Typ, successors, dependents, mapper>>,
         priority' \in [Tasks -> Nat], frozen' \in BOOLEAN
  PROVE  Built'
<1>1. BuilderTypeOK'
  BY DEF Built, BuilderTypeOK
<1>2. Mirrored'
  BY DEF Built, Mirrored, Occurrences
<1>3. OneGraph'
  BY DEF Built, OneGraph, In
<1> QED
  BY <1>1, <1>2, <1>3 DEF Built

LEMMA RunTypesStay ==
  ASSUME RunTypes, UNCHANGED runVars,
         edited' \in BOOLEAN, calls' \in Nat, runs' \in Nat
  PROVE  RunTypes'
BY DEF RunTypes, runVars

LEMMA ClientInv ==
  ASSUME IInv, NEW g \in Graphs, NEW t \in Tasks, Client(g, t)
  PROVE  IInv'
<1>1. CASE Create(g, t)
  <2>1. PICK kind \in Kinds : NewInner(g, t, kind) \/ (~running /\ NewTask(t, kind))
    BY <1>1 DEF Create
  <2>2. ~running => g = Flow
    BY <1>1 DEF Create, Building
  <2>3. Built'
    BY <2>1, <2>2, CreationBuilds DEF IInv
  <2> QED
    BY <1>1, <2>3, RunTypesStay DEF Create, IInv, RunTypes
<1>2. CASE Connect(g, t)
  <2>1. PICK ts \in Args(g, t) : Precede(t, ts) \/ Succeed(t, ts)
    BY <1>2 DEF Connect
  <2>2. ts \in Seq(Tasks)
    <3>1. nodes[g] \in Seq(Tasks)
      BY DEF IInv, Built, BuilderTypeOK
    <3>2. ToSet(nodes[g]) \subseteq Tasks
      BY <3>1 DEF ToSet
    <3>3. PICK n \in 1..MaxArgs : ts \in [1..n -> ToSet(nodes[g]) \ {t}]
      BY <2>1 DEF Args
    <3>4. ts \in [1..n -> Tasks] /\ n \in Nat
      BY <3>2, <3>3
    <3> QED
      BY <3>4
  <2>3. BuilderTypeOK' /\ Mirrored'
    BY <2>1, <2>2, PrecedeMirrors, SucceedMirrors DEF IInv, Built
  <2>4. OneGraph'
    BY <2>1 DEF Precede, Succeed, IInv, Built, OneGraph, In
  <2>5. calls' \in Nat /\ edited' \in BOOLEAN /\ runs' \in Nat
    BY <1>2 DEF Connect, IInv, RunTypes
  <2> QED
    BY <1>2, <2>3, <2>4, <2>5, RunTypesStay DEF Connect, IInv, Built, RunTypes
<1>3. CASE Prioritize(g, t)
  <2>1. PICK p \in Priorities : Priority(t, p)
    BY <1>3 DEF Prioritize
  <2>2. Built'
    BY <2>1, FlowStays DEF Priority, IInv, Built, BuilderTypeOK
  <2>3. calls' \in Nat /\ edited' \in BOOLEAN /\ runs' \in Nat
    BY <1>3 DEF Prioritize, IInv, RunTypes
  <2> QED
    BY <1>3, <2>2, <2>3, RunTypesStay DEF Prioritize, IInv, RunTypes
<1> QED
  BY <1>1, <1>2, <1>3 DEF Client

-----------------------------------------------------------------------------
(***************************************************************************)
(* A run.                                                                  *)
(***************************************************************************)

LEMMA RecordTypes ==
  ASSUME Built, RunTypes, NEW t \in Tasks, Record(t)
  PROVE  DOMAIN trace' \subseteq Tasks /\ \A u \in DOMAIN trace' : trace'[u] \in Seq(Tasks)
BY DEF Record, Built, BuilderTypeOK, RunTypes

LEMMA FlowUntouched ==
  ASSUME Built, UNCHANGED flowVars
  PROVE  Built'
BY FlowStays DEF flowVars, Built, BuilderTypeOK

LEMMA LeavesTypes ==
  ASSUME RunTypes, NEW t \in Tasks, Leaves(t) \/ left' = left
  PROVE  left' \subseteq Tasks
BY DEF Leaves, RunTypes

LEMMA ExecuteInv ==
  ASSUME IInv, NEW t \in Tasks, Execute(t)
  PROVE  IInv'
<1> USE DEF IInv
<1>1. Built'
  BY FlowUntouched DEF Execute, Static, Condition, Subflow, Instantiate, Panic, Skip, Finish
<1>2. CASE Static(t)
  BY <1>1, <1>2, RecordTypes DEF Static, RunTypes
<1>3. CASE Condition(t)
  <2>1. ToSet(mapper[t]) \subseteq Tasks
    BY DEF ToSet, Built, BuilderTypeOK
  <2> QED
    BY <1>1, <1>3, <2>1, RecordTypes DEF Condition, RunTypes
<1>4. CASE Subflow(t)
  BY <1>1, <1>4, RecordTypes DEF Subflow, RunTypes
<1>5. CASE Instantiate(t)
  BY <1>1, <1>5 DEF Instantiate, RunTypes
<1>6. CASE Panic(t)
  <2>1. canceled' \in [Graphs -> BOOLEAN]
    BY <1>6 DEF Panic
  <2>2. finished' \subseteq started' /\ started' \subseteq Tasks
    BY <1>6 DEF Panic, RunTypes
  <2>3. left' \subseteq Tasks
    BY <1>6, LeavesTypes DEF Panic
  <2> QED
    BY <1>1, <1>6, <2>1, <2>2, <2>3, RecordTypes DEF Panic, RunTypes
<1>7. CASE Skip(t)
  <2>1. finished' \subseteq started' /\ started' \subseteq Tasks
    BY <1>7 DEF Skip, RunTypes
  <2> QED
    BY <1>1, <1>7, <2>1, RecordTypes DEF Skip, RunTypes
<1>8. CASE Finish(t)
  <2>1. canceled' \in [Graphs -> BOOLEAN]
    BY <1>8 DEF Finish
  <2>2. left' \subseteq Tasks
    BY <1>8, LeavesTypes DEF Finish
  <2> QED
    BY <1>1, <1>8, <2>1, <2>2 DEF Finish, RunTypes
<1> QED
  BY <1>2, <1>3, <1>4, <1>5, <1>6, <1>7, <1>8 DEF Execute

LEMMA OthersInv ==
  ASSUME IInv, Reset \/ Run \/ Instantiated \/ Return \/ Over
  PROVE  IInv'
<1> USE DEF IInv
<1>1. CASE Reset
  <2>1. Built'
    BY <1>1, FlowStays DEF Reset, Thaw, Built, BuilderTypeOK
  <2> QED
    BY <1>1, <2>1, RunTypesStay DEF Reset, RunTypes
<1>2. CASE Run
  <2>1. Built'
    BY <1>2, FlowStays DEF Run, Freeze, Built, BuilderTypeOK
  <2> QED
    BY <1>2, <2>1 DEF Run, RunTypes
<1>3. CASE Instantiated
  <2>1. Built'
    BY <1>3, FlowUntouched DEF Instantiated
  <2>2. building \in Tasks
    BY <1>3 DEF Instantiated, RunTypes
  <2> QED
    BY <1>3, <2>1, <2>2, RecordTypes DEF Instantiated, RunTypes
<1>4. CASE Return
  <2>1. Built'
    BY <1>4, FlowUntouched DEF Return
  <2> QED
    BY <1>4, <2>1 DEF Return, RunTypes
<1>5. CASE Over
  <2>1. Built'
    BY <1>5, FlowUntouched DEF Over, lifeVars
  <2> QED
    BY <1>5, <2>1, RunTypesStay DEF Over, lifeVars, RunTypes
<1> QED
  BY <1>1, <1>2, <1>3, <1>4, <1>5

LEMMA InitInv == Init => IInv
<1> SUFFICES ASSUME Init
             PROVE  IInv
  OBVIOUS
<1>1. BuilderTypeOK
  <2>1. <<>> \in Seq(Tasks)
    OBVIOUS
  <2>2. /\ successors = [t \in Tasks |-> <<>>] /\ dependents = [t \in Tasks |-> <<>>]
        /\ mapper = [t \in Tasks |-> <<>>] /\ nodes = [g \in Graphs |-> <<>>]
    BY DEF Init, BuilderInit, newNode
  <2>3. Typ \in [Tasks -> Kinds \cup {"none"}] /\ priority \in [Tasks -> Nat] /\ frozen \in BOOLEAN
    BY DEF Init, BuilderInit, newNode
  <2> QED
    BY <2>1, <2>2, <2>3 DEF BuilderTypeOK
<1>2. Mirrored
  <2>1. ASSUME NEW t \in Tasks, NEW u \in Tasks
        PROVE  Occurrences(successors[t], u) = Occurrences(dependents[u], t)
    <3>1. successors[t] = <<>> /\ dependents[u] = <<>>
      BY DEF Init, BuilderInit, newNode
    <3>2. \A v : {i \in DOMAIN <<>> : <<>>[i] = v} = {}
      OBVIOUS
    <3> QED
      BY <3>1, <3>2 DEF Occurrences
  <2> QED
    BY <2>1 DEF Mirrored
<1>3. OneGraph
  BY DEF Init, BuilderInit, OneGraph, In
<1>4. RunTypes
  <2>1. canceled \in [Graphs -> BOOLEAN] /\ instantiated \in [Graphs -> BOOLEAN]
    BY DEF Init
  <2>2. DOMAIN trace = {}
    BY DEF Init
  <2> QED
    BY <2>1, <2>2 DEF Init, RunTypes
<1> QED
  BY <1>1, <1>2, <1>3, <1>4 DEF IInv, Built

LEMMA NextInv == IInv /\ [Next]_lifeVars => IInv'
<1> SUFFICES ASSUME IInv, [Next]_lifeVars
             PROVE  IInv'
  OBVIOUS
<1>1. CASE UNCHANGED lifeVars
  <2>1. Built'
    BY <1>1, FlowUntouched DEF lifeVars, IInv
  <2> QED
    BY <1>1, <2>1, RunTypesStay DEF lifeVars, IInv, RunTypes
<1> QED
  BY <1>1, ClientInv, ExecuteInv, OthersInv DEF Next

LEMMA Invariance == Spec => []IInv
BY InitInv, NextInv, PTL DEF Spec

-----------------------------------------------------------------------------
\* The flow, the run and the trace keep their types, for any tasks and bounds.
THEOREM LifecycleTypeCorrect == Spec => []TypeOK
<1>1. IInv => TypeOK
  BY DEF IInv, Built, RunTypes, TypeOK
<1> QED
  BY <1>1, Invariance, PTL

\* However Precede and Succeed are called, on a flow and in the instantiate
\* functions of its subflows, before and after runs, each edge is counted the
\* same at both of its ends.
THEOREM EdgesMirrored == Spec => []Mirrored
<1>1. IInv => Mirrored
  BY DEF IInv, Built
<1> QED
  BY <1>1, Invariance, PTL

-----------------------------------------------------------------------------
(***************************************************************************)
(* Induction, and what a relation leads to.                                *)
(***************************************************************************)

\* Every set of numbers has a least one, which is induction without an operator.
LEMMA LeastNat ==
  ASSUME NEW T \in SUBSET Nat, T /= {}
  PROVE  \E k \in T : \A j \in T : k <= j
<1> DEFINE R == OpToRel(<, Nat)
<1>1. \E k \in T : \A j \in T : ~(<<j, k>> \in R)
  <2>1. IsWellFoundedOn(R, Nat)
    BY NatLessThanWellFounded
  <2> HIDE DEF R
  <2> QED
    BY <2>1, WFMin
<1>2. \A j, k \in Nat : j < k => <<j, k>> \in R
  BY DEF OpToRel
<1> HIDE DEF R
<1>3. PICK k \in T : \A j \in T : ~(<<j, k>> \in R)
  BY <1>1
<1>4. \A j \in T : j \in Nat /\ k \in Nat /\ ~(j < k)
  BY <1>2, <1>3
<1> QED
  BY <1>4

\* What R leads to from a set.
Image(R, G, S) == {t \in G : \E g \in S : <<g, t>> \in R}

\* A set with B in it that R does not lead out of.
Closed(R, G, B, S) == B \subseteq S /\ Image(R, G, S) \subseteq S

\* Sets that grow by what R leads to from the one before.
Grows(f, R, G, B, N) ==
  /\ f[0] = B
  /\ \A k \in 0..N : k < N /\ f[k] \subseteq G => f[k + 1] = f[k] \cup Image(R, G, f[k])

\* The same without end, as the model's recursive functions define them.
Leads(f, R, G, B) ==
  /\ f \in [Nat -> SUBSET G]
  /\ \A k \in Nat : f[k] = IF k = 0 THEN B ELSE f[k - 1] \cup Image(R, G, f[k - 1])

\* There are such sets: pairs of a turn and what is reached in it, as few as possible.
LEMMA TurnsExist ==
  ASSUME NEW R, NEW G, NEW B \in SUBSET G
  PROVE  \E f : Leads(f, R, G, B)
<1> DEFINE Follows(S) == /\ \A b \in B : <<0, b>> \in S
                         /\ \A k \in Nat, g \in G :
                              <<k, g>> \in S => /\ <<k + 1, g>> \in S
                                                /\ \A t \in G : <<g, t>> \in R => <<k + 1, t>> \in S
           least == {p \in Nat \X G : \A S \in SUBSET (Nat \X G) : Follows(S) => p \in S}
           f == [k \in Nat |-> {t \in G : <<k, t>> \in least}]
<1>1. Follows(least)
  <2>1. \A b \in B : <<0, b>> \in Nat \X G
    OBVIOUS
  <2>2. \A k \in Nat, g \in G : k + 1 \in Nat /\ <<k + 1, g>> \in Nat \X G
    OBVIOUS
  <2>3. \A b \in B : <<0, b>> \in least
    BY <2>1
  <2>4. ASSUME NEW k \in Nat, NEW g \in G, <<k, g>> \in least,
               NEW t \in G, t = g \/ <<g, t>> \in R
        PROVE  <<k + 1, t>> \in least
    <3>1. \A S \in SUBSET (Nat \X G) : Follows(S) => <<k, g>> \in S
      BY <2>4
    <3>2. \A S \in SUBSET (Nat \X G) : Follows(S) => <<k + 1, t>> \in S
      BY <2>4, <3>1
    <3> QED
      BY <2>2, <3>2
  <2> HIDE DEF least
  <2> QED
    BY <2>3, <2>4
<1>2. f[0] = B
  <2> DEFINE S == {p \in Nat \X G : p[1] = 0 => p[2] \in B}
  <2>1. Follows(S)
    OBVIOUS
  <2>2. least \subseteq S
    BY <2>1
  <2>3. \A t \in G : <<0, t>> \in least => t \in B
    BY <2>2
  <2> HIDE DEF least
  <2> QED
    BY <1>1, <2>3
<1>3. ASSUME NEW k \in Nat
      PROVE  f[k + 1] = f[k] \cup Image(R, G, f[k])
  <2> DEFINE new == f[k] \cup Image(R, G, f[k])
             S == {p \in least : p[1] = k + 1 => p[2] \in new}
  <2>1. Follows(S)
    <3> HIDE DEF least
    <3>1. \A b \in B : <<0, b>> \in S
      <4> HIDE DEF new
      <4>1. 0 /= k + 1
        OBVIOUS
      <4> QED
        BY <1>1, <4>1
    <3>2. ASSUME NEW j \in Nat, NEW g \in G, <<j, g>> \in S
          PROVE  /\ <<j + 1, g>> \in S
                 /\ \A t \in G : <<g, t>> \in R => <<j + 1, t>> \in S
      <4>1. <<j, g>> \in least
        BY <3>2
      <4>2. <<j + 1, g>> \in least /\ \A t \in G : <<g, t>> \in R => <<j + 1, t>> \in least
        BY <1>1, <4>1
      <4>3. j = k => g \in f[k]
        BY <4>1
      <4>4. j + 1 = k + 1 => j = k
        OBVIOUS
      <4> HIDE DEF f
      <4>5. j = k => g \in new /\ \A t \in G : <<g, t>> \in R => t \in new
        BY <4>3 DEF Image
      <4> HIDE DEF new
      <4> QED
        BY <4>2, <4>4, <4>5
    <3> QED
      BY <3>1, <3>2
  <2>2. S \in SUBSET (Nat \X G)
    OBVIOUS
  <2>3. least \subseteq S
    <3> HIDE DEF S
    <3> QED
      BY <2>1, <2>2
  <2> HIDE DEF least
  <2>4. \A t \in G : <<k + 1, t>> \in least => t \in new
    BY <2>3
  <2>5. \A t \in new : t \in G /\ <<k + 1, t>> \in least
    BY <1>1 DEF Image
  <2>6. f[k + 1] = {t \in G : <<k + 1, t>> \in least}
    OBVIOUS
  <2> HIDE DEF new
  <2> QED
    BY <2>4, <2>5, <2>6 DEF new
<1>4. f \in [Nat -> SUBSET G]
  OBVIOUS
<1> HIDE DEF f
<1>5. \A k \in Nat : f[k] = IF k = 0 THEN B ELSE f[k - 1] \cup Image(R, G, f[k - 1])
  <2> TAKE k \in Nat
  <2>1. k = 0 \/ (k - 1 \in Nat /\ k = (k - 1) + 1)
    OBVIOUS
  <2> QED
    BY <1>2, <1>3, <2>1
<1> QED
  BY <1>4, <1>5 DEF Leads

\* After as many turns as there are elements the sets have become the least closed one.
LEMMA TurnsClose ==
  ASSUME NEW R, NEW G, NEW B \in SUBSET G, IsFiniteSet(G), NEW N \in Nat,
         Cardinality(G) <= Cardinality(B) + N, NEW f, Grows(f, R, G, B, N)
  PROVE  /\ f[N] \subseteq G
         /\ Closed(R, G, B, f[N])
         /\ \A S \in SUBSET G : Closed(R, G, B, S) => f[N] \subseteq S
<1>1. ASSUME NEW S \in SUBSET G, Closed(R, G, B, S)
      PROVE  \A k \in 0..N : f[k] \subseteq S
  <2> DEFINE T == {k \in 0..N : ~(f[k] \subseteq S)}
  <2> SUFFICES ASSUME T /= {} PROVE FALSE
    OBVIOUS
  <2>1. PICK k \in T : \A j \in T : k <= j
    <3>1. T \in SUBSET Nat
      OBVIOUS
    <3> HIDE DEF T
    <3> QED
      BY <3>1, LeastNat
  <2>2. k /= 0
    BY <1>1, <2>1 DEF Grows, Closed
  <2>3. k - 1 \in 0..N /\ k - 1 < N /\ (k - 1) + 1 = k /\ k - 1 \notin T
    BY <2>1, <2>2
  <2>4. f[k - 1] \subseteq S
    BY <2>3
  <2> QED
    <3>1. f[k] = f[k - 1] \cup Image(R, G, f[k - 1])
      BY <2>3, <2>4 DEF Grows
    <3>2. Image(R, G, f[k - 1]) \subseteq S
      BY <1>1, <2>4 DEF Closed, Image
    <3> QED
      BY <2>4, <3>1, <3>2
<1>2. \A k \in 0..N : f[k] \subseteq G
  BY <1>1 DEF Closed, Image
<1>3. \A k \in 0..N : k < N => f[k + 1] = f[k] \cup Image(R, G, f[k])
  BY <1>2 DEF Grows
<1>4. \A k \in 0..N : B \subseteq f[k]
  <2> DEFINE T == {k \in 0..N : ~(B \subseteq f[k])}
  <2> SUFFICES ASSUME T /= {} PROVE FALSE
    OBVIOUS
  <2>1. PICK k \in T : \A j \in T : k <= j
    <3>1. T \in SUBSET Nat
      OBVIOUS
    <3> HIDE DEF T
    <3> QED
      BY <3>1, LeastNat
  <2>2. k /= 0
    BY <2>1 DEF Grows
  <2>3. k - 1 \in 0..N /\ k - 1 < N /\ (k - 1) + 1 = k /\ k - 1 \notin T
    BY <2>1, <2>2
  <2> QED
    BY <1>3, <2>3
<1>5. ASSUME ~Closed(R, G, B, f[N])
      PROVE  \A k \in 0..N : Cardinality(B) + k <= Cardinality(f[k])
  <2> DEFINE T == {k \in 0..N : ~(Cardinality(B) + k <= Cardinality(f[k]))}
  <2> SUFFICES ASSUME T /= {} PROVE FALSE
    OBVIOUS
  <2>1. PICK k \in T : \A j \in T : k <= j
    <3>1. T \in SUBSET Nat
      OBVIOUS
    <3> HIDE DEF T
    <3> QED
      BY <3>1, LeastNat
  <2>2. Cardinality(B) \in Nat
    BY FS_Subset, FS_CardinalityType
  <2>3. k /= 0
    BY <2>1, <2>2 DEF Grows
  <2>4. k - 1 \in 0..N /\ k - 1 < N /\ (k - 1) + 1 = k /\ k - 1 \notin T
    BY <2>1, <2>3
  <2>5. Cardinality(B) + (k - 1) <= Cardinality(f[k - 1])
    BY <2>4
  <2>6. f[k] = f[k - 1] \cup Image(R, G, f[k - 1])
    BY <1>3, <2>4
  <2>7. ~(f[k] \subseteq f[k - 1])
    <3> SUFFICES ASSUME f[k] \subseteq f[k - 1] PROVE FALSE
      OBVIOUS
    <3>1. Closed(R, G, B, f[k - 1])
      BY <1>4, <2>4, <2>6 DEF Closed
    <3>2. f[N] \subseteq f[k - 1]
      BY <1>1, <1>2, <2>4, <3>1
    <3>3. Image(R, G, f[N]) \subseteq f[k - 1]
      BY <3>1, <3>2 DEF Closed, Image
    <3>4. f[k - 1] \subseteq f[N]
      <4> DEFINE U == {j \in 0..N : k - 1 <= j /\ ~(f[k - 1] \subseteq f[j])}
      <4> SUFFICES ASSUME U /= {} PROVE FALSE
        OBVIOUS
      <4>1. PICK j \in U : \A i \in U : j <= i
        <5>1. U \in SUBSET Nat
          OBVIOUS
        <5> HIDE DEF U
        <5> QED
          BY <5>1, LeastNat
      <4>2. j /= k - 1
        BY <4>1
      <4>3. j - 1 \in 0..N /\ j - 1 < N /\ (j - 1) + 1 = j /\ k - 1 <= j - 1
        BY <2>4, <4>1, <4>2
      <4>4. j - 1 \notin U
        BY <4>1, <4>3
      <4> QED
        BY <1>3, <4>1, <4>3, <4>4
    <3> QED
      BY <1>4, <1>5, <3>3, <3>4 DEF Closed
  <2>8. IsFiniteSet(f[k]) /\ IsFiniteSet(f[k - 1])
    BY <1>2, <2>4, FS_Subset
  <2>9. PICK x \in f[k] : x \notin f[k - 1]
    BY <2>7
  <2>10. Cardinality(f[k - 1] \cup {x}) = Cardinality(f[k - 1]) + 1
    BY <2>8, <2>9, FS_AddElement
  <2>11. f[k - 1] \cup {x} \subseteq f[k]
    BY <2>6, <2>9
  <2>12. Cardinality(f[k - 1] \cup {x}) <= Cardinality(f[k])
    BY <2>8, <2>11, FS_Subset
  <2>13. Cardinality(f[k]) \in Nat /\ Cardinality(f[k - 1]) \in Nat
    BY <2>8, FS_CardinalityType
  <2> QED
    BY <2>1, <2>2, <2>4, <2>5, <2>10, <2>12, <2>13
<1>6. Closed(R, G, B, f[N])
  <2> SUFFICES ASSUME ~Closed(R, G, B, f[N]) PROVE FALSE
    OBVIOUS
  <2>1. N \in 0..N /\ f[N] \in SUBSET G
    BY <1>2
  <2>2. Cardinality(G) <= Cardinality(f[N])
    <3>1. Cardinality(B) \in Nat /\ Cardinality(G) \in Nat /\ Cardinality(f[N]) \in Nat
      BY <2>1, FS_Subset, FS_CardinalityType
    <3> QED
      BY <1>5, <2>1, <3>1
  <2>3. Cardinality(f[N]) <= Cardinality(G) /\ (Cardinality(G) = Cardinality(f[N]) => G = f[N])
    BY <2>1, FS_Subset
  <2>4. Cardinality(G) \in Nat /\ Cardinality(f[N]) \in Nat
    BY <2>1, FS_Subset, FS_CardinalityType
  <2>5. G = f[N]
    BY <2>2, <2>3, <2>4
  <2> QED
    BY <2>5 DEF Closed, Image
<1> QED
  BY <1>1, <1>2, <1>6

-----------------------------------------------------------------------------
(***************************************************************************)
(* Where things are: in a graph, in a run, in the trace.                   *)
(***************************************************************************)

\* The mapper of a condition is behind its successors, or holds the same.
Mapped ==
  \A c \in Tasks :
    /\ Len(mapper[c]) <= Len(successors[c])
    /\ Len(mapper[c]) = Len(successors[c]) => mapper[c] = successors[c]

Holds(s, u) == \E i \in DOMAIN s : s[i] = u

\* A task that has been created is in a graph, together with its neighbours.
Together(t, u) == \E g \in Graphs : In(t, g) /\ In(u, g)
Homed ==
  \A t \in Tasks :
    /\ Typ[t] /= "none" => \E g \in Graphs : In(t, g)
    /\ \A u \in Tasks :
         Holds(successors[t], u) \/ Holds(dependents[t], u) \/ Holds(mapper[t], u) => Together(t, u)

\* From a graph to those of its subflows, and of those that have been built.
Nests == {p \in Graphs \X Graphs : p[2] \in Tasks /\ Typ[p[2]] = "subflow" /\ In(p[2], p[1])}
NestsBuilt == {p \in Nests : instantiated[p[2]]}

\* A graph that is not empty is nested in the flow, at some depth; and one that has
\* been built is nested in the flow in graphs that have been built.
Rooted ==
  /\ \A S \in SUBSET Graphs : Closed(Nests, Graphs, {Flow}, S) =>
       \A g \in Graphs : (\E t \in Tasks : In(t, g)) => g \in S
  /\ \A S \in SUBSET Graphs : Closed(NestsBuilt, Graphs, {Flow}, S) =>
       \A g \in Graphs : instantiated[g] => g \in S

\* A subflow that is being built has tasks that nobody knows of yet.
Builds ==
  /\ instantiated[Flow]
  /\ \A g \in Tasks : (\E t \in Tasks : In(t, g)) => Typ[g] = "subflow"
  /\ building /= None =>
       /\ Typ[building] = "subflow" /\ ~instantiated[building]
       /\ building \in started \ finished /\ building \notin DOMAIN trace

\* What a run leaves behind, and what it starts with.
Turns ==
  /\ runs = 0 => ~running /\ DOMAIN trace = {}
  /\ ~running => started = {} /\ chosen = {} /\ building = None /\ left = {}

Active == started \ finished

\* A task is executed inside an execution of the subflow that it belongs to, unless
\* that has been canceled and did not wait.  What has been executed of subflows has
\* been built, or has panicked, or was skipped in a canceled graph.
Inside ==
  /\ \A t \in started \cup DOMAIN trace : \E g \in Graphs : In(t, g) /\ instantiated[g]
  /\ \A t \in Active, g \in Tasks : In(t, g) => g \in Active \/ canceled[g]
  /\ \A t \in started \cup DOMAIN trace :
       Typ[t] = "subflow" /\ t /= building =>
         instantiated[t] \/ canceled[t] \/ \E g \in Graphs : In(t, g) /\ canceled[g]

\* What is left has not been executed, and is of a graph that was canceled in its run.
Leftover ==
  \A t \in left : t \notin started /\ \E g \in Graphs : In(t, g) /\ instantiated[g] /\ canceled[g]

\* A canceled subflow has canceled the graph around it, or will when it finishes.
MarksClimb ==
  \A t \in Tasks : canceled[t] => \E g \in Graphs : In(t, g) /\ (canceled[g] \/ t \in Active)

\* A subflow has finished when nothing of it can start any more.
Exhausted ==
  \A g \in finished : instantiated[g] /\ ~canceled[g] =>
    \A t \in Tasks : In(t, g) => t \in started \/ ~Released(t)

\* The trace has every task that was executed, with the edges it has had since.
Traces ==
  /\ started \subseteq DOMAIN trace \cup {building}
  /\ \A g \in Tasks : instantiated[g] => g \in DOMAIN trace
  /\ ~edited => \A t \in DOMAIN trace : trace[t] = dependents[t]

LInv ==
  /\ Mapped /\ Homed /\ Rooted /\ Builds /\ Turns
  /\ Inside /\ Leftover /\ MarksClimb /\ Exhausted /\ Traces

-----------------------------------------------------------------------------
(***************************************************************************)
(* Lists and graphs.                                                       *)
(***************************************************************************)

LEMMA HoldsWhatIsListed ==
  ASSUME NEW s \in Seq(Tasks)
  PROVE  \A p : p \in ToSet(s) => p \in Tasks /\ Holds(s, p)
<1> SUFFICES ASSUME NEW p \in ToSet(s) PROVE p \in Tasks /\ Holds(s, p)
  OBVIOUS
<1>1. PICK i \in DOMAIN s : s[i] = p
  BY DEF ToSet
<1> QED
  BY <1>1 DEF Holds

LEMMA EdgeLists ==
  ASSUME IInv, NEW t \in Tasks
  PROVE  successors[t] \in Seq(Tasks) /\ dependents[t] \in Seq(Tasks) /\ mapper[t] \in Seq(Tasks)
BY DEF IInv, Built, BuilderTypeOK

LEMMA HoldsConcat ==
  ASSUME NEW s \in Seq(Tasks), NEW r \in Seq(Tasks), NEW u, Holds(s \o r, u)
  PROVE  Holds(s, u) \/ Holds(r, u)
<1>1. PICK i \in DOMAIN (s \o r) : (s \o r)[i] = u
  BY DEF Holds
<1>2. CASE i <= Len(s)
  BY <1>1, <1>2 DEF Holds
<1>3. CASE ~(i <= Len(s))
  <2>1. i - Len(s) \in DOMAIN r /\ r[i - Len(s)] = u
    BY <1>1, <1>3
  <2> QED
    BY <2>1 DEF Holds
<1> QED
  BY <1>2, <1>3

LEMMA HoldsLinks ==
  ASSUME NEW s \in Seq(Tasks), NEW t \in Tasks, NEW ts \in Seq(Tasks), NEW u, NEW x,
         Holds(Links(s, t, ts, u), x)
  PROVE  Holds(s, x) \/ (x = t /\ Holds(ts, u))
<1> DEFINE K == {k \in DOMAIN ts : ts[k] = u}
           n == Cardinality(K)
           r == [i \in 1..n |-> t]
<1>1. IsFiniteSet(K) /\ n \in Nat
  BY OccurrencesType DEF Occurrences
<1>2. Links(s, t, ts, u) = s \o r
  BY DEF Links
<1> HIDE DEF n, K
<1>3. r \in Seq(Tasks) /\ DOMAIN r = 1..n
  BY <1>1
<1>4. Holds(s, x) \/ Holds(r, x)
  <2> HIDE DEF r
  <2>1. Holds(s \o r, x)
    BY <1>2
  <2> QED
    BY <1>3, <2>1, HoldsConcat
<1>5. CASE Holds(r, x)
  <2>1. x = t /\ n /= 0
    BY <1>1, <1>5 DEF Holds
  <2>2. K /= {}
    BY <2>1, FS_EmptySet DEF n
  <2> QED
    BY <2>1, <2>2 DEF K, Holds
<1> QED
  BY <1>4, <1>5

LEMMA OneHome ==
  ASSUME IInv, NEW t \in Tasks, NEW g \in Graphs, In(t, g)
  PROVE  graphOf(t) = g /\ t \in ToSet(nodes[g])
<1>1. \A h \in Graphs : t \in ToSet(nodes[h]) <=> In(t, h)
  BY DEF ToSet, In
<1>2. \A h \in Graphs : In(t, h) => h = g
  BY DEF IInv, Built, OneGraph
<1> QED
  BY <1>1, <1>2 DEF graphOf

LEMMA InSet ==
  ASSUME NEW t, NEW g \in Graphs
  PROVE  t \in ToSet(nodes[g]) <=> In(t, g)
BY DEF ToSet, In

LEMMA InTask ==
  ASSUME IInv, NEW t, NEW g \in Graphs, In(t, g)
  PROVE  t \in Tasks
BY DEF IInv, Built, BuilderTypeOK, In

\* What is known of a task that may start.
LEMMA StartingTask ==
  ASSUME IInv, LInv, NEW t \in Tasks, Startable(t)
  PROVE  /\ running /\ building = None /\ t \notin started /\ Typ[t] /= "none"
         /\ graphOf(t) \in Graphs /\ In(t, graphOf(t))
         /\ instantiated[graphOf(t)] /\ ~canceled[graphOf(t)]
         /\ graphOf(t) = Flow \/ graphOf(t) \in Active
         /\ t \notin left
<1>1. PICK g \in Graphs : In(t, g)
  BY DEF Startable, LInv, Homed
<1>2. graphOf(t) = g
  BY <1>1, OneHome
<1>3. t \notin left
  BY <1>1, <1>2 DEF Startable, LInv, Leftover, IInv, Built, OneGraph
<1> QED
  BY <1>1, <1>2, <1>3 DEF Startable, Driven, Active, LInv, Builds

\* The graph that is being built, and what is around it.
LEMMA BuildingGraph ==
  ASSUME IInv, LInv, NEW g \in Graphs, Building(g)
  PROVE  /\ g \notin finished /\ g \notin DOMAIN trace
         /\ running => g \in Tasks /\ ~instantiated[g] /\ building = g /\ g \in Active
                       /\ Typ[g] = "subflow"
         /\ ~running => g = Flow /\ started = {} /\ building = None
<1>1. Flow \notin finished /\ Flow \notin DOMAIN trace
  BY DEF IInv, RunTypes
<1>2. CASE running
  <2>1. g = building
    BY <1>2 DEF Building
  <2>2. building /= None
    BY <2>1
  <2> QED
    BY <1>2, <2>1, <2>2 DEF LInv, Builds, IInv, RunTypes, Active
<1>3. CASE ~running
  BY <1>1, <1>3 DEF Building, LInv, Turns
<1> QED
  BY <1>2, <1>3 DEF IInv, RunTypes

LEMMA CreateEffect ==
  ASSUME IInv, NEW g \in Graphs, NEW t \in Tasks, Create(g, t)
  PROVE  \E kind \in Kinds :
           /\ Typ[t] = "none" /\ Typ' = [Typ EXCEPT ![t] = kind]
           /\ UNCHANGED <<successors, dependents, mapper>>
           /\ UNCHANGED <<runVars, edited, runs>>
           /\ \A u \in Tasks, h \in Graphs : In(u, h)' <=> In(u, h) \/ (u = t /\ h = g)
           /\ \A h \in Graphs : ~In(t, h)
           /\ Building(g)
<1>1. PICK kind \in Kinds : NewInner(g, t, kind) \/ (~running /\ NewTask(t, kind))
  BY DEF Create
<1>2. ~running => g = Flow
  BY DEF Create, Building
<1>3. /\ Typ[t] = "none" /\ Typ' = [Typ EXCEPT ![t] = kind]
      /\ nodes' = [nodes EXCEPT ![g] = Append(@, t)]
      /\ UNCHANGED <<successors, dependents, mapper>>
  BY <1>1, <1>2 DEF NewInner, NewTask, NewNode, push
<1>4. ASSUME NEW u \in Tasks, NEW h \in Graphs
      PROVE  In(u, h)' <=> In(u, h) \/ (u = t /\ h = g)
  <2>0. nodes[h] \in Seq(Tasks)
    BY DEF IInv, Built, BuilderTypeOK
  <2>1. CASE h = g
    <3>1. nodes'[h] = Append(nodes[h], t)
      BY <1>3, <2>1 DEF IInv, Built, BuilderTypeOK
    <3>2. /\ \A i \in DOMAIN nodes[h] : i \in DOMAIN nodes'[h] /\ nodes'[h][i] = nodes[h][i]
          /\ Len(nodes[h]) + 1 \in DOMAIN nodes'[h] /\ nodes'[h][Len(nodes[h]) + 1] = t
          /\ \A i \in DOMAIN nodes'[h] : i \in DOMAIN nodes[h] \/ i = Len(nodes[h]) + 1
      BY <2>0, <3>1
    <3> QED
      BY <2>1, <3>2 DEF In
  <2>2. CASE h /= g
    BY <1>3, <2>2 DEF In, IInv, Built, BuilderTypeOK
  <2> QED
    BY <2>1, <2>2
<1>5. \A h \in Graphs : ~In(t, h)
  BY <1>3 DEF IInv, Built, OneGraph
<1> QED
  BY <1>3, <1>4, <1>5 DEF Create

LEMMA ConnectEffect ==
  ASSUME IInv, NEW g \in Graphs, NEW t \in Tasks, Connect(g, t)
  PROVE  \E ts \in Seq(Tasks) :
           /\ Precede(t, ts) \/ Succeed(t, ts)
           /\ In(t, g) /\ \A u : Holds(ts, u) => In(u, g)
<1>1. PICK ts \in Args(g, t) : Precede(t, ts) \/ Succeed(t, ts)
  BY DEF Connect
<1>2. PICK n \in 1..MaxArgs : ts \in [1..n -> ToSet(nodes[g]) \ {t}]
  BY <1>1 DEF Args
<1>3. ToSet(nodes[g]) \subseteq Tasks
  BY InSet, InTask
<1>4. ts \in Seq(Tasks)
  <2>1. ts \in [1..n -> Tasks] /\ n \in Nat
    BY <1>2, <1>3
  <2> QED
    BY <2>1
<1>5. \A u : Holds(ts, u) => u \in ToSet(nodes[g])
  BY <1>2 DEF Holds
<1> QED
  BY <1>1, <1>4, <1>5, InSet DEF Connect

-----------------------------------------------------------------------------
(***************************************************************************)
(* The client's steps keep LInv.                                           *)
(***************************************************************************)

\* A set that a larger relation does not lead out of, a smaller does not either.
LEMMA ClosedBySmaller ==
  ASSUME NEW R, NEW Q, R \subseteq Q, NEW G, NEW B, NEW S, Closed(Q, G, B, S)
  PROVE  Closed(R, G, B, S)
BY DEF Closed, Image

LEMMA CreateKeeps ==
  ASSUME IInv, IInv', LInv, NEW g \in Graphs, NEW t \in Tasks, Create(g, t)
  PROVE  LInv'
<1>1. PICK kind \in Kinds :
        /\ Typ[t] = "none" /\ Typ' = [Typ EXCEPT ![t] = kind]
        /\ UNCHANGED <<successors, dependents, mapper>>
        /\ UNCHANGED <<runVars, edited, runs>>
        /\ \A u \in Tasks, h \in Graphs : In(u, h)' <=> In(u, h) \/ (u = t /\ h = g)
        /\ \A h \in Graphs : ~In(t, h)
        /\ Building(g)
  BY CreateEffect
<1>2. /\ \A u \in Tasks : u /= t => Typ'[u] = Typ[u]
      /\ Typ'[t] \in Kinds
  BY <1>1 DEF IInv, Built, BuilderTypeOK
<1>3. \A u \in Tasks, h \in Graphs : In(u, h) => u /= t /\ In(u, h)' /\ Typ'[u] = Typ[u]
  BY <1>1, <1>2
<1>4. t \notin started /\ t \notin DOMAIN trace
  BY <1>1 DEF LInv, Inside
<1>5. Mapped'
  BY <1>1 DEF LInv, Mapped
<1>6. Homed'
  <2>1. ASSUME NEW u \in Tasks
        PROVE  Typ'[u] /= "none" => \E h \in Graphs : In(u, h)'
    BY <1>1, <1>2 DEF LInv, Homed
  <2>2. ASSUME NEW u \in Tasks, NEW v \in Tasks,
               Holds(successors'[u], v) \/ Holds(dependents'[u], v) \/ Holds(mapper'[u], v)
        PROVE  Together(u, v)'
    <3>1. Together(u, v)
      BY <1>1, <2>2 DEF LInv, Homed
    <3> QED
      BY <1>1, <3>1 DEF Together
  <2> QED
    BY <2>1, <2>2 DEF Homed, Holds
<1>7. Nests \subseteq Nests' /\ NestsBuilt \subseteq NestsBuilt'
  BY <1>1, <1>3 DEF Nests, NestsBuilt, runVars
<1>8. Rooted'
  <2>1. ASSUME NEW S \in SUBSET Graphs, Closed(Nests', Graphs, {Flow}, S),
               NEW h \in Graphs, NEW u \in Tasks, In(u, h)'
        PROVE  h \in S
    <3>1. Closed(Nests, Graphs, {Flow}, S)
      BY <1>7, <2>1, ClosedBySmaller
    <3>2. CASE In(u, h)
      BY <3>1, <3>2 DEF LInv, Rooted
    <3>3. CASE h = g /\ ~running
      BY <1>1, <2>1, <3>3 DEF Building, Closed
    <3>4. CASE h = g /\ running
      <4>1. g \in Tasks /\ g \in started /\ Typ[g] = "subflow"
        BY <1>1, <3>4, BuildingGraph DEF Active
      <4>2. PICK i \in Graphs : In(g, i)
        BY <4>1 DEF LInv, Inside
      <4>3. i \in S
        BY <3>1, <4>1, <4>2 DEF LInv, Rooted
      <4>4. <<i, g>> \in Nests
        BY <4>1, <4>2 DEF Nests
      <4> QED
        BY <3>1, <3>4, <4>3, <4>4 DEF Closed, Image
    <3> QED
      BY <1>1, <2>1, <3>2, <3>3, <3>4
  <2>2. ASSUME NEW S \in SUBSET Graphs, Closed(NestsBuilt', Graphs, {Flow}, S),
               NEW h \in Graphs, instantiated'[h]
        PROVE  h \in S
    <3>1. Closed(NestsBuilt, Graphs, {Flow}, S)
      BY <1>7, <2>2, ClosedBySmaller
    <3> QED
      BY <1>1, <2>2, <3>1 DEF LInv, Rooted, runVars
  <2> QED
    BY <2>1, <2>2 DEF Rooted
<1>9. Builds'
  <2>1. ASSUME NEW h \in Tasks, NEW u \in Tasks, In(u, h)'
        PROVE  Typ'[h] = "subflow"
    <3>1. CASE In(u, h)
      <4>1. Typ[h] = "subflow"
        BY <3>1 DEF LInv, Builds
      <4> QED
        BY <1>1, <1>2, <4>1
    <3>2. CASE h = g
      <4>1. Typ[g] = "subflow"
        BY <1>1, <2>1, <3>2, BuildingGraph
      <4> QED
        BY <1>1, <1>2, <3>2, <4>1
    <3> QED
      BY <1>1, <2>1, <3>1, <3>2 DEF Graphs
  <2>2. building /= None => Typ'[building] = "subflow"
    BY <1>1, <1>2 DEF LInv, Builds, IInv, RunTypes
  <2> QED
    BY <1>1, <2>1, <2>2 DEF LInv, Builds, runVars
<1>10. Turns'
  BY <1>1 DEF LInv, Turns, runVars
<1>11. Inside'
  <2>1. \A u \in started \cup DOMAIN trace : \E h \in Graphs : In(u, h)' /\ instantiated[h]
    BY <1>1 DEF LInv, Inside, IInv, RunTypes
  <2>2. \A u \in Active, h \in Tasks : In(u, h)' => h \in Active \/ canceled[h]
    BY <1>1, <1>4 DEF LInv, Inside, Active, IInv, RunTypes, Graphs
  <2>3. \A u \in started \cup DOMAIN trace : Typ'[u] = "subflow" => Typ[u] = "subflow"
    BY <1>2, <1>4 DEF IInv, RunTypes
  <2>4. \A u \in Tasks, h \in Graphs : In(u, h) => In(u, h)'
    BY <1>1
  <2>5. started \cup DOMAIN trace \subseteq Tasks
    BY DEF IInv, RunTypes
  <2>6. ASSUME NEW u \in started \cup DOMAIN trace, Typ'[u] = "subflow", u /= building
        PROVE  instantiated[u] \/ canceled[u] \/ \E h \in Graphs : In(u, h)' /\ canceled[h]
    BY <2>3, <2>4, <2>5, <2>6 DEF LInv, Inside
  <2> QED
    BY <1>1, <2>1, <2>2, <2>6 DEF Inside, Active, runVars
<1>12. MarksClimb'
  BY <1>1 DEF LInv, MarksClimb, Active, runVars
<1>13. Exhausted'
  <2> SUFFICES ASSUME NEW h \in finished, instantiated[h], ~canceled[h], NEW u \in Tasks, In(u, h)'
               PROVE  u \in started \/ ~Released(u)'
    BY <1>1 DEF Exhausted, runVars
  <2>1. h \in Graphs /\ h /= g
    BY <1>1, BuildingGraph DEF IInv, RunTypes, Graphs
  <2>2. In(u, h)
    BY <1>1, <2>1
  <2>3. u \in started \/ ~Released(u)
    BY <2>2 DEF LInv, Exhausted
  <2>4. Strong(u)' = Strong(u)
    <3>1. \A p \in ToSet(dependents[u]) : p \in Tasks /\ Typ'[p] = Typ[p]
      <4>1. \A p \in ToSet(dependents[u]) : p \in Tasks /\ Holds(dependents[u], p)
        BY EdgeLists, HoldsWhatIsListed
      <4> QED
        BY <1>3, <4>1 DEF LInv, Homed, Together
    <3> QED
      BY <1>1, <3>1 DEF Strong
  <2> QED
    BY <1>1, <2>3, <2>4 DEF Released, runVars
<1>14. Traces'
  BY <1>1 DEF LInv, Traces, runVars
<1>15. Leftover'
  BY <1>1 DEF LInv, Leftover, runVars, IInv, RunTypes
<1> QED
  BY <1>5, <1>6, <1>8, <1>9, <1>10, <1>11, <1>12, <1>13, <1>14, <1>15 DEF LInv

LEMMA MappedByPrecede ==
  ASSUME IInv, Mapped, NEW t \in Tasks, NEW ts \in Seq(Tasks), Precede(t, ts) \/ Succeed(t, ts)
  PROVE  Mapped'
<1> SUFFICES ASSUME NEW c \in Tasks
             PROVE  /\ Len(mapper'[c]) <= Len(successors'[c])
                    /\ Len(mapper'[c]) = Len(successors'[c]) => mapper'[c] = successors'[c]
  BY DEF Mapped
<1>1. /\ mapper[c] \in Seq(Tasks) /\ successors[c] \in Seq(Tasks)
      /\ mapper \in [Tasks -> Seq(Tasks)] /\ successors \in [Tasks -> Seq(Tasks)]
  BY DEF IInv, Built, BuilderTypeOK
<1>2. /\ Len(mapper[c]) <= Len(successors[c])
      /\ Len(mapper[c]) = Len(successors[c]) => mapper[c] = successors[c]
  BY DEF Mapped
<1> DEFINE m == mapper[c]
           s == successors[c]
<1> HIDE DEF m, s
<1>3. m \in Seq(Tasks) /\ s \in Seq(Tasks) /\ Len(m) <= Len(s) /\ (Len(m) = Len(s) => m = s)
  BY <1>1, <1>2 DEF m, s
<1>4. CASE Precede(t, ts)
  <2>1. CASE c = t
    <3>1. successors'[c] = s \o ts /\ (mapper'[c] = m \o ts \/ mapper'[c] = m)
      BY <1>1, <1>4, <2>1 DEF Precede, AnswersAdded, m, s
    <3>2. Len(s \o ts) = Len(s) + Len(ts) /\ Len(m \o ts) = Len(m) + Len(ts)
      BY <1>3
    <3>3. Len(ts) = 0 => s \o ts = s
      BY <1>3
    <3>4. Len(m) \in Nat /\ Len(s) \in Nat /\ Len(ts) \in Nat
      BY <1>3
    <3>5. CASE mapper'[c] = m \o ts
      BY <1>3, <3>1, <3>2, <3>4, <3>5
    <3>6. CASE mapper'[c] = m
      BY <1>3, <3>1, <3>2, <3>3, <3>4, <3>6
    <3> QED
      BY <3>1, <3>5, <3>6
  <2>2. CASE c /= t
    <3>1. successors'[c] = s /\ mapper'[c] = m
      BY <1>1, <1>4, <2>2 DEF Precede, m, s
    <3> QED
      BY <1>3, <3>1
  <2> QED
    BY <2>1, <2>2
<1>5. CASE Succeed(t, ts)
  <2>1. mapper'[c] = m /\ successors'[c] = Links(s, t, ts, c)
    BY <1>5 DEF Succeed, m, s
  <2> DEFINE n == Cardinality({k \in DOMAIN ts : ts[k] = c})
             r == [i \in 1..n |-> t]
  <2>2. n \in Nat
    BY OccurrencesType DEF Occurrences
  <2>3. successors'[c] = s \o r
    BY <2>1 DEF Links
  <2> HIDE DEF n
  <2>4. r \in Seq(Tasks) /\ Len(r) = n
    BY <2>2
  <2> HIDE DEF r
  <2>5. Len(s \o r) = Len(s) + n /\ Len(m) \in Nat /\ Len(s) \in Nat
    BY <1>3, <2>2, <2>4
  <2>6. n = 0 => s \o r = s
    <3>1. n = 0 => r = <<>>
      BY <2>4
    <3> QED
      BY <1>3, <3>1
  <2> QED
    BY <1>3, <2>1, <2>2, <2>3, <2>5, <2>6
<1> QED
  BY <1>4, <1>5

LEMMA HomedByEdges ==
  ASSUME IInv, Homed, NEW g \in Graphs, NEW t \in Tasks, NEW ts \in Seq(Tasks),
         Precede(t, ts) \/ Succeed(t, ts), In(t, g), \A u : Holds(ts, u) => In(u, g)
  PROVE  Homed'
<1>1. UNCHANGED <<nodes, Typ>>
  BY DEF Precede, Succeed
<1>2. ASSUME NEW v \in Tasks, NEW u \in Tasks,
             \/ (v = t /\ Holds(ts, u)) \/ (u = t /\ Holds(ts, v))
             \/ Holds(successors[v], u) \/ Holds(dependents[v], u) \/ Holds(mapper[v], u)
      PROVE  Together(v, u)
  BY <1>2 DEF Homed, Together
<1>3. /\ \A v \in Tasks : successors[v] \in Seq(Tasks) /\ dependents[v] \in Seq(Tasks) /\ mapper[v] \in Seq(Tasks)
      /\ successors \in [Tasks -> Seq(Tasks)] /\ dependents \in [Tasks -> Seq(Tasks)]
      /\ mapper \in [Tasks -> Seq(Tasks)]
  BY DEF IInv, Built, BuilderTypeOK
<1>4. ASSUME NEW v \in Tasks, NEW u \in Tasks, Holds(successors'[v], u)
      PROVE  Together(v, u)
  <2>1. CASE Precede(t, ts)
    <3>1. successors'[v] = IF v = t THEN successors[v] \o ts ELSE successors[v]
      BY <1>3, <2>1 DEF Precede
    <3>2. Holds(successors[v], u) \/ (v = t /\ Holds(ts, u))
      BY <1>3, <1>4, <3>1, HoldsConcat
    <3> QED
      BY <1>2, <3>2
  <2>2. CASE Succeed(t, ts)
    <3>1. successors'[v] = Links(successors[v], t, ts, v)
      BY <2>2 DEF Succeed
    <3>2. Holds(successors[v], u) \/ (u = t /\ Holds(ts, v))
      BY <1>3, <1>4, <3>1, HoldsLinks
    <3> QED
      BY <1>2, <3>2
  <2> QED
    BY <2>1, <2>2
<1>5. ASSUME NEW v \in Tasks, NEW u \in Tasks, Holds(dependents'[v], u)
      PROVE  Together(v, u)
  <2>1. CASE Succeed(t, ts)
    <3>1. dependents'[v] = IF v = t THEN dependents[v] \o ts ELSE dependents[v]
      BY <1>3, <2>1 DEF Succeed
    <3>2. Holds(dependents[v], u) \/ (v = t /\ Holds(ts, u))
      BY <1>3, <1>5, <3>1, HoldsConcat
    <3> QED
      BY <1>2, <3>2
  <2>2. CASE Precede(t, ts)
    <3>1. dependents'[v] = Links(dependents[v], t, ts, v)
      BY <2>2 DEF Precede
    <3>2. Holds(dependents[v], u) \/ (u = t /\ Holds(ts, v))
      BY <1>3, <1>5, <3>1, HoldsLinks
    <3> QED
      BY <1>2, <3>2
  <2> QED
    BY <2>1, <2>2
<1>6. ASSUME NEW v \in Tasks, NEW u \in Tasks, Holds(mapper'[v], u)
      PROVE  Together(v, u)
  <2>1. mapper'[v] = mapper[v] \/ (v = t /\ mapper'[v] = mapper[v] \o ts)
    BY <1>3 DEF Precede, Succeed, AnswersAdded
  <2>2. Holds(mapper[v], u) \/ (v = t /\ Holds(ts, u))
    BY <1>3, <1>6, <2>1, HoldsConcat
  <2> QED
    BY <1>2, <2>2
<1>7. \A u \in Tasks, h \in Graphs : In(u, h)' <=> In(u, h)
  BY <1>1 DEF In
<1> QED
  BY <1>1, <1>4, <1>5, <1>6, <1>7 DEF Homed, Together, Holds

\* The parts of LInv that only see where tasks are and what has been built.
LEMMA PlacesKept ==
  ASSUME UNCHANGED <<nodes, Typ, instantiated>>
  PROVE  /\ Nests' = Nests /\ NestsBuilt' = NestsBuilt
         /\ Rooted => Rooted'
         /\ \A t \in Tasks, g \in Graphs : In(t, g)' <=> In(t, g)
<1>1. \A t \in Tasks, g \in Graphs : In(t, g)' <=> In(t, g)
  BY DEF In
<1>2. Nests' = Nests /\ NestsBuilt' = NestsBuilt
  BY <1>1 DEF Nests, NestsBuilt
<1> QED
  BY <1>1, <1>2 DEF Rooted

LEMMA ConnectKeeps ==
  ASSUME IInv, IInv', LInv, NEW g \in Graphs, NEW t \in Tasks, Connect(g, t)
  PROVE  LInv'
<1>1. PICK ts \in Seq(Tasks) :
        /\ Precede(t, ts) \/ Succeed(t, ts)
        /\ In(t, g) /\ \A u : Holds(ts, u) => In(u, g)
  BY ConnectEffect
<1>2. /\ UNCHANGED <<nodes, Typ>> /\ UNCHANGED <<runVars, runs>> /\ Building(g)
      /\ edited' = (edited \/ (~running /\ runs > 0))
  BY <1>1 DEF Precede, Succeed, Connect
<1>3. Mapped' /\ Homed'
  BY <1>1, MappedByPrecede, HomedByEdges DEF LInv
<1>4. Rooted' /\ \A u \in Tasks, h \in Graphs : In(u, h)' <=> In(u, h)
  BY <1>2, PlacesKept DEF LInv, runVars
<1>5. Builds' /\ Turns'
  BY <1>2, <1>4 DEF LInv, Builds, Turns, runVars, Graphs
<1>6. Inside'
  BY <1>2, <1>4 DEF LInv, Inside, Active, runVars, Graphs, IInv, RunTypes
<1>7. MarksClimb' /\ Leftover'
  BY <1>2, <1>4 DEF LInv, MarksClimb, Leftover, Active, runVars, IInv, RunTypes
\* The edges are those of tasks in g.
<1>8. ASSUME NEW u \in Tasks, ~In(u, g)
      PROVE  dependents'[u] = dependents[u]
  <2>1. u /= t /\ ~Holds(ts, u)
    BY <1>1, <1>8
  <2>2. CASE Succeed(t, ts)
    BY <2>1, <2>2 DEF Succeed, IInv, Built, BuilderTypeOK
  <2>3. CASE Precede(t, ts)
    <3>1. {k \in DOMAIN ts : ts[k] = u} = {}
      BY <2>1 DEF Holds
    <3>2. dependents'[u] = dependents[u] \o [i \in 1..0 |-> t]
      BY <2>3, <3>1, FS_EmptySet DEF Precede, Links
    <3>3. dependents[u] \in Seq(Tasks)
      BY DEF IInv, Built, BuilderTypeOK
    <3>4. [i \in 1..0 |-> t] = <<>>
      OBVIOUS
    <3> QED
      BY <3>2, <3>3, <3>4
  <2> QED
    BY <1>1, <2>2, <2>3
<1>9. Exhausted'
  <2> SUFFICES ASSUME NEW h \in finished, instantiated[h], ~canceled[h], NEW u \in Tasks, In(u, h)
               PROVE  u \in started \/ ~Released(u)'
    BY <1>2, <1>4 DEF Exhausted, runVars, IInv, RunTypes, Graphs
  <2>1. h /= g /\ h \in Graphs
    BY <1>2, BuildingGraph DEF IInv, RunTypes, Graphs
  <2>2. dependents'[u] = dependents[u]
    BY <1>8, <2>1 DEF IInv, Built, OneGraph
  <2>3. u \in started \/ ~Released(u)
    BY DEF LInv, Exhausted
  <2> QED
    BY <1>2, <2>2, <2>3 DEF Released, Strong, runVars
<1>10. Traces'
  <2>1. ASSUME ~edited', NEW u \in DOMAIN trace
        PROVE  trace[u] = dependents'[u]
    <3>1. running
      <4>1. runs \in Nat /\ runs /= 0
        BY DEF LInv, Turns, IInv, RunTypes
      <4>2. runs > 0
        BY <4>1
      <4>3. ~(edited \/ (~running /\ runs > 0))
        BY <1>2, <2>1
      <4> QED
        BY <4>2, <4>3
    <3>2. ~instantiated[g]
      BY <1>2, <3>1, BuildingGraph
    <3>3. u \in Tasks /\ ~In(u, g)
      BY <3>2 DEF LInv, Inside, IInv, RunTypes, Built, OneGraph
    <3> QED
      BY <1>2, <1>8, <2>1, <3>3 DEF LInv, Traces
  <2> QED
    BY <1>2, <2>1 DEF LInv, Traces, runVars
<1> QED
  BY <1>3, <1>4, <1>5, <1>6, <1>7, <1>9, <1>10 DEF LInv

\* The edges and the tasks stay: so does what only depends on them.
LEMMA FlowKept ==
  ASSUME Mapped, Homed, UNCHANGED <<nodes, Typ, successors, dependents, mapper>>
  PROVE  /\ Mapped' /\ Homed' /\ \A t \in Tasks, g \in Graphs : In(t, g)' <=> In(t, g)
         /\ Nests' = Nests
         /\ \A t \in Tasks : Strong(t)' = Strong(t)
<1>1. \A t \in Tasks, g \in Graphs : In(t, g)' <=> In(t, g)
  BY DEF In
<1>2. Nests' = Nests
  BY <1>1 DEF Nests
<1>3. Mapped' /\ Homed'
  BY <1>1 DEF Mapped, Homed, Together, Holds
<1> QED
  BY <1>1, <1>2, <1>3 DEF Strong

\* Steps that change nothing of this, or only whether the flow runs.
LEMMA StillKeeps ==
  ASSUME IInv, IInv', LInv, Turns', UNCHANGED <<nodes, Typ, successors, dependents, mapper>>,
         UNCHANGED <<building, started, finished, chosen, canceled, instantiated, left, trace, edited>>
  PROVE  LInv'
<1>1. Mapped' /\ Homed' /\ \A t \in Tasks, g \in Graphs : In(t, g)' <=> In(t, g)
  BY FlowKept DEF LInv
<1>2. Rooted'
  BY PlacesKept DEF LInv
<1>3. Builds'
  BY <1>1 DEF LInv, Builds, Graphs
<1>4. Inside' /\ MarksClimb' /\ Leftover'
  BY <1>1 DEF LInv, Inside, MarksClimb, Leftover, Active, IInv, RunTypes, Graphs
<1>5. Exhausted'
  BY <1>1 DEF LInv, Exhausted, Released, Strong, IInv, RunTypes, Graphs
<1>6. Traces'
  BY DEF LInv, Traces
<1> QED
  BY <1>1, <1>2, <1>3, <1>4, <1>5, <1>6 DEF LInv

LEMMA ClientKeeps ==
  ASSUME IInv, IInv', LInv, NEW g \in Graphs, NEW t \in Tasks, Client(g, t)
  PROVE  LInv'
<1>1. CASE Prioritize(g, t)
  <2>1. UNCHANGED <<nodes, Typ, successors, dependents, mapper, runVars, edited, runs>>
    BY <1>1 DEF Prioritize, Priority
  <2>2. Turns'
    BY <2>1 DEF LInv, Turns, runVars
  <2> QED
    BY <2>1, <2>2, StillKeeps DEF runVars
<1> QED
  BY <1>1, CreateKeeps, ConnectKeeps DEF Client

-----------------------------------------------------------------------------
(***************************************************************************)
(* The steps of a run keep LInv.                                           *)
(***************************************************************************)

\* A task that starts or finishes keeps what is not about starting and finishing.
LEMMA RunKeeps ==
  ASSUME IInv, LInv, UNCHANGED <<flowVars, running, edited, runs>>, running
  PROVE  /\ Mapped' /\ Homed' /\ Turns' /\ (UNCHANGED instantiated => Rooted')
         /\ \A t \in Tasks, g \in Graphs : In(t, g)' <=> In(t, g)
<1>1. UNCHANGED <<nodes, Typ, successors, dependents, mapper>>
  BY DEF flowVars
<1>2. runs /= 0 /\ Turns'
  BY DEF LInv, Turns
<1> QED
  BY <1>1, <1>2, FlowKept, PlacesKept DEF LInv

\* A task that starts is of no graph that has finished, nor does it release one of those.
LEMMA StartExhausts ==
  ASSUME IInv, IInv', LInv, NEW t \in Tasks, Startable(t), UNCHANGED <<flowVars, instantiated>>,
         started' = started \cup {t},
         \A u \in finished' : u \in finished \/ (u = t /\ Typ[t] /= "subflow"),
         \A g \in Graphs : canceled[g] => canceled'[g],
         \A u \in chosen' : u \in chosen \/ Together(t, u)
  PROVE  Exhausted'
<1>1. /\ In(t, graphOf(t)) /\ graphOf(t) \notin finished /\ graphOf(t) \in Graphs
  BY StartingTask DEF Active, IInv, RunTypes
<1> SUFFICES ASSUME NEW h \in finished', instantiated[h], ~canceled'[h], NEW u \in Tasks, In(u, h)'
             PROVE  u \in started' \/ ~Released(u)'
  BY DEF Exhausted
<1>2. h \in Graphs /\ In(u, h)
  BY DEF IInv, RunTypes, flowVars, In, Graphs
<1>3. h \in Tasks
  BY DEF IInv, RunTypes
<1>4. h \in finished
  <2>1. CASE h = t
    BY <1>2, <1>3, <2>1 DEF LInv, Builds
  <2> QED
    BY <2>1
<1>5. ~canceled[h] /\ h /= graphOf(t)
  BY <1>1, <1>2, <1>4
<1>6. ~In(t, h)
  BY <1>1, <1>2, <1>5 DEF IInv, Built, OneGraph
<1>7. u \in started \/ ~Released(u)
  BY <1>2, <1>4, <1>5 DEF LInv, Exhausted
<1>8. \A p : p \in ToSet(dependents[u]) => p \in Tasks /\ Holds(dependents[u], p)
  BY EdgeLists, HoldsWhatIsListed
<1>9. t \notin Strong(u)
  BY <1>2, <1>6, <1>8 DEF Strong, LInv, Homed, Together, IInv, Built, OneGraph
<1>10. u \in chosen' => u \in chosen
  BY <1>1, <1>2, <1>6 DEF Together, IInv, Built, OneGraph
<1>11. Strong(u)' = Strong(u) /\ dependents'[u] = dependents[u]
  BY DEF Strong, flowVars
<1> QED
  BY <1>7, <1>9, <1>10, <1>11 DEF Released

\* What starts is recorded, or recorded when its function has returned.
LEMMA RecordKeeps ==
  ASSUME IInv, LInv, NEW t \in Tasks, Record(t), UNCHANGED flowVars, edited' = edited
  PROVE  /\ DOMAIN trace' = DOMAIN trace \cup {t}
         /\ ~edited' => \A u \in DOMAIN trace' : trace'[u] = dependents'[u]
<1>1. UNCHANGED dependents
  BY DEF flowVars
<1> QED
  BY <1>1 DEF Record, LInv, Traces

\* A task without a graph of its own starts and ends.
LEMMA SimpleKeeps ==
  ASSUME IInv, IInv', LInv, NEW t \in Tasks, Static(t) \/ Condition(t)
  PROVE  LInv'
<1>1. /\ Startable(t) /\ Typ[t] /= "subflow" /\ Record(t)
      /\ started' = started \cup {t} /\ finished' = finished \cup {t}
      /\ UNCHANGED <<flowVars, running, building, canceled, instantiated, left, edited, runs>>
  BY DEF Static, Condition
<1>2. /\ running /\ building = None /\ t \notin started /\ Typ[t] /= "none"
      /\ graphOf(t) \in Graphs /\ In(t, graphOf(t)) /\ instantiated[graphOf(t)] /\ t \notin left
  BY <1>1, StartingTask
<1>3. /\ Mapped' /\ Homed' /\ Turns' /\ Rooted'
      /\ \A u \in Tasks, g \in Graphs : In(u, g)' <=> In(u, g)
  BY <1>1, <1>2, RunKeeps
<1>4. \A u \in chosen' : u \in chosen \/ Together(t, u)
  <2>1. CASE Static(t)
    BY <2>1 DEF Static
  <2>2. CASE Condition(t)
    <3>1. \A u \in ToSet(mapper[t]) : u \in Tasks /\ Holds(mapper[t], u)
      BY EdgeLists, HoldsWhatIsListed
    <3>2. chosen' \subseteq chosen \cup ToSet(mapper[t])
      BY <2>2 DEF Condition
    <3> QED
      BY <3>1, <3>2 DEF LInv, Homed
  <2> QED
    BY <2>1, <2>2
<1>5. Exhausted'
  BY <1>1, <1>4, StartExhausts
<1>6. Active' = Active /\ Typ' = Typ /\ Flow \notin Tasks
  BY <1>1, <1>2 DEF Active, flowVars, IInv, RunTypes
<1>7. DOMAIN trace' = DOMAIN trace \cup {t} /\ (~edited' => \A u \in DOMAIN trace' : trace'[u] = dependents'[u])
  BY <1>1, RecordKeeps
<1>8. Builds'
  BY <1>1, <1>2, <1>3, <1>6 DEF LInv, Builds, Graphs
<1>9. Inside'
  <2>1. \A u \in started' \cup DOMAIN trace' : \E g \in Graphs : In(u, g)' /\ instantiated'[g]
    BY <1>1, <1>2, <1>3, <1>7 DEF LInv, Inside, IInv, RunTypes
  <2>2. \A u \in Active', g \in Tasks : In(u, g)' => g \in Active' \/ canceled'[g]
    BY <1>1, <1>3, <1>6 DEF LInv, Inside, Active, IInv, RunTypes, Graphs
  <2>3. \A u \in started' \cup DOMAIN trace' :
          Typ'[u] = "subflow" /\ u /= building' =>
            instantiated'[u] \/ canceled'[u] \/ \E g \in Graphs : In(u, g)' /\ canceled'[g]
    BY <1>1, <1>3, <1>6, <1>7 DEF LInv, Inside, IInv, RunTypes
  <2> QED
    BY <2>1, <2>2, <2>3 DEF Inside
<1>10. MarksClimb' /\ Leftover'
  BY <1>1, <1>2, <1>3, <1>6 DEF LInv, MarksClimb, Leftover, IInv, RunTypes
<1>11. Traces'
  BY <1>1, <1>7 DEF LInv, Traces
<1> QED
  BY <1>3, <1>5, <1>8, <1>9, <1>10, <1>11 DEF LInv

\* An active task, the one that is being built among them, is in a graph that has been
\* built, and that is active or was canceled.
LEMMA ActiveTask ==
  ASSUME IInv, LInv, NEW t \in Active
  PROVE  /\ t \in Tasks /\ t \in started
         /\ graphOf(t) \in Graphs /\ In(t, graphOf(t)) /\ instantiated[graphOf(t)]
         /\ graphOf(t) = Flow \/ graphOf(t) \in Active \/ canceled[graphOf(t)]
<1>1. t \in Tasks /\ t \in started
  BY DEF Active, IInv, RunTypes
<1>2. PICK g \in Graphs : In(t, g) /\ instantiated[g]
  BY <1>1 DEF LInv, Inside
<1>3. graphOf(t) = g
  BY <1>1, <1>2, OneHome
<1> QED
  BY <1>1, <1>2, <1>3 DEF LInv, Inside, Graphs

\* A graph is not in itself: nothing would lead to it.
LEMMA NotInItself ==
  ASSUME IInv, LInv, NEW t \in Tasks
  PROVE  ~In(t, t)
<1> SUFFICES ASSUME In(t, t) PROVE FALSE
  OBVIOUS
<1> DEFINE S == Graphs \ {t}
<1>1. \A g \in Graphs : In(t, g) => g = t
  BY DEF IInv, Built, OneGraph, Graphs
<1>2. Closed(Nests, Graphs, {Flow}, S)
  BY <1>1 DEF Closed, Image, Nests, Graphs
<1>3. t \in S
  <2> HIDE DEF S
  <2>1. S \in SUBSET Graphs /\ t \in Graphs
    BY DEF S, Graphs
  <2> QED
    BY <1>2, <2>1 DEF LInv, Rooted
<1> QED
  BY <1>3

LEMMA SubflowKeeps ==
  ASSUME IInv, IInv', LInv, NEW t \in Tasks, Subflow(t) \/ Instantiate(t)
  PROVE  LInv'
<1>1. /\ Startable(t) /\ Typ[t] = "subflow"
      /\ started' = started \cup {t}
      /\ UNCHANGED <<flowVars, running, finished, chosen, canceled, instantiated, left, edited, runs>>
  BY DEF Subflow, Instantiate
<1>2. /\ running /\ building = None /\ t \notin started /\ t \notin finished
      /\ graphOf(t) \in Graphs /\ In(t, graphOf(t)) /\ instantiated[graphOf(t)] /\ ~canceled[graphOf(t)]
      /\ graphOf(t) = Flow \/ graphOf(t) \in Active
      /\ t \notin left
  BY <1>1, StartingTask DEF IInv, RunTypes
<1>3. /\ Mapped' /\ Homed' /\ Turns' /\ Rooted'
      /\ \A u \in Tasks, g \in Graphs : In(u, g)' <=> In(u, g)
  BY <1>1, <1>2, RunKeeps
<1>4. Exhausted'
  BY <1>1, StartExhausts
<1>5. Active' = Active \cup {t} /\ Typ' = Typ /\ Flow \notin Tasks /\ None \notin Tasks
  BY <1>1, <1>2 DEF Active, flowVars, Graphs
<1>6. MarksClimb' /\ Leftover'
  BY <1>1, <1>2, <1>3, <1>5 DEF LInv, MarksClimb, Leftover, IInv, RunTypes
<1>7. \A u \in Active', g \in Tasks : In(u, g)' => g \in Active' \/ canceled'[g]
  <2>1. \A g \in Tasks : In(t, g) => g = graphOf(t)
    BY <1>2 DEF IInv, Built, OneGraph, Graphs
  <2> QED
    BY <1>1, <1>2, <1>3, <1>5, <2>1 DEF LInv, Inside, Active, IInv, RunTypes, Graphs
<1>8. CASE Subflow(t)
  <2>1. instantiated[t] /\ Record(t) /\ building' = None
    BY <1>2, <1>8 DEF Subflow
  <2>2. /\ DOMAIN trace' = DOMAIN trace \cup {t}
        /\ ~edited' => \A u \in DOMAIN trace' : trace'[u] = dependents'[u]
    BY <1>1, <2>1, RecordKeeps
  <2>3. Builds'
    BY <1>1, <1>3, <1>5, <2>1 DEF LInv, Builds, Graphs
  <2>4. \A u \in started' \cup DOMAIN trace' : \E g \in Graphs : In(u, g)' /\ instantiated'[g]
    BY <1>1, <1>2, <1>3, <2>2 DEF LInv, Inside, IInv, RunTypes
  <2>5. \A u \in started' \cup DOMAIN trace' :
          Typ'[u] = "subflow" /\ u /= building' =>
            instantiated'[u] \/ canceled'[u] \/ \E g \in Graphs : In(u, g)' /\ canceled'[g]
    BY <1>1, <1>2, <1>3, <1>5, <2>1, <2>2 DEF LInv, Inside, IInv, RunTypes
  <2>6. Traces'
    BY <1>1, <1>2, <2>1, <2>2 DEF LInv, Traces
  <2> QED
    BY <1>3, <1>4, <1>6, <1>7, <2>3, <2>4, <2>5, <2>6 DEF LInv, Inside
<1>9. CASE Instantiate(t)
  <2>1. ~instantiated[t] /\ building' = t /\ trace' = trace
    BY <1>9 DEF Instantiate
  <2>2. t \notin DOMAIN trace
    <3> SUFFICES ASSUME t \in DOMAIN trace PROVE FALSE
      OBVIOUS
    <3>1. \A g \in Graphs : In(t, g) => g = graphOf(t)
      BY <1>2 DEF IInv, Built, OneGraph
    <3>2. canceled[t]
      BY <1>1, <1>2, <1>5, <2>1, <3>1 DEF LInv, Inside
    <3> QED
      BY <1>2, <3>1, <3>2 DEF LInv, MarksClimb, Active
  <2>3. Builds'
    BY <1>1, <1>2, <1>3, <1>5, <2>1, <2>2 DEF LInv, Builds, Graphs
  <2>4. \A u \in started' \cup DOMAIN trace' : \E g \in Graphs : In(u, g)' /\ instantiated'[g]
    BY <1>1, <1>2, <1>3, <2>1 DEF LInv, Inside, IInv, RunTypes
  <2>5. \A u \in started' \cup DOMAIN trace' :
          Typ'[u] = "subflow" /\ u /= building' =>
            instantiated'[u] \/ canceled'[u] \/ \E g \in Graphs : In(u, g)' /\ canceled'[g]
    BY <1>1, <1>2, <1>3, <1>5, <2>1 DEF LInv, Inside, IInv, RunTypes
  <2>6. Traces'
    <3>1. UNCHANGED dependents
      BY <1>1 DEF flowVars
    <3> QED
      BY <1>1, <1>2, <1>5, <2>1, <3>1 DEF LInv, Traces, IInv, RunTypes
  <2> QED
    BY <1>3, <1>4, <1>6, <1>7, <2>3, <2>4, <2>5, <2>6 DEF LInv, Inside
<1> QED
  BY <1>8, <1>9

LEMMA InstantiatedKeeps ==
  ASSUME IInv, IInv', LInv, Instantiated
  PROVE  LInv'
<1> DEFINE t == building
<1>1. /\ building /= None /\ t \in Tasks
      /\ instantiated' = [instantiated EXCEPT ![t] = TRUE]
      /\ Record(t) /\ building' = None
      /\ UNCHANGED <<flowVars, running, started, finished, chosen, canceled, left, edited, runs>>
  BY DEF Instantiated, IInv, RunTypes
<1>2. t \in Active /\ Typ[t] = "subflow" /\ running
  BY <1>1 DEF LInv, Builds, Active, Turns
<1> HIDE DEF t
<1>3. \A g \in Graphs : instantiated'[g] <=> instantiated[g] \/ g = t
  BY <1>1 DEF IInv, RunTypes
<1>4. /\ Mapped' /\ Homed' /\ Turns'
      /\ \A u \in Tasks, g \in Graphs : In(u, g)' <=> In(u, g)
  BY <1>1, <1>2, RunKeeps
<1>5. Active' = Active /\ Typ' = Typ /\ UNCHANGED dependents
  BY <1>1 DEF Active, flowVars
<1>6. Nests' = Nests /\ NestsBuilt \subseteq NestsBuilt'
  <2>1. Nests' = Nests
    BY <1>1, FlowKept DEF flowVars, LInv
  <2> QED
    BY <1>3, <2>1 DEF NestsBuilt, Nests
<1>7. Rooted'
  <2>1. ASSUME NEW S \in SUBSET Graphs, Closed(NestsBuilt', Graphs, {Flow}, S), NEW g \in Graphs,
               instantiated'[g]
        PROVE  g \in S
    <3>1. Closed(NestsBuilt, Graphs, {Flow}, S)
      BY <1>6, <2>1, ClosedBySmaller
    <3>2. \A h \in Graphs : instantiated[h] => h \in S
      BY <3>1 DEF LInv, Rooted
    <3>3. CASE g = t
      <4>1. graphOf(t) \in Graphs /\ In(t, graphOf(t)) /\ instantiated[graphOf(t)]
        BY <1>2, ActiveTask
      <4>2. <<graphOf(t), t>> \in Nests'
        BY <1>1, <1>2, <1>6, <4>1 DEF Nests, Graphs
      <4>3. <<graphOf(t), t>> \in NestsBuilt'
        BY <1>3, <3>3, <4>2 DEF NestsBuilt
      <4> QED
        BY <2>1, <3>2, <3>3, <4>1, <4>3 DEF Closed, Image
    <3> QED
      BY <1>3, <2>1, <3>2, <3>3
  <2>2. \A S \in SUBSET Graphs : Closed(Nests', Graphs, {Flow}, S) =>
          \A g \in Graphs : (\E u \in Tasks : In(u, g)') => g \in S
    BY <1>4, <1>6 DEF LInv, Rooted
  <2> QED
    BY <2>1, <2>2 DEF Rooted
<1>8. Builds'
  BY <1>1, <1>3, <1>4, <1>5 DEF LInv, Builds, Graphs
<1>9. /\ DOMAIN trace' = DOMAIN trace \cup {t}
      /\ ~edited' => \A u \in DOMAIN trace' : trace'[u] = dependents'[u]
  BY <1>1, RecordKeeps
<1>10. Inside'
  <2>1. \A u \in started' \cup DOMAIN trace' : \E g \in Graphs : In(u, g)' /\ instantiated'[g]
    BY <1>1, <1>2, <1>3, <1>4, <1>9 DEF LInv, Inside, IInv, RunTypes, Active
  <2>2. \A u \in Active', g \in Tasks : In(u, g)' => g \in Active' \/ canceled'[g]
    BY <1>1, <1>4, <1>5 DEF LInv, Inside, Active, IInv, RunTypes, Graphs
  <2>3. \A u \in started' \cup DOMAIN trace' :
          Typ'[u] = "subflow" /\ u /= building' =>
            instantiated'[u] \/ canceled'[u] \/ \E g \in Graphs : In(u, g)' /\ canceled'[g]
    BY <1>1, <1>3, <1>4, <1>5, <1>9 DEF LInv, Inside, IInv, RunTypes, Graphs, t
  <2> QED
    BY <2>1, <2>2, <2>3 DEF Inside
<1>11. MarksClimb' /\ Leftover'
  BY <1>1, <1>3, <1>4, <1>5 DEF LInv, MarksClimb, Leftover, IInv, RunTypes
<1>12. Exhausted'
  BY <1>1, <1>2, <1>3, <1>4, <1>5 DEF LInv, Exhausted, Active, Released, Strong, flowVars, IInv, RunTypes, Graphs
<1>13. Traces'
  BY <1>1, <1>3, <1>9 DEF LInv, Traces, Graphs, t
<1> QED
  BY <1>4, <1>7, <1>8, <1>10, <1>11, <1>12, <1>13 DEF LInv

LEMMA PanicKeeps ==
  ASSUME IInv, IInv', LInv, NEW t \in Tasks, Panic(t)
  PROVE  LInv'
<1>1. /\ \/ Startable(t) /\ (Typ[t] = "subflow" => ~instantiated[t])
         \/ t = building
      /\ canceled' = [g \in Graphs |-> canceled[g] \/ g = graphOf(t) \/ (Typ[t] = "subflow" /\ g = t)]
      /\ Record(t) /\ building' = None
      /\ started' = started \cup {t}
      /\ finished' = IF Typ[t] = "subflow" THEN finished ELSE finished \cup {t}
      /\ Leaves(t)
      /\ UNCHANGED <<flowVars, running, chosen, instantiated, edited, runs>>
  BY DEF Panic
<1>2. t = building => t \in Active /\ Typ[t] = "subflow" /\ running
  <2>1. None \notin Tasks
    BY DEF Graphs
  <2> QED
    BY <2>1 DEF LInv, Builds, Turns, Active
<1>3. /\ running /\ graphOf(t) \in Graphs /\ In(t, graphOf(t)) /\ instantiated[graphOf(t)]
      /\ t \in started => t = building
      /\ building = None \/ building = t
  BY <1>1, <1>2, StartingTask, ActiveTask
<1>4. /\ Mapped' /\ Homed' /\ Turns' /\ Rooted'
      /\ \A u \in Tasks, g \in Graphs : In(u, g)' <=> In(u, g)
  BY <1>1, <1>3, RunKeeps
<1>5. /\ Active \subseteq Active' /\ Active' \subseteq Active \cup {t}
      /\ Typ[t] = "subflow" => t \in Active'
      /\ Typ' = Typ /\ Flow \notin Tasks /\ None \notin Tasks /\ UNCHANGED dependents
  <2>1. Typ[t] = "subflow" => t \notin finished
    BY <1>2, <1>3 DEF Active, IInv, RunTypes
  <2>2. Typ[t] /= "subflow" => t \notin started
    BY <1>2, <1>3
  <2> QED
    BY <1>1, <2>1, <2>2 DEF Active, flowVars, Graphs
<1>6. \A g \in Graphs : canceled'[g] <=> canceled[g] \/ g = graphOf(t) \/ (Typ[t] = "subflow" /\ g = t)
  BY <1>1
<1>7. /\ DOMAIN trace' = DOMAIN trace \cup {t}
      /\ ~edited' => \A u \in DOMAIN trace' : trace'[u] = dependents'[u]
  BY <1>1, RecordKeeps
<1>8. Builds'
  BY <1>1, <1>4, <1>5 DEF LInv, Builds, Graphs
<1>9. Inside'
  <2>1. \A u \in started' \cup DOMAIN trace' : \E g \in Graphs : In(u, g)' /\ instantiated'[g]
    BY <1>1, <1>3, <1>4, <1>7 DEF LInv, Inside, IInv, RunTypes
  <2>2. \A u \in Active', g \in Tasks : In(u, g)' => g \in Active' \/ canceled'[g]
    <3>1. \A g \in Tasks : In(t, g) => g = graphOf(t)
      BY <1>3 DEF IInv, Built, OneGraph, Graphs
    <3>2. \A g \in Tasks : In(t, g) => canceled'[g]
      BY <1>6, <3>1 DEF Graphs
    <3>3. Active' \subseteq Tasks
      BY DEF Active, IInv, RunTypes
    <3> QED
      BY <1>4, <1>5, <1>6, <3>2, <3>3 DEF LInv, Inside, Graphs
  <2>3. ASSUME NEW u \in started' \cup DOMAIN trace', Typ'[u] = "subflow"
        PROVE  instantiated'[u] \/ canceled'[u] \/ \E g \in Graphs : In(u, g)' /\ canceled'[g]
    <3>1. u \in Tasks /\ u \in Graphs
      BY <1>1, <1>7 DEF IInv, RunTypes, Graphs
    <3>2. CASE u = t
      BY <1>5, <1>6, <2>3, <3>1, <3>2
    <3>3. CASE u /= t
      <4>1. u \in started \cup DOMAIN trace /\ u /= building
        BY <1>1, <1>3, <1>5, <1>7, <2>3, <3>1, <3>3
      <4>2. instantiated[u] \/ canceled[u] \/ \E g \in Graphs : In(u, g) /\ canceled[g]
        BY <1>5, <2>3, <4>1 DEF LInv, Inside
      <4> QED
        BY <1>1, <1>4, <1>6, <3>1, <4>2
    <3> QED
      BY <3>2, <3>3
  <2> QED
    BY <2>1, <2>2, <2>3 DEF Inside
<1>10. MarksClimb'
  <2> SUFFICES ASSUME NEW u \in Tasks, canceled'[u]
               PROVE  \E g \in Graphs : In(u, g) /\ (canceled'[g] \/ u \in Active')
    BY <1>4 DEF MarksClimb
  <2>1. CASE canceled[u]
    BY <1>5, <1>6, <2>1 DEF LInv, MarksClimb
  <2>2. CASE u = graphOf(t) /\ ~canceled[u]
    <3>1. u \in Active
      BY <1>1, <1>2, <1>3, <1>5, <2>2, StartingTask, ActiveTask
    <3> QED
      BY <1>5, <3>1, ActiveTask
  <2>3. CASE u = t
    BY <1>3, <1>6, <2>3
  <2> QED
    BY <1>6, <2>1, <2>2, <2>3 DEF Graphs
<1>11. Exhausted'
  <2>1. CASE Startable(t)
    BY <1>1, <1>6, <2>1, StartExhausts
  <2>2. CASE t = building
    <3>1. finished' = finished /\ started' = started
      BY <1>1, <1>2, <2>2 DEF Active
    <3>2. \A h \in finished : h \in Graphs
      BY DEF IInv, RunTypes, Graphs
    <3> QED
      BY <1>1, <1>4, <1>5, <1>6, <3>1, <3>2 DEF LInv, Exhausted, Released, Strong
  <2> QED
    BY <1>1, <2>1, <2>2
<1>12. Traces'
  BY <1>1, <1>3, <1>7 DEF LInv, Traces
<1>13. Leftover'
  <2> SUFFICES ASSUME NEW u \in left'
               PROVE  u \notin started' /\ \E g \in Graphs : In(u, g) /\ instantiated[g] /\ canceled'[g]
    BY <1>1, <1>4 DEF Leftover, IInv, RunTypes
  <2>1. CASE u \in left
    <3>1. u \notin started /\ \E g \in Graphs : In(u, g) /\ instantiated[g] /\ canceled[g]
      BY <2>1 DEF LInv, Leftover
    <3>2. u /= t
      BY <1>1, <1>2, <2>1, <3>1, StartingTask DEF Active
    <3> QED
      BY <1>1, <1>6, <3>1, <3>2
  <2>2. CASE u \notin left
    <3>1. u \in Tasks \ (started \cup {t}) /\ u \in ToSet(nodes[graphOf(t)])
      BY <1>1, <2>2 DEF Leaves
    <3>2. In(u, graphOf(t))
      BY <1>3, <3>1, InSet
    <3> QED
      BY <1>1, <1>3, <1>6, <3>1, <3>2
  <2> QED
    BY <2>1, <2>2
<1> QED
  BY <1>4, <1>8, <1>9, <1>10, <1>11, <1>12, <1>13 DEF LInv

LEMMA SkipKeeps ==
  ASSUME IInv, IInv', LInv, NEW t \in Tasks, Skip(t)
  PROVE  LInv'
<1>1. /\ t \in left /\ building = None /\ left' = left \ {t}
      /\ Record(t) /\ started' = started \cup {t}
      /\ finished' = IF Typ[t] = "subflow" THEN finished ELSE finished \cup {t}
      /\ UNCHANGED <<flowVars, running, building, chosen, canceled, instantiated, edited, runs>>
  BY DEF Skip
<1>2. t \notin started /\ t \notin finished
  BY <1>1 DEF LInv, Leftover, IInv, RunTypes
<1>3. PICK h \in Graphs : In(t, h) /\ instantiated[h] /\ canceled[h]
  BY <1>1 DEF LInv, Leftover
<1>4. \A g \in Graphs : In(t, g) => g = h
  BY <1>3 DEF IInv, Built, OneGraph
<1>5. running
  BY <1>1 DEF LInv, Turns, IInv, RunTypes
<1>6. /\ Mapped' /\ Homed' /\ Turns' /\ Rooted'
      /\ \A u \in Tasks, g \in Graphs : In(u, g)' <=> In(u, g)
  BY <1>1, <1>5, RunKeeps
<1>7. /\ Active \subseteq Active' /\ Active' \subseteq Active \cup {t} /\ Active' \subseteq Tasks
      /\ Typ' = Typ /\ Flow \notin Tasks /\ None \notin Tasks /\ UNCHANGED dependents
  BY <1>1, <1>2 DEF Active, flowVars, Graphs, IInv, RunTypes
<1>8. /\ DOMAIN trace' = DOMAIN trace \cup {t}
      /\ ~edited' => \A u \in DOMAIN trace' : trace'[u] = dependents'[u]
  BY <1>1, RecordKeeps
<1>9. Builds'
  BY <1>1, <1>6, <1>7 DEF LInv, Builds, Graphs
<1>10. Inside'
  <2>1. \A u \in started' \cup DOMAIN trace' : \E g \in Graphs : In(u, g)' /\ instantiated'[g]
    BY <1>1, <1>3, <1>6, <1>8 DEF LInv, Inside, IInv, RunTypes
  <2>2. \A u \in Active', g \in Tasks : In(u, g)' => g \in Active' \/ canceled'[g]
    BY <1>1, <1>3, <1>4, <1>6, <1>7 DEF LInv, Inside, Graphs
  <2>3. \A u \in started' \cup DOMAIN trace' :
          Typ'[u] = "subflow" /\ u /= building' =>
            instantiated'[u] \/ canceled'[u] \/ \E g \in Graphs : In(u, g)' /\ canceled'[g]
    BY <1>1, <1>3, <1>6, <1>7, <1>8 DEF LInv, Inside, IInv, RunTypes
  <2> QED
    BY <2>1, <2>2, <2>3 DEF Inside
<1>11. Leftover' /\ MarksClimb'
  BY <1>1, <1>6, <1>7 DEF LInv, Leftover, MarksClimb, IInv, RunTypes
\* A graph that is not canceled has nothing of t.
<1>12. Exhausted'
  <2> SUFFICES ASSUME NEW g \in finished', instantiated[g], ~canceled[g], NEW u \in Tasks, In(u, g)
               PROVE  u \in started' \/ ~Released(u)'
    BY <1>1, <1>6 DEF Exhausted, IInv, RunTypes, Graphs
  <2>1. g \in Tasks /\ g \in Graphs /\ ~In(t, g)
    BY <1>3, <1>4 DEF IInv, RunTypes, Graphs
  <2>2. g \in finished
    BY <1>1, <2>1 DEF LInv, Builds
  <2>3. u \in started \/ ~Released(u)
    BY <2>2 DEF LInv, Exhausted
  <2>4. \A p : p \in ToSet(dependents[u]) => p \in Tasks /\ Holds(dependents[u], p)
    BY EdgeLists, HoldsWhatIsListed
  <2>5. t \notin Strong(u)
    BY <2>1, <2>4 DEF Strong, LInv, Homed, Together, IInv, Built, OneGraph
  <2> QED
    BY <1>1, <1>7, <2>3, <2>5 DEF Released, Strong
<1>13. Traces'
  BY <1>1, <1>8 DEF LInv, Traces
<1> QED
  BY <1>6, <1>9, <1>10, <1>11, <1>12, <1>13 DEF LInv

LEMMA FinishKeeps ==
  ASSUME IInv, IInv', LInv, NEW t \in Tasks, Finish(t)
  PROVE  LInv'
<1>1. /\ t \in Active /\ building = None /\ (canceled[t] \/ ~Busy(t))
      /\ finished' = finished \cup {t}
      /\ canceled' = [g \in Graphs |-> canceled[g] \/ (canceled[t] /\ g = graphOf(t))]
      /\ left' = left \/ (canceled[t] /\ Leaves(t))
      /\ UNCHANGED <<flowVars, running, building, started, chosen, instantiated, trace, edited, runs>>
  BY DEF Finish, Active
<1>2. /\ t \in started /\ graphOf(t) \in Graphs /\ In(t, graphOf(t))
      /\ graphOf(t) = Flow \/ graphOf(t) \in Active \/ canceled[graphOf(t)]
      /\ instantiated[graphOf(t)]
  BY <1>1, ActiveTask
<1>3. running
  BY <1>2 DEF LInv, Turns, IInv, RunTypes
<1>4. /\ Mapped' /\ Homed' /\ Turns' /\ Rooted'
      /\ \A u \in Tasks, g \in Graphs : In(u, g)' <=> In(u, g)
  BY <1>1, <1>3, RunKeeps
<1>5. /\ Active' = Active \ {t} /\ Typ' = Typ /\ UNCHANGED dependents /\ Flow \notin Tasks
  BY <1>1 DEF Active, flowVars, Graphs
<1>6. \A g \in Graphs : canceled'[g] <=> canceled[g] \/ (canceled[t] /\ g = graphOf(t))
  BY <1>1
<1>7. ~canceled[t] => \A u \in Tasks : In(u, t) => ~Startable(u) /\ u \notin Active
  <2>1. t \in Graphs
    BY DEF Graphs
  <2> QED
    BY <1>1, <2>1, InSet DEF Busy, Active
<1>8. Builds'
  BY <1>1, <1>4, <1>5 DEF LInv, Builds, Graphs
<1>9. Inside'
  <2>1. \A u \in started' \cup DOMAIN trace' : \E g \in Graphs : In(u, g)' /\ instantiated'[g]
    BY <1>1, <1>4 DEF LInv, Inside, IInv, RunTypes
  <2>2. \A u \in Active', g \in Tasks : In(u, g)' => g \in Active' \/ canceled'[g]
    <3>1. Active \subseteq Tasks
      BY DEF Active, IInv, RunTypes
    <3> QED
      BY <1>4, <1>5, <1>6, <1>7, <3>1 DEF LInv, Inside, Graphs
  <2>3. \A u \in started' \cup DOMAIN trace' :
          Typ'[u] = "subflow" /\ u /= building' =>
            instantiated'[u] \/ canceled'[u] \/ \E g \in Graphs : In(u, g)' /\ canceled'[g]
    BY <1>1, <1>4, <1>5, <1>6 DEF LInv, Inside, IInv, RunTypes, Graphs
  <2> QED
    BY <2>1, <2>2, <2>3 DEF Inside
<1>10. MarksClimb'
  <2> SUFFICES ASSUME NEW u \in Tasks, canceled'[u]
               PROVE  \E g \in Graphs : In(u, g) /\ (canceled'[g] \/ u \in Active')
    BY <1>4 DEF MarksClimb
  <2>1. CASE u = t
    <3>1. canceled[t]
      BY <1>2, <1>6, <2>1, NotInItself DEF Graphs
    <3> QED
      BY <1>2, <1>6, <2>1, <3>1
  <2>2. CASE canceled[u] /\ u /= t
    BY <1>5, <1>6, <2>2 DEF LInv, MarksClimb
  <2>3. CASE u = graphOf(t) /\ u /= t /\ ~canceled[u]
    <3>1. u \in Active
      BY <1>2, <1>5, <2>3
    <3> QED
      BY <1>5, <2>3, <3>1, ActiveTask
  <2> QED
    BY <1>6, <2>1, <2>2, <2>3 DEF Graphs
\* Of its own graph nothing is left, as ~Busy says, and it releases nothing of another.
<1>11. Exhausted'
  <2> SUFFICES ASSUME NEW h \in finished', instantiated[h], ~canceled'[h], NEW u \in Tasks, In(u, h), u \notin started
               PROVE  ~Released(u)'
    BY <1>1, <1>4 DEF Exhausted, IInv, RunTypes, Graphs
  <2>1. h \in Tasks /\ h \in Graphs /\ ~canceled[h]
    BY <1>6 DEF IInv, RunTypes, Graphs
  <2>2. ~Released(u)
    <3>1. CASE h = t
      <4>1. graphOf(u) = t /\ Typ[u] /= "none"
        BY <2>1, <3>1, OneHome DEF IInv, Built, OneGraph
      <4>2. Driven(t)
        BY <1>1, <3>1 DEF Driven, Active
      <4> QED
        BY <1>1, <1>3, <1>7, <2>1, <3>1, <4>1, <4>2 DEF Startable
    <3>2. CASE h /= t
      BY <1>1, <2>1, <3>2 DEF LInv, Exhausted
    <3> QED
      BY <3>1, <3>2
  <2>3. ~In(t, h)
    <3>1. CASE h = t
      BY <3>1, NotInItself
    <3>2. CASE h /= t
      BY <1>1, <2>1, <3>2 DEF LInv, Inside, Active
    <3> QED
      BY <3>1, <3>2
  <2>4. \A p : p \in ToSet(dependents[u]) => p \in Tasks /\ Holds(dependents[u], p)
    BY EdgeLists, HoldsWhatIsListed
  <2>5. t \notin Strong(u)
    BY <2>1, <2>3, <2>4 DEF Strong, LInv, Homed, Together, IInv, Built, OneGraph
  <2> QED
    BY <1>1, <1>5, <2>2, <2>5 DEF Released, Strong
<1>12. Traces'
  BY <1>1, <1>5 DEF LInv, Traces
<1>13. Leftover'
  <2> SUFFICES ASSUME NEW u \in left'
               PROVE  u \notin started /\ \E g \in Graphs : In(u, g) /\ instantiated[g] /\ canceled'[g]
    BY <1>1, <1>4 DEF Leftover, IInv, RunTypes
  <2>1. CASE u \in left
    BY <1>6, <2>1 DEF LInv, Leftover
  <2>2. CASE u \notin left
    <3>1. canceled[t] /\ u \in Tasks \ (started \cup {t}) /\ u \in ToSet(nodes[graphOf(t)])
      BY <1>1, <2>2 DEF Leaves
    <3>2. In(u, graphOf(t))
      BY <1>2, <3>1, InSet
    <3> QED
      BY <1>2, <1>6, <3>1, <3>2
  <2> QED
    BY <2>1, <2>2
<1> QED
  BY <1>4, <1>8, <1>9, <1>10, <1>11, <1>12, <1>13 DEF LInv

LEMMA ReturnKeeps ==
  ASSUME IInv, IInv', LInv, Return
  PROVE  LInv'
<1>1. /\ Ending /\ running' = FALSE
      /\ started' = {} /\ finished' = {} /\ chosen' = {}
      /\ UNCHANGED <<flowVars, building, canceled, instantiated, left, trace, edited, runs>>
      /\ building = None /\ running /\ left = {}
  BY DEF Return, Ending
<1>2. Active = {} /\ Active' = {}
  BY <1>1 DEF Ending, Active
<1>3. /\ Mapped' /\ Homed' /\ Rooted'
      /\ \A t \in Tasks, g \in Graphs : In(t, g)' <=> In(t, g)
  BY <1>1, RunKeeps, FlowKept, PlacesKept DEF flowVars, LInv
<1>4. Builds' /\ Turns' /\ Exhausted' /\ Leftover'
  BY <1>1, <1>3 DEF LInv, Builds, Turns, Exhausted, Leftover, flowVars, Graphs
<1>5. Inside'
  BY <1>1, <1>2, <1>3 DEF LInv, Inside, flowVars, IInv, RunTypes
<1>6. MarksClimb'
  BY <1>1, <1>2, <1>3 DEF LInv, MarksClimb
<1>7. Traces'
  BY <1>1 DEF LInv, Traces, flowVars
<1> QED
  BY <1>3, <1>4, <1>5, <1>6, <1>7 DEF LInv

LEMMA InitPlaces == Init => LInv
<1> SUFFICES ASSUME Init PROVE LInv
  OBVIOUS
<1>1. \A t, g : g \in Graphs => ~In(t, g)
  BY DEF Init, BuilderInit, In
<1>2. \A t \in Tasks : successors[t] = <<>> /\ dependents[t] = <<>> /\ mapper[t] = <<>> /\ Typ[t] = "none"
  BY DEF Init, BuilderInit, newNode
<1>3. Mapped /\ Homed
  BY <1>2 DEF Mapped, Homed, Holds
<1>4. \A g \in Graphs : instantiated[g] <=> g = Flow
  BY DEF Init
<1>5. Rooted
  BY <1>1, <1>4 DEF Rooted, Closed
<1>6. DOMAIN trace = {}
  BY DEF Init
<1>7. Builds /\ Turns /\ Inside /\ Leftover /\ Exhausted /\ Traces
  BY <1>1, <1>4, <1>6 DEF Init, Builds, Turns, Inside, Leftover, Active, Exhausted, Traces, Graphs
<1>8. MarksClimb
  BY DEF Init, MarksClimb, Graphs
<1> QED
  BY <1>3, <1>5, <1>7, <1>8 DEF LInv

LEMMA NextPlaces == IInv /\ IInv' /\ LInv /\ [Next]_lifeVars => LInv'
<1> SUFFICES ASSUME IInv, IInv', LInv, [Next]_lifeVars PROVE LInv'
  OBVIOUS
<1>1. CASE UNCHANGED lifeVars
  <2>1. Turns'
    BY <1>1 DEF LInv, Turns, lifeVars, runVars
  <2> QED
    BY <1>1, <2>1, StillKeeps DEF lifeVars, runVars, flowVars
<1>2. CASE Reset
  <2>1. UNCHANGED <<nodes, Typ, successors, dependents, mapper, runVars, edited, runs>>
    BY <1>2 DEF Reset, Thaw
  <2>2. Turns'
    BY <2>1 DEF LInv, Turns, runVars
  <2> QED
    BY <2>1, <2>2, StillKeeps DEF runVars
<1>3. CASE Run
  <2>1. /\ UNCHANGED <<nodes, Typ, successors, dependents, mapper, edited>>
        /\ UNCHANGED <<building, started, finished, chosen, canceled, instantiated, left, trace>>
        /\ running' = TRUE /\ runs' = runs + 1
    BY <1>3 DEF Run, Freeze
  <2>2. Turns'
    BY <2>1 DEF LInv, Turns, IInv, RunTypes
  <2> QED
    BY <2>1, <2>2, StillKeeps
<1>4. ASSUME NEW t \in Tasks, Execute(t)
      PROVE  LInv'
  BY <1>4, SimpleKeeps, SubflowKeeps, PanicKeeps, SkipKeeps, FinishKeeps DEF Execute
<1> QED
  BY <1>1, <1>2, <1>3, <1>4, ClientKeeps, InstantiatedKeeps, ReturnKeeps DEF Next, Over

LEMMA PlacesInvariance == Spec => [](IInv /\ LInv)
<1>1. Init => IInv /\ LInv
  BY InitInv, InitPlaces
<1>2. (IInv /\ LInv) /\ [Next]_lifeVars => (IInv /\ LInv)'
  BY NextInv, NextPlaces
<1> QED
  BY <1>1, <1>2, PTL DEF Spec

-----------------------------------------------------------------------------
(***************************************************************************)
(* The drawing.  An instance has operators of its own for the sets of a    *)
(* list and for cardinalities: they are the same.                          *)
(***************************************************************************)

LEMMA DumpSets == \A s : Dump!ToSet(s) = ToSet(s) /\ Dump!Cardinality(s) = Cardinality(s)
BY DEF Dump!ToSet, ToSet, Dump!Cardinality, Cardinality

LEMMA GraphsCounted ==
  /\ IsFiniteSet(Graphs) /\ {Flow} \in SUBSET Graphs /\ Cardinality(Tasks) \in Nat
  /\ Cardinality(Graphs) <= Cardinality({Flow}) + Cardinality(Tasks)
<1>1. Cardinality({Flow}) = 1 /\ Cardinality(Tasks) \in Nat
  BY FS_Singleton, FS_CardinalityType
<1>2. IsFiniteSet(Tasks \cup {Flow}) /\ Cardinality(Tasks \cup {Flow}) = Cardinality(Tasks) + 1
  BY FS_AddElement
<1> QED
  BY <1>1, <1>2 DEF Graphs

\* Drawn is the least set of graphs with the flow and the graphs of all its subflows.
LEMMA DrawnReached ==
  ASSUME IInv
  PROVE  /\ Dump!Drawn \subseteq Graphs
         /\ Closed(Nests, Graphs, {Flow}, Dump!Drawn)
         /\ \A S \in SUBSET Graphs : Closed(Nests, Graphs, {Flow}, S) => Dump!Drawn \subseteq S
<1> DEFINE after(f, k) ==
             IF k = 0 THEN {Flow}
             ELSE f[k - 1] \cup
                  {t \in Tasks : Typ[t] = "subflow" /\ \E g \in f[k - 1] : t \in Dump!ToSet(nodes[g])}
           r == CHOOSE f : f = [k \in Nat |-> after(f, k)]
           N == Cardinality(Tasks)
<1>1. Dump!Drawn = r[N]
  BY DumpSets DEF Dump!Drawn
<1>2. ASSUME NEW S \in SUBSET Graphs
      PROVE  {t \in Tasks : Typ[t] = "subflow" /\ \E g \in S : t \in Dump!ToSet(nodes[g])}
               = Image(Nests, Graphs, S)
  BY DumpSets, InSet DEF Image, Nests, Graphs
<1>3. \E f : f = [k \in Nat |-> after(f, k)]
  <2>1. PICK f : Leads(f, Nests, Graphs, {Flow})
    BY TurnsExist, GraphsCounted
  <2>2. ASSUME NEW k \in Nat
        PROVE  f[k] = after(f, k)
    <3>1. k /= 0 => k - 1 \in Nat
      OBVIOUS
    <3> QED
      BY <1>2, <2>1, <3>1 DEF Leads
  <2> HIDE DEF after
  <2>3. f = [k \in Nat |-> after(f, k)]
    BY <2>1, <2>2 DEF Leads
  <2> QED
    BY <2>3
<1>4. r = [k \in Nat |-> after(r, k)]
  <2> HIDE DEF after
  <2> QED
    BY <1>3
<1> HIDE DEF r
<1>5. Grows(r, Nests, Graphs, {Flow}, N)
  <2>1. r[0] = {Flow}
    BY <1>4
  <2>2. ASSUME NEW k \in 0..N, k < N, r[k] \subseteq Graphs
        PROVE  r[k + 1] = r[k] \cup Image(Nests, Graphs, r[k])
    <3>1. k + 1 \in Nat /\ k + 1 /= 0 /\ (k + 1) - 1 = k
      OBVIOUS
    <3>2. r[k + 1] = after(r, k + 1)
      BY <1>4, <3>1
    <3> QED
      BY <1>2, <2>2, <3>1, <3>2
  <2> QED
    BY <2>1, <2>2 DEF Grows
<1> QED
  BY <1>1, <1>5, TurnsClose, GraphsCounted

LEMMA EdgesOf ==
  ASSUME NEW g \in Graphs, NEW e
  PROVE  e \in Dump!edges(g) <=>
           \E t \in ToSet(nodes[g]) : \E i \in DOMAIN successors[t] :
             /\ successors[t][i] \in ToSet(nodes[g])
             /\ e = Dump!CreateEdge(Dump!nodeMap(g)[t], Dump!nodeMap(g)[successors[t][i]], i,
                                    Dump!label(t, i))
<1>1. DOMAIN Dump!nodeMap(g) = ToSet(nodes[g])
  BY DumpSets DEF Dump!nodeMap, Dump!MappedNodes
<1> QED
  BY <1>1 DEF Dump!edges

LEMMA EdgeEnds ==
  ASSUME NEW g \in Graphs, NEW t \in ToSet(nodes[g]), NEW u \in ToSet(nodes[g]), NEW i, NEW l
  PROVE  LET e == Dump!CreateEdge(Dump!nodeMap(g)[t], Dump!nodeMap(g)[u], i, l) IN
         e.from.id = t /\ e.to.id = u /\ e.i = i /\ e.label = l
<1>1. \A v \in ToSet(nodes[g]) : Dump!nodeMap(g)[v].id = v
  BY DumpSets DEF Dump!nodeMap, Dump!MappedNodes, Dump!CreateNode
<1> QED
  BY <1>1 DEF Dump!CreateEdge

LEMMA LabelsFollow ==
  ASSUME IInv, LInv
  PROVE  LabelsAreAnswers
<1> SUFFICES ASSUME NEW e \in Dump!Edges, Typ[e.from.id] = "condition",
                    Len(mapper[e.from.id]) = Len(successors[e.from.id]), NEW k \in e.label
             PROVE  mapper[e.from.id][k + 1] = e.to.id
  BY DEF LabelsAreAnswers
<1>1. PICK g \in Graphs : e \in Dump!edges(g)
  BY DrawnReached DEF Dump!Edges
<1>2. PICK t \in ToSet(nodes[g]) : \E i \in DOMAIN successors[t] :
        /\ successors[t][i] \in ToSet(nodes[g])
        /\ e = Dump!CreateEdge(Dump!nodeMap(g)[t], Dump!nodeMap(g)[successors[t][i]], i,
                               Dump!label(t, i))
  BY <1>1, EdgesOf
<1>3. PICK i \in DOMAIN successors[t] :
        e.from.id = t /\ e.to.id = successors[t][i] /\ e.label = Dump!label(t, i)
  <2>1. PICK j \in DOMAIN successors[t] :
          /\ successors[t][j] \in ToSet(nodes[g])
          /\ e = Dump!CreateEdge(Dump!nodeMap(g)[t], Dump!nodeMap(g)[successors[t][j]], j,
                                 Dump!label(t, j))
    BY <1>2
  <2>2. e.from.id = t /\ e.to.id = successors[t][j] /\ e.label = Dump!label(t, j)
    BY <2>1, EdgeEnds
  <2>3. QED
    BY <2>2
<1>4. t \in Tasks
  BY InSet, InTask
<1>5. mapper[t] = successors[t]
  BY <1>3, <1>4 DEF LInv, Mapped
<1>6. i \in Nat /\ k = i - 1
  <2>1. successors[t] \in Seq(Tasks)
    BY <1>4 DEF IInv, Built, BuilderTypeOK
  <2> QED
    BY <1>3, <2>1 DEF Dump!label
<1> QED
  BY <1>3, <1>5, <1>6

LEMMA EdgesDrawn ==
  ASSUME IInv, LInv
  PROVE  DumpShowsEveryEdge
<1> SUFFICES ASSUME NEW t \in Tasks, NEW u \in Tasks
             PROVE  Occurrences(dependents[u], t)
                      = Cardinality({e \in Dump!Edges : e.from.id = t /\ e.to.id = u})
  BY DEF DumpShowsEveryEdge
<1> DEFINE I == {i \in DOMAIN successors[t] : successors[t][i] = u}
           E == {e \in Dump!Edges : e.from.id = t /\ e.to.id = u}
           g == graphOf(t)
           edge(i) == Dump!CreateEdge(Dump!nodeMap(g)[t], Dump!nodeMap(g)[u], i, Dump!label(t, i))
           f == [i \in I |-> edge(i)]
<1>1. successors[t] \in Seq(Tasks)
  BY DEF IInv, Built, BuilderTypeOK
<1>2. IsFiniteSet(I) /\ Occurrences(dependents[u], t) = Cardinality(I)
  BY <1>1, OccurrencesType DEF IInv, Built, Mirrored, Occurrences
<1>3. ASSUME NEW i \in I
      PROVE  edge(i) \in E /\ edge(i).i = i
  <2>1. Together(t, u)
    BY DEF LInv, Homed, Holds
  <2>2. g \in Graphs /\ In(t, g) /\ In(u, g)
    BY <2>1, OneHome DEF Together
  <2>3. t \in ToSet(nodes[g]) /\ u \in ToSet(nodes[g])
    BY <2>2, InSet
  <2>4. g \in Dump!Drawn
    BY <2>2, DrawnReached DEF LInv, Rooted
  <2>5. edge(i) \in Dump!edges(g)
    BY <2>2, <2>3, EdgesOf
  <2>6. edge(i).from.id = t /\ edge(i).to.id = u /\ edge(i).i = i
    BY <2>2, <2>3, EdgeEnds
  <2> HIDE DEF edge
  <2> QED
    BY <2>4, <2>5, <2>6 DEF Dump!Edges
<1>4. ASSUME NEW e \in E
      PROVE  \E i \in I : e = edge(i)
  <2>1. PICK h \in Graphs : e \in Dump!edges(h)
    BY DrawnReached DEF Dump!Edges
  <2>2. PICK v \in ToSet(nodes[h]) : \E i \in DOMAIN successors[v] :
          /\ successors[v][i] \in ToSet(nodes[h])
          /\ e = Dump!CreateEdge(Dump!nodeMap(h)[v], Dump!nodeMap(h)[successors[v][i]], i,
                                 Dump!label(v, i))
    BY <2>1, EdgesOf
  <2>3. PICK i \in DOMAIN successors[v] :
          /\ successors[v][i] \in ToSet(nodes[h])
          /\ e = Dump!CreateEdge(Dump!nodeMap(h)[v], Dump!nodeMap(h)[successors[v][i]], i,
                                 Dump!label(v, i))
    BY <2>2
  <2>4. e.from.id = v /\ e.to.id = successors[v][i]
    BY <2>3, EdgeEnds
  <2>5. v = t /\ successors[v][i] = u
    BY <2>4
  <2>6. h = g
    BY <2>5, InSet, OneHome
  <2> QED
    BY <2>3, <2>5, <2>6
<1> HIDE DEF edge, E, I
<1>5. f \in Bijection(I, E)
  <2>1. f \in [I -> E]
    BY <1>3
  <2>2. \A i, j \in I : f[i] = f[j] => i = j
    BY <1>3
  <2>3. \A e \in E : \E i \in I : f[i] = e
    BY <1>4
  <2> QED
    BY <2>1, <2>2, <2>3 DEF Bijection, Injection, Surjection, IsInjective
<1>6. Cardinality(I) = Cardinality(E)
  <2>1. ExistsBijection(I, E)
    BY <1>5 DEF ExistsBijection
  <2> QED
    BY <1>2, <2>1, FS_Bijection
<1> QED
  BY <1>2, <1>6 DEF E

-----------------------------------------------------------------------------
(***************************************************************************)
(* The validator.                                                          *)
(***************************************************************************)

LEMMA ValidationCardinality == \A s : Validation!Cardinality(s) = Cardinality(s)
BY DEF Validation!Cardinality, Cardinality

\* The turn by turn search for skipped tasks finds, for every trace and every flow,
\* the least set of tasks that were not executed with the successors of conditions
\* and with whatever has a strong predecessor in it.
THEOREM SkippedIsClosure ==
  ASSUME NEW executed, NEW expected, IsFiniteSet(DOMAIN expected)
  PROVE  LET idle == DOMAIN expected \ DOMAIN executed
             skipped == Validation!skippedBranches(executed, expected)
             holds(S) == \A name \in idle :
                           \/ Validation!hasCondPredecessor(expected[name])
                           \/ Validation!SkipsFrom(expected[name], S)
                           => name \in S
         IN /\ skipped \subseteq idle /\ holds(skipped)
            /\ \A S \in SUBSET idle : holds(S) => skipped \subseteq S
<1> DEFINE idle == DOMAIN expected \ DOMAIN executed
           skipped == Validation!skippedBranches(executed, expected)
           holds(S) == \A name \in idle :
                         \/ Validation!hasCondPredecessor(expected[name])
                         \/ Validation!SkipsFrom(expected[name], S)
                         => name \in S
           N == Cardinality(idle)
           B == {name \in idle : Validation!hasCondPredecessor(expected[name])}
           strong(p, name) == \E i \in DOMAIN expected[name] :
                                expected[name][i].Typ /= "condition" /\ expected[name][i].name = p
           R == {p \in idle \X idle : strong(p[1], p[2])}
           after(f, i) == IF i = 0 THEN B
                          ELSE f[i - 1] \cup
                               {name \in idle : Validation!SkipsFrom(expected[name], f[i - 1])}
           turn == CHOOSE f : f = [i \in 0..N |-> after(f, i)]
<1>1. IsFiniteSet(idle) /\ N \in Nat
  BY FS_Subset, FS_CardinalityType
<1>2. skipped = turn[N]
  BY ValidationCardinality DEF Validation!skippedBranches
<1>3. ASSUME NEW S \in SUBSET idle
      PROVE  {name \in idle : Validation!SkipsFrom(expected[name], S)} = Image(R, idle, S)
  BY DEF Image, Validation!SkipsFrom
<1>4. B \in SUBSET idle
  OBVIOUS
<1>5. \A S \in SUBSET idle : Closed(R, idle, B, S) <=> holds(S)
  <2> SUFFICES ASSUME NEW S \in SUBSET idle
               PROVE  Closed(R, idle, B, S) <=> holds(S)
    OBVIOUS
  <2> DEFINE Q == {name \in idle : Validation!SkipsFrom(expected[name], S)}
  <2>1. Image(R, idle, S) = Q
    BY <1>3
  <2> HIDE DEF R
  <2> QED
    BY <2>1 DEF Closed
<1> HIDE DEF R, B
<1>6. \E f : f = [i \in 0..N |-> after(f, i)]
  <2>1. PICK f : Leads(f, R, idle, B)
    BY <1>4, TurnsExist
  <2> DEFINE short == [i \in 0..N |-> f[i]]
  <2>2. ASSUME NEW i \in 0..N
        PROVE  short[i] = after(short, i)
    <3> HIDE DEF N, idle
    <3>1. CASE i = 0
      BY <2>1, <3>1 DEF Leads
    <3>2. CASE i /= 0
      <4>1. i - 1 \in Nat /\ i \in Nat /\ i - 1 \in 0..N
        BY <1>1, <3>2
      <4>2. f[i] = f[i - 1] \cup Image(R, idle, f[i - 1]) /\ f[i - 1] \in SUBSET idle
        BY <2>1, <3>2, <4>1 DEF Leads
      <4> QED
        BY <1>3, <3>2, <4>1, <4>2
    <3> QED
      BY <3>1, <3>2
  <2> HIDE DEF after, N
  <2>3. short = [i \in 0..N |-> after(short, i)]
    BY <2>2
  <2> HIDE DEF short
  <2> QED
    BY <2>3
<1>7. turn = [i \in 0..N |-> after(turn, i)]
  <2> HIDE DEF after, N
  <2> QED
    BY <1>6
<1> HIDE DEF turn, N
<1>8. Grows(turn, R, idle, B, N)
  <2>1. turn[0] = B
    BY <1>1, <1>7
  <2>2. ASSUME NEW k \in 0..N, k < N, turn[k] \subseteq idle
        PROVE  turn[k + 1] = turn[k] \cup Image(R, idle, turn[k])
    <3>1. k + 1 \in 0..N /\ k + 1 /= 0 /\ (k + 1) - 1 = k
      BY <1>1, <2>2
    <3>2. turn[k + 1] = after(turn, k + 1)
      BY <1>7, <3>1
    <3> HIDE DEF idle
    <3> QED
      BY <1>3, <2>2, <3>1, <3>2
  <2> QED
    BY <2>1, <2>2 DEF Grows
<1>9. /\ turn[N] \subseteq idle /\ Closed(R, idle, B, turn[N])
      /\ \A S \in SUBSET idle : Closed(R, idle, B, S) => turn[N] \subseteq S
  <2>1. Cardinality(idle) <= Cardinality(B) + N
    <3>1. Cardinality(B) \in Nat
      BY <1>1, <1>4, FS_Subset, FS_CardinalityType
    <3> QED
      BY <1>1, <3>1 DEF N
  <2> HIDE DEF idle
  <2> QED
    BY <1>1, <1>4, <1>8, <2>1, TurnsClose
<1> HIDE DEF holds, idle, skipped
<1>10. skipped \subseteq idle /\ holds(skipped) /\ \A S \in SUBSET idle : holds(S) => skipped \subseteq S
  BY <1>2, <1>5, <1>9
<1> QED
  BY <1>10 DEF holds, idle, skipped

\* What eGraph.walk comes to: the tasks of the least set of graphs with the flow and
\* the graphs of all its subflows that have been built.
LEMMA VisitedReached ==
  ASSUME IInv
  PROVE  \E S \in SUBSET Graphs :
           /\ Visited = UNION {ToSet(nodes[g]) : g \in S}
           /\ Closed(NestsBuilt, Graphs, {Flow}, S)
           /\ \A T \in SUBSET Graphs : Closed(NestsBuilt, Graphs, {Flow}, T) => S \subseteq T
<1> DEFINE after(f, k) ==
             IF k = 0 THEN {Flow}
             ELSE f[k - 1] \cup
                  {t \in Tasks : Typ[t] = "subflow" /\ instantiated[t] /\
                                 \E g \in f[k - 1] : t \in ToSet(nodes[g])}
           r == CHOOSE f : f = [k \in Nat |-> after(f, k)]
           N == Cardinality(Tasks)
<1>1. Visited = UNION {ToSet(nodes[g]) : g \in r[N]}
  BY DEF Visited
<1>2. ASSUME NEW S \in SUBSET Graphs
      PROVE  {t \in Tasks : Typ[t] = "subflow" /\ instantiated[t] /\
                            \E g \in S : t \in ToSet(nodes[g])}
               = Image(NestsBuilt, Graphs, S)
  BY InSet DEF Image, NestsBuilt, Nests, Graphs
<1>3. \E f : f = [k \in Nat |-> after(f, k)]
  <2>1. PICK f : Leads(f, NestsBuilt, Graphs, {Flow})
    BY TurnsExist, GraphsCounted
  <2>2. ASSUME NEW k \in Nat
        PROVE  f[k] = after(f, k)
    <3>1. k /= 0 => k - 1 \in Nat
      OBVIOUS
    <3> QED
      BY <1>2, <2>1, <3>1 DEF Leads
  <2> HIDE DEF after
  <2>3. f = [k \in Nat |-> after(f, k)]
    BY <2>1, <2>2 DEF Leads
  <2> QED
    BY <2>3
<1>4. r = [k \in Nat |-> after(r, k)]
  <2> HIDE DEF after
  <2> QED
    BY <1>3
<1> HIDE DEF r
<1>5. Grows(r, NestsBuilt, Graphs, {Flow}, N)
  <2>1. r[0] = {Flow}
    BY <1>4
  <2>2. ASSUME NEW k \in 0..N, k < N, r[k] \subseteq Graphs
        PROVE  r[k + 1] = r[k] \cup Image(NestsBuilt, Graphs, r[k])
    <3>1. k + 1 \in Nat /\ k + 1 /= 0 /\ (k + 1) - 1 = k
      OBVIOUS
    <3>2. r[k + 1] = after(r, k + 1)
      BY <1>4, <3>1
    <3> QED
      BY <1>2, <2>2, <3>1, <3>2
  <2> QED
    BY <2>1, <2>2 DEF Grows
<1>6. /\ r[N] \subseteq Graphs /\ Closed(NestsBuilt, Graphs, {Flow}, r[N])
      /\ \A T \in SUBSET Graphs : Closed(NestsBuilt, Graphs, {Flow}, T) => r[N] \subseteq T
  BY <1>5, TurnsClose, GraphsCounted
<1> QED
  BY <1>1, <1>6

\* At the end of a run: the graphs that the walk comes to are those that have been
\* built, none of them canceled, and all of their subflows have finished.
LEMMA EndOfRun ==
  ASSUME IInv, LInv, Ending, ~canceled[Flow], DOMAIN trace \subseteq started
  PROVE  /\ started = finished /\ DOMAIN trace = started
         /\ \A t : t \in Visited <=>
              t \in Tasks /\ \E g \in Graphs : In(t, g) /\ instantiated[g]
         /\ \A g \in Graphs : instantiated[g] => ~canceled[g] /\ (g = Flow \/ g \in finished)
<1>1. Active = {} /\ building = None /\ None \notin Tasks
  BY DEF Ending, Active, Graphs
<1>2. started = finished
  BY <1>1 DEF Active, IInv, RunTypes
<1>3. DOMAIN trace = started
  BY <1>1 DEF LInv, Traces, IInv, RunTypes
<1>4. PICK S \in SUBSET Graphs :
        /\ Visited = UNION {ToSet(nodes[g]) : g \in S}
        /\ Closed(NestsBuilt, Graphs, {Flow}, S)
        /\ \A T \in SUBSET Graphs : Closed(NestsBuilt, Graphs, {Flow}, T) => S \subseteq T
  BY VisitedReached
<1>5. \A g \in Graphs : instantiated[g] => g \in S
  BY <1>4 DEF LInv, Rooted
<1>6. \A g \in S : instantiated[g] /\ ~canceled[g]
  <2> DEFINE T == {g \in Graphs : instantiated[g] /\ ~canceled[g]}
  <2>1. Flow \in T
    BY DEF LInv, Builds, Graphs
  <2>2. ASSUME NEW g \in T, NEW h \in Graphs, <<g, h>> \in NestsBuilt
        PROVE  h \in T
    <3>1. h \in Tasks /\ In(h, g) /\ instantiated[h]
      BY <2>2 DEF NestsBuilt, Nests
    <3>2. ~canceled[h]
      BY <1>1, <3>1 DEF LInv, MarksClimb, IInv, Built, OneGraph
    <3> QED
      BY <3>1, <3>2
  <2>3. Closed(NestsBuilt, Graphs, {Flow}, T)
    <3> HIDE DEF T
    <3> QED
      BY <2>1, <2>2 DEF Closed, Image
  <2>4. T \in SUBSET Graphs
    OBVIOUS
  <2>5. S \subseteq T
    <3> HIDE DEF T
    <3> QED
      BY <1>4, <2>3, <2>4
  <2> QED
    BY <2>5
<1>7. \A t : t \in Visited <=> t \in Tasks /\ \E g \in Graphs : In(t, g) /\ instantiated[g]
  BY <1>4, <1>5, <1>6, InSet, InTask
<1>8. \A g \in Graphs : instantiated[g] => g = Flow \/ g \in finished
  BY <1>2, <1>3 DEF LInv, Traces, Graphs
<1> QED
  BY <1>2, <1>3, <1>5, <1>6, <1>7, <1>8

\* Nothing is missing: what did not run waits for a condition, or for what is skipped.
LEMMA NothingMissing ==
  ASSUME IInv, LInv, Ending, ~canceled[Flow], DOMAIN trace \subseteq started, StrongAcyclic
  PROVE  Validation!missingTasks(trace, Expected) = {}
<1> DEFINE idle == DOMAIN Expected \ DOMAIN trace
           skipped == Validation!skippedBranches(trace, Expected)
           M == idle \ skipped
<1>1. DOMAIN Expected = Visited /\ Visited \subseteq Tasks
  BY EndOfRun DEF Expected
<1>2. IsFiniteSet(DOMAIN Expected)
  BY <1>1, FS_Subset
<1>3. /\ skipped \subseteq idle
      /\ \A t \in idle : \/ Validation!hasCondPredecessor(Expected[t])
                         \/ Validation!SkipsFrom(Expected[t], skipped)
                         => t \in skipped
  BY <1>2, SkippedIsClosure
<1> HIDE DEF skipped
<1>4. M = {}
  <2> SUFFICES ASSUME M /= {} PROVE FALSE
    OBVIOUS
  <2>1. PICK t \in M : Strong(t) \cap M = {}
    <3>1. M \in SUBSET Tasks
      BY <1>1
    <3> HIDE DEF M
    <3> QED
      BY <3>1 DEF StrongAcyclic
  <2>2. t \in Tasks /\ t \in Visited /\ t \notin started
    BY <1>1, EndOfRun
  <2>3. PICK g \in Graphs : In(t, g) /\ instantiated[g]
    BY <2>2, EndOfRun
  <2>4. ~canceled[g] /\ (g = Flow \/ g \in finished)
    BY <2>3, EndOfRun
  <2>5. ~Released(t)
    <3>1. CASE g = Flow
      <4>1. graphOf(t) = Flow /\ t \in ToSet(nodes[Flow]) /\ Typ[t] /= "none"
        BY <2>2, <2>3, <3>1, OneHome DEF IInv, Built, OneGraph
      <4>2. running /\ building = None /\ ~Startable(t)
        BY <2>2 DEF Ending
      <4> QED
        BY <2>2, <4>1, <4>2 DEF Startable, Driven
    <3>2. CASE g \in finished
      BY <2>2, <2>3, <2>4, <3>2 DEF LInv, Exhausted, Graphs
    <3> QED
      BY <2>4, <3>1, <3>2
  <2>6. /\ dependents[t] \in Seq(Tasks) /\ dependents[t] /= <<>>
        /\ Strong(t) = {} \/ \E p \in Strong(t) : p \notin finished
    BY <2>2, <2>5 DEF Released, IInv, Built, BuilderTypeOK
  <2>7. /\ DOMAIN Expected[t] = DOMAIN dependents[t]
        /\ \A i \in DOMAIN dependents[t] : /\ Expected[t][i].name = dependents[t][i]
                                           /\ Expected[t][i].Typ = Typ[dependents[t][i]]
    BY <2>2 DEF Expected
  <2>8. CASE Strong(t) = {}
    <3>1. 1 \in DOMAIN dependents[t]
      BY <2>6
    <3>2. Typ[dependents[t][1]] = "condition"
      BY <2>8, <3>1 DEF Strong, ToSet
    <3>3. Validation!hasCondPredecessor(Expected[t])
      BY <2>7, <3>1, <3>2 DEF Validation!hasCondPredecessor
    <3> QED
      BY <1>3, <3>3
  <2>9. ASSUME NEW p \in Strong(t), p \notin finished
        PROVE  FALSE
    <3>1. PICK i \in DOMAIN dependents[t] : dependents[t][i] = p
      BY DEF Strong, ToSet
    <3>2. p \in Tasks /\ Typ[p] /= "condition"
      BY <2>6, <3>1 DEF Strong
    <3>3. In(p, g)
      BY <2>2, <2>3, <3>1, <3>2 DEF LInv, Homed, Together, Holds, IInv, Built, OneGraph
    <3>4. p \in idle
      BY <1>1, <2>3, <2>9, <3>2, <3>3, EndOfRun
    <3>5. p \in skipped
      BY <2>1, <3>4
    <3>6. Validation!SkipsFrom(Expected[t], skipped)
      BY <2>7, <3>1, <3>2, <3>5 DEF Validation!SkipsFrom
    <3> QED
      BY <1>3, <3>6
  <2> QED
    BY <2>6, <2>8, <2>9
<1> QED
  BY <1>4 DEF Validation!missingTasks, skipped

LEMMA RunAccepted ==
  ASSUME IInv, LInv
  PROVE  RunValidates
<1> SUFFICES ASSUME Ending, ~canceled[Flow], ~edited, DOMAIN trace \subseteq started, StrongAcyclic
             PROVE  Validation!Valid(trace, Expected)
  BY DEF RunValidates
<1>1. Validation!missingTasks(trace, Expected) = {}
  BY NothingMissing
<1>2. DOMAIN Expected = Visited
  BY DEF Expected
<1>3. Validation!unexpectedTasks(trace, Expected) = {}
  <2>1. DOMAIN trace \subseteq Visited
    BY EndOfRun DEF LInv, Inside, IInv, RunTypes
  <2> QED
    BY <1>2, <2>1 DEF Validation!unexpectedTasks
<1>4. Validation!dependencyErrors(trace, Expected) = {}
  <2> DEFINE names(deps) == [i \in DOMAIN deps |-> deps[i].name]
  <2>1. ASSUME NEW t \in DOMAIN trace, t \in Visited
        PROVE  names(Expected[t]) = trace[t]
    <3>1. trace[t] = dependents[t]
      BY DEF LInv, Traces
    <3>2. dependents[t] \in Seq(Tasks)
      BY DEF IInv, Built, BuilderTypeOK, RunTypes
    <3> DEFINE s == dependents[t]
               e == [i \in DOMAIN s |-> [name |-> s[i], Typ |-> Typ[s[i]]]]
    <3>3. Expected[t] = e
      BY <2>1 DEF Expected
    <3>4. DOMAIN e = DOMAIN s /\ \A i \in DOMAIN s : e[i].name = s[i]
      OBVIOUS
    <3> HIDE DEF e
    <3>5. names(e) = [i \in DOMAIN s |-> s[i]]
      BY <3>4
    <3>6. s = [i \in DOMAIN s |-> s[i]]
      BY <3>2
    <3> HIDE DEF names
    <3> QED
      BY <3>1, <3>3, <3>5, <3>6
  <2> QED
    BY <1>2, <2>1 DEF Validation!dependencyErrors, Validation!stringSliceEqual
<1> QED
  BY <1>1, <1>3, <1>4 DEF Validation!Valid

-----------------------------------------------------------------------------
\* The numbers at the edges of a condition are its answers, in every flow.
THEOREM LabelsShown == Spec => []LabelsAreAnswers
BY LabelsFollow, PlacesInvariance, PTL

\* Every edge of every task is in the drawing of the flow, as often as it was made and
\* no more often, however deep in subflows the task is.
THEOREM EveryEdgeDrawn == Spec => []DumpShowsEveryEdge
BY EdgesDrawn, PlacesInvariance, PTL

\* The validator accepts the run of every flow whose strong edges have no cycle.
THEOREM RunsValidate == Spec => []RunValidates
BY RunAccepted, PlacesInvariance, PTL
=============================================================================
