----------------------------- MODULE Validator -----------------------------
(***************************************************************************)
(* validator.go: compares the events that a tracer recorded with the tasks *)
(* of a flow.  Pure operators, for any representation of names.            *)
(*                                                                         *)
(* executed maps the name of each task in the trace to the names of its    *)
(* dependents, a sequence, as its last event has them.  (AddEvent joins    *)
(* the names with commas and the validator splits them: the identity for   *)
(* names without a comma.)  expected maps the name of each task of the     *)
(* flow to its dependents, a sequence of records of name and Typ.          *)
(***************************************************************************)
EXTENDS Naturals, Sequences, FiniteSets, SequencesExt

\* innerNode.hasCondPredecessor
hasCondPredecessor(deps) == \E i \in DOMAIN deps : deps[i].Typ = "condition"

\* Mutant: only the direct successors of a condition count as skipped.
SkipsFromDirect(deps, skipped) == FALSE

\* A strong predecessor was skipped.
SkipsFrom(deps, skipped) ==
  \E i \in DOMAIN deps : deps[i].Typ /= "condition" /\ deps[i].name \in skipped

\* The tasks not executed that are excused by a condition: its successors, then
\* turn by turn whatever depends on a skipped task.
skippedBranches(executed, expected) ==
  LET idle == DOMAIN expected \ DOMAIN executed
      turn[i \in 0..Cardinality(idle)] ==
        IF i = 0 THEN {name \in idle : hasCondPredecessor(expected[name])}
        ELSE turn[i - 1] \cup {name \in idle : SkipsFrom(expected[name], turn[i - 1])}
  IN turn[Cardinality(idle)]

missingTasks(executed, expected) ==
  (DOMAIN expected \ DOMAIN executed) \ skippedBranches(executed, expected)

unexpectedTasks(executed, expected) == DOMAIN executed \ DOMAIN expected

\* stringSliceEqual: the same names, each as often.
stringSliceEqual(s, t) == ToBag(s) = ToBag(t)

\* Tasks whose event has other predecessors than the flow has, of those that
\* were executed.
dependencyErrors(executed, expected) ==
  LET ran(name) == name \in DOMAIN executed
      names(deps) == [i \in DOMAIN deps |-> deps[i].name]
  IN {name \in DOMAIN executed \cap DOMAIN expected :
        ~stringSliceEqual(SelectSeq(names(expected[name]), ran),
                          SelectSeq(executed[name], ran))}

\* validationResult.valid
Valid(executed, expected) ==
  /\ missingTasks(executed, expected) = {}
  /\ unexpectedTasks(executed, expected) = {}
  /\ dependencyErrors(executed, expected) = {}
=============================================================================
