---------------------------- MODULE MCLifecycle -----------------------------
(***************************************************************************)
(* The tasks of a flow are interchangeable.                                *)
(***************************************************************************)
EXTENDS Lifecycle, TLC

TaskSymmetry == Permutations(Tasks)
=============================================================================
