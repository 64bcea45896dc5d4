------------------------------ MODULE MCTraced ------------------------------
(***************************************************************************)
(* The small flows of MCExecutor.tla, with a tracer and a profiler.        *)
(***************************************************************************)
EXTENDS MCExecutor, Traced
=============================================================================
