------------------------------ MODULE MCQueue -------------------------------
(***************************************************************************)
(* Model checking of Queue.tla with a small minQueueLen.                   *)
(***************************************************************************)
EXTENDS Queue, Bitwise

\* Wrap is what the code computes, x & (n - 1), for the sizes a queue can have
\* and for indices up to twice the size.
ASSUME MaskAssumption ==
  \A k \in 1..6 : \A x \in 0..2^(k + 1) : x & (2^k - 1) = Wrap(x, 2^k)
=============================================================================
