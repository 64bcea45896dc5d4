-------------------------------- MODULE Fifo --------------------------------
(***************************************************************************)
(* What utils.Queue promises: values leave in the order they came.         *)
(***************************************************************************)
EXTENDS Naturals, Sequences

CONSTANTS Values, Nil

VARIABLES
  q,     \* the values in the queue, oldest first
  out    \* the value that Pop returned last, or Nil

fifoVars == <<q, out>>

Init == q = <<>> /\ out = Nil

Put(v) == q' = Append(q, v) /\ UNCHANGED out

Pop == q /= <<>> /\ out' = Head(q) /\ q' = Tail(q)

\* TryPop on an empty queue.
PopNothing == q = <<>> /\ out' = Nil /\ UNCHANGED q

Next == (\E v \in Values : Put(v)) \/ Pop \/ PopNothing

Spec == Init /\ [][Next]_fifoVars
=============================================================================
