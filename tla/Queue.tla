------------------------------- MODULE Queue --------------------------------
(***************************************************************************)
(* The ring buffer of utils/queue.go, under executor.wq and Copool.taskQ.  *)
(*                                                                         *)
(* The buffer grows to twice its size when it is full and shrinks to half  *)
(* when a quarter is left; indices are taken modulo the size by masking,   *)
(* which is right only for powers of two.  Each operation is one step: the *)
(* callers hold a mutex of their own (threadSafe is false in both uses).   *)
(*                                                                         *)
(* A definition marked "Mutant" is a wrong version of the one that follows *)
(* it, which PROJECT.json names to show that a property can fail.          *)
(***************************************************************************)
EXTENDS Integers, Sequences

CONSTANTS
  Values,
  Nil,          \* the nil pointer
  minQueueLen,
  MaxCount      \* bound: values in the queue

ASSUME QueueAssumption ==
  /\ minQueueLen \in Nat \ {0} /\ \E k \in 1..10 : minQueueLen = 2^k
  /\ MaxCount \in Nat
  /\ Nil \notin Values

VARIABLES
  buf,               \* cell i of the code is buf[i + 1]
  head, tail, count,
  out                \* history: what Pop or TryPop returned last

vars == <<buf, head, tail, count, out>>

Nils(n) == [i \in 1..n |-> Nil]

Init ==
  /\ buf = Nils(minQueueLen)
  /\ head = 0 /\ tail = 0 /\ count = 0
  /\ out = Nil

\* x & (n - 1): the mask of a size that is a power of two (MCQueue compares).
Wrap(x, n) == x % n

\* Mutant: a full buffer is copied as if it did not wrap around.
SliceUnwrapped(b, h, t) == SubSeq(b, h + 1, Len(b))

\* What resize() copies: b[h:t], or b[h:] and b[:t] when that wraps around.
Slice(b, h, t) ==
  IF t > h THEN SubSeq(b, h + 1, t) ELSE SubSeq(b, h + 1, Len(b)) \o SubSeq(b, 1, t)

\* copy() into a new buffer of n cells.
Copied(s, n) == [i \in 1..n |-> IF i <= Len(s) THEN s[i] ELSE Nil]

\* resize() of a queue with buffer b, head h, tail t and count c.
Resize(b, h, t, c) ==
  /\ buf' = Copied(Slice(b, h, t), 2 * c)
  /\ head' = 0
  /\ tail' = c

\* Put: resize when the buffer is full, then write the cell at the tail.
PutRoom(v) ==
  /\ count < Len(buf)
  /\ buf' = [buf EXCEPT ![tail + 1] = v]
  /\ tail' = Wrap(tail + 1, Len(buf))
  /\ UNCHANGED head

PutFull(v) ==
  /\ count = Len(buf)
  /\ buf' = [Copied(Slice(buf, head, tail), 2 * count) EXCEPT ![count + 1] = v]
  /\ head' = 0
  /\ tail' = Wrap(count + 1, 2 * count)

Put(v) ==
  /\ count < MaxCount
  /\ PutRoom(v) \/ PutFull(v)
  /\ count' = count + 1
  /\ UNCHANGED out

\* Mutants: Pop leaves the pointer in its cell; it shrinks without a minimum.
Kept(b, h) == b
ShrinksAlways(n, c) == 4 * c <= n

Cleared(b, h) == [b EXCEPT ![h + 1] = Nil]

\* "Resize down if buffer 1/4 full."
Shrinks(n, c) == n > minQueueLen /\ 4 * c = n

\* Pop, and TryPop of a queue that is not empty.
Pop ==
  /\ count > 0
  /\ out' = buf[head + 1]
  /\ count' = count - 1
  /\ LET b == Cleared(buf, head)
         h == Wrap(head + 1, Len(buf))
     IN \/ /\ Shrinks(Len(buf), count - 1)
           /\ Resize(b, h, tail, count - 1)
        \/ /\ ~Shrinks(Len(buf), count - 1)
           /\ buf' = b /\ head' = h
           /\ UNCHANGED tail

TryPopEmpty ==
  /\ count = 0
  /\ out' = Nil
  /\ UNCHANGED <<buf, head, tail, count>>

Next == (\E v \in Values : Put(v)) \/ Pop \/ TryPopEmpty

Spec == Init /\ [][Next]_vars

\* Get(i), for an index that is not out of range; Get(0) is Top().
Get(i) == buf[Wrap(head + (IF i < 0 THEN i + count ELSE i), Len(buf)) + 1]

-----------------------------------------------------------------------------
(***************************************************************************)
(* Properties.                                                             *)
(***************************************************************************)

\* The size is a power of two, times minQueueLen and never below it.
SizeOK == \E k \in 0..MaxCount : Len(buf) = minQueueLen * 2^k

InBuffer ==
  /\ buf \in Seq(Values \cup {Nil})
  /\ head \in 0..Len(buf) - 1 /\ tail \in 0..Len(buf) - 1
  /\ count \in 0..Len(buf)
  /\ tail = Wrap(head + count, Len(buf))
  /\ out \in Values \cup {Nil}

\* Types, and the shape that the masks rely on: the size is right, the indices
\* are in the buffer, and the tail is count cells after the head.
BufferTypeOK == SizeOK /\ InBuffer

\* Exactly the cells between head and tail hold a value: nothing popped stays
\* reachable, and nothing queued is lost when the buffer is resized.
NoStaleCells ==
  \A i \in 0..Len(buf) - 1 :
    buf[i + 1] /= Nil <=> \E k \in 0..count - 1 : i = Wrap(head + k, Len(buf))

\* The queue is first in, first out, across every resize.
Content == [i \in 1..count |-> Get(i - 1)]
AbstractQueue == INSTANCE Fifo WITH q <- Content
ImplementsFifo == AbstractQueue!Spec
=============================================================================
