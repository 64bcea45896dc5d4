----------------------------- MODULE QueueProof -----------------------------
(***************************************************************************)
(* Queue.tla is a queue, for every minimal size, any values and any        *)
(* number of them: whatever is put in a ring of cells that grows and       *)
(* shrinks comes out in order, and the cells outside it are nil.           *)
(*                                                                         *)
(* Ring says this of a buffer, a head, a tail and a count; three lemmas    *)
(* say what writing a cell, clearing a cell and resize() do to a ring and  *)
(* to the values in it.  The steps of Queue are made of these.             *)
(***************************************************************************)
EXTENDS Queue, SequenceTheorems, FiniteSetTheorems, TLAPS

USE QueueAssumption

\* The i-th value of a ring with buffer b and head h.
At(b, h, i) == b[Wrap(h + i - 1, Len(b)) + 1]

\* Cell i of n is one of the c cells from h on.
Occupied(i, h, c, n) == \E k \in 0..c - 1 : i = Wrap(h + k, n)

Ring(b, h, t, c) ==
  /\ b \in Seq(Values \cup {Nil}) /\ Len(b) \in Nat \ {0}
  /\ h \in 0..Len(b) - 1 /\ t \in 0..Len(b) - 1 /\ c \in 0..Len(b)
  /\ t = Wrap(h + c, Len(b))
  /\ \A i \in 0..Len(b) - 1 : b[i + 1] /= Nil <=> Occupied(i, h, c, Len(b))

\* The sizes that resize() leads to.
Sizes == {minQueueLen * 2^k : k \in 0..MaxCount}

IInv == Ring(buf, head, tail, count) /\ out \in Values \cup {Nil} /\ Len(buf) \in Sizes

-----------------------------------------------------------------------------
(***************************************************************************)
(* Indices.                                                                *)
(***************************************************************************)

LEMMA WrapValue ==
  ASSUME NEW n \in Nat \ {0}, NEW x \in 0..2 * n - 1
  PROVE  Wrap(x, n) = IF x < n THEN x ELSE x - n
<1>1. CASE x < n
  <2>1. x \in 0..n - 1
    BY <1>1
  <2>2. x % n = x
    BY <2>1
  <2>3. QED
    BY <1>1, <2>2 DEF Wrap
<1>2. CASE x >= n
  <2>1. x \in n..2 * n - 1
    BY <1>2
  <2>2. x % n = x - n
    BY <2>1
  <2>3. QED
    BY <1>2, <2>2 DEF Wrap
<1>3. QED
  BY <1>1, <1>2

\* The occupied cells are an interval, or two when the ring wraps around.
LEMMA OccupiedCells ==
  ASSUME NEW n \in Nat \ {0}, NEW h \in 0..n - 1, NEW c \in 0..n, NEW i \in 0..n - 1
  PROVE  Occupied(i, h, c, n) <=> (h <= i /\ i < h + c) \/ (i < h /\ i + n < h + c)
<1>1. ASSUME NEW k \in 0..c - 1 PROVE Wrap(h + k, n) = IF h + k < n THEN h + k ELSE h + k - n
  <2>1. h + k \in 0..2 * n - 1
    OBVIOUS
  <2>2. QED
    BY <2>1, WrapValue
<1>2. ASSUME NEW k \in 0..c - 1, i = Wrap(h + k, n)
      PROVE  (h <= i /\ i < h + c) \/ (i < h /\ i + n < h + c)
  BY <1>1, <1>2
<1>3. ASSUME h <= i, i < h + c PROVE Occupied(i, h, c, n)
  <2>1. i - h \in 0..c - 1 /\ h + (i - h) = i
    BY <1>3
  <2>2. i = Wrap(h + (i - h), n)
    BY <1>1, <2>1
  <2>3. QED
    BY <2>1, <2>2 DEF Occupied
<1>4. ASSUME i < h, i + n < h + c PROVE Occupied(i, h, c, n)
  <2>1. i + n - h \in 0..c - 1 /\ h + (i + n - h) = i + n
    BY <1>4
  <2>2. i = Wrap(h + (i + n - h), n)
    BY <1>1, <2>1
  <2>3. QED
    BY <2>1, <2>2 DEF Occupied
<1>5. QED
  BY <1>2, <1>3, <1>4 DEF Occupied

\* Where the i-th value is.
LEMMA PlaceOf ==
  ASSUME NEW n \in Nat \ {0}, NEW h \in 0..n - 1, NEW i \in 1..n
  PROVE  /\ Wrap(h + i - 1, n) = IF h + i - 1 < n THEN h + i - 1 ELSE h + i - 1 - n
         /\ Wrap(h + i - 1, n) \in 0..n - 1
<1>1. h + i - 1 \in 0..2 * n - 1
  OBVIOUS
<1>2. QED
  BY <1>1, WrapValue

\* The values of a ring are not nil.
LEMMA AtIsValue ==
  ASSUME NEW b, NEW h, NEW t, NEW c, Ring(b, h, t, c), NEW i \in 1..c
  PROVE  At(b, h, i) \in Values
<1> DEFINE n == Len(b)
           p == Wrap(h + i - 1, n)
<1>1. n \in Nat \ {0} /\ h \in 0..n - 1 /\ c \in 0..n /\ i \in 1..n
  BY DEF Ring
<1>2. p \in 0..n - 1
  BY <1>1, PlaceOf
<1>3. Occupied(p, h, c, n)
  <2>1. i - 1 \in 0..c - 1 /\ h + (i - 1) = h + i - 1
    BY <1>1
  <2>2. QED
    BY <2>1 DEF Occupied
<1>4. b[p + 1] /= Nil
  BY <1>2, <1>3 DEF Ring
<1>5. p + 1 \in 1..Len(b) /\ b \in Seq(Values \cup {Nil})
  BY <1>2 DEF Ring
<1>6. b[p + 1] \in Values \cup {Nil}
  BY <1>5, ElementOfSeq
<1>7. QED
  BY <1>4, <1>6 DEF At

-----------------------------------------------------------------------------
(***************************************************************************)
(* What the operations do to a ring.                                       *)
(***************************************************************************)

Written(b, t, v) == [b EXCEPT ![t + 1] = v]

\* Writing the cell at the tail of a ring that is not full adds a last value.
LEMMA CellWritten ==
  ASSUME NEW b, NEW h, NEW t, NEW c, Ring(b, h, t, c), c < Len(b), NEW v \in Values
  PROVE  /\ Ring(Written(b, t, v), h, Wrap(t + 1, Len(b)), c + 1)
         /\ Len(Written(b, t, v)) = Len(b)
         /\ At(Written(b, t, v), h, c + 1) = v
         /\ \A i \in 1..c : At(Written(b, t, v), h, i) = At(b, h, i)
<1> DEFINE n == Len(b)
           b2 == Written(b, t, v)
           t2 == Wrap(t + 1, n)
<1>1. /\ n \in Nat \ {0} /\ h \in 0..n - 1 /\ t \in 0..n - 1 /\ c \in 0..n - 1
      /\ t = Wrap(h + c, n) /\ b \in Seq(Values \cup {Nil})
  BY DEF Ring
<1>2. t = IF h + c < n THEN h + c ELSE h + c - n
  <2>1. h + c \in 0..2 * n - 1
    BY <1>1
  <2>2. QED
    BY <1>1, <2>1, WrapValue
<1>3. t2 = (IF t + 1 < n THEN t + 1 ELSE t + 1 - n) /\ t2 \in 0..n - 1
  <2>1. t + 1 \in 0..2 * n - 1
    BY <1>1
  <2>2. t2 = IF t + 1 < n THEN t + 1 ELSE t + 1 - n
    BY <1>1, <2>1, WrapValue
  <2>3. QED
    BY <1>1, <2>2
<1>4. t2 = Wrap(h + (c + 1), n)
  <2>1. h + (c + 1) \in 0..2 * n - 1
    BY <1>1
  <2>2. Wrap(h + (c + 1), n) = IF h + (c + 1) < n THEN h + (c + 1) ELSE h + (c + 1) - n
    BY <1>1, <2>1, WrapValue
  <2>3. QED
    BY <1>1, <1>2, <1>3, <2>2
<1>5. /\ b2 \in Seq(Values \cup {Nil}) /\ Len(b2) = n
      /\ \A j \in 1..n : b2[j] = IF j = t + 1 THEN v ELSE b[j]
  <2>1. t + 1 \in 1..Len(b) /\ v \in Values \cup {Nil}
    BY <1>1
  <2>2. QED
    BY <1>1, <2>1, ExceptSeq DEF Written
<1> HIDE DEF b2, t2
<1>6. ASSUME NEW i \in 0..n - 1 PROVE b2[i + 1] /= Nil <=> Occupied(i, h, c + 1, n)
  <2>1. i + 1 \in 1..n
    BY <1>1
  <2>2. b[i + 1] /= Nil <=> (h <= i /\ i < h + c) \/ (i < h /\ i + n < h + c)
    BY <1>1, OccupiedCells DEF Ring
  <2>3. Occupied(i, h, c + 1, n) <=> (h <= i /\ i < h + (c + 1)) \/ (i < h /\ i + n < h + (c + 1))
    <3>1. c + 1 \in 0..n
      BY <1>1
    <3>2. QED
      BY <1>1, <3>1, OccupiedCells
  <2>4. CASE i = t
    <3>1. b2[i + 1] = v /\ v /= Nil
      BY <1>5, <2>1, <2>4
    <3>2. QED
      BY <1>1, <1>2, <2>3, <2>4, <3>1
  <2>5. CASE i /= t
    <3>1. b2[i + 1] = b[i + 1]
      BY <1>1, <1>5, <2>1, <2>5
    <3>2. (h <= i /\ i < h + (c + 1)) \/ (i < h /\ i + n < h + (c + 1))
            <=> (h <= i /\ i < h + c) \/ (i < h /\ i + n < h + c)
      BY <1>1, <1>2, <2>5
    <3>3. QED
      BY <2>2, <2>3, <3>1, <3>2
  <2>6. QED
    BY <2>4, <2>5
<1>7. Ring(b2, h, t2, c + 1)
  BY <1>1, <1>3, <1>4, <1>5, <1>6 DEF Ring
<1>8. At(b2, h, c + 1) = v
  <2>1. h + (c + 1) - 1 = h + c
    BY <1>1
  <2>2. At(b2, h, c + 1) = b2[t + 1]
    BY <1>1, <1>5, <2>1 DEF At
  <2>3. QED
    BY <1>1, <1>5, <2>2
<1>9. ASSUME NEW i \in 1..c PROVE At(b2, h, i) = At(b, h, i)
  <2> DEFINE p == Wrap(h + i - 1, n)
  <2>1. i \in 1..n
    BY <1>1
  <2>2. p \in 0..n - 1 /\ p = IF h + i - 1 < n THEN h + i - 1 ELSE h + i - 1 - n
    BY <1>1, <2>1, PlaceOf
  <2> HIDE DEF p
  <2>3. p /= t
    BY <1>1, <1>2, <2>2
  <2>4. b2[p + 1] = b[p + 1]
    <3>1. p + 1 \in 1..n /\ p + 1 /= t + 1
      BY <1>1, <2>2, <2>3
    <3>2. QED
      BY <1>5, <3>1
  <2>5. QED
    BY <1>5, <2>4 DEF At, p
<1>10. QED
  BY <1>5, <1>7, <1>8, <1>9 DEF b2, t2

\* Clearing the cell at the head removes the first value.
LEMMA CellCleared ==
  ASSUME NEW b, NEW h, NEW t, NEW c, Ring(b, h, t, c), c > 0
  PROVE  /\ Ring(Cleared(b, h), Wrap(h + 1, Len(b)), t, c - 1)
         /\ Len(Cleared(b, h)) = Len(b)
         /\ At(b, h, 1) = b[h + 1]
         /\ \A i \in 1..c - 1 : At(Cleared(b, h), Wrap(h + 1, Len(b)), i) = At(b, h, i + 1)
<1> DEFINE n == Len(b)
           b2 == Cleared(b, h)
           h2 == Wrap(h + 1, n)
<1>1. /\ n \in Nat \ {0} /\ h \in 0..n - 1 /\ t \in 0..n - 1 /\ c \in 1..n
      /\ t = Wrap(h + c, n) /\ b \in Seq(Values \cup {Nil})
  BY DEF Ring
<1>2. h2 = (IF h + 1 < n THEN h + 1 ELSE h + 1 - n) /\ h2 \in 0..n - 1
  <2>1. h + 1 \in 0..2 * n - 1
    BY <1>1
  <2>2. h2 = IF h + 1 < n THEN h + 1 ELSE h + 1 - n
    BY <1>1, <2>1, WrapValue
  <2>3. QED
    BY <1>1, <2>2
<1>3. /\ b2 \in Seq(Values \cup {Nil}) /\ Len(b2) = n
      /\ \A j \in 1..n : b2[j] = IF j = h + 1 THEN Nil ELSE b[j]
  <2>1. h + 1 \in 1..Len(b) /\ Nil \in Values \cup {Nil}
    BY <1>1
  <2>2. QED
    BY <1>1, <2>1, ExceptSeq DEF Cleared
<1> HIDE DEF b2, h2
\* The cell of the value k is found from either head.
<1>4. ASSUME NEW k \in 0..n - 1
      PROVE  Wrap(h2 + k, n) = Wrap(h + (k + 1), n)
  <2>1. h2 \in Nat /\ k \in Nat /\ h2 + k \in 0..2 * n - 1 /\ h + (k + 1) \in 0..2 * n - 1
    BY <1>1, <1>2
  <2>2. Wrap(h2 + k, n) = IF h2 + k < n THEN h2 + k ELSE h2 + k - n
    BY <1>1, <2>1, WrapValue
  <2>3. Wrap(h + (k + 1), n) = IF h + (k + 1) < n THEN h + (k + 1) ELSE h + (k + 1) - n
    BY <1>1, <2>1, WrapValue
  <2>4. QED
    BY <1>1, <1>2, <2>2, <2>3
<1>5. t = Wrap(h2 + (c - 1), n)
  <2>1. c - 1 \in 0..n - 1 /\ (c - 1) + 1 = c
    BY <1>1
  <2>2. QED
    BY <1>1, <1>4, <2>1
<1>6. ASSUME NEW i \in 0..n - 1 PROVE b2[i + 1] /= Nil <=> Occupied(i, h2, c - 1, n)
  <2>1. i + 1 \in 1..n
    BY <1>1
  <2>2. b[i + 1] /= Nil <=> (h <= i /\ i < h + c) \/ (i < h /\ i + n < h + c)
    <3>1. c \in 0..n
      BY <1>1
    <3>2. QED
      BY <1>1, <3>1, OccupiedCells DEF Ring
  <2>3. Occupied(i, h2, c - 1, n)
          <=> (h2 <= i /\ i < h2 + (c - 1)) \/ (i < h2 /\ i + n < h2 + (c - 1))
    <3>1. c - 1 \in 0..n
      BY <1>1
    <3>2. QED
      BY <1>1, <1>2, <3>1, OccupiedCells
  <2>4. CASE i = h
    <3>1. b2[i + 1] = Nil
      BY <1>3, <2>1, <2>4
    <3>2. ~((h2 <= i /\ i < h2 + (c - 1)) \/ (i < h2 /\ i + n < h2 + (c - 1)))
      BY <1>1, <1>2, <2>4
    <3>3. QED
      BY <2>3, <3>1, <3>2
  <2>5. CASE i /= h
    <3>1. b2[i + 1] = b[i + 1]
      <4>1. i + 1 /= h + 1
        BY <1>1, <2>5
      <4>2. QED
        BY <1>3, <2>1, <4>1
    <3>2. (h2 <= i /\ i < h2 + (c - 1)) \/ (i < h2 /\ i + n < h2 + (c - 1))
            <=> (h <= i /\ i < h + c) \/ (i < h /\ i + n < h + c)
      BY <1>1, <1>2, <2>5
    <3>3. QED
      BY <2>2, <2>3, <3>1, <3>2
  <2>6. QED
    BY <2>4, <2>5
<1>7. Ring(b2, h2, t, c - 1)
  BY <1>1, <1>2, <1>3, <1>5, <1>6 DEF Ring
<1>8. At(b, h, 1) = b[h + 1]
  <2>1. h + 1 - 1 = h /\ h \in 0..2 * n - 1 /\ h < n
    BY <1>1
  <2>2. Wrap(h, n) = h
    BY <1>1, <2>1, WrapValue
  <2>3. QED
    BY <2>1, <2>2 DEF At
<1>9. ASSUME NEW i \in 1..c - 1 PROVE At(b2, h2, i) = At(b, h, i + 1)
  <2> DEFINE p == Wrap(h2 + i - 1, n)
  <2>1. i \in 1..n /\ i + 1 \in 1..n
    BY <1>1
  <2>2. /\ p \in 0..n - 1 /\ p = IF h2 + i - 1 < n THEN h2 + i - 1 ELSE h2 + i - 1 - n
        /\ Wrap(h + (i + 1) - 1, n)
             = IF h + (i + 1) - 1 < n THEN h + (i + 1) - 1 ELSE h + (i + 1) - 1 - n
    BY <1>1, <1>2, <2>1, PlaceOf
  <2> HIDE DEF p
  <2>3. p = Wrap(h + (i + 1) - 1, n) /\ p /= h
    BY <1>1, <1>2, <2>1, <2>2
  <2>4. b2[p + 1] = b[p + 1]
    <3>1. p + 1 \in 1..n /\ p + 1 /= h + 1
      BY <1>1, <2>2, <2>3
    <3>2. QED
      BY <1>3, <3>1
  <2>5. QED
    BY <1>3, <2>3, <2>4 DEF At, p
<1>10. QED
  BY <1>3, <1>7, <1>8, <1>9 DEF b2, h2

\* What resize() copies.
LEMMA SliceValues ==
  ASSUME NEW b, NEW h, NEW t, NEW c, Ring(b, h, t, c), c > 0
  PROVE  /\ Slice(b, h, t) \in Seq(Values \cup {Nil}) /\ Len(Slice(b, h, t)) = c
         /\ \A i \in 1..c : Slice(b, h, t)[i] = At(b, h, i)
<1> DEFINE n == Len(b)
           T == Values \cup {Nil}
<1>1. /\ n \in Nat \ {0} /\ h \in 0..n - 1 /\ t \in 0..n - 1 /\ c \in 1..n
      /\ t = Wrap(h + c, n) /\ b \in Seq(T)
  BY DEF Ring
<1>2. t = IF h + c < n THEN h + c ELSE h + c - n
  <2>1. h + c \in 0..2 * n - 1
    BY <1>1
  <2>2. QED
    BY <1>1, <2>1, WrapValue
<1>3. ASSUME NEW i \in 1..c
      PROVE  At(b, h, i) = IF h + i <= n THEN b[h + i] ELSE b[h + i - n]
  <2>1. i \in 1..n
    BY <1>1
  <2>2. Wrap(h + i - 1, n) = IF h + i - 1 < n THEN h + i - 1 ELSE h + i - 1 - n
    BY <1>1, <2>1, PlaceOf
  <2>3. Wrap(h + i - 1, n) + 1 = IF h + i <= n THEN h + i ELSE h + i - n
    BY <1>1, <2>1, <2>2
  <2>4. QED
    BY <2>3 DEF At
<1>4. CASE t > h
  <2>1. t = h + c /\ h + 1 \in 1..n /\ t \in h..n /\ t - h = c
    BY <1>1, <1>2, <1>4
  <2>2. Slice(b, h, t) = SubSeq(b, h + 1, t)
    BY <1>4 DEF Slice
  <2>3. /\ SubSeq(b, h + 1, t) \in Seq(T) /\ Len(SubSeq(b, h + 1, t)) = c
        /\ \A i \in 1..c : SubSeq(b, h + 1, t)[i] = b[h + i]
    <3> HIDE DEF n, T
    <3>1. h + 1 \in 1..n /\ t \in 1..n /\ t - (h + 1) + 1 = c /\ h + 1 <= t
      BY <1>1, <2>1
    <3>2. n = Len(b) /\ b \in Seq(T)
      BY <1>1 DEF n
    <3>3. SubSeq(b, h + 1, t) \in Seq(T)
      BY <3>1, <3>2
    <3>4. Len(SubSeq(b, h + 1, t)) = c
      BY <3>1, <3>2
    <3>5. ASSUME NEW i \in 1..c PROVE SubSeq(b, h + 1, t)[i] = b[h + i]
      BY <1>1, <3>1, <3>2
    <3>6. QED
      BY <3>3, <3>4, <3>5
  <2>4. \A i \in 1..c : h + i <= n
    BY <1>1, <2>1
  <2>5. QED
    BY <1>3, <2>2, <2>3, <2>4
<1>5. CASE ~(t > h)
  <2> DEFINE x == SubSeq(b, h + 1, n)
             y == SubSeq(b, 1, t)
  <2>1. t = h + c - n /\ t < n
    BY <1>1, <1>2, <1>5
  <2>2. Slice(b, h, t) = x \o y
    BY <1>5 DEF Slice
  <2>3. x \in Seq(T) /\ Len(x) = n - h /\ \A i \in 1..n - h : x[i] = b[h + i]
    BY <1>1
  <2>4. y \in Seq(T) /\ Len(y) = t /\ \A i \in 1..t : y[i] = b[i]
    BY <1>1
  <2> HIDE DEF x, y
  <2>5. /\ x \o y \in Seq(T) /\ Len(x \o y) = c
        /\ \A i \in 1..c : (x \o y)[i] = IF i <= n - h THEN x[i] ELSE y[i - (n - h)]
    <3>1. n - h \in Nat /\ t \in Nat /\ (n - h) + t = c
      BY <1>1, <2>1
    <3>2. QED
      BY <2>3, <2>4, <3>1
  <2>6. ASSUME NEW i \in 1..c PROVE (x \o y)[i] = At(b, h, i)
    <3>1. CASE i <= n - h
      <4>1. i \in 1..n - h /\ h + i <= n
        BY <1>1, <3>1
      <4>2. QED
        BY <1>3, <2>3, <2>5, <3>1, <4>1
    <3>2. CASE ~(i <= n - h)
      <4>1. i - (n - h) \in 1..t /\ ~(h + i <= n) /\ i - (n - h) = h + i - n
        BY <1>1, <2>1, <3>2
      <4>2. QED
        BY <1>3, <2>4, <2>5, <3>2, <4>1
    <3>3. QED
      BY <3>1, <3>2
  <2>7. QED
    BY <2>2, <2>5, <2>6
<1>6. QED
  BY <1>4, <1>5

Fresh(b, h, t, c) == Copied(Slice(b, h, t), 2 * c)

\* resize() keeps the values and their order.
LEMMA Resized ==
  ASSUME NEW b, NEW h, NEW t, NEW c, Ring(b, h, t, c), c > 0
  PROVE  /\ Ring(Fresh(b, h, t, c), 0, c, c)
         /\ Len(Fresh(b, h, t, c)) = 2 * c
         /\ \A i \in 1..c : At(Fresh(b, h, t, c), 0, i) = At(b, h, i)
<1> DEFINE T == Values \cup {Nil}
           s == Slice(b, h, t)
           b2 == Fresh(b, h, t, c)
<1>1. c \in Nat \ {0} /\ 2 * c \in Nat \ {0}
  BY DEF Ring
<1>2. s \in Seq(T) /\ Len(s) = c /\ \A i \in 1..c : s[i] = At(b, h, i)
  BY SliceValues
<1>3. \A i \in 1..c : s[i] \in Values
  BY <1>2, AtIsValue
<1> HIDE DEF s
<1>4. b2 = [i \in 1..2 * c |-> IF i <= c THEN s[i] ELSE Nil]
  BY <1>2 DEF Copied, Fresh, s
<1>5. /\ \A i \in 1..2 * c : b2[i] = IF i <= c THEN s[i] ELSE Nil
      /\ \A i \in 1..2 * c : b2[i] \in T
  BY <1>1, <1>3, <1>4
<1>6. b2 \in Seq(T) /\ Len(b2) = 2 * c
  BY <1>1, <1>4, <1>5
<1> HIDE DEF b2
<1>7. c = Wrap(0 + c, 2 * c)
  <2>1. 0 + c \in 0..2 * (2 * c) - 1 /\ 0 + c < 2 * c
    BY <1>1
  <2>2. QED
    BY <1>1, <2>1, WrapValue
<1>8. ASSUME NEW i \in 0..2 * c - 1 PROVE b2[i + 1] /= Nil <=> Occupied(i, 0, c, 2 * c)
  <2>1. Occupied(i, 0, c, 2 * c) <=> (0 <= i /\ i < 0 + c) \/ (i < 0 /\ i + 2 * c < 0 + c)
    <3>1. 0 \in 0..2 * c - 1 /\ c \in 0..2 * c
      BY <1>1
    <3>2. QED
      BY <1>1, <3>1, OccupiedCells
  <2>2. Occupied(i, 0, c, 2 * c) <=> i + 1 <= c
    BY <1>1, <2>1
  <2>3. i + 1 \in 1..2 * c /\ (i + 1 <= c => i + 1 \in 1..c)
    BY <1>1
  <2>4. QED
    BY <1>3, <1>5, <2>2, <2>3
<1>9. Ring(b2, 0, c, c)
  <2>1. 0 \in 0..2 * c - 1 /\ c \in 0..2 * c - 1 /\ c \in 0..2 * c
    BY <1>1
  <2>2. QED
    BY <1>1, <1>6, <1>7, <1>8, <2>1 DEF Ring
<1>10. ASSUME NEW i \in 1..c PROVE At(b2, 0, i) = At(b, h, i)
  <2>1. i \in 1..2 * c /\ 0 + i - 1 < 2 * c /\ (0 + i - 1) + 1 = i /\ 0 \in 0..2 * c - 1
    BY <1>1
  <2>2. Wrap(0 + i - 1, 2 * c) = 0 + i - 1
    BY <1>1, <2>1, PlaceOf
  <2>3. At(b2, 0, i) = b2[i]
    BY <1>6, <2>1, <2>2 DEF At
  <2>4. QED
    BY <1>2, <1>5, <2>1, <2>3
<1>11. QED
  BY <1>6, <1>9, <1>10 DEF b2, s

-----------------------------------------------------------------------------
(***************************************************************************)
(* The values of a ring as a sequence, and the sizes of buffers.           *)
(***************************************************************************)

Listed(b, h, c) == [i \in 1..c |-> At(b, h, i)]

LEMMA ListedType ==
  ASSUME NEW b, NEW h, NEW t, NEW c, Ring(b, h, t, c)
  PROVE  Listed(b, h, c) \in Seq(Values) /\ Len(Listed(b, h, c)) = c
<1>1. c \in Nat
  BY DEF Ring
<1>2. \A i \in 1..c : At(b, h, i) \in Values
  BY AtIsValue
<1>3. QED
  BY <1>1, <1>2 DEF Listed

LEMMA ListedAt ==
  ASSUME NEW b, NEW h, NEW t, NEW c, Ring(b, h, t, c)
  PROVE  \A i \in 1..c : Listed(b, h, c)[i] = At(b, h, i)
BY DEF Listed

LEMMA ListedAppend ==
  ASSUME NEW b, NEW h, NEW t, NEW c, Ring(b, h, t, c),
         NEW b2, NEW h2, NEW t2, Ring(b2, h2, t2, c + 1), NEW v \in Values,
         \A i \in 1..c : At(b2, h2, i) = At(b, h, i), At(b2, h2, c + 1) = v
  PROVE  Listed(b2, h2, c + 1) = Append(Listed(b, h, c), v)
<1> DEFINE x == Listed(b2, h2, c + 1)
           y == Append(Listed(b, h, c), v)
<1>1. c \in Nat
  BY DEF Ring
<1>2. x \in Seq(Values) /\ Len(x) = c + 1 /\ \A i \in 1..c + 1 : x[i] = At(b2, h2, i)
  BY ListedType, ListedAt
<1>3. /\ Listed(b, h, c) \in Seq(Values) /\ Len(Listed(b, h, c)) = c
      /\ \A i \in 1..c : Listed(b, h, c)[i] = At(b, h, i)
  BY ListedType, ListedAt
<1>4. /\ y \in Seq(Values) /\ Len(y) = c + 1 /\ y[c + 1] = v
      /\ \A i \in 1..c : y[i] = Listed(b, h, c)[i]
  BY <1>1, <1>3, AppendProperties
<1> HIDE DEF x, y
<1>5. ASSUME NEW i \in 1..c + 1 PROVE x[i] = y[i]
  <2>1. i \in 1..c \/ i = c + 1
    BY <1>1
  <2>2. QED
    BY <1>2, <1>3, <1>4, <2>1
<1>6. x = y
  BY <1>2, <1>4, <1>5, SeqEqual
<1>7. QED
  BY <1>6 DEF x, y

LEMMA ListedTail ==
  ASSUME NEW b, NEW h, NEW t, NEW c, Ring(b, h, t, c), c > 0,
         NEW b2, NEW h2, NEW t2, Ring(b2, h2, t2, c - 1),
         \A i \in 1..c - 1 : At(b2, h2, i) = At(b, h, i + 1)
  PROVE  /\ Listed(b2, h2, c - 1) = Tail(Listed(b, h, c))
         /\ Listed(b, h, c) /= <<>> /\ Head(Listed(b, h, c)) = At(b, h, 1)
<1> DEFINE x == Listed(b2, h2, c - 1)
           y == Listed(b, h, c)
<1>1. c \in Nat \ {0}
  BY DEF Ring
<1>2. x \in Seq(Values) /\ Len(x) = c - 1 /\ \A i \in 1..c - 1 : x[i] = At(b2, h2, i)
  BY ListedType, ListedAt
<1>3. y \in Seq(Values) /\ Len(y) = c /\ \A i \in 1..c : y[i] = At(b, h, i)
  BY ListedType, ListedAt
<1> HIDE DEF x, y
<1>4. y /= <<>> /\ 1 \in 1..c
  BY <1>1, <1>3
<1>5. /\ Head(y) = y[1] /\ Tail(y) \in Seq(Values) /\ Len(Tail(y)) = c - 1
      /\ \A i \in 1..c - 1 : Tail(y)[i] = y[i + 1]
  BY <1>3, <1>4, HeadTailProperties
<1>6. ASSUME NEW i \in 1..c - 1 PROVE x[i] = Tail(y)[i]
  <2>1. i + 1 \in 1..c
    BY <1>1
  <2>2. QED
    BY <1>2, <1>3, <1>5, <2>1
<1>7. x = Tail(y)
  BY <1>2, <1>5, <1>6, SeqEqual
<1>8. QED
  BY <1>3, <1>4, <1>5, <1>7 DEF x, y

-----------------------------------------------------------------------------
(***************************************************************************)
(* Powers of two, counted as the subsets of 1..k.                          *)
(***************************************************************************)

\* A set with k elements has more than k subsets.
LEMMA PowerExceeds ==
  ASSUME NEW k \in Nat
  PROVE  2^k \in Nat \ {0} /\ k < 2^k
<1> DEFINE S == 1..k
           f == [i \in S |-> {i}]
<1>1. IsFiniteSet(S) /\ Cardinality(S) = k
  BY FS_Interval
<1>2. IsFiniteSet(SUBSET S) /\ Cardinality(SUBSET S) = 2^k
  BY <1>1, FS_SUBSET
<1>3. f \in Injection(S, SUBSET S)
  BY DEF Injection, IsInjective
<1>4. f \notin Surjection(S, SUBSET S)
  <2>1. {} \in SUBSET S /\ \A i \in S : f[i] /= {}
    OBVIOUS
  <2>2. QED
    BY <2>1 DEF Surjection
<1> HIDE DEF S, f
<1>5. Cardinality(S) <= Cardinality(SUBSET S) /\ Cardinality(S) /= Cardinality(SUBSET S)
  BY <1>2, <1>3, <1>4, FS_Injection
<1>6. Cardinality(SUBSET S) \in Nat
  BY <1>2, FS_CardinalityType
<1>7. QED
  BY <1>1, <1>2, <1>5, <1>6

LEMMA PowerZero == 2^0 = 1
<1>1. IsFiniteSet({}) /\ Cardinality({}) = 0
  BY FS_EmptySet
<1>2. Cardinality(SUBSET {}) = 2^0
  BY <1>1, FS_SUBSET
<1>3. SUBSET {} = {{}} /\ Cardinality({{}}) = 1
  BY FS_Singleton
<1>4. QED
  BY <1>2, <1>3

\* A set has the subsets with its last element and as many without.
LEMMA PowerDoubles ==
  ASSUME NEW k \in Nat
  PROVE  2^(k + 1) = 2 * 2^k
<1> DEFINE S == 1..k
           T == 1..k + 1
           A == SUBSET S
           B == {d \in SUBSET T : k + 1 \in d}
           f == [d \in A |-> d \cup {k + 1}]
<1>1. IsFiniteSet(S) /\ Cardinality(S) = k
  BY FS_Interval
<1>2. IsFiniteSet(T) /\ Cardinality(T) = k + 1
  BY FS_Interval
<1>3. T = S \cup {k + 1} /\ k + 1 \notin S
  OBVIOUS
<1> HIDE DEF S, T
<1>4. Cardinality(SUBSET T) = 2^(k + 1)
  BY <1>2, FS_SUBSET
<1>5. IsFiniteSet(A) /\ Cardinality(A) = 2^k
  BY <1>1, FS_SUBSET
<1>6. SUBSET T = A \cup B /\ A \cap B = {}
  BY <1>3
<1>7. f \in Bijection(A, B)
  <2>1. f \in [A -> B]
    BY <1>3
  <2>2. ASSUME NEW c \in A, NEW d \in A, f[c] = f[d]
        PROVE  c = d
    <3>1. k + 1 \notin c /\ k + 1 \notin d
      BY <1>3
    <3>2. c \cup {k + 1} = d \cup {k + 1}
      BY <2>2
    <3>3. QED
      BY <3>1, <3>2
  <2>3. ASSUME NEW d \in B
        PROVE  \E c \in A : f[c] = d
    <3>1. d \ {k + 1} \in A
      BY <1>3
    <3>2. f[d \ {k + 1}] = d
      BY <3>1
    <3>3. QED
      BY <3>1, <3>2
  <2>4. QED
    BY <2>1, <2>2, <2>3 DEF Bijection, Injection, Surjection, IsInjective
<1>8. ExistsBijection(A, B)
  BY <1>7 DEF ExistsBijection
<1> HIDE DEF A, B, f
<1>9. IsFiniteSet(B) /\ Cardinality(B) = 2^k
  BY <1>5, <1>8, FS_Bijection
<1>10. Cardinality(A \cup B) = 2^k + 2^k - Cardinality({})
  BY <1>5, <1>6, <1>9, FS_Union
<1> DEFINE x == 2^k
<1>11. x \in Nat /\ Cardinality(A \cup B) = x + x - Cardinality({})
  BY <1>10, PowerExceeds
<1> HIDE DEF x
<1>12. Cardinality(A \cup B) = 2 * x
  BY <1>11, FS_EmptySet
<1>13. QED
  BY <1>4, <1>6, <1>12 DEF x

\* Growing and shrinking lead from one size to another.  The minimal size times
\* 2^k exceeds k, so a buffer of MaxCount cells or more never grows.
LEMMA SizesDouble ==
  /\ minQueueLen \in Sizes
  /\ \A n \in Sizes : n \in Nat \ {0} /\ (n < MaxCount => 2 * n \in Sizes)
  /\ \A n \in Sizes : n /= minQueueLen => \E m \in Sizes : n = 2 * m
<1>1. \A m \in Nat \ {0}, x \in Nat \ {0} :
        /\ m * x \in Nat \ {0} /\ x <= m * x
        /\ m * (2 * x) = 2 * (m * x)
        /\ m * 1 = m
  OBVIOUS
<1>2. minQueueLen \in Nat \ {0} /\ MaxCount \in Nat
  OBVIOUS
<1>3. minQueueLen \in Sizes
  <2>1. minQueueLen * 2^0 = minQueueLen
    BY <1>2, PowerZero
  <2>2. 0 \in 0..MaxCount
    BY <1>2
  <2>3. QED
    BY <2>1, <2>2 DEF Sizes
<1>4. ASSUME NEW n \in Sizes
      PROVE  n \in Nat \ {0} /\ (n < MaxCount => 2 * n \in Sizes)
  <2>1. PICK k \in 0..MaxCount : n = minQueueLen * 2^k
    BY DEF Sizes
  <2>2. k \in Nat /\ 2^k \in Nat \ {0} /\ k < 2^k /\ 2^(k + 1) = 2 * 2^k
    BY <1>2, PowerExceeds, PowerDoubles
  <2>3. n \in Nat \ {0} /\ 2^k <= n /\ minQueueLen * 2^(k + 1) = 2 * n
    BY <1>1, <1>2, <2>1, <2>2
  <2>4. ASSUME n < MaxCount PROVE k + 1 \in 0..MaxCount
    BY <1>2, <2>2, <2>3, <2>4
  <2>5. QED
    BY <2>3, <2>4 DEF Sizes
<1>5. ASSUME NEW n \in Sizes, n /= minQueueLen
      PROVE  \E m \in Sizes : n = 2 * m
  <2>1. PICK k \in 0..MaxCount : n = minQueueLen * 2^k
    BY DEF Sizes
  <2>2. k /= 0
    <3>1. minQueueLen * 2^0 = minQueueLen
      BY <1>2, PowerZero
    <3>2. QED
      BY <1>5, <2>1, <3>1
  <2>3. k - 1 \in Nat /\ k - 1 \in 0..MaxCount /\ (k - 1) + 1 = k
    BY <1>2, <2>2
  <2>4. 2^(k - 1) \in Nat \ {0} /\ 2^k = 2 * 2^(k - 1)
    BY <2>3, PowerExceeds, PowerDoubles
  <2>5. n = 2 * (minQueueLen * 2^(k - 1))
    BY <1>1, <1>2, <2>1, <2>4
  <2>6. minQueueLen * 2^(k - 1) \in Sizes
    BY <2>3 DEF Sizes
  <2>7. QED
    BY <2>5, <2>6
<1>6. QED
  BY <1>3, <1>4, <1>5

-----------------------------------------------------------------------------
(***************************************************************************)
(* The steps.                                                              *)
(***************************************************************************)

LEMMA InitInv ==
  ASSUME Init
  PROVE  IInv /\ Listed(buf, head, count) = <<>>
<1>1. /\ buf = [i \in 1..minQueueLen |-> Nil] /\ head = 0 /\ tail = 0 /\ count = 0 /\ out = Nil
  BY DEF Init, Nils
<1>2. /\ buf \in Seq(Values \cup {Nil}) /\ Len(buf) = minQueueLen
      /\ \A i \in 1..minQueueLen : buf[i] = Nil
  BY <1>1
<1>3. 0 \in 0..Len(buf) - 1 /\ 0 \in 0..Len(buf)
  BY <1>2
<1>4. tail = Wrap(head + count, Len(buf))
  <2>1. 0 + 0 \in 0..2 * minQueueLen - 1 /\ 0 + 0 < minQueueLen
    OBVIOUS
  <2>2. QED
    BY <1>1, <1>2, <2>1, WrapValue
<1>5. ASSUME NEW i \in 0..Len(buf) - 1 PROVE buf[i + 1] = Nil /\ ~Occupied(i, head, count, Len(buf))
  BY <1>1, <1>2 DEF Occupied
<1>6. Ring(buf, head, tail, count)
  BY <1>1, <1>2, <1>3, <1>4, <1>5 DEF Ring
<1>7. Listed(buf, head, count) = <<>>
  BY <1>1, <1>6, ListedType
<1>8. QED
  BY <1>1, <1>2, <1>6, <1>7, SizesDouble DEF IInv

\* Put adds a last value, whether or not the buffer has to grow.
LEMMA PutStep ==
  ASSUME IInv, NEW v \in Values, Put(v)
  PROVE  IInv' /\ Listed(buf, head, count)' = Append(Listed(buf, head, count), v)
<1>1. Ring(buf, head, tail, count) /\ count' = count + 1 /\ out' = out
  BY DEF IInv, Put
<1>2. CASE PutRoom(v)
  <2>1. /\ count < Len(buf) /\ buf' = Written(buf, tail, v)
        /\ tail' = Wrap(tail + 1, Len(buf)) /\ head' = head
    BY <1>2 DEF PutRoom, Written
  <2>2. /\ Ring(buf', head', tail', count')
        /\ Len(buf') = Len(buf)
        /\ At(buf', head', count + 1) = v
        /\ \A i \in 1..count : At(buf', head', i) = At(buf, head, i)
    <3>1. /\ Ring(Written(buf, tail, v), head, Wrap(tail + 1, Len(buf)), count + 1)
          /\ Len(Written(buf, tail, v)) = Len(buf)
          /\ At(Written(buf, tail, v), head, count + 1) = v
          /\ \A i \in 1..count : At(Written(buf, tail, v), head, i) = At(buf, head, i)
      BY <1>1, <2>1, CellWritten
    <3>2. QED
      BY <1>1, <2>1, <3>1
  <2>3. Listed(buf', head', count') = Append(Listed(buf, head, count), v)
    BY <1>1, <2>2, ListedAppend
  <2>4. QED
    BY <1>1, <2>2, <2>3 DEF IInv
<1>3. CASE PutFull(v)
  <2> DEFINE b == Fresh(buf, head, tail, count)
  <2>1. /\ count = Len(buf) /\ buf' = Written(b, count, v)
        /\ head' = 0 /\ tail' = Wrap(count + 1, 2 * count)
    BY <1>3 DEF PutFull, Written, Fresh
  <2>2. count \in Nat \ {0} /\ count > 0 /\ count < 2 * count
    BY <1>1, <2>1 DEF Ring
  <2>3. /\ Ring(b, 0, count, count) /\ Len(b) = 2 * count
        /\ \A i \in 1..count : At(b, 0, i) = At(buf, head, i)
    BY <1>1, <2>2, Resized
  <2> HIDE DEF b
  <2>4. /\ Ring(buf', head', tail', count') /\ Len(buf') = Len(b)
        /\ At(buf', head', count + 1) = v
        /\ \A i \in 1..count : At(buf', head', i) = At(b, 0, i)
    <3>1. count < Len(b)
      BY <2>2, <2>3
    <3>2. /\ Ring(Written(b, count, v), 0, Wrap(count + 1, Len(b)), count + 1)
          /\ Len(Written(b, count, v)) = Len(b)
          /\ At(Written(b, count, v), 0, count + 1) = v
          /\ \A i \in 1..count : At(Written(b, count, v), 0, i) = At(b, 0, i)
      BY <2>3, <3>1, CellWritten
    <3>3. QED
      BY <1>1, <2>1, <2>3, <3>2
  <2>5. Listed(buf', head', count') = Append(Listed(buf, head, count), v)
    <3>1. \A i \in 1..count : At(buf', head', i) = At(buf, head, i)
      BY <2>3, <2>4
    <3>2. QED
      BY <1>1, <2>4, <3>1, ListedAppend
  <2>6. Len(buf') \in Sizes
    <3>1. Len(buf) \in Sizes /\ Len(buf) < MaxCount
      BY <2>1 DEF IInv, Put
    <3>2. QED
      BY <2>1, <2>3, <2>4, <3>1, SizesDouble
  <2>7. QED
    BY <1>1, <2>4, <2>5, <2>6 DEF IInv
<1>4. QED
  BY <1>2, <1>3 DEF Put

\* Pop returns and removes the first value, whether or not the buffer shrinks.
LEMMA PopStep ==
  ASSUME IInv, Pop
  PROVE  /\ IInv'
         /\ Listed(buf, head, count) /= <<>> /\ out' = Head(Listed(buf, head, count))
         /\ Listed(buf, head, count)' = Tail(Listed(buf, head, count))
<1> DEFINE b == Cleared(buf, head)
           h == Wrap(head + 1, Len(buf))
           c == count - 1
<1>1. /\ Ring(buf, head, tail, count) /\ count > 0 /\ count' = c /\ out' = buf[head + 1]
      /\ count \in Nat
  BY DEF IInv, Pop, Ring
<1>2. /\ Ring(b, h, tail, c) /\ Len(b) = Len(buf)
      /\ At(buf, head, 1) = buf[head + 1]
      /\ \A i \in 1..c : At(b, h, i) = At(buf, head, i + 1)
  BY <1>1, CellCleared
<1>3. \/ /\ Shrinks(Len(buf), c) /\ buf' = Fresh(b, h, tail, c)
         /\ head' = 0 /\ tail' = c
      \/ buf' = b /\ head' = h /\ tail' = tail
  BY DEF Pop, Resize, Fresh
<1> HIDE DEF b, h
<1>4. /\ Ring(buf', head', tail', c) /\ Len(buf') \in Sizes
      /\ \A i \in 1..c : At(buf', head', i) = At(buf, head, i + 1)
  <2>1. CASE /\ Shrinks(Len(buf), c) /\ buf' = Fresh(b, h, tail, c)
             /\ head' = 0 /\ tail' = c
    <3>1. Len(buf) > minQueueLen /\ 4 * c = Len(buf) /\ c \in Nat /\ Len(buf) \in Nat \ {0}
      BY <1>1, <2>1 DEF Shrinks, Ring
    <3>2. c > 0
      BY <3>1
    <3>3. /\ Ring(buf', 0, c, c) /\ Len(buf') = 2 * c
          /\ \A i \in 1..c : At(buf', 0, i) = At(b, h, i)
      BY <1>2, <2>1, <3>2, Resized
    <3>4. PICK m \in Sizes : Len(buf) = 2 * m
      BY <3>1, SizesDouble DEF IInv
    <3>5. m = 2 * c
      <4>1. m \in Nat \ {0}
        BY SizesDouble
      <4>2. QED
        BY <3>1, <3>4, <4>1
    <3>6. QED
      BY <1>2, <2>1, <3>3, <3>4, <3>5
  <2>2. CASE buf' = b /\ head' = h /\ tail' = tail
    BY <1>2, <2>2 DEF IInv
  <2>3. QED
    BY <1>3, <2>1, <2>2
<1>5. /\ Listed(buf', head', c) = Tail(Listed(buf, head, count))
      /\ Listed(buf, head, count) /= <<>> /\ Head(Listed(buf, head, count)) = At(buf, head, 1)
  BY <1>1, <1>4, ListedTail
<1>6. out' \in Values \cup {Nil}
  <2>1. 1 \in 1..count
    BY <1>1
  <2>2. At(buf, head, 1) \in Values
    BY <1>1, <2>1, AtIsValue
  <2>3. QED
    BY <1>1, <1>2, <2>2
<1>7. QED
  BY <1>1, <1>2, <1>4, <1>5, <1>6 DEF IInv

LEMMA TryPopEmptyStep ==
  ASSUME IInv, TryPopEmpty
  PROVE  IInv' /\ Listed(buf, head, count) = <<>> /\ Listed(buf, head, count)' = <<>> /\ out' = Nil
<1>1. count = 0 /\ out' = Nil /\ UNCHANGED <<buf, head, tail, count>>
  BY DEF TryPopEmpty
<1>2. Listed(buf, head, count) = <<>>
  BY <1>1, ListedType DEF IInv
<1>3. IInv'
  BY <1>1 DEF IInv
<1>4. QED
  BY <1>1, <1>2, <1>3

LEMMA NextInv ==
  ASSUME IInv, [Next]_vars
  PROVE  IInv'
<1>1. CASE UNCHANGED vars
  BY <1>1 DEF vars, IInv
<1>2. QED
  BY <1>1, PutStep, PopStep, TryPopEmptyStep DEF Next

-----------------------------------------------------------------------------
(***************************************************************************)
(* The theorems.                                                           *)
(***************************************************************************)

THEOREM Invariance == Spec => []IInv
<1>1. Init => IInv
  BY InitInv
<1>2. IInv /\ [Next]_vars => IInv'
  BY NextInv
<1>3. QED
  BY <1>1, <1>2, PTL DEF Spec

\* The indices stay in the buffer and the tail count cells after the head, for
\* every minimal size and any number of values.
THEOREM IndicesInBuffer == Spec => []InBuffer
<1>1. IInv => InBuffer
  BY DEF IInv, InBuffer, Ring
<1>2. QED
  BY <1>1, Invariance, PTL

\* The size of the buffer is the minimal size times a power of two, which the
\* masks rely on, and never below the minimum; the indices and the values are in
\* range.
THEOREM TypeCorrect == Spec => []BufferTypeOK
<1>1. IInv => SizeOK
  BY DEF IInv, Sizes, SizeOK
<1>2. QED
  BY <1>1, IndicesInBuffer, Invariance, PTL DEF BufferTypeOK

\* Exactly the cells between head and tail hold a value: what was popped can be
\* collected, and resize() loses nothing.
THEOREM CellsExact == Spec => []NoStaleCells
<1>1. IInv => NoStaleCells
  BY DEF IInv, Ring, Occupied, NoStaleCells
<1>2. QED
  BY <1>1, Invariance, PTL

\* Get reads the values of the ring.
ContentListed == Content = Listed(buf, head, count)

LEMMA ContentIsListed == IInv => ContentListed
<1> SUFFICES ASSUME IInv PROVE ContentListed
  OBVIOUS
<1>1. head \in Nat /\ count \in Nat
  BY DEF IInv, Ring
<1>2. ASSUME NEW i \in 1..count PROVE Get(i - 1) = At(buf, head, i)
  <2>1. ~(i - 1 < 0) /\ head + (i - 1) = head + i - 1
    BY <1>1
  <2>2. QED
    BY <2>1 DEF Get, At
<1>3. QED
  BY <1>2 DEF ContentListed, Content, Listed

LEMMA NextMaps ==
  ASSUME IInv, ContentListed, ContentListed', [Next]_vars
  PROVE  [AbstractQueue!Next]_(AbstractQueue!fifoVars)
<1>1. ASSUME NEW v \in Values, Put(v) PROVE AbstractQueue!Put(v)
  <2>1. out' = out
    BY <1>1 DEF Put
  <2>2. QED
    BY <1>1, <2>1, PutStep DEF AbstractQueue!Put, ContentListed
<1>2. CASE Pop
  <2>1. AbstractQueue!Pop
    BY <1>2, PopStep DEF AbstractQueue!Pop, ContentListed
  <2>2. QED
    BY <2>1 DEF AbstractQueue!Next
<1>3. CASE TryPopEmpty
  <2>1. AbstractQueue!PopNothing
    BY <1>3, TryPopEmptyStep DEF AbstractQueue!PopNothing, ContentListed
  <2>2. QED
    BY <2>1 DEF AbstractQueue!Next
<1>4. CASE UNCHANGED vars
  BY <1>4 DEF vars, AbstractQueue!fifoVars, ContentListed, Listed, At
<1>5. QED
  BY <1>1, <1>2, <1>3, <1>4 DEF Next, AbstractQueue!Next

\* The ring buffer is a queue: values leave in the order they came, each once,
\* across every growth and every shrinking.
THEOREM FifoImplemented == Spec => ImplementsFifo
<1>1. Init => AbstractQueue!Init
  <2> SUFFICES ASSUME Init PROVE AbstractQueue!Init
    OBVIOUS
  <2>1. Content = <<>> /\ out = Nil
    BY InitInv, ContentIsListed DEF ContentListed, Init
  <2>2. QED
    BY <2>1 DEF AbstractQueue!Init
<1>2. IInv /\ ContentListed /\ ContentListed' /\ [Next]_vars
        => [AbstractQueue!Next]_(AbstractQueue!fifoVars)
  BY NextMaps
<1>3. QED
  BY <1>1, <1>2, Invariance, ContentIsListed, PTL DEF Spec, ImplementsFifo, AbstractQueue!Spec
=============================================================================
