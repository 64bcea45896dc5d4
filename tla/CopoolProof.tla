----------------------------- MODULE CopoolProof -----------------------------
(***************************************************************************)
(* What holds of Copool.tla for every number of clients, goroutines and    *)
(* task objects: its type invariant, the count of goroutines, that no job  *)
(* is stranded, that no object is shared, and that it implements Pool.tla. *)
(*                                                                         *)
(* TypeOK is not inductive alone: that coworker stays between zero and cap *)
(* follows from what it counts.  A goroutine that stands at a point of its *)
(* loop behind Pop holds an object (Working).                              *)
(***************************************************************************)
EXTENDS Copool, FiniteSetTheorems, SequenceTheorems, TLAPS

USE CopoolAssumption

\* A goroutine has an object between Pop and Recycle.
Working == \A w \in Workers : wpc[w] \in {"run", "zero", "recycle"} => wobj[w] \in Objs

\* The jobs that corun counts.
Holding == {c \in Clients : held[c] /= None}
Executing == {w \in Workers : wpc[w] = "run"}

IInv == TypeOK /\ Working /\ WorkersCounted /\ NoStranded /\ CorunCounts

-----------------------------------------------------------------------------
\* Counting.
LEMMA Counts ==
  /\ IsFiniteSet(Live) /\ Cardinality(Live) \in Nat
  /\ IsFiniteSet(Holding) /\ Cardinality(Holding) \in Nat
  /\ IsFiniteSet(Executing) /\ Cardinality(Executing) \in Nat
<1>1. Live \subseteq Workers /\ Holding \subseteq Clients /\ Executing \subseteq Workers
  BY DEF Live, Holding, Executing
<1>2. QED
  BY <1>1, FS_Subset, FS_CardinalityType

LEMMA CountWith ==
  ASSUME NEW S, IsFiniteSet(S), NEW x, x \notin S
  PROVE  Cardinality(S \cup {x}) = Cardinality(S) + 1
BY FS_AddElement

LEMMA CountWithout ==
  ASSUME NEW S, IsFiniteSet(S), NEW x \in S
  PROVE  Cardinality(S \ {x}) \in Nat /\ Cardinality(S) = Cardinality(S \ {x}) + 1
<1>1. IsFiniteSet(S \ {x}) /\ Cardinality(S \ {x}) = Cardinality(S) - 1
  BY FS_RemoveElement
<1>2. Cardinality(S \ {x}) \in Nat /\ Cardinality(S) \in Nat
  BY <1>1, FS_CardinalityType
<1>3. QED
  BY <1>1, <1>2

\* A goroutine moves within its loop: the goroutines that exist stay the same.
LEMMA LiveStays ==
  ASSUME TypeOK, NEW w \in Workers, NEW l,
         wpc' = [wpc EXCEPT ![w] = l], wpc[w] /= "none", l /= "none"
  PROVE  Live' = Live
BY DEF Live, TypeOK

-----------------------------------------------------------------------------
(***************************************************************************)
(* The client.                                                             *)
(***************************************************************************)

LEMMA TakeInv ==
  ASSUME IInv, NEW c \in Clients, NEW j \in Jobs, Take(c, j)
  PROVE  IInv'
<1>1. PICK o \in Objs : held' = [held EXCEPT ![c] = o] /\ f' = [f EXCEPT ![o] = j]
  BY DEF Take
<1>2. /\ held[c] = None /\ corun' = corun + 1 /\ submits' = [submits EXCEPT ![c] = @ + 1]
      /\ UNCHANGED <<taskQ, coworker, handled, wpc, wobj, exited>>
  BY DEF Take
<1>3. TypeOK'
  BY <1>1, <1>2 DEF IInv, TypeOK
<1>4. Holding' = Holding \cup {c} /\ c \notin Holding
  BY <1>1, <1>2 DEF Holding, IInv, TypeOK
<1>5. Cardinality(Holding') = Cardinality(Holding) + 1
  BY <1>4, CountWith, Counts
<1>6. Live' = Live /\ Executing' = Executing
  BY <1>2 DEF Live, Executing
<1>7. CorunCounts'
  <2>1. corun = Cardinality(Holding) + Len(taskQ) + Cardinality(Executing)
    BY DEF IInv, CorunCounts, Holding, Executing
  <2>2. Len(taskQ) \in Nat
    BY DEF IInv, TypeOK
  <2>3. corun' = Cardinality(Holding') + Len(taskQ') + Cardinality(Executing')
    BY <1>2, <1>5, <1>6, <2>1, <2>2, Counts
  <2>4. QED
    BY <2>3 DEF CorunCounts, Holding, Executing
<1>8. Working' /\ WorkersCounted' /\ NoStranded'
  BY <1>2, <1>6 DEF IInv, Working, WorkersCounted, NoStranded
<1>9. QED
  BY <1>3, <1>7, <1>8 DEF IInv

\* A new goroutine is started exactly when the capacity allows, and always
\* when there is none.
LEMMA PutInv ==
  ASSUME IInv, NEW c \in Clients, Put(c)
  PROVE  IInv'
<1>1. /\ held[c] \in Objs /\ held[c] /= None
      /\ taskQ' = Append(taskQ, held[c]) /\ taskQ \in Seq(Objs)
      /\ held' = [held EXCEPT ![c] = None]
      /\ UNCHANGED <<f, corun, handled, wobj, exited, submits>>
  BY DEF Put, IInv, TypeOK
<1>2. taskQ' \in Seq(Objs) /\ Len(taskQ') = Len(taskQ) + 1 /\ Len(taskQ) \in Nat
  BY <1>1
<1>3. Holding' = Holding \ {c} /\ c \in Holding
  BY <1>1 DEF Holding, IInv, TypeOK
<1>4. Cardinality(Holding') \in Nat /\ Cardinality(Holding) = Cardinality(Holding') + 1
  BY <1>3, CountWithout, Counts
<1>5. coworker \in Nat /\ coworker <= cap /\ coworker = Cardinality(Live)
  BY DEF IInv, TypeOK, WorkersCounted
<1>6. \/ coworker' = coworker /\ wpc' = wpc /\ coworker > 0
      \/ /\ coworker' = coworker + 1 /\ coworker < cap
         /\ \E w \in Workers : wpc[w] = "none" /\ wpc' = [wpc EXCEPT ![w] = "loop"]
  <2>1. Spawns => coworker < cap
    BY <1>5 DEF Spawns
  <2>2. ~Spawns => coworker > 0
    BY <1>5 DEF Spawns
  <2>3. QED
    BY <2>1, <2>2 DEF Put
<1>7. /\ wpc' \in [Workers -> {"none", "loop", "run", "zero", "recycle"}]
      /\ \A w \in Workers : wpc'[w] = wpc[w] \/ (wpc[w] = "none" /\ wpc'[w] = "loop")
  BY <1>6 DEF IInv, TypeOK
<1>8. coworker' = Cardinality(Live') /\ coworker' \in 0..cap /\ coworker' > 0
  <2>1. CASE coworker' = coworker /\ wpc' = wpc /\ coworker > 0
    BY <1>5, <2>1 DEF Live
  <2>2. CASE /\ coworker' = coworker + 1 /\ coworker < cap
             /\ \E w \in Workers : wpc[w] = "none" /\ wpc' = [wpc EXCEPT ![w] = "loop"]
    <3>1. PICK w \in Workers : wpc[w] = "none" /\ wpc' = [wpc EXCEPT ![w] = "loop"]
      BY <2>2
    <3>2. Live' = Live \cup {w} /\ w \notin Live
      BY <3>1 DEF Live, IInv, TypeOK
    <3>3. Cardinality(Live') = Cardinality(Live) + 1
      BY <3>2, CountWith, Counts
    <3>4. QED
      BY <1>5, <2>2, <3>3
  <2>3. QED
    BY <1>6, <2>1, <2>2
<1>9. TypeOK'
  BY <1>1, <1>2, <1>7, <1>8 DEF IInv, TypeOK
<1>10. Executing' = Executing
  BY <1>7 DEF Executing
<1>11. CorunCounts'
  <2>1. corun = Cardinality(Holding) + Len(taskQ) + Cardinality(Executing)
    BY DEF IInv, CorunCounts, Holding, Executing
  <2>2. corun' = Cardinality(Holding') + Len(taskQ') + Cardinality(Executing')
    BY <1>1, <1>2, <1>4, <1>10, <2>1, Counts
  <2>3. QED
    BY <2>2 DEF CorunCounts, Holding, Executing
<1>12. Working'
  BY <1>1, <1>7 DEF IInv, Working
<1>13. WorkersCounted' /\ NoStranded'
  BY <1>8 DEF WorkersCounted, NoStranded
<1>14. QED
  BY <1>9, <1>11, <1>12, <1>13 DEF IInv

-----------------------------------------------------------------------------
(***************************************************************************)
(* The goroutine.                                                          *)
(***************************************************************************)

\* A goroutine ends only when the queue is empty.
LEMMA EndInv ==
  ASSUME IInv, NEW w \in Workers, End(w)
  PROVE  IInv'
<1>1. /\ wpc[w] = "loop" /\ wpc' = [wpc EXCEPT ![w] = "none"] /\ coworker' = coworker - 1
      /\ taskQ = <<>> /\ UNCHANGED <<f, taskQ, corun, handled, held, wobj, exited, submits>>
  BY DEF End
<1>2. Live' = Live \ {w} /\ w \in Live
  BY <1>1 DEF Live, IInv, TypeOK
<1>3. Cardinality(Live') \in Nat /\ Cardinality(Live) = Cardinality(Live') + 1
  BY <1>2, CountWithout, Counts
<1>4. coworker' = Cardinality(Live') /\ coworker' \in 0..cap
  BY <1>1, <1>3 DEF IInv, TypeOK, WorkersCounted
<1>5. TypeOK'
  BY <1>1, <1>4 DEF IInv, TypeOK
<1>6. Holding' = Holding /\ Executing' = Executing
  BY <1>1 DEF Holding, Executing, IInv, TypeOK
<1>7. CorunCounts'
  BY <1>1, <1>6 DEF IInv, CorunCounts, Holding, Executing
<1>8. Working' /\ WorkersCounted' /\ NoStranded'
  BY <1>1, <1>4 DEF IInv, TypeOK, Working, WorkersCounted, NoStranded
<1>9. QED
  BY <1>5, <1>7, <1>8 DEF IInv

LEMMA PopInv ==
  ASSUME IInv, NEW w \in Workers, Pop(w)
  PROVE  IInv'
<1>1. /\ wpc[w] = "loop" /\ wpc' = [wpc EXCEPT ![w] = "run"]
      /\ wobj' = [wobj EXCEPT ![w] = Head(taskQ)]
      /\ taskQ /= <<>> /\ taskQ' = Tail(taskQ) /\ taskQ \in Seq(Objs)
      /\ UNCHANGED <<f, corun, coworker, handled, held, exited, submits>>
  BY DEF Pop, IInv, TypeOK
<1>2. /\ Head(taskQ) \in Objs /\ taskQ' \in Seq(Objs)
      /\ Len(taskQ') = Len(taskQ) - 1 /\ Len(taskQ) \in Nat
  BY <1>1
<1>3. TypeOK'
  BY <1>1, <1>2 DEF IInv, TypeOK
<1>4. Live' = Live
  BY <1>1, LiveStays DEF IInv
<1>5. Executing' = Executing \cup {w} /\ w \notin Executing
  BY <1>1 DEF Executing, IInv, TypeOK
<1>6. Cardinality(Executing') = Cardinality(Executing) + 1
  BY <1>5, CountWith, Counts
<1>7. CorunCounts'
  <2>1. corun = Cardinality(Holding) + Len(taskQ) + Cardinality(Executing)
    BY DEF IInv, CorunCounts, Holding, Executing
  <2>2. Holding' = Holding
    BY <1>1 DEF Holding
  <2>3. corun' = Cardinality(Holding') + Len(taskQ') + Cardinality(Executing')
    BY <1>1, <1>2, <1>6, <2>1, <2>2, Counts
  <2>4. QED
    BY <2>3 DEF CorunCounts, Holding, Executing
<1>8. Working'
  BY <1>1, <1>2 DEF IInv, TypeOK, Working
<1>9. WorkersCounted' /\ NoStranded'
  BY <1>1, <1>4 DEF IInv, WorkersCounted, NoStranded
<1>10. QED
  BY <1>3, <1>7, <1>8, <1>9 DEF IInv

\* The end of a job, with or without a panic, is counted in corun.
LEMMA JobEndInv ==
  ASSUME IInv, NEW w \in Workers, Return(w) \/ Panic(w)
  PROVE  IInv'
<1>1. /\ wpc[w] = "run" /\ wpc' = [wpc EXCEPT ![w] = "zero"] /\ corun' = corun - 1
      /\ UNCHANGED <<f, taskQ, coworker, handled, held, wobj, submits>>
      /\ exited' \in BOOLEAN
  BY DEF Return, Panic, IInv, TypeOK
<1>2. Live' = Live
  BY <1>1, LiveStays DEF IInv
<1>3. Executing' = Executing \ {w} /\ w \in Executing
  BY <1>1 DEF Executing, IInv, TypeOK
<1>4. Cardinality(Executing') \in Nat /\ Cardinality(Executing) = Cardinality(Executing') + 1
  BY <1>3, CountWithout, Counts
<1>5. Len(taskQ) \in Nat
  BY DEF IInv, TypeOK
<1>6. corun' = Cardinality(Holding') + Len(taskQ') + Cardinality(Executing') /\ corun' \in Nat
  <2>1. corun = Cardinality(Holding) + Len(taskQ) + Cardinality(Executing)
    BY DEF IInv, CorunCounts, Holding, Executing
  <2>2. Holding' = Holding
    BY <1>1 DEF Holding
  <2>3. QED
    BY <1>1, <1>4, <1>5, <2>1, <2>2, Counts
<1>7. CorunCounts'
  BY <1>6 DEF CorunCounts, Holding, Executing
<1>8. TypeOK'
  BY <1>1, <1>6 DEF IInv, TypeOK
<1>9. Working' /\ WorkersCounted' /\ NoStranded'
  BY <1>1, <1>2 DEF IInv, TypeOK, Working, WorkersCounted, NoStranded
<1>10. QED
  BY <1>7, <1>8, <1>9 DEF IInv

\* The object goes back to the pool.
LEMMA GiveBackInv ==
  ASSUME IInv, NEW w \in Workers, Zero(w) \/ Recycle(w)
  PROVE  IInv'
<1>1. PICK l \in {"recycle", "loop"} :
        /\ wpc[w] \in {"zero", "recycle"} /\ wpc' = [wpc EXCEPT ![w] = l]
        /\ UNCHANGED <<taskQ, corun, coworker, handled, held, exited, submits>>
        /\ \/ f' = [f EXCEPT ![wobj[w]] = None] /\ wobj' = wobj
           \/ f' = f /\ wobj' = [wobj EXCEPT ![w] = None] /\ l = "loop"
  BY DEF Zero, Recycle
<1>2. TypeOK'
  BY <1>1 DEF IInv, TypeOK
<1>3. Live' = Live
  BY <1>1, LiveStays DEF IInv
<1>4. Executing' = Executing /\ Holding' = Holding
  BY <1>1 DEF Executing, Holding, IInv, TypeOK
<1>5. CorunCounts'
  BY <1>1, <1>4 DEF IInv, CorunCounts, Holding, Executing
<1>6. Working'
  BY <1>1 DEF IInv, TypeOK, Working
<1>7. WorkersCounted' /\ NoStranded'
  BY <1>1, <1>3 DEF IInv, WorkersCounted, NoStranded
<1>8. QED
  BY <1>2, <1>5, <1>6, <1>7 DEF IInv

-----------------------------------------------------------------------------
(***************************************************************************)
(* The theorems.                                                           *)
(***************************************************************************)

LEMMA InitInv ==
  ASSUME Init
  PROVE  IInv
<1>1. TypeOK
  <2>1. taskQ = <<>> /\ taskQ \in Seq(Objs)
    BY DEF Init
  <2>2. /\ f \in [Objs -> Jobs \cup {None}] /\ held \in [Clients -> Objs \cup {None}]
        /\ wpc \in [Workers -> {"none", "loop", "run", "zero", "recycle"}]
        /\ wobj \in [Workers -> Objs \cup {None}] /\ submits \in [Clients -> Nat]
    BY DEF Init
  <2>3. corun \in Nat /\ coworker \in 0..cap
    BY DEF Init
  <2>4. handled \in BOOLEAN /\ exited \in BOOLEAN
    BY Zenon DEF Init
  <2>5. QED
    BY <2>1, <2>2, <2>3, <2>4 DEF TypeOK
<1>2. Live = {} /\ Holding = {} /\ Executing = {}
  BY DEF Init, Live, Holding, Executing
<1>3. Working /\ WorkersCounted /\ NoStranded
  BY <1>1, <1>2, FS_EmptySet DEF Init, TypeOK, Working, WorkersCounted, NoStranded
<1>4. CorunCounts
  <2>1. corun = 0 /\ Len(taskQ) = 0
    BY DEF Init
  <2>2. Cardinality(Holding) = 0 /\ Cardinality(Executing) = 0
    BY <1>2, FS_EmptySet
  <2>3. QED
    BY <2>1, <2>2 DEF CorunCounts, Holding, Executing
<1>5. QED
  BY <1>1, <1>3, <1>4 DEF IInv

LEMMA StutterInv ==
  ASSUME IInv, UNCHANGED vars
  PROVE  IInv'
BY DEF IInv, vars, TypeOK, Working, WorkersCounted, NoStranded, CorunCounts, Live

LEMMA NextInv ==
  ASSUME IInv, [Next]_vars
  PROVE  IInv'
<1>1. ASSUME NEW c \in Clients, (\E j \in Jobs : Take(c, j)) \/ Put(c) PROVE IInv'
  BY <1>1, TakeInv, PutInv
<1>2. ASSUME NEW w \in Workers, WorkerStep(w) PROVE IInv'
  BY <1>2, EndInv, PopInv, JobEndInv, GiveBackInv DEF WorkerStep
<1>3. CASE Terminated \/ UNCHANGED vars
  BY <1>3, StutterInv DEF Terminated
<1>4. QED
  BY <1>1, <1>2, <1>3 DEF Next

\* The inductive invariant holds in every reachable state.
THEOREM Invariance == Spec => []IInv
<1>1. Init => IInv
  BY InitInv
<1>2. IInv /\ [Next]_vars => IInv'
  BY NextInv
<1>3. QED
  BY <1>1, <1>2, PTL DEF Spec

\* Every variable keeps its type; coworker does not wrap around.
THEOREM TypeCorrect == Spec => []TypeOK
<1>1. IInv => TypeOK
  BY DEF IInv
<1>2. QED
  BY <1>1, Invariance, PTL

\* Copool.coworker is the number of goroutines and never passes the capacity.
THEOREM CapacityKept == Spec => []WorkersCounted
<1>1. IInv => WorkersCounted
  BY DEF IInv
<1>2. QED
  BY <1>1, Invariance, PTL

\* A job in the queue always has a goroutine that will come back to the queue,
\* however the end of one goroutine and the submissions of others interleave.
THEOREM NothingStranded == Spec => []NoStranded
<1>1. IInv => NoStranded
  BY DEF IInv
<1>2. QED
  BY <1>1, Invariance, PTL

\* corun counts the jobs submitted and not ended, panics included.
THEOREM CorunExact == Spec => []CorunCounts
<1>1. IInv => CorunCounts
  BY DEF IInv
<1>2. QED
  BY <1>1, Invariance, PTL

-----------------------------------------------------------------------------
(***************************************************************************)
(* Copool implements Pool: what Executor.tla assumes of its pool, the pool *)
(* provides.  The refinement mapping reads the queued and the running      *)
(* functions through recycled objects.  So the proof rests on who owns an  *)
(* object: the queue, a client between the two parts of CtxGo, or a        *)
(* goroutine, and never two of them (Owned).                               *)
(***************************************************************************)

\* An object has one owner.  ObjSafe says this of most pairs of owners; clients
\* differ from each other and from the goroutines too.
Owned ==
  /\ \A w \in Workers : wobj[w] \notin Queued
  /\ \A c \in Clients : held[c] \notin Queued
  /\ \A b, c \in Clients : b /= c /\ held[b] /= None => held[b] /= held[c]
  /\ \A c \in Clients, w \in Workers : held[c] /= None => held[c] /= wobj[w]

OInv == ObjSafe /\ Owned

LEMMA QueuedObject ==
  ASSUME TypeOK, NEW i \in DOMAIN taskQ
  PROVE  taskQ[i] \in Objs /\ taskQ[i] \in Queued
BY DEF TypeOK, Queued

-----------------------------------------------------------------------------
(***************************************************************************)
(* Each step keeps the owners apart.                                       *)
(***************************************************************************)

\* CtxGo takes an object that nobody has.
LEMMA TakeOwned ==
  ASSUME IInv, OInv, NEW c \in Clients, NEW j \in Jobs, Take(c, j)
  PROVE  OInv'
<1>1. PICK o \in Objs \ Used : held' = [held EXCEPT ![c] = o] /\ f' = [f EXCEPT ![o] = j]
  BY DEF Take
<1>2. /\ held[c] = None /\ UNCHANGED <<taskQ, wpc, wobj>> /\ Queued' = Queued
      /\ held \in [Clients -> Objs \cup {None}] /\ wobj \in [Workers -> Objs \cup {None}]
      /\ f \in [Objs -> Jobs \cup {None}]
  BY DEF Take, IInv, TypeOK, Queued
<1>3. /\ o \notin Queued /\ \A b \in Clients : held[b] /= o
      /\ \A w \in Workers : wobj[w] /= o
      /\ o /= None /\ j /= None
  BY <1>1 DEF Used
<1>4. \A p \in Objs : f'[p] /= None \/ f'[p] = f[p]
  BY <1>1, <1>2, <1>3
<1>5. f'[o] /= None
  BY <1>1, <1>2, <1>3
<1>6. \A q \in Queued' : f'[q] /= None
  <2>1. \A q \in Queued : q \in Objs
    BY QueuedObject DEF Queued, IInv
  <2>2. QED
    BY <1>2, <1>4, <2>1 DEF OInv, ObjSafe
<1>7. \A w \in Workers : wpc'[w] = "run" => f'[wobj'[w]] /= None
  BY <1>2, <1>4 DEF OInv, ObjSafe, IInv, Working
<1>8. \A b \in Clients : held'[b] /= None => f'[held'[b]] /= None
  BY <1>1, <1>2, <1>4, <1>5 DEF OInv, ObjSafe
<1>9. \A i, k \in DOMAIN taskQ' : i /= k => taskQ'[i] /= taskQ'[k]
  BY <1>2 DEF OInv, ObjSafe
<1>10. /\ \A v, w \in Workers : v /= w /\ wobj'[v] /= None => wobj'[v] /= wobj'[w]
       /\ \A w \in Workers, b \in Clients : wobj'[w] \notin Queued' /\ held'[b] \notin Queued'
  BY <1>1, <1>2, <1>3 DEF OInv, ObjSafe
<1>11. Owned'
  BY <1>1, <1>2, <1>3 DEF OInv, Owned
<1>12. QED
  BY <1>6, <1>7, <1>8, <1>9, <1>10, <1>11 DEF OInv, ObjSafe

\* The queue takes over the client's object.
LEMMA PutOwned ==
  ASSUME IInv, OInv, NEW c \in Clients, Put(c)
  PROVE  OInv'
<1>1. /\ held[c] \in Objs /\ held[c] /= None /\ taskQ' = Append(taskQ, held[c])
      /\ held' = [held EXCEPT ![c] = None] /\ UNCHANGED <<f, wobj>>
      /\ held \in [Clients -> Objs \cup {None}] /\ taskQ \in Seq(Objs)
  BY DEF Put, IInv, TypeOK
<1>2. /\ DOMAIN taskQ = 1..Len(taskQ) /\ DOMAIN taskQ' = 1..(Len(taskQ) + 1)
      /\ Len(taskQ) \in Nat
      /\ \A i \in DOMAIN taskQ : taskQ'[i] = taskQ[i]
      /\ taskQ'[Len(taskQ) + 1] = held[c]
  BY <1>1
<1>3. Queued' = Queued \cup {held[c]}
  BY <1>2 DEF Queued
<1>4. \A w \in Workers : wpc'[w] = "run" => wpc[w] = "run"
  BY DEF Put, IInv, TypeOK
<1>5. held[c] \notin Queued /\ f[held[c]] /= None /\ None \notin Queued
  <2>1. \A q \in Queued : q \in Objs
    BY <1>1 DEF Queued
  <2>2. QED
    BY <1>1, <2>1 DEF OInv, ObjSafe, Owned
<1>6. \A q \in Queued' : f'[q] /= None
  BY <1>1, <1>3, <1>5 DEF OInv, ObjSafe
<1>7. \A w \in Workers : wpc'[w] = "run" => f'[wobj'[w]] /= None
  BY <1>1, <1>4 DEF OInv, ObjSafe
<1>8. \A b \in Clients : held'[b] /= None => f'[held'[b]] /= None
  BY <1>1 DEF OInv, ObjSafe
<1>9. \A i, k \in DOMAIN taskQ' : i /= k => taskQ'[i] /= taskQ'[k]
  <2>1. \A i \in DOMAIN taskQ : taskQ[i] /= held[c]
    BY <1>5 DEF Queued
  <2>2. QED
    BY <1>2, <2>1 DEF OInv, ObjSafe
<1>10. \A v, w \in Workers : v /= w /\ wobj'[v] /= None => wobj'[v] /= wobj'[w]
  BY <1>1 DEF OInv, ObjSafe
<1>11. /\ \A w \in Workers : wobj'[w] \notin Queued'
       /\ \A b \in Clients : held'[b] \notin Queued'
  <2>1. \A w \in Workers : wobj[w] \notin Queued /\ wobj[w] /= held[c]
    BY <1>1 DEF OInv, Owned
  <2>2. \A b \in Clients : held'[b] \notin Queued /\ held'[b] /= held[c]
    BY <1>1, <1>5 DEF OInv, Owned
  <2>3. QED
    BY <1>1, <1>3, <2>1, <2>2
<1>12. Owned'
  BY <1>1, <1>11 DEF OInv, Owned
<1>13. QED
  BY <1>6, <1>7, <1>8, <1>9, <1>10, <1>11, <1>12 DEF OInv, ObjSafe

\* The goroutine takes over the first object of the queue.
LEMMA PopOwned ==
  ASSUME IInv, OInv, NEW w \in Workers, Pop(w)
  PROVE  OInv'
<1> DEFINE o == Head(taskQ)
<1>1. /\ wpc' = [wpc EXCEPT ![w] = "run"] /\ wobj' = [wobj EXCEPT ![w] = o]
      /\ taskQ /= <<>> /\ taskQ' = Tail(taskQ) /\ UNCHANGED <<f, held>>
      /\ taskQ \in Seq(Objs) /\ wobj \in [Workers -> Objs \cup {None}]
      /\ wpc \in [Workers -> {"none", "loop", "run", "zero", "recycle"}]
  BY DEF Pop, IInv, TypeOK
<1>2. /\ Len(taskQ) \in Nat \ {0} /\ DOMAIN taskQ = 1..Len(taskQ)
      /\ DOMAIN taskQ' = 1..(Len(taskQ) - 1) /\ o = taskQ[1]
      /\ \A i \in DOMAIN taskQ' : taskQ'[i] = taskQ[i + 1] /\ i + 1 \in DOMAIN taskQ /\ i + 1 /= 1
      /\ 1 \in DOMAIN taskQ
  BY <1>1
<1> HIDE DEF o
<1>3. \A i, k \in DOMAIN taskQ' : i /= k => taskQ'[i] /= taskQ'[k]
  <2> SUFFICES ASSUME NEW i \in DOMAIN taskQ', NEW k \in DOMAIN taskQ', i /= k
               PROVE  taskQ'[i] /= taskQ'[k]
    OBVIOUS
  <2>1. i + 1 /= k + 1 /\ i + 1 \in DOMAIN taskQ /\ k + 1 \in DOMAIN taskQ
    BY <1>2
  <2>2. QED
    BY <1>2, <2>1 DEF OInv, ObjSafe
<1>4. Queued' \subseteq Queued /\ o \in Queued /\ o \notin Queued'
  BY <1>2 DEF OInv, ObjSafe, Queued
<1>5. o \in Objs /\ o /= None /\ f[o] /= None
  BY <1>1, <1>2, <1>4 DEF OInv, ObjSafe
<1>6. /\ \A q \in Queued' : f'[q] /= None
      /\ \A v \in Workers : wpc'[v] = "run" => f'[wobj'[v]] /= None
      /\ \A b \in Clients : held'[b] /= None => f'[held'[b]] /= None
  BY <1>1, <1>4, <1>5 DEF OInv, ObjSafe
<1>7. /\ \A u, v \in Workers : u /= v /\ wobj'[u] /= None => wobj'[u] /= wobj'[v]
      /\ \A v \in Workers, b \in Clients : wobj'[v] \notin Queued' /\ held'[b] \notin Queued'
  BY <1>1, <1>4, <1>5 DEF OInv, ObjSafe, Owned
<1>8. Owned'
  BY <1>1, <1>4, <1>5 DEF OInv, ObjSafe, Owned
<1>9. QED
  BY <1>3, <1>6, <1>7, <1>8 DEF OInv, ObjSafe

\* A goroutine clears its object, which nobody else has, before it gives it up.
LEMMA ZeroOwned ==
  ASSUME IInv, OInv, NEW w \in Workers, Zero(w)
  PROVE  OInv'
<1> DEFINE o == wobj[w]
<1>1. /\ wpc[w] = "zero" /\ wpc' = [wpc EXCEPT ![w] = "recycle"] /\ f' = [f EXCEPT ![o] = None]
      /\ UNCHANGED <<taskQ, held, wobj>> /\ Queued' = Queued
      /\ f \in [Objs -> Jobs \cup {None}]
      /\ wpc \in [Workers -> {"none", "loop", "run", "zero", "recycle"}]
      /\ held \in [Clients -> Objs \cup {None}]
  BY DEF Zero, IInv, TypeOK, Queued
<1>2. /\ o \in Objs /\ o /= None /\ o \notin Queued
      /\ \A v \in Workers \ {w} : wobj[v] /= o
      /\ \A b \in Clients : held[b] /= o
  BY <1>1 DEF IInv, Working, OInv, ObjSafe, Owned
<1>3. \A p : p /= o => f'[p] = f[p]
  BY <1>1
<1>4. /\ \A q \in Queued' : f'[q] /= None
      /\ \A b \in Clients : held'[b] /= None => f'[held'[b]] /= None
  BY <1>1, <1>2, <1>3 DEF OInv, ObjSafe
<1>5. \A v \in Workers : wpc'[v] = "run" => f'[wobj'[v]] /= None
  BY <1>1, <1>2, <1>3 DEF OInv, ObjSafe
<1>6. QED
  BY <1>1, <1>4, <1>5 DEF OInv, ObjSafe, Owned

LEMMA RecycleOwned ==
  ASSUME IInv, OInv, NEW w \in Workers, Recycle(w)
  PROVE  OInv'
<1>1. /\ wpc' = [wpc EXCEPT ![w] = "loop"] /\ wobj' = [wobj EXCEPT ![w] = None]
      /\ UNCHANGED <<taskQ, held, f>> /\ Queued' = Queued
      /\ wpc \in [Workers -> {"none", "loop", "run", "zero", "recycle"}]
      /\ wobj \in [Workers -> Objs \cup {None}] /\ None \notin Queued
  BY QueuedObject DEF Recycle, IInv, TypeOK, Queued
<1>2. QED
  BY <1>1 DEF OInv, ObjSafe, Owned

\* The other steps of a goroutine touch no object.
LEMMA MoveOwned ==
  ASSUME IInv, OInv, NEW w \in Workers, End(w) \/ Return(w) \/ Panic(w)
  PROVE  OInv'
<1>1. /\ UNCHANGED <<taskQ, held, f, wobj>> /\ Queued' = Queued
      /\ \A v \in Workers : wpc'[v] = "run" => wpc[v] = "run"
  BY DEF End, Return, Panic, IInv, TypeOK, Queued
<1>2. QED
  BY <1>1 DEF OInv, ObjSafe, Owned

LEMMA InitOwned ==
  ASSUME Init
  PROVE  OInv
<1>1. Queued = {}
  BY DEF Init, Queued
<1>2. QED
  BY <1>1 DEF Init, OInv, ObjSafe, Owned

LEMMA NextOwned ==
  ASSUME IInv, OInv, [Next]_vars
  PROVE  OInv'
<1>1. ASSUME NEW c \in Clients, (\E j \in Jobs : Take(c, j)) \/ Put(c) PROVE OInv'
  BY <1>1, TakeOwned, PutOwned
<1>2. ASSUME NEW w \in Workers, WorkerStep(w) PROVE OInv'
  BY <1>2, MoveOwned, PopOwned, ZeroOwned, RecycleOwned DEF WorkerStep
<1>3. CASE Terminated \/ UNCHANGED vars
  BY <1>3 DEF Terminated, vars, OInv, ObjSafe, Owned, Queued
<1>4. QED
  BY <1>1, <1>2, <1>3 DEF Next

THEOREM Ownership == Spec => []OInv
<1>1. Init => OInv
  BY InitOwned
<1>2. IInv /\ OInv /\ [Next]_vars => OInv'
  BY NextOwned
<1>3. QED
  BY <1>1, <1>2, Invariance, PTL DEF Spec

\* A recycled cotask is in no use elsewhere: what is queued or running has its
\* function, and no two submissions share an object.
THEOREM ObjectsSafe == Spec => []ObjSafe
<1>1. OInv => ObjSafe
  BY DEF OInv
<1>2. QED
  BY <1>1, Ownership, PTL

-----------------------------------------------------------------------------
(***************************************************************************)
(* The step simulation.                                                    *)
(***************************************************************************)

\* What Pool sees of the state: the refinement mapping of AbstractPool.
JobsQueued == [i \in DOMAIN taskQ |-> f[taskQ[i]]]
JobsRunning == [w \in Workers |-> IF wpc[w] = "run" THEN f[wobj[w]] ELSE None]

\* Pool counts as Copool does.
LEMMA SameCount == \A S : AbstractPool!Cardinality(S) = Cardinality(S)
BY DEF AbstractPool!Cardinality, Cardinality

\* A step that Pool does not see: it changes the function of objects only that
\* are neither queued nor running.
LEMMA Unseen ==
  ASSUME IInv, OInv, taskQ' = taskQ,
         \A q \in Queued : f'[q] = f[q],
         \A w \in Workers : wpc'[w] = "run" <=> wpc[w] = "run",
         \A w \in Workers : wpc[w] = "run" => wobj'[w] = wobj[w] /\ f'[wobj[w]] = f[wobj[w]]
  PROVE  UNCHANGED <<JobsQueued, JobsRunning>>
<1>1. JobsQueued' = JobsQueued
  <2>1. \A i \in DOMAIN taskQ : taskQ[i] \in Queued
    BY DEF Queued
  <2>2. QED
    BY <2>1 DEF JobsQueued
<1>2. JobsRunning' = JobsRunning
  BY DEF JobsRunning
<1>3. QED
  BY <1>1, <1>2

LEMMA TakeUnseen ==
  ASSUME IInv, OInv, NEW c \in Clients, NEW j \in Jobs, Take(c, j)
  PROVE  UNCHANGED <<JobsQueued, JobsRunning>>
<1>1. PICK o \in Objs \ Used : f' = [f EXCEPT ![o] = j]
  BY DEF Take
<1>2. UNCHANGED <<taskQ, wpc, wobj>>
  BY DEF Take
<1>3. o \notin Queued /\ \A w \in Workers : wobj[w] /= o
  BY <1>1 DEF Used
<1>4. \A p : p /= o => f'[p] = f[p]
  BY <1>1 DEF IInv, TypeOK
<1>5. /\ \A q \in Queued : f'[q] = f[q]
      /\ \A w \in Workers : f'[wobj[w]] = f[wobj[w]]
  BY <1>3, <1>4
<1>6. QED
  BY <1>2, <1>5, Unseen

LEMMA ZeroUnseen ==
  ASSUME IInv, OInv, NEW w \in Workers, Zero(w)
  PROVE  UNCHANGED <<JobsQueued, JobsRunning>>
<1>1. /\ wpc[w] = "zero" /\ wpc' = [wpc EXCEPT ![w] = "recycle"]
      /\ f' = [f EXCEPT ![wobj[w]] = None] /\ UNCHANGED <<taskQ, wobj>>
      /\ wpc \in [Workers -> {"none", "loop", "run", "zero", "recycle"}]
      /\ f \in [Objs -> Jobs \cup {None}]
  BY DEF Zero, IInv, TypeOK
<1>2. /\ wobj[w] /= None /\ wobj[w] \notin Queued
      /\ \A v \in Workers \ {w} : wobj[v] /= wobj[w]
  BY <1>1 DEF IInv, Working, OInv, ObjSafe, Owned
<1>3. \A p : p /= wobj[w] => f'[p] = f[p]
  BY <1>1
<1>4. /\ \A q \in Queued : f'[q] = f[q]
      /\ \A v \in Workers : wpc[v] = "run" => f'[wobj[v]] = f[wobj[v]]
  BY <1>1, <1>2, <1>3
<1>5. \A v \in Workers : wpc'[v] = "run" <=> wpc[v] = "run"
  BY <1>1
<1>6. QED
  BY <1>1, <1>4, <1>5, Unseen

LEMMA MoveUnseen ==
  ASSUME IInv, OInv, NEW w \in Workers, End(w) \/ Recycle(w)
  PROVE  UNCHANGED <<JobsQueued, JobsRunning>>
<1>1. /\ UNCHANGED <<taskQ, f>>
      /\ \A v \in Workers : wpc'[v] = "run" <=> wpc[v] = "run"
      /\ \A v \in Workers : wpc[v] = "run" => wobj'[v] = wobj[v]
  BY DEF End, Recycle, IInv, TypeOK
<1>2. QED
  BY <1>1, Unseen

\* Put submits the function of the client's object.
LEMMA PutSubmits ==
  ASSUME IInv, OInv, NEW c \in Clients, Put(c)
  PROVE  AbstractPool!Next
<1>1. /\ held[c] \in Objs /\ held[c] /= None /\ taskQ' = Append(taskQ, held[c])
      /\ UNCHANGED <<f, wobj>> /\ taskQ \in Seq(Objs)
      /\ f \in [Objs -> Jobs \cup {None}]
  BY DEF Put, IInv, TypeOK
<1>2. \A w \in Workers : wpc'[w] = "run" <=> wpc[w] = "run"
  BY DEF Put, IInv, TypeOK
<1>3. JobsRunning' = JobsRunning
  BY <1>1, <1>2 DEF JobsRunning
<1>4. f[held[c]] \in Jobs
  BY <1>1 DEF OInv, ObjSafe
<1>5. JobsQueued' = Append(JobsQueued, f[held[c]])
  <2>1. /\ DOMAIN taskQ = 1..Len(taskQ) /\ DOMAIN taskQ' = 1..(Len(taskQ) + 1)
        /\ Len(taskQ) \in Nat
        /\ \A i \in DOMAIN taskQ : taskQ'[i] = taskQ[i] /\ taskQ[i] \in Objs
        /\ taskQ'[Len(taskQ) + 1] = held[c]
    BY <1>1
  <2>2. JobsQueued \in Seq(Jobs \cup {None}) /\ Len(JobsQueued) = Len(taskQ)
    BY <1>1, <2>1 DEF JobsQueued
  <2>3. JobsQueued' = [i \in 1..(Len(taskQ) + 1) |-> f[taskQ'[i]]]
    BY <1>1, <2>1 DEF JobsQueued
  <2>4. ASSUME NEW i \in 1..(Len(taskQ) + 1)
        PROVE  f[taskQ'[i]] = Append(JobsQueued, f[held[c]])[i]
    <3>1. CASE i = Len(taskQ) + 1
      BY <2>1, <2>2, <3>1
    <3>2. CASE i \in 1..Len(taskQ)
      <4>1. Append(JobsQueued, f[held[c]])[i] = JobsQueued[i]
        BY <2>2, <3>2
      <4>2. JobsQueued[i] = f[taskQ[i]]
        BY <2>1, <3>2 DEF JobsQueued
      <4>3. QED
        BY <2>1, <3>2, <4>1, <4>2
    <3>3. i = Len(taskQ) + 1 \/ i \in 1..Len(taskQ)
      BY <2>1
    <3>4. QED
      BY <3>1, <3>2, <3>3
  <2>5. QED
    BY <2>1, <2>2, <2>3, <2>4
<1>6. QED
  BY <1>3, <1>4, <1>5 DEF AbstractPool!Next, AbstractPool!Submit, JobsQueued, JobsRunning

\* Pop starts the oldest job; a goroutine more would pass the capacity.
LEMMA PopStarts ==
  ASSUME IInv, OInv, NEW w \in Workers, Pop(w)
  PROVE  AbstractPool!Next
<1> DEFINE o == Head(taskQ)
<1>1. /\ wpc[w] = "loop" /\ wpc' = [wpc EXCEPT ![w] = "run"] /\ wobj' = [wobj EXCEPT ![w] = o]
      /\ taskQ /= <<>> /\ taskQ' = Tail(taskQ) /\ UNCHANGED f
      /\ taskQ \in Seq(Objs) /\ wobj \in [Workers -> Objs \cup {None}]
      /\ wpc \in [Workers -> {"none", "loop", "run", "zero", "recycle"}]
      /\ f \in [Objs -> Jobs \cup {None}]
  BY DEF Pop, IInv, TypeOK
<1>2. /\ DOMAIN taskQ = 1..Len(taskQ) /\ DOMAIN taskQ' = 1..(Len(taskQ) - 1)
      /\ Len(taskQ) \in Nat \ {0} /\ o = taskQ[1]
      /\ \A i \in DOMAIN taskQ' : taskQ'[i] = taskQ[i + 1]
      /\ \A i \in DOMAIN taskQ : taskQ[i] \in Objs
  BY <1>1
<1>3. JobsQueued \in Seq(Jobs \cup {None}) /\ Len(JobsQueued) = Len(taskQ)
      /\ \A i \in 1..Len(taskQ) : JobsQueued[i] = f[taskQ[i]]
  BY <1>1, <1>2 DEF JobsQueued
<1>4. JobsQueued /= <<>> /\ Head(JobsQueued) = f[o]
  BY <1>2, <1>3
<1>5. JobsQueued' = Tail(JobsQueued)
  <2>1. JobsQueued' = [i \in 1..(Len(taskQ) - 1) |-> f[taskQ[i + 1]]]
    BY <1>1, <1>2 DEF JobsQueued
  <2>2. Tail(JobsQueued) = [i \in 1..(Len(taskQ) - 1) |-> JobsQueued[i + 1]]
    <3>1. \A i \in 1..(Len(taskQ) - 1) : i + 1 \in 1..Len(taskQ) /\ i \in DOMAIN taskQ'
      BY <1>2
    <3>2. /\ Tail(JobsQueued) \in Seq(Jobs \cup {None})
          /\ Len(Tail(JobsQueued)) = Len(taskQ) - 1
          /\ \A i \in 1..(Len(taskQ) - 1) : Tail(JobsQueued)[i] = JobsQueued[i + 1]
      BY <1>3, <1>4, <1>2
    <3>3. Tail(JobsQueued) = [i \in 1..(Len(taskQ) - 1) |-> Tail(JobsQueued)[i]]
      <4>1. Tail(JobsQueued) \in [1..Len(Tail(JobsQueued)) -> Jobs \cup {None}]
        BY <3>2, LenProperties
      <4>2. QED
        BY <3>2, <4>1
    <3>4. QED
      BY <3>2, <3>3
  <2>3. QED
    BY <1>2, <1>3, <2>1, <2>2
<1>6. JobsRunning[w] = None /\ JobsRunning' = [JobsRunning EXCEPT ![w] = f[o]]
  BY <1>1 DEF JobsRunning
<1>7. Cardinality({v \in Workers : JobsRunning[v] /= None}) < cap
  <2> DEFINE R == {v \in Workers : JobsRunning[v] /= None}
  <2>1. R \subseteq Live \ {w} /\ w \in Live
    BY <1>1 DEF JobsRunning, Live
  <2>2. /\ IsFiniteSet(Live \ {w}) /\ Cardinality(Live \ {w}) \in Nat
        /\ Cardinality(Live) = Cardinality(Live \ {w}) + 1
    BY <2>1, Counts, CountWithout, FS_Subset
  <2>3. Cardinality(R) \in Nat /\ Cardinality(R) <= Cardinality(Live \ {w})
    BY <2>1, <2>2, FS_Subset, FS_CardinalityType
  <2>4. Cardinality(Live) <= cap
    BY DEF IInv, WorkersCounted
  <2>5. QED
    BY <2>2, <2>3, <2>4
<1>8. AbstractPool!Running = {v \in Workers : JobsRunning[v] /= None}
  BY DEF AbstractPool!Running, JobsRunning
<1>9. AbstractPool!Cardinality(AbstractPool!Running) < cap
  BY <1>7, <1>8, SameCount
<1>10. AbstractPool!Start(w)
  BY <1>4, <1>5, <1>6, <1>9 DEF AbstractPool!Start, JobsQueued, JobsRunning
<1>11. QED
  BY <1>10 DEF AbstractPool!Next

\* The end of a job, by a return or a panic, finishes it.
LEMMA JobEndFinishes ==
  ASSUME IInv, OInv, NEW w \in Workers, Return(w) \/ Panic(w)
  PROVE  AbstractPool!Next
<1>1. /\ wpc[w] = "run" /\ wpc' = [wpc EXCEPT ![w] = "zero"] /\ UNCHANGED <<f, taskQ, wobj>>
      /\ wpc \in [Workers -> {"none", "loop", "run", "zero", "recycle"}]
  BY DEF Return, Panic, IInv, TypeOK
<1>2. JobsRunning[w] /= None /\ JobsRunning' = [JobsRunning EXCEPT ![w] = None]
  BY <1>1 DEF JobsRunning, OInv, ObjSafe
<1>3. JobsQueued' = JobsQueued
  BY <1>1 DEF JobsQueued
<1>4. QED
  BY <1>2, <1>3 DEF AbstractPool!Next, AbstractPool!Finish, JobsQueued, JobsRunning

LEMMA InitMaps ==
  ASSUME Init
  PROVE  AbstractPool!Init
<1>1. JobsQueued = <<>> /\ JobsRunning = [w \in Workers |-> None]
  BY DEF Init, JobsQueued, JobsRunning
<1>2. QED
  BY <1>1 DEF AbstractPool!Init, JobsQueued, JobsRunning

LEMMA NextMaps ==
  ASSUME IInv, OInv, [Next]_vars
  PROVE  [AbstractPool!Next]_(AbstractPool!poolVars)
<1> DEFINE Step == AbstractPool!Next \/ UNCHANGED <<JobsQueued, JobsRunning>>
<1>1. ASSUME NEW c \in Clients, (\E j \in Jobs : Take(c, j)) \/ Put(c) PROVE Step
  BY <1>1, TakeUnseen, PutSubmits
<1>2. ASSUME NEW w \in Workers, WorkerStep(w) PROVE Step
  BY <1>2, MoveUnseen, ZeroUnseen, PopStarts, JobEndFinishes DEF WorkerStep
<1>3. ASSUME Terminated \/ UNCHANGED vars PROVE Step
  <2>1. UNCHANGED <<taskQ, f, wpc, wobj>>
    BY <1>3 DEF Terminated, vars
  <2>2. UNCHANGED <<JobsQueued, JobsRunning>>
    BY <2>1 DEF JobsQueued, JobsRunning
  <2>3. QED
    BY <2>2
<1>4. Step
  <2> HIDE DEF Step
  <2>1. QED
    BY <1>1, <1>2, <1>3 DEF Next
<1>5. QED
  BY <1>4 DEF AbstractPool!poolVars, JobsQueued, JobsRunning

\* The pool does what Pool.tla promises: each submission is run once, by one
\* goroutine, in the order of submission, and never more than cap at once.
THEOREM PoolImplemented == Spec => ImplementsPool
<1>1. Init => AbstractPool!Init
  BY InitMaps
<1>2. IInv /\ OInv /\ [Next]_vars => [AbstractPool!Next]_(AbstractPool!poolVars)
  BY NextMaps
<1>3. QED
  BY <1>1, <1>2, Invariance, Ownership, PTL DEF Spec, ImplementsPool, AbstractPool!Spec
=============================================================================
