------------------------------- MODULE Copool -------------------------------
(***************************************************************************)
(* The goroutine pool of utils/copool.go.                                  *)
(*                                                                         *)
(* A client of the pool calls Go(f): it takes a cotask object from a       *)
(* sync.Pool, fills it, appends it to taskQ under the mutex and, when      *)
(* fewer than cap goroutines exist, starts one.  A goroutine takes tasks   *)
(* until the queue is empty, and ends.  Objects are recycled.              *)
(*                                                                         *)
(* Each critical section is one step: the mutex is not a variable.  The    *)
(* jobs are the environment: a job ends, or panics if it is in MayPanic.   *)
(*                                                                         *)
(* A definition marked "Mutant" is a wrong version of the one that follows *)
(* it, which PROJECT.json names to show that a property can fail.          *)
(***************************************************************************)
EXTENDS Naturals, Sequences, FiniteSets

CONSTANTS
  Jobs,        \* the functions f
  MayPanic,    \* those that may panic
  Clients,     \* goroutines that call Go
  Workers,     \* names of the pool's goroutines
  Objs,        \* cotask objects
  None,
  cap,
  MaxSubmits   \* bound: calls of Go made by each client

ASSUME CopoolAssumption ==
  /\ cap \in Nat \ {0}
  /\ IsFiniteSet(Workers) /\ IsFiniteSet(Clients)
  /\ cap <= Cardinality(Workers)
  /\ None \notin Jobs \cup Objs
  /\ MayPanic \subseteq Jobs
  /\ MaxSubmits \in Nat

VARIABLES
  f,             \* cotask.f of each object, None after zero()
  taskQ,         \* objects waiting
  corun,
  coworker,
  handled,       \* whether SetPanicHandler has been called
  held,          \* the object a client has taken and not yet queued, or None
  wpc,           \* a goroutine does not exist, or is at a point of its loop
  wobj,          \* the object a goroutine works on, or None
  exited,        \* os.Exit has been called
  submits        \* history: calls of Go

vars == <<f, taskQ, corun, coworker, handled, held, wpc, wobj, exited, submits>>

Init ==
  /\ f = [o \in Objs |-> None]
  /\ taskQ = <<>>
  /\ corun = 0
  /\ coworker = 0
  /\ handled \in BOOLEAN
  /\ held = [c \in Clients |-> None]
  /\ wpc = [w \in Workers |-> "none"]
  /\ wobj = [w \in Workers |-> None]
  /\ exited = FALSE
  /\ submits = [c \in Clients |-> 0]

Queued == {taskQ[i] : i \in DOMAIN taskQ}

\* Mutant: an object goes back before zero() has cleared it.
UsedUntilReturn ==
  Queued \cup {held[c] : c \in Clients} \cup {wobj[w] : w \in {v \in Workers : wpc[v] = "run"}}

\* The objects that sync.Pool cannot hand out.
Used == Queued \cup {held[c] : c \in Clients} \cup {wobj[w] : w \in Workers}

-----------------------------------------------------------------------------
\* CtxGo, first part: corun.Add(1), an object from the pool, or a new one, and
\* its fields.
Take(c, j) ==
  /\ held[c] = None
  /\ submits[c] < MaxSubmits
  /\ corun' = corun + 1
  /\ \E o \in Objs \ Used :
       /\ held' = [held EXCEPT ![c] = o]
       /\ f' = [f EXCEPT ![o] = j]
  /\ submits' = [submits EXCEPT ![c] = @ + 1]
  /\ UNCHANGED <<taskQ, coworker, handled, wpc, wobj, exited>>

\* Mutants: no bound; a goroutine only when others are busy.
SpawnsAlways == TRUE
SpawnsWhenBusy == taskQ /= <<>> /\ coworker < cap

\* The test after Put, when taskQ.Len() is not zero.
Spawns == coworker = 0 \/ coworker < cap

\* CtxGo, second part, under the mutex: Put, then start a goroutine or not.
Put(c) ==
  /\ held[c] /= None
  /\ taskQ' = Append(taskQ, held[c])
  /\ held' = [held EXCEPT ![c] = None]
  /\ \/ /\ Spawns
        /\ coworker' = coworker + 1
        /\ \E w \in {v \in Workers : wpc[v] = "none"} : wpc' = [wpc EXCEPT ![w] = "loop"]
     \/ /\ ~Spawns
        /\ UNCHANGED <<coworker, wpc>>
  /\ UNCHANGED <<f, corun, handled, wobj, exited, submits>>

\* The goroutine finds the queue empty and ends.
End(w) ==
  /\ wpc[w] = "loop"
  /\ taskQ = <<>>
  /\ coworker' = coworker - 1
  /\ wpc' = [wpc EXCEPT ![w] = "none"]
  /\ UNCHANGED <<f, taskQ, corun, handled, held, wobj, exited, submits>>

Pop(w) ==
  /\ wpc[w] = "loop"
  /\ taskQ /= <<>>
  /\ wobj' = [wobj EXCEPT ![w] = Head(taskQ)]
  /\ taskQ' = Tail(taskQ)
  /\ wpc' = [wpc EXCEPT ![w] = "run"]
  /\ UNCHANGED <<f, corun, coworker, handled, held, exited, submits>>

\* task.f() ends, with the deferred corun.Add(-1).
Return(w) ==
  /\ wpc[w] = "run"
  /\ corun' = corun - 1
  /\ wpc' = [wpc EXCEPT ![w] = "zero"]
  /\ UNCHANGED <<f, taskQ, coworker, handled, held, wobj, exited, submits>>

\* Mutant: corun.Add(-1) is not deferred.
PanicKeepsCorun(w) ==
  /\ wpc[w] = "run" /\ f[wobj[w]] \in MayPanic /\ handled
  /\ wpc' = [wpc EXCEPT ![w] = "zero"]
  /\ UNCHANGED <<f, taskQ, corun, coworker, handled, held, wobj, exited, submits>>

\* It panics: corun.Add(-1), then the panic handler, or os.Exit without one.
Panic(w) ==
  /\ wpc[w] = "run" /\ f[wobj[w]] \in MayPanic
  /\ corun' = corun - 1
  /\ exited' = ~handled
  /\ wpc' = [wpc EXCEPT ![w] = "zero"]
  /\ UNCHANGED <<f, taskQ, coworker, handled, held, wobj, submits>>

\* task.zero().
Zero(w) ==
  /\ wpc[w] = "zero"
  /\ f' = [f EXCEPT ![wobj[w]] = None]
  /\ wpc' = [wpc EXCEPT ![w] = "recycle"]
  /\ UNCHANGED <<taskQ, corun, coworker, handled, held, wobj, exited, submits>>

\* taskObjPool.Put(task).
Recycle(w) ==
  /\ wpc[w] = "recycle"
  /\ wobj' = [wobj EXCEPT ![w] = None]
  /\ wpc' = [wpc EXCEPT ![w] = "loop"]
  /\ UNCHANGED <<f, taskQ, corun, coworker, handled, held, exited, submits>>

WorkerStep(w) == End(w) \/ Pop(w) \/ Return(w) \/ Panic(w) \/ Zero(w) \/ Recycle(w)

\* All clients have made their calls and all goroutines have ended, or the process has.
Terminated ==
  /\ exited \/ ( /\ \A c \in Clients : submits[c] = MaxSubmits /\ held[c] = None
                 /\ \A w \in Workers : wpc[w] = "none" )
  /\ UNCHANGED vars

Next ==
  \/ /\ ~exited
     /\ \/ \E c \in Clients : (\E j \in Jobs : Take(c, j)) \/ Put(c)
        \/ \E w \in Workers : WorkerStep(w)
  \/ Terminated

\* Goroutines that can run do, and jobs end.
Fairness ==
  /\ \A c \in Clients : WF_vars(~exited /\ Put(c))
  /\ \A w \in Workers : WF_vars(~exited /\ WorkerStep(w))

Spec == Init /\ [][Next]_vars
FairSpec == Spec /\ Fairness

-----------------------------------------------------------------------------
(***************************************************************************)
(* Properties.                                                             *)
(***************************************************************************)

Live == {w \in Workers : wpc[w] /= "none"}

\* Every variable has its type; coworker, a uint, does not pass the capacity
\* and does not wrap around.
TypeOK ==
  /\ f \in [Objs -> Jobs \cup {None}]
  /\ taskQ \in Seq(Objs)
  /\ corun \in Nat
  /\ coworker \in 0..cap
  /\ handled \in BOOLEAN
  /\ held \in [Clients -> Objs \cup {None}]
  /\ wpc \in [Workers -> {"none", "loop", "run", "zero", "recycle"}]
  /\ wobj \in [Workers -> Objs \cup {None}]
  /\ exited \in BOOLEAN
  /\ submits \in [Clients -> Nat]

\* coworker is the number of goroutines that exist, the bound that cap puts on
\* jobs running at once.
WorkersCounted == coworker = Cardinality(Live) /\ coworker <= cap

\* A queued job always has a goroutine that will come back to the queue: the
\* test for an empty queue and the end of the goroutine are one critical section.
NoStranded == taskQ /= <<>> => coworker > 0

\* A recycled object is not in use elsewhere: what is queued or running has its
\* function, and nobody shares an object.
ObjSafe ==
  /\ \A o \in Queued : f[o] /= None
  /\ \A w \in Workers : wpc[w] = "run" => f[wobj[w]] /= None
  /\ \A c \in Clients : held[c] /= None => f[held[c]] /= None
  /\ \A i, j \in DOMAIN taskQ : i /= j => taskQ[i] /= taskQ[j]
  /\ \A v, w \in Workers : v /= w /\ wobj[v] /= None => wobj[v] /= wobj[w]
  /\ \A w \in Workers, c \in Clients : wobj[w] \notin Queued /\ held[c] \notin Queued

\* corun counts the submitted jobs that have not ended, those that panicked not
\* included.
CorunCounts ==
  corun = Cardinality({c \in Clients : held[c] /= None}) + Len(taskQ)
          + Cardinality({w \in Workers : wpc[w] = "run"})

\* Every queued job is started in the end.
EveryJobStarts == \A o \in Objs : o \in Queued ~> (o \notin Queued \/ exited)

\* The pool does what Pool.tla promises to the executor.
AbstractPool ==
  INSTANCE Pool WITH
    taskQ <- [i \in DOMAIN taskQ |-> f[taskQ[i]]],
    slot  <- [w \in Workers |-> IF wpc[w] = "run" THEN f[wobj[w]] ELSE None]
ImplementsPool == AbstractPool!Spec
=============================================================================
