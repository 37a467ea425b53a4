------------------------- MODULE ThreadPoolC11Proofs -------------------------
(***************************************************************************)
(* Theorems about ThreadPoolC11, for every set of workers and tasks and    *)
(* every pattern of calls: the wake-up argument (WakeInv), where each task *)
(* is (PlaceInv), and that the pool implements TaskPool.                   *)
(***************************************************************************)
EXTENDS ThreadPoolC11, FiniteSetTheorems, SequenceTheorems, TLAPS

\* A worker leaves only an empty, stopped pool, so nobody sleeps over a task.
WakeInv ==
  /\ stop <=> dpc # "no"
  /\ \A w \in Workers : wpc[w] = "exited" => stop /\ tasks = <<>>
  /\ dpc = "gone" => \A w \in Workers : wpc[w] = "exited"
  /\ NoSleepOverWork
  /\ StopReachesWorkers

Queued == {tasks[i] : i \in 1..Len(tasks)}
Running(w) == wpc[w] = "running"

\* A submitted task is in exactly one of the queue, a worker's hands, ready.
PlaceInv ==
  /\ \A w \in Workers : Running(w) => task[w] \in Tasks
  /\ Submitted = Queued \cup Held \cup ready
  /\ Queued \cap Held = {} /\ (Queued \cup Held) \cap ready = {}
  /\ \A i, j \in 1..Len(tasks) : tasks[i] = tasks[j] => i = j
  /\ \A v, w \in Workers : Running(v) /\ Running(w) /\ task[v] = task[w] => v = w

-----------------------------------------------------------------------------
LEMMA TypeInit == Init => TypeOK
<1>1. <<>> \in Seq(Tasks)
  BY EmptySeq
<1> QED
  BY <1>1 DEF Init, TypeOK

LEMMA TypeStep == TypeOK /\ PlaceInv /\ [Next]_vars => TypeOK'
<1> SUFFICES ASSUME TypeOK, PlaceInv, [Next]_vars PROVE TypeOK'
  OBVIOUS
<1> USE DEF TypeOK
<1>1. ASSUME NEW w \in Workers, WorkerWait(w) \/ WorkerLeave(w) \/ SpuriousWake(w)
      PROVE  TypeOK'
  BY <1>1 DEF WorkerWait, WorkerLeave, SpuriousWake
<1>2. ASSUME NEW w \in Workers, WorkerTake(w) PROVE TypeOK'
  <2>1. Head(tasks) \in Tasks /\ Tail(tasks) \in Seq(Tasks)
    BY <1>2, HeadTailProperties DEF WorkerTake
  <2> QED
    BY <1>2, <2>1 DEF WorkerTake, Front
<1>3. ASSUME NEW w \in Workers, WorkerRun(w) PROVE TypeOK'
  BY <1>3 DEF WorkerRun, PlaceInv, Running
<1>4. ASSUME NEW t \in Tasks, EnqueuePush(t) \/ EnqueueThrow(t) PROVE TypeOK'
  <2>1. Append(tasks, t) \in Seq(Tasks)
    BY AppendProperties
  <2> QED
    BY <1>4, <2>1 DEF EnqueuePush, EnqueueThrow
<1>5. ASSUME NEW t \in Tasks, EnqueueNotify(t) PROVE TypeOK'
  BY <1>5 DEF EnqueueNotify, NotifyOne, Waiting
<1>6. CASE DestructorStop \/ DestructorNotify \/ DestructorJoin
  BY <1>6 DEF DestructorStop, DestructorNotify, DestructorJoin, NotifyAll
<1>7. CASE UNCHANGED vars
  BY <1>7 DEF vars
<1> QED
  BY <1>1, <1>2, <1>3, <1>4, <1>5, <1>6, <1>7
     DEF Next, WorkerGoesOn, Enqueue, DestructorGoesOn

-----------------------------------------------------------------------------
(* Nobody sleeps over work. *)

LEMMA WakeInit == Init => WakeInv
  BY DEF Init, WakeInv, NoSleepOverWork, StopReachesWorkers

LEMMA WakeStep == TypeOK /\ WakeInv /\ [Next]_vars => WakeInv'
<1> SUFFICES ASSUME TypeOK, WakeInv, [Next]_vars PROVE WakeInv'
  OBVIOUS
<1> USE PoolAssumption
    DEF WakeInv, NoSleepOverWork, StopReachesWorkers, Waiting, TypeOK
<1>1. ASSUME NEW w \in Workers, WorkerWait(w) PROVE WakeInv'
  BY <1>1 DEF WorkerWait, MayPass
<1>2. ASSUME NEW w \in Workers, WorkerLeave(w) PROVE WakeInv'
  BY <1>2 DEF WorkerLeave, MayLeave
<1>3. ASSUME NEW w \in Workers, WorkerTake(w) PROVE WakeInv'
  <2>1. \A v \in Workers : wpc[v] # "exited"
    BY <1>3 DEF WorkerTake
  <2>2. wpc'[w] = "running" /\ \A v \in Workers : wpc'[v] \in {wpc[v], "running"}
    BY <1>3 DEF WorkerTake
  <2> QED
    BY <1>3, <2>1, <2>2 DEF WorkerTake
<1>4. ASSUME NEW w \in Workers, WorkerRun(w) \/ SpuriousWake(w) PROVE WakeInv'
  <2>1. /\ wpc[w] \in {"running", "waiting"}
        /\ wpc'[w] \in {"start", "woken"}
        /\ \A v \in Workers \ {w} : wpc'[v] = wpc[v]
        /\ UNCHANGED <<tasks, stop, call, dpc>>
    BY <1>4 DEF WorkerRun, SpuriousWake
  <2> QED
    BY <2>1
<1>5. ASSUME NEW t \in Tasks, EnqueuePush(t) PROVE WakeInv'
  BY <1>5 DEF EnqueuePush, Accepts
<1>6. ASSUME NEW t \in Tasks, EnqueueThrow(t) PROVE WakeInv'
  BY <1>6 DEF EnqueueThrow, Accepts, CanCall
<1>7. ASSUME NEW t \in Tasks, EnqueueNotify(t) PROVE WakeInv'
  <2>1. \A v \in Workers : \/ wpc'[v] = wpc[v]
                           \/ wpc[v] = "waiting" /\ wpc'[v] = "woken"
    BY <1>7 DEF EnqueueNotify, NotifyOne
  <2>2. tasks # <<>> => \E w \in Workers : wpc'[w] \in {"start", "woken", "running"}
    BY <1>7 DEF EnqueueNotify, NotifyOne
  <2> QED
    BY <1>7, <2>1, <2>2 DEF EnqueueNotify
<1>8. CASE DestructorStop
  BY <1>8 DEF DestructorStop
<1>9. CASE DestructorNotify
  BY <1>9 DEF DestructorNotify, NotifyAll
<1>10. CASE DestructorJoin
  BY <1>10 DEF DestructorJoin
<1>11. CASE UNCHANGED vars
  BY <1>11 DEF vars
<1> QED
  BY <1>1, <1>2, <1>3, <1>4, <1>5, <1>6, <1>7, <1>8, <1>9, <1>10, <1>11
     DEF Next, WorkerGoesOn, Enqueue, DestructorGoesOn

-----------------------------------------------------------------------------
(* Where the tasks are. *)

LEMMA QueuedAppend ==
  ASSUME TypeOK, NEW t \in Tasks, tasks' = Append(tasks, t)
  PROVE  /\ Queued' = Queued \cup {t}
         /\ /\ \A i, j \in 1..Len(tasks) : tasks[i] = tasks[j] => i = j
            /\ t \notin Queued
            => \A i, j \in 1..Len(tasks') : tasks'[i] = tasks'[j] => i = j
<1>1. /\ Len(tasks) \in Nat /\ Len(tasks') = Len(tasks) + 1
      /\ \A i \in 1..Len(tasks) : tasks'[i] = tasks[i]
      /\ tasks'[Len(tasks) + 1] = t
  BY AppendProperties DEF TypeOK
<1>2. \A i \in 1..Len(tasks) + 1 : i \in 1..Len(tasks) \/ i = Len(tasks) + 1
  BY <1>1
<1>3. /\ \A i \in 1..Len(tasks) : i \in 1..Len(tasks) + 1
      /\ Len(tasks) + 1 \in 1..Len(tasks) + 1
  BY <1>1
<1> QED
  BY <1>1, <1>2, <1>3 DEF Queued

LEMMA QueuedTail ==
  ASSUME TypeOK, tasks # <<>>, tasks' = Tail(tasks),
         \A i, j \in 1..Len(tasks) : tasks[i] = tasks[j] => i = j
  PROVE  /\ Head(tasks) \in Queued
         /\ Queued' = Queued \ {Head(tasks)}
         /\ \A i, j \in 1..Len(tasks') : tasks'[i] = tasks'[j] => i = j
<1>1. /\ Len(tasks) \in Nat \ {0} /\ Len(tasks') = Len(tasks) - 1
      /\ \A i \in 1..Len(tasks') : tasks'[i] = tasks[i + 1]
      /\ Head(tasks) = tasks[1]
  BY HeadTailProperties, EmptySeq DEF TypeOK
<1>2. /\ 1 \in 1..Len(tasks)
      /\ \A i \in 1..Len(tasks') : i + 1 \in 1..Len(tasks) /\ i + 1 # 1
      /\ \A i \in 1..Len(tasks) : i # 1 => i - 1 \in 1..Len(tasks') /\ (i - 1) + 1 = i
  BY <1>1
<1>3. \A x : x \in Queued' => x \in Queued /\ x # Head(tasks)
  BY <1>1, <1>2 DEF Queued
<1>4. ASSUME NEW x \in Queued, x # Head(tasks) PROVE x \in Queued'
  <2>1. PICK i \in 1..Len(tasks) : tasks[i] = x
    BY DEF Queued
  <2>2. i - 1 \in 1..Len(tasks') /\ tasks'[i - 1] = x
    BY <1>1, <1>2, <1>4, <2>1
  <2> QED
    BY <2>2 DEF Queued
<1>5. ASSUME NEW i \in 1..Len(tasks'), NEW j \in 1..Len(tasks'),
             tasks'[i] = tasks'[j]
      PROVE  i = j
  <2>1. i + 1 = j + 1
    BY <1>1, <1>2, <1>5
  <2> QED
    BY <2>1
<1> QED
  BY <1>1, <1>2, <1>3, <1>4, <1>5 DEF Queued

LEMMA PlaceInit == Init => PlaceInv
<1> SUFFICES ASSUME Init PROVE PlaceInv
  OBVIOUS
<1>1. Queued = {} /\ Len(tasks) = 0
  BY EmptySeq DEF Init, Queued
<1>2. Held = {} /\ Submitted = {} /\ ready = {}
  BY DEF Init, Held, Submitted
<1>3. \A w \in Workers : ~Running(w)
  BY DEF Init, Running
<1> QED
  BY <1>1, <1>2, <1>3 DEF PlaceInv

\* Steps that move no task.
LEMMA PlaceFrame ==
  ASSUME PlaceInv, UNCHANGED <<tasks, ready>>, Submitted' = Submitted,
         \A w \in Workers : /\ Running(w)' <=> Running(w)
                            /\ Running(w) => task'[w] = task[w]
  PROVE  PlaceInv' /\ Held' = Held
<1>1. Queued' = Queued /\ Len(tasks') = Len(tasks)
  BY DEF Queued
<1>2. Held' = Held
  BY DEF Held, Running
<1> QED
  BY <1>1, <1>2 DEF PlaceInv

\* What the two steps that move a task between workers and the rest do.
LEMMA TakeMoves ==
  ASSUME TypeOK, PlaceInv, NEW w \in Workers, WorkerTake(w)
  PROVE  /\ tasks # <<>> /\ tasks' = Tail(tasks)
         /\ ~Running(w) /\ Running(w)' /\ task'[w] = Head(tasks)
         /\ \A v \in Workers \ {w} : (Running(v)' <=> Running(v)) /\ task'[v] = task[v]
         /\ Held' = Held \cup {Head(tasks)}
         /\ UNCHANGED <<stop, call, ready, dpc>>
<1>1. /\ tasks # <<>> /\ tasks' = Tail(tasks)
      /\ ~Running(w) /\ Running(w)' /\ task'[w] = Head(tasks)
      /\ \A v \in Workers \ {w} : (Running(v)' <=> Running(v)) /\ task'[v] = task[v]
      /\ UNCHANGED <<stop, call, ready, dpc>>
  BY DEF WorkerTake, Front, Running, TypeOK
<1>2. Held' = Held \cup {Head(tasks)}
  BY <1>1 DEF Held, Running
<1> QED
  BY <1>1, <1>2

LEMMA RunMoves ==
  ASSUME TypeOK, PlaceInv, NEW w \in Workers, WorkerRun(w)
  PROVE  /\ Running(w) /\ ~Running(w)' /\ task[w] \in Tasks
         /\ \A v \in Workers \ {w} : (Running(v)' <=> Running(v)) /\ task'[v] = task[v]
         /\ task[w] \in Held /\ Held' = Held \ {task[w]}
         /\ ready' = ready \cup {task[w]}
         /\ UNCHANGED <<tasks, stop, call, dpc>>
<1>1. /\ Running(w) /\ ~Running(w)' /\ task[w] \in Tasks
      /\ \A v \in Workers \ {w} : (Running(v)' <=> Running(v)) /\ task'[v] = task[v]
      /\ ready' = ready \cup {task[w]}
      /\ UNCHANGED <<tasks, stop, call, dpc>>
  BY DEF WorkerRun, Running, TypeOK, PlaceInv
<1>2. task[w] \in Held /\ Held' = Held \ {task[w]}
  BY <1>1 DEF Held, Running, PlaceInv
<1> QED
  BY <1>1, <1>2

LEMMA PlaceStep == TypeOK /\ PlaceInv /\ [Next]_vars => PlaceInv'
<1> SUFFICES ASSUME TypeOK, PlaceInv, [Next]_vars PROVE PlaceInv'
  OBVIOUS
<1>1. ASSUME NEW w \in Workers, WorkerTake(w) PROVE PlaceInv'
  <2>1. /\ Head(tasks) \in Queued
        /\ Queued' = Queued \ {Head(tasks)}
        /\ \A i, j \in 1..Len(tasks') : tasks'[i] = tasks'[j] => i = j
    BY <1>1, TakeMoves, QueuedTail DEF PlaceInv
  <2>2. Head(tasks) \in Tasks /\ Head(tasks) \notin Held
    BY <1>1, <2>1, TakeMoves, HeadTailProperties DEF PlaceInv, TypeOK
  <2>3. Submitted' = Submitted
    BY <1>1, TakeMoves DEF Submitted
  <2>4. \A v \in Workers : Running(v)' => task'[v] \in Tasks
    BY <1>1, <2>2, TakeMoves DEF PlaceInv
  <2>5. \A u, v \in Workers : Running(u)' /\ Running(v)' /\ task'[u] = task'[v] => u = v
    BY <1>1, <2>2, TakeMoves DEF PlaceInv, Held, Running
  <2> QED
    BY <1>1, <2>1, <2>2, <2>3, <2>4, <2>5, TakeMoves DEF PlaceInv
<1>2. ASSUME NEW w \in Workers, WorkerRun(w) PROVE PlaceInv'
  <2>1. Queued' = Queued /\ Submitted' = Submitted /\ Len(tasks') = Len(tasks)
    BY <1>2, RunMoves DEF Queued, Submitted
  <2> QED
    BY <1>2, <2>1, RunMoves DEF PlaceInv
<1>3. ASSUME NEW t \in Tasks, EnqueuePush(t) PROVE PlaceInv'
  <2>1. Queued' = Queued \cup {t}
        /\ (t \notin Queued
              => \A i, j \in 1..Len(tasks') : tasks'[i] = tasks'[j] => i = j)
    BY <1>3, QueuedAppend DEF EnqueuePush, PlaceInv
  <2>2. t \notin Submitted /\ Submitted' = Submitted \cup {t}
    BY <1>3 DEF EnqueuePush, CanCall, Submitted, TypeOK
  <2>3. Held' = Held /\ ready' = ready
        /\ \A w \in Workers : (Running(w)' <=> Running(w)) /\ task'[w] = task[w]
    BY <1>3 DEF EnqueuePush, Held, Running
  <2> QED
    BY <2>1, <2>2, <2>3 DEF PlaceInv
<1>4. ASSUME NEW w \in Workers, WorkerWait(w) \/ WorkerLeave(w) \/ SpuriousWake(w)
      PROVE  PlaceInv'
  <2>1. /\ UNCHANGED <<tasks, ready, call, task>>
        /\ \A v \in Workers : Running(v)' <=> Running(v)
    BY <1>4 DEF WorkerWait, WorkerLeave, SpuriousWake, Running, TypeOK
  <2> QED
    BY <2>1, PlaceFrame DEF Submitted
<1>5. ASSUME NEW t \in Tasks, EnqueueThrow(t) \/ EnqueueNotify(t) PROVE PlaceInv'
  <2>1. /\ UNCHANGED <<tasks, ready, task>>
        /\ Submitted' = Submitted
        /\ \A v \in Workers : Running(v)' <=> Running(v)
    BY <1>5 DEF EnqueueThrow, EnqueueNotify, NotifyOne, Waiting, CanCall,
       Submitted, Running, TypeOK
  <2> QED
    BY <2>1, PlaceFrame
<1>6. CASE DestructorStop \/ DestructorNotify \/ DestructorJoin \/ UNCHANGED vars
  <2>1. /\ UNCHANGED <<tasks, ready, call, task>>
        /\ \A v \in Workers : Running(v)' <=> Running(v)
    BY <1>6 DEF DestructorStop, DestructorNotify, DestructorJoin, NotifyAll, vars,
       Running, TypeOK
  <2> QED
    BY <2>1, PlaceFrame DEF Submitted
<1> QED
  BY <1>1, <1>2, <1>3, <1>4, <1>5, <1>6
     DEF Next, WorkerGoesOn, Enqueue, DestructorGoesOn

-----------------------------------------------------------------------------
LEMMA Invariants == Spec => [](TypeOK /\ PlaceInv /\ WakeInv)
<1>1. Init => TypeOK /\ PlaceInv /\ WakeInv
  BY TypeInit, PlaceInit, WakeInit
<1>2. TypeOK /\ PlaceInv /\ WakeInv /\ [Next]_vars
        => (TypeOK /\ PlaceInv /\ WakeInv)'
  BY TypeStep, PlaceStep, WakeStep
<1> QED
  BY <1>1, <1>2, PTL DEF Spec

\* Although notify_one comes after the unlock, no schedule leaves a queued task
\* to sleeping workers (ThreadPool.h 45-50 and 73-82, and the fear at 84).
THEOREM NobodySleepsOverWork == Spec => []NoSleepOverWork
  BY Invariants, PTL DEF WakeInv

\* After notify_all no worker sleeps again, so the joins of the destructor have
\* nobody asleep to wait for (ThreadPool.h 45-48 and 89-95).
THEOREM StopReachesEveryWorker == Spec => []StopReachesWorkers
  BY Invariants, PTL DEF WakeInv

\* When the destructor returns every accepted task has run (ThreadPool.h
\* 47-54 and 94-95).
THEOREM DestructorDrainsTheQueue == Spec => []DestructorDrains
<1>1. TypeOK /\ PlaceInv /\ WakeInv => DestructorDrains
  <2> SUFFICES ASSUME TypeOK, PlaceInv, WakeInv, dpc = "gone"
               PROVE  Submitted = ready
    BY DEF DestructorDrains
  <2>1. tasks = <<>> /\ \A w \in Workers : wpc[w] = "exited"
    BY PoolAssumption DEF WakeInv
  <2>2. Queued = {}
    BY <2>1, EmptySeq DEF Queued
  <2>3. Held = {}
    BY <2>1 DEF Held
  <2> QED
    BY <2>2, <2>3 DEF PlaceInv
<1> QED
  BY <1>1, Invariants, PTL

-----------------------------------------------------------------------------
(* The pool implements TaskPool. *)

\* The Cardinality TaskPool uses is the one used here.
LEMMA SameCardinality == Abstract!Cardinality(Held) = Cardinality(Held)
  BY DEF Abstract!Cardinality, Cardinality

\* The queue never holds more than the tasks there are.
LEMMA QueueFits ==
  ASSUME TypeOK, PlaceInv, NEW t \in Tasks, t \notin Queued
  PROVE  Len(tasks) < Cardinality(Tasks)
<1>1. tasks \in Bijection(1..Len(tasks), Queued)
  <2>1. tasks \in [1..Len(tasks) -> Queued]
    BY DEF Queued, TypeOK
  <2>2. tasks \in Injection(1..Len(tasks), Queued)
    BY <2>1 DEF Injection, IsInjective, PlaceInv
  <2>3. tasks \in Surjection(1..Len(tasks), Queued)
    BY <2>1 DEF Surjection, Queued
  <2> QED
    BY <2>2, <2>3 DEF Bijection
<1>2. Len(tasks) \in Nat
  BY DEF TypeOK
<1>3. Cardinality(Queued) = Len(tasks)
  BY <1>1, <1>2, FS_CountingElements DEF ExistsBijection
<1>4. Queued \in SUBSET (Tasks \ {t})
  BY DEF Queued, TypeOK
<1>5. Cardinality(Queued) <= Cardinality(Tasks \ {t})
  BY <1>4, PoolAssumption, FS_RemoveElement, FS_Subset
<1>6. Cardinality(Tasks \ {t}) = Cardinality(Tasks) - 1 /\ Cardinality(Tasks) \in Nat
  BY PoolAssumption, FS_RemoveElement, FS_CardinalityType
<1> QED
  BY <1>2, <1>3, <1>5, <1>6

LEMMA RoomToRun ==
  ASSUME TypeOK, PlaceInv, NEW w \in Workers, ~Running(w)
  PROVE  Cardinality(Held) < Cardinality(Workers)
<1> DEFINE Holders == {v \in Workers : Running(v)}
           HeldBy == [v \in Holders |-> task[v]]
<1>1. Holders \in SUBSET (Workers \ {w})
  OBVIOUS
<1>2. /\ IsFiniteSet(Workers \ {w}) /\ Cardinality(Workers) \in Nat
      /\ Cardinality(Workers \ {w}) = Cardinality(Workers) - 1
  BY PoolAssumption, FS_RemoveElement, FS_CardinalityType
<1>3. IsFiniteSet(Holders) /\ Cardinality(Holders) <= Cardinality(Workers) - 1
  <2> HIDE DEF Holders
  <2> QED
    BY <1>1, <1>2, FS_Subset
<1>4. HeldBy \in Surjection(Holders, Held)
  BY DEF Surjection, Held, Running
<1>5. IsFiniteSet(Held) /\ Cardinality(Held) <= Cardinality(Holders)
  <2> HIDE DEF Holders, HeldBy
  <2> QED
    BY <1>3, <1>4, FS_Surjection
<1>6. Cardinality(Held) \in Nat /\ Cardinality(Holders) \in Nat
  BY <1>3, <1>5, FS_CardinalityType
<1> QED
  BY <1>2, <1>3, <1>5, <1>6

LEMMA InitRefines == Init => Abstract!Init
<1> SUFFICES ASSUME Init PROVE Abstract!Init
  OBVIOUS
<1>1. Held = {}
  BY DEF Init, Held
<1> QED
  BY <1>1 DEF Init, Abstract!Init

LEMMA StepRefines ==
  TypeOK /\ PlaceInv /\ WakeInv /\ [Next]_vars => [Abstract!Next]_Abstract!vars
<1> SUFFICES ASSUME TypeOK, PlaceInv, WakeInv, [Next]_vars
             PROVE  [Abstract!Next]_Abstract!vars
  OBVIOUS
<1>1. ASSUME NEW w \in Workers, WorkerTake(w) PROVE Abstract!Next
  <2>1. /\ tasks # <<>> /\ tasks' = Tail(tasks) /\ ~Running(w)
        /\ Held' = Held \cup {Head(tasks)}
        /\ UNCHANGED <<ready, stop>>
    BY <1>1, TakeMoves
  <2>2. Abstract!Cardinality(Held) < Cardinality(Workers)
    BY <2>1, RoomToRun, SameCardinality
  <2>3. Abstract!Start
    BY <2>1, <2>2 DEF Abstract!Start
  <2> QED
    BY <2>3 DEF Abstract!Next
<1>2. ASSUME NEW w \in Workers, WorkerRun(w) PROVE Abstract!Next
  <2>1. Abstract!Finish(task[w]) /\ task[w] \in Tasks
    BY <1>2, RunMoves DEF Abstract!Finish
  <2> QED
    BY <2>1 DEF Abstract!Next
<1>3. ASSUME NEW t \in Tasks, EnqueuePush(t) PROVE Abstract!Next
  <2>1. /\ ~stop /\ tasks' = Append(tasks, t) /\ UNCHANGED <<stop, ready>>
        /\ t \notin Submitted /\ Held' = Held
    BY <1>3 DEF EnqueuePush, Accepts, CanCall, Submitted, Held
  <2>2. t \notin Queued \cup Held \cup ready
    BY <2>1 DEF PlaceInv
  <2>3. Len(tasks) < Cardinality(Tasks)
    BY <2>2, QueueFits
  <2>4. Abstract!Queued = Queued
    BY DEF Abstract!Queued, Queued
  <2>5. Abstract!Submit(t)
    BY <2>1, <2>2, <2>3, <2>4, Zenon DEF Abstract!Submit
  <2> QED
    BY <2>5 DEF Abstract!Next
<1>4. CASE DestructorStop
  <2>1. Abstract!Close
    BY <1>4 DEF DestructorStop, Abstract!Close, Held, WakeInv
  <2> QED
    BY <2>1 DEF Abstract!Next
<1>5. ASSUME UNCHANGED <<tasks, ready, stop, task>>,
             \A w \in Workers : Running(w)' <=> Running(w)
      PROVE  UNCHANGED Abstract!vars
  BY <1>5 DEF Abstract!vars, Held, Running
<1>6. ASSUME NEW w \in Workers, WorkerWait(w) \/ WorkerLeave(w) \/ SpuriousWake(w)
      PROVE  UNCHANGED Abstract!vars
  BY <1>5, <1>6 DEF WorkerWait, WorkerLeave, SpuriousWake, Running, TypeOK
<1>7. ASSUME NEW t \in Tasks, EnqueueThrow(t) \/ EnqueueNotify(t)
      PROVE  UNCHANGED Abstract!vars
  BY <1>5, <1>7 DEF EnqueueThrow, EnqueueNotify, NotifyOne, Waiting, Running,
     TypeOK
<1>8. CASE DestructorNotify \/ DestructorJoin \/ UNCHANGED vars
  BY <1>5, <1>8 DEF DestructorNotify, DestructorJoin, NotifyAll, vars, Running,
     TypeOK
<1> QED
  BY <1>1, <1>2, <1>3, <1>4, <1>6, <1>7, <1>8
     DEF Next, WorkerGoesOn, Enqueue, DestructorGoesOn

\* The pool is a first-in first-out queue of tasks that closing drains: tasks
\* start in the order they were pushed, each at most once, and none is accepted
\* after stop (ThreadPool.h 47-54 and 73-81).
THEOREM PoolImplementsTaskPool == Spec => ImplementsTaskPool
  BY Invariants, InitRefines, StepRefines, PTL
     DEF Spec, ImplementsTaskPool, Abstract!Spec
==============================================================================
