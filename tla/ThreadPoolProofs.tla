-------------------------- MODULE ThreadPoolProofs --------------------------
(***************************************************************************)
(* Theorems about ThreadPool, for every number of threads, ring slots and  *)
(* tasks.  The argument has layers, each an inductive invariant relative   *)
(* to the one before:                                                      *)
(*   PoolInv    types, who holds pool->lock, and what the ring holds;      *)
(*   CountInv   what live_thr_num and busy_thr_num count;                  *)
(*   FixedInv   when min_thr_num = max_thr_num, that no thread ever leaves *)
(*              a pool in service and none sleeps beside a queued task.    *)
(*   QuietInv   in such a pool, that a slot once joined stays ended.       *)
(* The last part maps the ring to the queue of TaskPool, from PoolInv and  *)
(* CountInv.                                                               *)
(***************************************************************************)
EXTENDS ThreadPool, FiniteSetTheorems, SequenceTheorems, TLAPS

\* pool->lock is held by a worker exactly between the test of the wait
\* condition and the wait, the exit or the removal of a task; every other
\* critical section is one action.
LockHeld == \A w \in Slots : wpc[w] \in {"loop", "towait"} <=> lock = w

\* The slots between front and rear are filled, and so is the hand of every
\* worker that has taken a task.
RingFilled ==
  /\ queue_rear = (queue_front + queue_size) % queue_max_size
  /\ \A k \in 0..queue_size-1 : Pending(k) \in Tasks
  /\ \A w \in Slots : Holding(w) => task[w] \in Tasks

PoolInv == TypeOK /\ LockHeld /\ RingFilled

-----------------------------------------------------------------------------
(* Arithmetic of the ring. *)

LEMMA ModSmall ==
  ASSUME NEW n \in Nat \ {0}, NEW a \in 0..n-1
  PROVE  a % n = a
  OBVIOUS

LEMMA ModWrap ==
  ASSUME NEW n \in Nat \ {0}, NEW a \in n..2*n-1
  PROVE  a % n = a - n
  OBVIOUS

LEMMA ModRange ==
  ASSUME NEW n \in Nat \ {0}, NEW a \in Nat
  PROVE  a % n \in 0..n-1
  OBVIOUS

\* One step round the ring, and k steps, without %.
LEMMA ModCases ==
  ASSUME NEW n \in Nat \ {0}, NEW f \in 0..n-1, NEW k \in 0..n
  PROVE  (f + k) % n = IF f + k < n THEN f + k ELSE f + k - n
<1>1. CASE f + k < n
  <2>1. f + k \in 0..n-1
    BY <1>1
  <2> QED
    BY <1>1, <2>1, ModSmall
<1>2. CASE f + k >= n
  <2>1. f + k \in n..2*n-1
    BY <1>2
  <2>2. (f + k) % n = f + k - n
    BY <2>1, ModWrap
  <2> QED
    BY <1>2, <2>2
<1> QED
  BY <1>1, <1>2

\* Moving the front by one and dropping one element shifts every index.
LEMMA ModShift ==
  ASSUME NEW n \in Nat \ {0}, NEW f \in 0..n-1, NEW k \in 0..n-1
  PROVE  (((f + 1) % n) + k) % n = (f + (k + 1)) % n
<1>1. (f + 1) % n = IF f + 1 < n THEN f + 1 ELSE f + 1 - n
  <2>1. 1 \in 0..n
    OBVIOUS
  <2> QED
    BY <2>1, ModCases
<1>2. (f + (k + 1)) % n = IF f + (k + 1) < n THEN f + (k + 1)
                                          ELSE f + (k + 1) - n
  <2>1. k + 1 \in 0..n
    OBVIOUS
  <2> QED
    BY <2>1, ModCases
<1> DEFINE g == (f + 1) % n
<1>3. g \in 0..n-1
  BY <1>1
<1> HIDE DEF g
<1>4. (g + k) % n = IF g + k < n THEN g + k ELSE g + k - n
  <2>1. k \in 0..n
    OBVIOUS
  <2> QED
    BY <2>1, <1>3, ModCases
<1> QED
  BY <1>1, <1>2, <1>3, <1>4 DEF g

\* Two distances below n from the same index end in different slots.
LEMMA ModDistinct ==
  ASSUME NEW n \in Nat \ {0}, NEW f \in 0..n-1,
         NEW j \in 0..n-1, NEW k \in 0..n-1, j # k
  PROVE  (f + j) % n # (f + k) % n
<1>1. j \in 0..n /\ k \in 0..n
  OBVIOUS
<1>2. (f + j) % n = IF f + j < n THEN f + j ELSE f + j - n
  BY <1>1, ModCases
<1>3. (f + k) % n = IF f + k < n THEN f + k ELSE f + k - n
  BY <1>1, ModCases
<1> QED
  BY <1>2, <1>3
-----------------------------------------------------------------------------
(* What an action does to the threads. *)

\* Some sleeping workers are woken and nothing else happens to a thread.
OnlyWakes ==
  /\ wpc' \in [Slots -> WorkerPC]
  /\ \A w \in Slots : \/ wpc'[w] = wpc[w]
                      \/ wpc[w] = "waiting" /\ wpc'[w] = "woken"

\* Thread w goes from one location to another, every other one stays.
OnlyGoes(w, from, to) ==
  /\ wpc' \in [Slots -> WorkerPC]
  /\ wpc[w] = from /\ wpc'[w] = to
  /\ \A v \in Slots \ {w} : wpc'[v] = wpc[v]

LEMMA SignalWakes == TypeOK /\ SignalNotEmpty => OnlyWakes
  BY DEF TypeOK, SignalNotEmpty, OnlyWakes, Waiting, WorkerPC

LEMMA BroadcastWakes == TypeOK /\ BroadcastNotEmpty => OnlyWakes
  BY DEF TypeOK, BroadcastNotEmpty, OnlyWakes, WorkerPC

LEMMA GoesMoves ==
  ASSUME TypeOK, NEW w \in Slots, NEW from, NEW to \in WorkerPC,
         Goes(w, from, to)
  PROVE  OnlyGoes(w, from, to)
  BY DEF TypeOK, Goes, OnlyGoes

\* A step that leaves the ring and the hands alone keeps RingFilled, if no
\* thread comes to hold a task by it.
LEMMA RingFrame ==
  ASSUME RingFilled, UNCHANGED queueVars,
         \A w \in Slots : Holding(w)' => Holding(w) /\ task'[w] = task[w]
  PROVE  RingFilled'
  BY DEF RingFilled, queueVars, Pending, Holding

\* A step that only wakes threads, or moves none, keeps LockHeld.
LEMMA LockFrame ==
  ASSUME TypeOK, LockHeld, UNCHANGED lock, OnlyWakes
  PROVE  LockHeld'
  BY DEF LockHeld, OnlyWakes

LEMMA StillWakes == ASSUME TypeOK, UNCHANGED wpc PROVE OnlyWakes
  BY DEF TypeOK, OnlyWakes

LEMMA WakesHold ==
  ASSUME OnlyWakes, NEW w \in Slots, Holding(w)' PROVE Holding(w)
  BY DEF OnlyWakes, Holding
-----------------------------------------------------------------------------
(* The two operations on the ring. *)

\* Taking a task removes the oldest one and renumbers the others.
LEMMA TakeShifts ==
  ASSUME PoolInv, NEW w \in Slots, WorkerTake(w)
  PROVE  /\ queue_size \in 1..queue_max_size /\ queue_size' = queue_size - 1
         /\ queue_front' \in Ring
         /\ queue_rear' = (queue_front' + queue_size') % queue_max_size
         /\ Pending(0) \in Tasks /\ task'[w] = Pending(0)
         /\ \A k \in 0..queue_size'-1 : Pending(k)' = Pending(k + 1)
<1> USE PoolAssumption
<1>0. TypeOK /\ RingFilled
  BY DEF PoolInv
<1>1. /\ queue_size \in 1..queue_max_size
      /\ queue_size' = queue_size - 1
      /\ queue_front \in 0..queue_max_size-1
      /\ queue_front' = (queue_front + 1) % queue_max_size
      /\ queue_rear' = queue_rear /\ task_queue' = task_queue
      /\ task'[w] = task_queue[queue_front]
  BY <1>0 DEF WorkerTake, MayTake, TypeOK, Advance, Ring
<1>2. queue_front' \in Ring
  BY <1>1, ModRange DEF Ring
<1>3. Pending(0) \in Tasks /\ task'[w] = Pending(0)
  <2>1. 0 \in 0..queue_size-1
    BY <1>1
  <2>2. Pending(0) = task_queue[queue_front]
    BY <1>1, ModSmall DEF Pending
  <2> QED
    BY <1>0, <1>1, <2>1, <2>2 DEF RingFilled
<1>4. ASSUME NEW k \in 0..queue_max_size-1
      PROVE  (queue_front' + k) % queue_max_size
               = (queue_front + (k + 1)) % queue_max_size
  BY <1>1, ModShift
<1>5. queue_rear' = (queue_front' + queue_size') % queue_max_size
  <2>1. queue_size' \in 0..queue_max_size-1 /\ queue_size' + 1 = queue_size
    BY <1>1
  <2>2. (queue_front' + queue_size') % queue_max_size
          = (queue_front + (queue_size' + 1)) % queue_max_size
    BY <2>1, <1>4
  <2> QED
    BY <1>0, <1>1, <2>1, <2>2 DEF RingFilled
<1>6. ASSUME NEW k \in 0..queue_size'-1
      PROVE  Pending(k)' = Pending(k + 1)
  <2>1. k \in 0..queue_max_size-1
    BY <1>1
  <2> QED
    BY <1>1, <1>4, <2>1 DEF Pending
<1> QED
  BY <1>1, <1>2, <1>3, <1>5, <1>6

\* Storing a task puts it behind all others and leaves them where they are.
LEMMA StoreAppends ==
  ASSUME PoolInv, NEW t \in Tasks, AddStores(t)
  PROVE  /\ queue_size \in 0..queue_max_size-1 /\ queue_size' = queue_size + 1
         /\ queue_rear' \in Ring
         /\ queue_rear' = (queue_front' + queue_size') % queue_max_size
         /\ task_queue' \in [Ring -> Tasks \cup {NoTask}]
         /\ \A k \in 0..queue_size :
               Pending(k)' = IF k = queue_size THEN t ELSE Pending(k)
<1> USE PoolAssumption
<1>0. TypeOK /\ RingFilled
  BY DEF PoolInv
<1>1. /\ queue_size \in 0..queue_max_size-1
      /\ queue_size' = queue_size + 1
      /\ queue_front \in 0..queue_max_size-1 /\ queue_front' = queue_front
      /\ queue_rear = (queue_front + queue_size) % queue_max_size
      /\ queue_rear' = (queue_rear + 1) % queue_max_size
      /\ task_queue' = [task_queue EXCEPT ![queue_rear] = t]
  BY <1>0 DEF AddStores, Store, Advance, TypeOK, Ring, RingFilled
<1>2. queue_rear \in Ring /\ queue_rear' \in Ring
  BY <1>0, <1>1, ModRange DEF Ring, TypeOK
<1>3. task_queue' \in [Ring -> Tasks \cup {NoTask}]
  BY <1>0, <1>1 DEF TypeOK
<1>4. queue_rear' = (queue_front + (queue_size + 1)) % queue_max_size
  <2>1. /\ 1 \in 0..queue_max_size /\ queue_size + 1 \in 0..queue_max_size
        /\ queue_size \in 0..queue_max_size
    BY <1>1
  <2>2. queue_rear = IF queue_front + queue_size < queue_max_size
                     THEN queue_front + queue_size
                     ELSE queue_front + queue_size - queue_max_size
    BY <1>1, <2>1, ModCases
  <2>3. queue_rear \in 0..queue_max_size-1
    BY <1>2 DEF Ring
  <2>4. queue_rear' = IF queue_rear + 1 < queue_max_size THEN queue_rear + 1
                      ELSE queue_rear + 1 - queue_max_size
    BY <1>1, <2>1, <2>3, ModCases
  <2>5. (queue_front + (queue_size + 1)) % queue_max_size
          = IF queue_front + (queue_size + 1) < queue_max_size
            THEN queue_front + (queue_size + 1)
            ELSE queue_front + (queue_size + 1) - queue_max_size
    BY <1>1, <2>1, ModCases
  <2> QED
    BY <1>1, <2>2, <2>4, <2>5
<1>5. ASSUME NEW k \in 0..queue_size, k = queue_size
      PROVE  Pending(k)' = t
  <2>1. (queue_front + k) % queue_max_size = queue_rear
    BY <1>1, <1>5
  <2>2. task_queue'[queue_rear] = t
    BY <1>0, <1>1, <1>2 DEF TypeOK
  <2> QED
    BY <1>1, <2>1, <2>2 DEF Pending
<1>6. ASSUME NEW k \in 0..queue_size-1
      PROVE  Pending(k)' = Pending(k)
  <2>1. k \in 0..queue_max_size-1 /\ k # queue_size
    BY <1>1
  <2>2. (queue_front + k) % queue_max_size # queue_rear
    BY <1>1, <2>1, ModDistinct
  <2>3. (queue_front + k) % queue_max_size \in Ring
    BY <1>1, <2>1, ModRange DEF Ring
  <2> QED
    BY <1>0, <1>1, <2>2, <2>3 DEF Pending, TypeOK
<1>7. \A k \in 0..queue_size : k = queue_size \/ k \in 0..queue_size-1
  BY <1>1
<1> QED
  BY <1>1, <1>2, <1>3, <1>4, <1>5, <1>6, <1>7
-----------------------------------------------------------------------------
(* PoolInv is an invariant. *)

LEMMA PoolInit == Init => PoolInv
<1> SUFFICES ASSUME Init PROVE PoolInv
  OBVIOUS
<1> USE PoolAssumption DEF Init
<1>1. TypeOK
  <2>1. wpc \in [Slots -> WorkerPC]
    BY DEF WorkerPC
  <2>2. /\ task_queue \in [Ring -> Tasks \cup {NoTask}]
        /\ task \in [Slots -> Tasks \cup {NoTask}]
        /\ apc \in [Tasks -> AdderPC]
        /\ lock \in Slots \cup {Free}
    BY DEF AdderPC
  <2>3. queue_front \in Ring /\ queue_rear \in Ring
    BY DEF Ring
  <2>4. /\ queue_size \in 0..queue_max_size
        /\ live_thr_num \in Nat /\ busy_thr_num \in Int
        /\ wait_exit_thr_num \in 0..DEFAULT_THREAD_VARY
        /\ signals \in 0..DEFAULT_THREAD_VARY
        /\ di \in Nat
    OBVIOUS
  <2>5. seen \in [queue : Nat, live : Nat, busy : Int]
    BY DEF NothingSeen
  <2> QED
    BY <2>1, <2>2, <2>3, <2>4, <2>5 DEF TypeOK, ManagerPC, DestroyPC
<1>2. LockHeld
  BY DEF LockHeld, Slots
<1>3. RingFilled
  <2>1. queue_rear = (queue_front + queue_size) % queue_max_size
    BY ModSmall
  <2> QED
    BY <2>1 DEF RingFilled, Holding
<1> QED
  BY <1>1, <1>2, <1>3 DEF PoolInv
LEMMA WorkerKeepsPoolInv ==
  ASSUME PoolInv, NEW w \in Slots, Worker(w)
  PROVE  PoolInv'
<1> USE PoolAssumption DEF PoolInv
<1>0. TypeOK /\ LockHeld /\ RingFilled /\ Free \notin Slots
  BY DEF Slots
<1>1. CASE WorkerLock(w)
  <2>1. OnlyGoes(w, "start", "loop")
    BY <1>0, <1>1, GoesMoves DEF WorkerLock, WorkerPC
  <2>2. TypeOK'
    BY <1>0, <1>1, <2>1 DEF WorkerLock, TypeOK, OnlyGoes, queueVars, countVars,
       mgrVars, dstVars
  <2>3. LockHeld'
    BY <1>0, <1>1, <2>1 DEF WorkerLock, LockHeld, OnlyGoes, TypeOK
  <2>4. RingFilled'
    BY <1>0, <1>1, <2>1, RingFrame DEF WorkerLock, OnlyGoes, Holding, queueVars
  <2> QED
    BY <2>2, <2>3, <2>4
<1>2. CASE WorkerTest(w)
  <2>1. OnlyGoes(w, "loop", "towait")
    BY <1>0, <1>2, GoesMoves DEF WorkerTest, WorkerPC
  <2>2. TypeOK'
    BY <1>0, <1>2, <2>1 DEF WorkerTest, TypeOK, OnlyGoes, queueVars, countVars,
       mgrVars, dstVars
  <2>3. LockHeld'
    BY <1>0, <1>2, <2>1 DEF WorkerTest, LockHeld, OnlyGoes, TypeOK
  <2>4. RingFilled'
    BY <1>0, <1>2, <2>1, RingFrame DEF WorkerTest, OnlyGoes, Holding, queueVars
  <2> QED
    BY <2>2, <2>3, <2>4
<1>3. CASE WorkerWait(w)
  <2>1. OnlyGoes(w, "towait", "waiting")
    BY <1>0, <1>3, GoesMoves DEF WorkerWait, WorkerPC
  <2>2. TypeOK'
    BY <1>0, <1>3, <2>1 DEF WorkerWait, TypeOK, OnlyGoes, queueVars, countVars,
       mgrVars, dstVars
  <2>3. LockHeld'
    BY <1>0, <1>3, <2>1 DEF WorkerWait, LockHeld, OnlyGoes, TypeOK
  <2>4. RingFilled'
    BY <1>0, <1>3, <2>1, RingFrame DEF WorkerWait, OnlyGoes, Holding, queueVars
  <2> QED
    BY <2>2, <2>3, <2>4
<1>4. CASE SpuriousWake(w)
  <2>1. OnlyGoes(w, "waiting", "woken")
    BY <1>0, <1>4, GoesMoves DEF SpuriousWake, WorkerPC
  <2>2. TypeOK'
    BY <1>0, <1>4, <2>1 DEF SpuriousWake, TypeOK, OnlyGoes, queueVars, countVars,
       mgrVars, dstVars
  <2>3. LockHeld'
    BY <1>0, <1>4, <2>1 DEF SpuriousWake, LockHeld, OnlyGoes, TypeOK
  <2>4. RingFilled'
    BY <1>0, <1>4, <2>1, RingFrame DEF SpuriousWake, OnlyGoes, Holding, queueVars
  <2> QED
    BY <2>2, <2>3, <2>4
<1>5. CASE WorkerWake(w)
  <2>1. OnlyGoes(w, "woken", "retired") \/ OnlyGoes(w, "woken", "loop")
    BY <1>0, <1>5, GoesMoves DEF WorkerWake, WorkerPC
  <2>2. wpc' \in [Slots -> WorkerPC]
    BY <2>1 DEF OnlyGoes
  <2>3. TypeOK'
    <3>1. live_thr_num' \in Nat
      BY <1>0, <1>5 DEF WorkerWake, Surplus, LiveWithoutRetired, TypeOK
    <3>2. wait_exit_thr_num' \in 0..DEFAULT_THREAD_VARY
      BY <1>0, <1>5 DEF WorkerWake, TypeOK
    <3> QED
      BY <1>0, <1>5, <2>2, <3>1, <3>2 DEF WorkerWake, TypeOK, queueVars,
         mgrVars, dstVars
  <2>4. LockHeld'
    BY <1>0, <1>5, <2>1 DEF WorkerWake, Goes, LockHeld, OnlyGoes, TypeOK
  <2>5. RingFilled'
    BY <1>0, <1>5, <2>1, RingFrame DEF WorkerWake, OnlyGoes, Holding, queueVars
  <2> QED
    BY <2>3, <2>4, <2>5
<1>6. CASE WorkerQuit(w)
  <2>1. OnlyGoes(w, "loop", "quitting")
    BY <1>0, <1>6, GoesMoves DEF WorkerQuit, WorkerPC
  <2>2. TypeOK'
    BY <1>0, <1>6, <2>1 DEF WorkerQuit, TypeOK, OnlyGoes, queueVars, countVars,
       mgrVars, dstVars
  <2>3. LockHeld'
    BY <1>0, <1>6, <2>1 DEF WorkerQuit, LockHeld, OnlyGoes, TypeOK
  <2>4. RingFilled'
    BY <1>0, <1>6, <2>1, RingFrame DEF WorkerQuit, OnlyGoes, Holding, queueVars
  <2> QED
    BY <2>2, <2>3, <2>4
<1>7. CASE WorkerTake(w)
  <2>1. OnlyGoes(w, "loop", "taken")
    BY <1>0, <1>7, GoesMoves DEF WorkerTake, WorkerPC
  <2>2. TypeOK'
    <3>1. apc' \in [Tasks -> AdderPC]
      BY <1>0, <1>7 DEF WorkerTake, BroadcastNotFull, TypeOK, AdderPC
    <3>2. task' \in [Slots -> Tasks \cup {NoTask}]
      <4>1. task' = [task EXCEPT ![w] = task'[w]] /\ task'[w] \in Tasks
        BY <1>0, <1>7, TakeShifts DEF WorkerTake, TypeOK
      <4> QED
        BY <1>0, <4>1 DEF TypeOK
    <3>3. queue_size' \in 0..queue_max_size /\ queue_front' \in Ring
      BY <1>7, TakeShifts
    <3> QED
      BY <1>0, <1>7, <2>1, <3>1, <3>2, <3>3 DEF WorkerTake, TypeOK, OnlyGoes,
         countVars, mgrVars, dstVars
  <2>3. LockHeld'
    BY <1>0, <1>7, <2>1 DEF WorkerTake, LockHeld, OnlyGoes, TypeOK
  <2>4. RingFilled'
    <3>1. \A k \in 0..queue_size'-1 : Pending(k)' \in Tasks
      <4>1. \A k \in 0..queue_size'-1 :
               k + 1 \in 0..queue_size-1 /\ Pending(k)' = Pending(k + 1)
        BY <1>7, TakeShifts
      <4> QED
        BY <1>0, <4>1 DEF RingFilled
    <3>2. \A v \in Slots : Holding(v)' => task'[v] \in Tasks
      BY <1>0, <1>7, <2>1, TakeShifts DEF RingFilled, WorkerTake, OnlyGoes,
         Holding, TypeOK
    <3> QED
      BY <1>7, <3>1, <3>2, TakeShifts DEF RingFilled
  <2> QED
    BY <2>2, <2>3, <2>4
<1>8. CASE WorkerBusy(w)
  <2>1. OnlyGoes(w, "taken", "running")
    BY <1>0, <1>8, GoesMoves DEF WorkerBusy, WorkerPC
  <2>2. TypeOK'
    BY <1>0, <1>8, <2>1 DEF WorkerBusy, TypeOK, OnlyGoes, queueVars, countVars,
       mgrVars, dstVars
  <2>3. LockHeld'
    BY <1>0, <1>8, <2>1 DEF WorkerBusy, LockHeld, OnlyGoes, TypeOK
  <2>4. RingFilled'
    BY <1>0, <1>8, <2>1, RingFrame DEF WorkerBusy, OnlyGoes, Holding, queueVars
  <2> QED
    BY <2>2, <2>3, <2>4
<1>9. CASE WorkerRun(w)
  <2>1. OnlyGoes(w, "running", "ran")
    BY <1>0, <1>9, GoesMoves DEF WorkerRun, WorkerPC
  <2>2. task[w] \in Tasks
    BY <1>0, <2>1 DEF RingFilled, OnlyGoes, Holding
  <2>3. TypeOK'
    BY <1>0, <1>9, <2>1, <2>2 DEF WorkerRun, TypeOK, OnlyGoes, queueVars,
       countVars, mgrVars, dstVars
  <2>4. LockHeld'
    BY <1>0, <1>9, <2>1 DEF WorkerRun, LockHeld, OnlyGoes, TypeOK
  <2>5. RingFilled'
    BY <1>0, <1>9, <2>1, RingFrame DEF WorkerRun, OnlyGoes, Holding, queueVars,
       TypeOK
  <2> QED
    BY <2>3, <2>4, <2>5
<1>10. CASE WorkerIdle(w)
  <2>1. OnlyGoes(w, "ran", "start")
    BY <1>0, <1>10, GoesMoves DEF WorkerIdle, WorkerPC
  <2>2. TypeOK'
    BY <1>0, <1>10, <2>1 DEF WorkerIdle, BusyWithoutThis, TypeOK,
       OnlyGoes, queueVars, countVars, mgrVars, dstVars
  <2>3. LockHeld'
    BY <1>0, <1>10, <2>1 DEF WorkerIdle, LockHeld, OnlyGoes, TypeOK
  <2>4. RingFilled'
    BY <1>0, <1>10, <2>1, RingFrame DEF WorkerIdle, OnlyGoes, Holding, queueVars
  <2> QED
    BY <2>2, <2>3, <2>4
<1>11. CASE WorkerExit(w)
  <2>1. OnlyGoes(w, "retired", "exited") \/ OnlyGoes(w, "quitting", "gone")
    BY <1>0, <1>11, GoesMoves DEF WorkerExit, WorkerPC
  <2>2. TypeOK'
    BY <1>0, <1>11, <2>1 DEF WorkerExit, TypeOK, OnlyGoes, queueVars, countVars,
       mgrVars, dstVars
  <2>3. LockHeld'
    BY <1>0, <1>11, <2>1 DEF WorkerExit, LockHeld, OnlyGoes, TypeOK
  <2>4. RingFilled'
    BY <1>0, <1>11, <2>1, RingFrame DEF WorkerExit, OnlyGoes, Holding, queueVars
  <2> QED
    BY <2>2, <2>3, <2>4
<1> QED
  BY <1>1, <1>2, <1>3, <1>4, <1>5, <1>6, <1>7, <1>8, <1>9, <1>10, <1>11
     DEF Worker, WorkerTakesLock, WorkerGoesOn
LEMMA NewSlotsFree ==
  /\ NewSlots \subseteq Slots
  /\ \A i \in NewSlots : wpc[i] \in {"none", "exited", "gone"}
  BY DEF NewSlots, Reusable

LEMMA NewSlotsFinite ==
  IsFiniteSet(NewSlots) /\ Cardinality(NewSlots) \in Nat
<1>1. IsFiniteSet(Slots)
  BY PoolAssumption, FS_Interval DEF Slots
<1> QED
  BY <1>1, NewSlotsFree, FS_Subset, FS_CardinalityType

LEMMA ManagerKeepsPoolInv == PoolInv /\ Manager => PoolInv'
<1> SUFFICES ASSUME PoolInv, Manager PROVE PoolInv'
  OBVIOUS
<1> USE PoolAssumption
<1>0. TypeOK /\ LockHeld /\ RingFilled
  BY DEF PoolInv
<1>1. CASE ManagerTop \/ ManagerRead \/ ManagerReadBusy
  <2>1. OnlyWakes
    BY <1>0, <1>1, StillWakes DEF ManagerTop, ManagerRead, ManagerReadBusy,
       workVars
  <2>2. seen' \in [queue : Nat, live : Nat, busy : Int]
    <3>1. /\ seen \in [queue : Nat, live : Nat, busy : Int]
          /\ queue_size \in Nat /\ live_thr_num \in Nat /\ busy_thr_num \in Int
      BY <1>0 DEF TypeOK
    <3>2. CASE ManagerTop
      BY <3>1, <3>2 DEF ManagerTop
    <3>3. CASE ManagerRead
      BY <3>1, <3>3 DEF ManagerRead
    <3>4. CASE ManagerReadBusy
      BY <3>1, <3>4 DEF ManagerReadBusy
    <3> QED
      BY <1>1, <3>2, <3>3, <3>4
  <2>3. TypeOK'
    BY <1>0, <1>1, <2>2 DEF ManagerTop, ManagerRead, ManagerReadBusy, TypeOK,
       ManagerPC, queueVars, countVars, workVars, dstVars
  <2>4. LockHeld'
    BY <1>0, <1>1, <2>1, LockFrame DEF ManagerTop, ManagerRead, ManagerReadBusy
  <2>5. RingFilled'
    BY <1>0, <1>1, RingFrame DEF ManagerTop, ManagerRead, ManagerReadBusy,
       workVars, Holding
  <2> QED
    BY <2>3, <2>4, <2>5 DEF PoolInv
<1>2. CASE ManagerGrow
  <2>1. /\ wpc' \in [Slots -> WorkerPC]
        /\ \A i \in Slots : \/ wpc'[i] = wpc[i]
                            \/ /\ wpc[i] \in {"none", "exited", "gone"}
                               /\ wpc'[i] = "start"
    BY <1>0, <1>2, NewSlotsFree DEF ManagerGrow, TypeOK, WorkerPC
  <2>2. live_thr_num' \in Nat
    BY <1>0, <1>2, NewSlotsFinite DEF ManagerGrow, TypeOK
  <2>3. TypeOK'
    BY <1>0, <1>2, <2>1, <2>2 DEF ManagerGrow, TypeOK, ManagerPC, queueVars,
       dstVars
  <2>4. LockHeld'
    BY <1>0, <1>2, <2>1 DEF ManagerGrow, LockHeld
  <2>5. RingFilled'
    BY <1>0, <1>2, <2>1, RingFrame DEF ManagerGrow, Holding
  <2> QED
    BY <2>3, <2>4, <2>5 DEF PoolInv
<1>3. CASE ManagerShrink \/ ManagerSignal
  <2>1. OnlyWakes
    BY <1>0, <1>3, StillWakes, SignalWakes DEF ManagerShrink, ManagerSignal,
       workVars
  <2>2. wpc' \in [Slots -> WorkerPC]
    BY <2>1 DEF OnlyWakes
  <2>3. TypeOK'
    <3>1. /\ seen' \in [queue : Nat, live : Nat, busy : Int]
          /\ mpc' \in ManagerPC
      BY <1>0, <1>3 DEF ManagerShrink, ManagerSignal, NothingSeen, TypeOK,
         ManagerPC
    <3>2. /\ signals' \in 0..DEFAULT_THREAD_VARY
          /\ wait_exit_thr_num' \in 0..DEFAULT_THREAD_VARY
      BY <1>0, <1>3 DEF ManagerShrink, ManagerSignal, TypeOK, countVars
    <3> QED
      BY <1>0, <1>3, <2>2, <3>1, <3>2 DEF ManagerShrink, ManagerSignal, TypeOK,
         queueVars, countVars, workVars, dstVars
  <2>4. LockHeld'
    BY <1>0, <1>3, <2>1, LockFrame DEF ManagerShrink, ManagerSignal
  <2>5. RingFilled'
    BY <1>0, <1>3, <2>1, WakesHold, RingFrame DEF ManagerShrink, ManagerSignal,
       workVars
  <2> QED
    BY <2>3, <2>4, <2>5 DEF PoolInv
<1> QED
  BY <1>1, <1>2, <1>3 DEF Manager

LEMMA AdderKeepsPoolInv ==
  ASSUME PoolInv, NEW t \in Tasks, Adder(t)
  PROVE  PoolInv'
<1> USE PoolAssumption
<1>0. TypeOK /\ LockHeld /\ RingFilled
  BY DEF PoolInv
<1>1. CASE AddWaits(t) \/ AddRejected(t) \/ SpuriousWakeAdder(t)
  <2>1. OnlyWakes
    BY <1>0, <1>1, StillWakes, BroadcastWakes DEF AddWaits, AddRejected,
       SpuriousWakeAdder, workVars
  <2>2. TypeOK'
    BY <1>0, <1>1, <2>1 DEF AddWaits, AddRejected, SpuriousWakeAdder, TypeOK,
       OnlyWakes, AdderPC, queueVars, countVars, workVars, mgrVars, dstVars
  <2>3. LockHeld'
    BY <1>0, <1>1, <2>1, LockFrame DEF AddWaits, AddRejected, SpuriousWakeAdder
  <2>4. RingFilled'
    BY <1>0, <1>1, <2>1, WakesHold, RingFrame DEF AddWaits, AddRejected,
       SpuriousWakeAdder, workVars
  <2> QED
    BY <2>2, <2>3, <2>4 DEF PoolInv
<1>2. CASE AddStores(t)
  <2>1. OnlyWakes
    BY <1>0, <1>2, SignalWakes DEF AddStores
  <2>2. TypeOK'
    <3>1. /\ task_queue' \in [Ring -> Tasks \cup {NoTask}]
          /\ queue_rear' \in Ring /\ queue_size' \in 0..queue_max_size
      BY <1>2, StoreAppends
    <3> QED
      BY <1>0, <1>2, <2>1, <3>1 DEF AddStores, TypeOK, OnlyWakes, AdderPC,
         countVars, mgrVars, dstVars
  <2>3. LockHeld'
    BY <1>0, <1>2, <2>1, LockFrame DEF AddStores
  <2>4. RingFilled'
    <3>1. ASSUME NEW k \in 0..queue_size'-1
          PROVE  Pending(k)' \in Tasks
      <4>1. /\ k \in 0..queue_size
            /\ k = queue_size \/ k \in 0..queue_size-1
        BY <1>2, StoreAppends
      <4>2. Pending(k)' = IF k = queue_size THEN t ELSE Pending(k)
        BY <1>2, <4>1, StoreAppends
      <4> QED
        BY <1>0, <4>1, <4>2 DEF RingFilled
    <3>2. \A w \in Slots : Holding(w)' => task'[w] \in Tasks
      BY <1>0, <1>2, <2>1, WakesHold DEF AddStores, RingFilled
    <3> QED
      BY <1>2, <3>1, <3>2, StoreAppends DEF RingFilled
  <2> QED
    BY <2>2, <2>3, <2>4 DEF PoolInv
<1> QED
  BY <1>1, <1>2 DEF Adder, Add

LEMMA DestroyerKeepsPoolInv == PoolInv /\ Destroyer => PoolInv'
<1> SUFFICES ASSUME PoolInv, Destroyer PROVE PoolInv'
  OBVIOUS
<1>0. TypeOK /\ LockHeld /\ RingFilled
  BY DEF PoolInv
<1> USE DEF Destroyer, DestroySet, DestroyJoinManager, DestroyBroadcast,
            DestroyJoin, FreeArrays, FreePool, workVars
<1>1. OnlyWakes
  BY <1>0, StillWakes, BroadcastWakes
<1>2. TypeOK'
  <2>1. wpc' \in [Slots -> WorkerPC]
    BY <1>1 DEF OnlyWakes
  <2>2. dpc' \in DestroyPC /\ shutdown' \in BOOLEAN
    BY <1>0 DEF TypeOK, DestroyPC
  <2>3. di' \in Nat
    BY <1>0 DEF TypeOK
  <2>4. UNCHANGED <<lock, queueVars, countVars, task, done, mgrVars, apc>>
    OBVIOUS
  <2> QED
    BY <1>0, <2>1, <2>2, <2>3, <2>4 DEF TypeOK, queueVars, countVars, mgrVars
<1>3. LockHeld'
  BY <1>0, <1>1, LockFrame
<1>4. RingFilled'
  BY <1>0, <1>1, WakesHold, RingFrame
<1> QED
  BY <1>2, <1>3, <1>4 DEF PoolInv

LEMMA StutterKeepsPoolInv == PoolInv /\ UNCHANGED vars => PoolInv'
  BY DEF PoolInv, TypeOK, LockHeld, RingFilled, Pending, Holding, vars,
     queueVars, countVars, workVars, mgrVars, dstVars

LEMMA PoolStep == PoolInv /\ [Next]_vars => PoolInv'
  BY WorkerKeepsPoolInv, ManagerKeepsPoolInv, AdderKeepsPoolInv,
     DestroyerKeepsPoolInv, StutterKeepsPoolInv DEF Next

LEMMA PoolInvariant == Spec => []PoolInv
  BY PoolInit, PoolStep, PTL DEF Spec

\* Every variable keeps its type: in particular the ring's indices stay inside
\* task_queue, queue_size inside its bounds, and only real tasks are executed
\* (main.cpp 184-204 and 292-302).
THEOREM TypeCorrect == Spec => []TypeOK
  BY PoolInvariant, PTL DEF PoolInv

\* The ring is consistent in every reachable state: queue_rear is queue_size
\* slots past queue_front, and no worker ever takes a slot that threadpool_add
\* did not fill (main.cpp 184-190 and 292-302).
THEOREM RingIsConsistent == Spec => []RingConsistent
<1>1. PoolInv => RingConsistent
  BY PoolAssumption DEF PoolInv, RingFilled, RingConsistent, InQueue, Held
<1> QED
  BY <1>1, PoolInvariant, PTL
-----------------------------------------------------------------------------
(* What live_thr_num and busy_thr_num count. *)

AliveSet == {w \in Slots : Alive(w)}
BusySet == {w \in Slots : wpc[w] \in {"running", "ran"}}

\* A thread that quits at shutdown stays counted, so afterwards live_thr_num is
\* only an upper bound.
CountInv ==
  /\ live_thr_num \in min_thr_num..max_thr_num
  /\ Cardinality(AliveSet) <= live_thr_num
  /\ ~shutdown => Cardinality(AliveSet) = live_thr_num
  /\ busy_thr_num = Cardinality(BusySet)

LEMMA CountedSetsFinite ==
  /\ IsFiniteSet(Slots) /\ Cardinality(Slots) = max_thr_num
  /\ IsFiniteSet(AliveSet) /\ Cardinality(AliveSet) \in Nat
  /\ IsFiniteSet(BusySet) /\ Cardinality(BusySet) \in Nat
<1>1. IsFiniteSet(Slots) /\ Cardinality(Slots) = max_thr_num
  BY PoolAssumption, FS_Interval DEF Slots
<1>2. AliveSet \in SUBSET Slots /\ BusySet \in SUBSET Slots
  BY DEF AliveSet, BusySet
<1>3. IsFiniteSet(AliveSet) /\ IsFiniteSet(BusySet)
  BY <1>1, <1>2, FS_Subset
<1> QED
  BY <1>1, <1>3, FS_CardinalityType

\* The for loop of adjust_thread never creates more than Room threads: the
\* number of reusable slots below it ranks every new slot in 0..Room-1.
LEMMA NewSlotsBounded ==
  ASSUME live_thr_num \in min_thr_num..max_thr_num
  PROVE  live_thr_num + Cardinality(NewSlots) <= max_thr_num
<1> USE PoolAssumption
<1> DEFINE Below(i) == {j \in 0..i-1 : Reusable(j)}
           Rank == [i \in NewSlots |-> Cardinality(Below(i))]
<1>1. ASSUME NEW i \in Slots
      PROVE  IsFiniteSet(Below(i)) /\ Cardinality(Below(i)) \in Nat
  <2>1. i \in Nat /\ IsFiniteSet(0..i-1)
    BY FS_Interval DEF Slots
  <2>2. Below(i) \in SUBSET (0..i-1)
    OBVIOUS
  <2>3. IsFiniteSet(Below(i))
    BY <2>1, <2>2, FS_Subset
  <2> QED
    BY <2>3, FS_CardinalityType
<1>2. ASSUME NEW i \in Slots, NEW k \in Slots, i < k, Reusable(i)
      PROVE  Cardinality(Below(i)) < Cardinality(Below(k))
  <2>1. i \notin Below(i)
    BY DEF Slots
  <2>2. Cardinality(Below(i) \cup {i}) = Cardinality(Below(i)) + 1
    BY <1>1, <2>1, FS_AddElement
  <2>3. Below(i) \cup {i} \in SUBSET Below(k)
    BY <1>2 DEF Slots
  <2>4. Cardinality(Below(i) \cup {i}) <= Cardinality(Below(k))
    BY <1>1, <2>3, FS_Subset
  <2>5. Cardinality(Below(i)) \in Nat /\ Cardinality(Below(k)) \in Nat
    BY <1>1
  <2> HIDE DEF Below
  <2> QED
    BY <2>2, <2>4, <2>5
<1>3. Room \in Nat /\ Room <= max_thr_num - live_thr_num
  BY DEF Room
<1>4. Rank \in [NewSlots -> 0..Room-1]
  BY <1>1, <1>3 DEF NewSlots
<1>5. ASSUME NEW i \in NewSlots, NEW k \in NewSlots, Rank[i] = Rank[k]
      PROVE  i = k
  <2>1. i \in Slots /\ k \in Slots /\ Reusable(i) /\ Reusable(k)
    BY DEF NewSlots
  <2>2. Rank[i] = Cardinality(Below(i)) /\ Rank[k] = Cardinality(Below(k))
    OBVIOUS
  <2>3. /\ i < k => Cardinality(Below(i)) < Cardinality(Below(k))
        /\ k < i => Cardinality(Below(k)) < Cardinality(Below(i))
    <3> HIDE DEF Below
    <3> QED
      BY <1>2, <2>1
  <2>4. /\ Cardinality(Below(i)) = Cardinality(Below(k))
        /\ Cardinality(Below(i)) \in Nat
    <3> HIDE DEF Below, Rank
    <3> QED
      BY <1>1, <1>5, <2>1, <2>2
  <2>5. ~ (i < k) /\ ~ (k < i)
    <3> HIDE DEF Below
    <3> QED
      BY <2>3, <2>4
  <2> QED
    BY <2>1, <2>5 DEF Slots
<1>6. Rank \in Injection(NewSlots, 0..Room-1)
  <2> HIDE DEF Rank
  <2> QED
    BY <1>4, <1>5 DEF Injection, IsInjective
<1>7. IsFiniteSet(0..Room-1) /\ Cardinality(0..Room-1) = Room
  BY <1>3, FS_Interval
<1>8. Cardinality(NewSlots) <= Room
  <2> HIDE DEF Rank
  <2> QED
    BY <1>6, <1>7, FS_Injection
<1> QED
  BY <1>3, <1>8, NewSlotsFinite

\* A step that changes neither set and neither counter, and does not end a
\* shutdown, keeps CountInv; waking threads is such a step.
LEMMA CountFrame ==
  ASSUME CountInv, UNCHANGED <<live_thr_num, busy_thr_num>>,
         AliveSet' = AliveSet, BusySet' = BusySet, shutdown => shutdown'
  PROVE  CountInv'
  BY DEF CountInv

LEMMA WakesCount ==
  ASSUME OnlyWakes PROVE AliveSet' = AliveSet /\ BusySet' = BusySet
  BY DEF OnlyWakes, AliveSet, BusySet, Alive

LEMMA CountInit == Init => CountInv
<1> SUFFICES ASSUME Init PROVE CountInv
  OBVIOUS
<1> USE PoolAssumption DEF Init
<1>1. AliveSet = 0..min_thr_num-1 /\ BusySet = {}
  BY DEF AliveSet, BusySet, Alive, Slots
<1>2. Cardinality(AliveSet) = min_thr_num /\ Cardinality(BusySet) = 0
  BY <1>1, FS_Interval, FS_EmptySet
<1> QED
  BY <1>2 DEF CountInv

LEMMA WorkerKeepsCountInv ==
  ASSUME PoolInv, CountInv, NEW w \in Slots, Worker(w)
  PROVE  CountInv'
<1> USE PoolAssumption
<1>0. /\ TypeOK
      /\ live_thr_num \in Nat /\ busy_thr_num \in Int
      /\ w \in Slots
  BY DEF PoolInv, TypeOK
<1>1. CASE \/ WorkerLock(w) \/ WorkerTest(w) \/ WorkerWait(w) \/ SpuriousWake(w)
           \/ WorkerTake(w) \/ WorkerRun(w) \/ WorkerExit(w)
  <2>1. UNCHANGED <<live_thr_num, busy_thr_num>> /\ shutdown' = shutdown
    BY <1>1 DEF WorkerLock, WorkerTest, WorkerWait, SpuriousWake, WorkerTake,
       WorkerRun, WorkerExit, countVars, dstVars
  <2>2. AliveSet' = AliveSet /\ BusySet' = BusySet
    BY <1>0, <1>1 DEF WorkerLock, WorkerTest, WorkerWait, SpuriousWake,
       WorkerTake, WorkerRun, WorkerExit, Goes, AliveSet, BusySet, Alive, TypeOK
  <2> QED
    BY <2>1, <2>2, CountFrame
<1>2. CASE WorkerWake(w)
  <2>1. CASE Surplus
    <3>1. Goes(w, "woken", "retired") /\ live_thr_num' = live_thr_num - 1
          /\ shutdown' = shutdown /\ busy_thr_num' = busy_thr_num
      BY <1>2, <2>1 DEF WorkerWake, LiveWithoutRetired, dstVars
    <3>2. AliveSet' = AliveSet \ {w} /\ w \in AliveSet /\ BusySet' = BusySet
      BY <1>0, <3>1 DEF Goes, AliveSet, BusySet, Alive, TypeOK
    <3>3. Cardinality(AliveSet') = Cardinality(AliveSet) - 1
      BY <3>2, CountedSetsFinite, FS_RemoveElement
    <3> QED
      BY <1>0, <2>1, <3>1, <3>2, <3>3, CountedSetsFinite DEF CountInv, Surplus
  <2>2. CASE ~Surplus
    <3>1. Goes(w, "woken", "loop") /\ live_thr_num' = live_thr_num
          /\ shutdown' = shutdown /\ busy_thr_num' = busy_thr_num
      BY <1>2, <2>2 DEF WorkerWake, dstVars
    <3>2. AliveSet' = AliveSet /\ BusySet' = BusySet
      BY <1>0, <3>1 DEF Goes, AliveSet, BusySet, Alive, TypeOK
    <3> QED
      BY <3>1, <3>2, CountFrame
  <2> QED
    BY <2>1, <2>2
<1>3. CASE WorkerQuit(w)
  <2>1. Goes(w, "loop", "quitting") /\ live_thr_num' = live_thr_num
        /\ shutdown' /\ busy_thr_num' = busy_thr_num
    BY <1>3 DEF WorkerQuit, countVars, dstVars
  <2>2. AliveSet' = AliveSet \ {w} /\ w \in AliveSet /\ BusySet' = BusySet
    BY <1>0, <2>1 DEF Goes, AliveSet, BusySet, Alive, TypeOK
  <2>3. Cardinality(AliveSet') = Cardinality(AliveSet) - 1
    BY <2>2, CountedSetsFinite, FS_RemoveElement
  <2> QED
    BY <1>0, <2>1, <2>2, <2>3, CountedSetsFinite DEF CountInv
<1>4. CASE WorkerBusy(w)
  <2>1. Goes(w, "taken", "running") /\ live_thr_num' = live_thr_num
        /\ shutdown' = shutdown /\ busy_thr_num' = busy_thr_num + 1
    BY <1>4 DEF WorkerBusy, dstVars
  <2>2. AliveSet' = AliveSet /\ BusySet' = BusySet \cup {w} /\ w \notin BusySet
    BY <1>0, <2>1 DEF Goes, AliveSet, BusySet, Alive, TypeOK
  <2>3. Cardinality(BusySet') = Cardinality(BusySet) + 1
    BY <2>2, CountedSetsFinite, FS_AddElement
  <2> QED
    BY <2>1, <2>2, <2>3 DEF CountInv
<1>5. CASE WorkerIdle(w)
  <2>1. Goes(w, "ran", "start") /\ live_thr_num' = live_thr_num
        /\ shutdown' = shutdown /\ busy_thr_num' = busy_thr_num - 1
    BY <1>5 DEF WorkerIdle, BusyWithoutThis, dstVars
  <2>2. AliveSet' = AliveSet /\ BusySet' = BusySet \ {w} /\ w \in BusySet
    BY <1>0, <2>1 DEF Goes, AliveSet, BusySet, Alive, TypeOK
  <2>3. Cardinality(BusySet') = Cardinality(BusySet) - 1
    BY <2>2, CountedSetsFinite, FS_RemoveElement
  <2> QED
    BY <2>1, <2>2, <2>3 DEF CountInv
<1> QED
  BY <1>1, <1>2, <1>3, <1>4, <1>5 DEF Worker, WorkerTakesLock, WorkerGoesOn

LEMMA ManagerKeepsCountInv == PoolInv /\ CountInv /\ Manager => CountInv'
<1> SUFFICES ASSUME PoolInv, CountInv, Manager PROVE CountInv'
  OBVIOUS
<1> USE PoolAssumption
<1>0. TypeOK
  BY DEF PoolInv
<1>1. CASE ManagerGrow /\ ShouldGrow
  <2>1. /\ live_thr_num' = live_thr_num + Cardinality(NewSlots)
        /\ shutdown' = shutdown /\ busy_thr_num' = busy_thr_num
        /\ wpc' = [i \in Slots |-> IF i \in NewSlots THEN "start" ELSE wpc[i]]
    BY <1>1 DEF ManagerGrow, dstVars
  <2>2. /\ AliveSet' = AliveSet \cup NewSlots
        /\ AliveSet \cap NewSlots = {}
        /\ BusySet' = BusySet
    BY <1>0, <2>1, NewSlotsFree DEF AliveSet, BusySet, Alive, TypeOK
  <2>3. Cardinality(AliveSet') = Cardinality(AliveSet) + Cardinality(NewSlots)
    <3>1. Cardinality(AliveSet \cup NewSlots)
            = Cardinality(AliveSet) + Cardinality(NewSlots)
                - Cardinality(AliveSet \cap NewSlots)
      BY CountedSetsFinite, NewSlotsFinite, FS_Union
    <3>2. Cardinality(AliveSet \cap NewSlots) = 0
      BY <2>2, FS_EmptySet
    <3> QED
      BY <2>2, <3>1, <3>2, CountedSetsFinite, NewSlotsFinite
  <2>4. live_thr_num' <= max_thr_num
    BY <2>1, NewSlotsBounded DEF CountInv
  <2> QED
    BY <2>1, <2>2, <2>3, <2>4, CountedSetsFinite, NewSlotsFinite DEF CountInv
<1>2. CASE Manager /\ ~(ManagerGrow /\ ShouldGrow)
  <2>1. OnlyWakes
    BY <1>0, <1>2, StillWakes, SignalWakes DEF Manager, ManagerTop, ManagerRead,
       ManagerReadBusy, ManagerGrow, ManagerShrink, ManagerSignal, workVars
  <2>2. UNCHANGED <<live_thr_num, busy_thr_num, shutdown>>
    BY <1>2 DEF Manager, ManagerTop, ManagerRead, ManagerReadBusy, ManagerGrow,
       ManagerShrink, ManagerSignal, countVars, dstVars
  <2> QED
    BY <2>1, <2>2, WakesCount, CountFrame
<1> QED
  BY <1>1, <1>2

LEMMA OthersOnlyWake ==
  ASSUME TypeOK, (\E t \in Tasks : Adder(t)) \/ Destroyer \/ UNCHANGED vars
  PROVE  OnlyWakes /\ UNCHANGED <<live_thr_num, busy_thr_num>>
                   /\ (shutdown => shutdown')
<1>1. CASE \E t \in Tasks : Adder(t)
  BY <1>1, StillWakes, SignalWakes, BroadcastWakes DEF Adder, Add, AddWaits,
     AddRejected, AddStores, SpuriousWakeAdder, workVars, countVars, dstVars
<1>2. CASE Destroyer
  BY <1>2, StillWakes, BroadcastWakes DEF Destroyer, DestroySet,
     DestroyJoinManager, DestroyBroadcast, DestroyJoin, FreeArrays, FreePool,
     workVars, countVars
<1>3. CASE UNCHANGED vars
  BY <1>3, StillWakes DEF vars, workVars, countVars, dstVars
<1> QED
  BY <1>1, <1>2, <1>3

LEMMA CountStep == PoolInv /\ CountInv /\ [Next]_vars => CountInv'
<1> SUFFICES ASSUME PoolInv, CountInv, [Next]_vars PROVE CountInv'
  OBVIOUS
<1>1. CASE \E w \in Slots : Worker(w)
  BY <1>1, WorkerKeepsCountInv
<1>2. CASE Manager
  BY <1>2, ManagerKeepsCountInv
<1>3. CASE (\E t \in Tasks : Adder(t)) \/ Destroyer \/ UNCHANGED vars
  BY <1>3, OthersOnlyWake, WakesCount, CountFrame DEF PoolInv
<1> QED
  BY <1>1, <1>2, <1>3 DEF Next

LEMMA CountInvariant == Spec => []CountInv
  BY PoolInvariant, CountInit, CountStep, PTL DEF Spec

\* The pool never has more threads than threadpool_create's max_thr_num, nor
\* fewer than min_thr_num, whatever the manager read before it decided; and
\* busy_thr_num is never negative nor above live_thr_num (main.cpp 163-171,
\* 197-211, 235-265).
THEOREM BoundsHold == Spec => []ThreadBounds
<1>1. CountInv => ThreadBounds
  <2> SUFFICES ASSUME CountInv PROVE ThreadBounds
    OBVIOUS
  <2>1. BusySet \in SUBSET AliveSet
    BY DEF BusySet, AliveSet, Alive
  <2>2. Cardinality(BusySet) <= Cardinality(AliveSet)
    BY <2>1, CountedSetsFinite, FS_Subset
  <2> QED
    BY <2>2, CountedSetsFinite, PoolAssumption DEF CountInv, ThreadBounds
<1> QED
  BY <1>1, CountInvariant, PTL

\* Until shutdown live_thr_num is the number of threads in the worker loop
\* (main.cpp 50, 169, 248).
THEOREM LiveThreadsAreCounted == Spec => []LiveThreadsCounted
<1>1. CountInv => LiveThreadsCounted
  BY DEF CountInv, LiveThreadsCounted, AliveSet
<1> QED
  BY <1>1, CountInvariant, PTL
-----------------------------------------------------------------------------
(* A pool of fixed size. *)

\* A worker that is going to wait found the queue empty, and as it holds the
\* lock the queue stays empty; and NoStrandedTask.
FixedInv ==
  /\ \A w \in Slots : wpc[w] = "towait" => queue_size = 0
  /\ NoStrandedTask

\* In a pool of fixed size in service all threads are in the worker loop.
LEMMA FixedAllAlive ==
  ASSUME min_thr_num = max_thr_num, CountInv, ~shutdown
  PROVE  \A w \in Slots : Alive(w)
<1>1. Cardinality(AliveSet) = Cardinality(Slots)
  BY CountedSetsFinite, PoolAssumption DEF CountInv
<1>2. AliveSet \in SUBSET Slots
  BY DEF AliveSet
<1>3. AliveSet = Slots
  BY <1>1, <1>2, CountedSetsFinite, FS_Subset
<1> QED
  BY <1>3 DEF AliveSet

\* It is enough to find a thread that neither sleeps nor is about to.
LEMMA FixedAwake ==
  ASSUME min_thr_num = max_thr_num, CountInv',
         queue_size' > 0 /\ ~shutdown'
           => \E w \in Slots : wpc'[w] \notin {"waiting", "towait"}
  PROVE  NoStrandedTask'
<1>1. ASSUME ~shutdown' PROVE (\A w \in Slots : Alive(w))'
  BY <1>1, FixedAllAlive, PTL
<1> QED
  BY <1>1 DEF NoStrandedTask
LEMMA FixedInit == Init => FixedInv
<1> SUFFICES ASSUME Init PROVE FixedInv
  OBVIOUS
<1>1. \A w \in Slots : wpc[w] # "towait"
  BY DEF Init
<1> QED
  BY <1>1 DEF Init, FixedInv, NoStrandedTask

LEMMA WorkerKeepsFixedInv ==
  ASSUME min_thr_num = max_thr_num, PoolInv, FixedInv, CountInv',
         NEW w \in Slots, Worker(w)
  PROVE  FixedInv'
<1> USE PoolAssumption
<1>0. /\ TypeOK /\ LockHeld /\ queue_size \in Nat
      /\ \A v \in Slots : wpc[v] = "towait" => queue_size = 0
  BY DEF PoolInv, TypeOK, FixedInv
<1>1. \A v \in Slots \ {w} : wpc'[v] = wpc[v]
  BY <1>0 DEF Worker, WorkerTakesLock, WorkerGoesOn, WorkerLock, WorkerTest,
     WorkerWait, SpuriousWake, WorkerWake, WorkerQuit, WorkerTake, WorkerBusy,
     WorkerRun, WorkerIdle, WorkerExit, Goes, TypeOK
<1>2. CASE WorkerTest(w) \/ WorkerWait(w)
  <2>1. queue_size = 0 /\ queue_size' = 0
    BY <1>0, <1>2 DEF WorkerTest, WorkerWait, Goes, queueVars
  <2> QED
    BY <2>1 DEF FixedInv, NoStrandedTask
<1>3. CASE WorkerTake(w)
  <2>1. wpc[w] = "loop" /\ wpc'[w] = "taken"
    BY <1>0, <1>3 DEF WorkerTake, Goes, TypeOK
  <2>2. \A v \in Slots : wpc'[v] # "towait"
    BY <1>0, <1>1, <2>1 DEF LockHeld
  <2>3. NoStrandedTask'
    BY <2>1, FixedAwake
  <2> QED
    BY <2>2, <2>3 DEF FixedInv
<1>4. CASE Worker(w) /\ ~(WorkerTest(w) \/ WorkerWait(w) \/ WorkerTake(w))
  <2>1. /\ queue_size' = queue_size
        /\ wpc'[w] \notin {"waiting", "towait"}
    BY <1>0, <1>4 DEF Worker, WorkerTakesLock, WorkerGoesOn, WorkerLock,
       SpuriousWake, WorkerWake, WorkerQuit, WorkerBusy, WorkerRun, WorkerIdle,
       WorkerExit, Goes, TypeOK, queueVars
  <2>2. NoStrandedTask'
    BY <2>1, FixedAwake
  <2> QED
    BY <1>0, <1>1, <2>1, <2>2 DEF FixedInv
<1> QED
  BY <1>2, <1>3, <1>4

\* Steps of the others that leave the queue alone wake threads or create them.
LEMMA OthersKeepFixedInv ==
  ASSUME min_thr_num = max_thr_num, FixedInv, CountInv',
         queue_size' = queue_size, shutdown => shutdown',
         \A w \in Slots : wpc'[w] = wpc[w] \/ wpc'[w] \in {"woken", "start"}
  PROVE  FixedInv'
<1>1. \A w \in Slots : wpc'[w] = "towait" => queue_size' = 0
  BY DEF FixedInv
<1>2. NoStrandedTask'
  BY FixedAwake DEF FixedInv, NoStrandedTask
<1> QED
  BY <1>1, <1>2 DEF FixedInv

LEMMA AddStoresKeepsFixedInv ==
  ASSUME min_thr_num = max_thr_num, PoolInv, CountInv, FixedInv, CountInv',
         NEW t \in Tasks, AddStores(t)
  PROVE  FixedInv'
<1> USE PoolAssumption
<1>1. /\ lock = Free /\ Free \notin Slots /\ 0 \in Slots
      /\ TypeOK /\ LockHeld /\ ~shutdown /\ SignalNotEmpty
  BY DEF AddStores, Slots, PoolInv
<1>2. \A w \in Slots : wpc[w] # "towait"
  BY <1>1 DEF LockHeld
<1>3. OnlyWakes
  BY <1>1, SignalWakes
<1>4. \A w \in Slots : wpc'[w] # "towait"
  BY <1>2, <1>3 DEF OnlyWakes
<1>5. \E w \in Slots : wpc'[w] \notin {"waiting", "towait"}
  <2>1. CASE Waiting = {} /\ UNCHANGED wpc
    BY <1>1, <1>2, <2>1 DEF Waiting
  <2>2. CASE \E w \in Waiting : wpc' = [wpc EXCEPT ![w] = "woken"]
    BY <1>1, <2>2 DEF Waiting, TypeOK
  <2> QED
    BY <1>1, <2>1, <2>2 DEF SignalNotEmpty
<1>6. NoStrandedTask'
  BY <1>5, FixedAwake
<1> QED
  BY <1>4, <1>6 DEF FixedInv

LEMMA FixedStep ==
  ASSUME min_thr_num = max_thr_num
  PROVE  PoolInv /\ CountInv /\ FixedInv /\ CountInv' /\ [Next]_vars => FixedInv'
<1> SUFFICES ASSUME PoolInv, CountInv, FixedInv, CountInv', [Next]_vars
             PROVE  FixedInv'
  OBVIOUS
<1>0. TypeOK
  BY DEF PoolInv
<1>1. CASE \E w \in Slots : Worker(w)
  BY <1>1, WorkerKeepsFixedInv
<1>2. CASE Manager
  <2>1. \A w \in Slots : wpc'[w] = wpc[w] \/ wpc'[w] \in {"woken", "start"}
    BY <1>0, <1>2, SignalWakes DEF Manager, ManagerTop, ManagerRead,
       ManagerReadBusy, ManagerGrow, ManagerShrink, ManagerSignal, OnlyWakes,
       workVars
  <2>2. queue_size' = queue_size /\ shutdown' = shutdown
    BY <1>2 DEF Manager, ManagerTop, ManagerRead, ManagerReadBusy, ManagerGrow,
       ManagerShrink, ManagerSignal, queueVars, dstVars
  <2> QED
    BY <2>1, <2>2, OthersKeepFixedInv
<1>3. CASE \E t \in Tasks : AddStores(t)
  BY <1>3, AddStoresKeepsFixedInv
<1>4. CASE \/ \E t \in Tasks : AddWaits(t) \/ AddRejected(t) \/ SpuriousWakeAdder(t)
           \/ Destroyer
           \/ UNCHANGED vars
  <2>1. OnlyWakes /\ (shutdown => shutdown')
    BY <1>0, <1>4, OthersOnlyWake DEF Adder, Add
  <2>2. queue_size' = queue_size
    BY <1>4 DEF AddWaits, AddRejected, SpuriousWakeAdder, Destroyer, DestroySet,
       DestroyJoinManager, DestroyBroadcast, DestroyJoin, FreeArrays, FreePool,
       vars, queueVars
  <2> QED
    BY <2>1, <2>2, OthersKeepFixedInv DEF OnlyWakes
<1> QED
  BY <1>1, <1>2, <1>3, <1>4 DEF Next, Adder, Add

\* In a pool of fixed size a queued task is never left to sleeping workers:
\* pthread_cond_signal (main.cpp 304) reaches a worker that will serve it. The
\* hypothesis is needed: in a pool that shrinks the woken worker may retire.
THEOREM FixedPoolStrandsNoTask ==
  ASSUME min_thr_num = max_thr_num
  PROVE  Spec => []NoStrandedTask
<1>1. Spec => []FixedInv
  BY PoolInvariant, CountInvariant, FixedInit, FixedStep, PTL DEF Spec
<1>2. FixedInv => NoStrandedTask
  BY DEF FixedInv
<1> QED
  BY <1>1, <1>2, PTL
-----------------------------------------------------------------------------
(* The end of a pool of fixed size. *)

\* No slot is ever empty or reused, so what pthread_join has returned for stays
\* ended, and the loop over live_thr_num threads reaches every slot.
QuietInv ==
  /\ \A w \in Slots : Alive(w) \/ wpc[w] \in {"quitting", "gone"}
  /\ dpc = "join" => \A w \in Slots : w < di => wpc[w] = "gone"
  /\ dpc \in {"free", "freelock", "freed"} => \A w \in Slots : wpc[w] = "gone"

\* What any step does to the threads of such a pool.
NobodyRetires ==
  \A w \in Slots : /\ Alive(w) => Alive(w)' \/ wpc'[w] = "quitting"
                   /\ wpc[w] = "quitting" => wpc'[w] \in {"quitting", "gone"}
                   /\ wpc[w] = "gone" => wpc'[w] = "gone"

LEMMA FixedLive ==
  ASSUME min_thr_num = max_thr_num, CountInv
  PROVE  live_thr_num = max_thr_num
  BY PoolAssumption DEF CountInv

LEMMA WakesRetireNobody == ASSUME OnlyWakes PROVE NobodyRetires
  BY DEF OnlyWakes, NobodyRetires, Alive

LEMMA WorkerDoesNotRetire ==
  ASSUME min_thr_num = max_thr_num, PoolInv, CountInv, NEW w \in Slots,
         Worker(w)
  PROVE  NobodyRetires
<1>0. TypeOK /\ ~Surplus
  BY FixedLive, PoolAssumption DEF PoolInv, Surplus
<1>1. \A v \in Slots \ {w} : wpc'[v] = wpc[v]
  BY <1>0 DEF Worker, WorkerTakesLock, WorkerGoesOn, WorkerLock, WorkerTest,
     WorkerWait, SpuriousWake, WorkerWake, WorkerQuit, WorkerTake, WorkerBusy,
     WorkerRun, WorkerIdle, WorkerExit, Goes, TypeOK
<1>2. \/ wpc[w] = "loop" /\ wpc'[w] = "quitting"
      \/ wpc[w] = "quitting" /\ wpc'[w] = "gone"
      \/ wpc[w] = "retired"
      \/ Alive(w) /\ Alive(w)'
  BY <1>0 DEF Worker, WorkerTakesLock, WorkerGoesOn, WorkerLock, WorkerTest,
     WorkerWait, SpuriousWake, WorkerWake, WorkerQuit, WorkerTake, WorkerBusy,
     WorkerRun, WorkerIdle, WorkerExit, Goes, TypeOK, Alive
<1> QED
  BY <1>1, <1>2 DEF NobodyRetires, Alive

LEMMA FullPoolTakesNoSlot ==
  ASSUME min_thr_num = max_thr_num, CountInv
  PROVE  NewSlots = {}
<1> USE PoolAssumption
<1>1. ASSUME NEW i \in NewSlots PROVE FALSE
  <2>1. Cardinality(NewSlots) = 0
    BY FixedLive, NewSlotsBounded, NewSlotsFinite DEF CountInv
  <2> QED
    BY <2>1, NewSlotsFinite, FS_EmptySet
<1> QED
  BY <1>1

LEMMA NobodyEverRetires ==
  ASSUME min_thr_num = max_thr_num, PoolInv, CountInv, [Next]_vars
  PROVE  NobodyRetires
<1>0. TypeOK
  BY DEF PoolInv
<1>1. CASE \E w \in Slots : Worker(w)
  BY <1>1, WorkerDoesNotRetire
<1>2. CASE Manager
  <2>1. CASE ManagerGrow
    <3>1. \A w \in Slots : wpc'[w] = wpc[w]
      BY <1>0, <2>1, FullPoolTakesNoSlot DEF ManagerGrow, TypeOK
    <3> QED
      BY <3>1 DEF NobodyRetires, Alive
  <2>2. CASE Manager /\ ~ManagerGrow
    BY <1>0, <2>2, StillWakes, SignalWakes, WakesRetireNobody DEF Manager,
       ManagerTop, ManagerRead, ManagerReadBusy, ManagerShrink, ManagerSignal,
       workVars
  <2> QED
    BY <1>2, <2>1, <2>2
<1>3. CASE (\E t \in Tasks : Adder(t)) \/ Destroyer \/ UNCHANGED vars
  BY <1>0, <1>3, OthersOnlyWake, WakesRetireNobody
<1> QED
  BY <1>1, <1>2, <1>3 DEF Next

LEMMA QuietInit == min_thr_num = max_thr_num /\ Init => QuietInv
  BY PoolAssumption DEF Init, QuietInv, Alive, Slots

LEMMA QuietStep ==
  ASSUME min_thr_num = max_thr_num, PoolInv, CountInv, QuietInv, [Next]_vars
  PROVE  QuietInv'
<1>1. NobodyRetires
  BY NobodyEverRetires
<1>2. \A w \in Slots : Alive(w)' \/ wpc'[w] \in {"quitting", "gone"}
  BY <1>1 DEF NobodyRetires, QuietInv
<1>3. CASE DestroyJoin
  <2>1. /\ dpc = "join" /\ wpc' = wpc /\ di \in Nat
        /\ \A w \in Slots : w \in Nat /\ w < max_thr_num
    BY <1>3, PoolAssumption DEF DestroyJoin, workVars, PoolInv, TypeOK, Slots
  <2>2. CASE di < ToJoin /\ dpc' = dpc
    <3>1. di' = di + 1 /\ di \in Slots /\ wpc[di] = "gone"
      BY <1>3, <2>1, <2>2 DEF DestroyJoin, QuietInv, Alive
    <3>2. \A w \in Slots : w < di' => wpc'[w] = "gone"
      BY <2>1, <3>1 DEF QuietInv
    <3> QED
      BY <1>2, <2>1, <2>2, <3>2 DEF QuietInv
  <2>3. CASE di >= ToJoin /\ dpc' = "free"
    <3>1. \A w \in Slots : w < di
      BY <2>1, <2>3, FixedLive, PoolAssumption DEF ToJoin
    <3> QED
      BY <1>2, <2>1, <2>3, <3>1 DEF QuietInv
  <2> QED
    BY <1>3, <2>2, <2>3 DEF DestroyJoin
<1>4. CASE [Next]_vars /\ ~DestroyJoin
  <2>1. \/ dpc' = dpc /\ (dpc = "join" => di' = di)
        \/ dpc' \in {"joinmgr", "broadcast"}
        \/ dpc' = "join" /\ di' = 0
        \/ /\ dpc \in {"free", "freelock"}
           /\ dpc' \in {"freelock", "freed"}
    <3>1. CASE Destroyer
      BY <1>4, <3>1 DEF Destroyer, DestroySet, DestroyJoinManager,
         DestroyBroadcast, FreeArrays, FreePool
    <3>2. CASE Manager \/ \E t \in Tasks : Adder(t)
      BY <3>2 DEF Manager, ManagerTop, ManagerRead, ManagerReadBusy,
         ManagerGrow, ManagerShrink, ManagerSignal, Adder, Add, AddWaits,
         AddRejected, AddStores, SpuriousWakeAdder, dstVars
    <3>3. CASE (\E w \in Slots : Worker(w)) \/ UNCHANGED vars
      BY <3>3 DEF Worker, WorkerTakesLock, WorkerGoesOn, WorkerLock,
         WorkerTest, WorkerWait, SpuriousWake, WorkerWake, WorkerQuit,
         WorkerTake, WorkerBusy, WorkerRun, WorkerIdle, WorkerExit, vars,
         dstVars
    <3> QED
      BY <1>4, <3>1, <3>2, <3>3 DEF Next
  <2>2. \A w \in Slots : wpc[w] = "gone" => wpc'[w] = "gone"
    BY <1>1 DEF NobodyRetires
  <2>3. dpc' = "join" => \A w \in Slots : w < di' => wpc'[w] = "gone"
    <3>1. \A w \in Slots : ~ (w < 0)
      BY PoolAssumption DEF Slots
    <3> QED
      BY <2>1, <2>2, <3>1 DEF QuietInv
  <2> QED
    BY <1>2, <2>1, <2>2, <2>3 DEF QuietInv
<1> QED
  BY <1>3, <1>4

\* In a pool of fixed size no worker runs any more when threadpool_free deletes
\* it: threadpool_destory has joined every thread (main.cpp 369-372). The
\* hypothesis is needed: in a pool that shrinks, the live threads need not be
\* those of the first live_thr_num slots, and only those are joined.
THEOREM FixedPoolEndsQuiet ==
  ASSUME min_thr_num = max_thr_num
  PROVE  Spec => []FreeIsQuiet
<1>1. PoolInv /\ CountInv /\ QuietInv /\ [Next]_vars => QuietInv'
  BY QuietStep
<1>2. Spec => []QuietInv
  BY PoolInvariant, CountInvariant, QuietInit, <1>1, PTL DEF Spec
<1>3. QuietInv => FreeIsQuiet
  BY DEF QuietInv, FreeIsQuiet, Alive
<1> QED
  BY <1>2, <1>3, PTL
-----------------------------------------------------------------------------
(* Where the tasks are. *)

LEMMA TaskFrame ==
  ASSUME NoTaskLostOrDuplicated, UNCHANGED queueVars, done' = done,
         Added' = Added,
         \A w \in Slots : /\ Holding(w)' <=> Holding(w)
                          /\ Holding(w) => task'[w] = task[w]
  PROVE  NoTaskLostOrDuplicated'
<1>1. InQueue' = InQueue /\ \A k \in 0..queue_size-1 : Pending(k)' = Pending(k)
  BY DEF InQueue, Pending, queueVars
<1>2. Held' = Held
  BY DEF Held
<1> QED
  BY <1>1, <1>2 DEF NoTaskLostOrDuplicated, queueVars

LEMMA TaskInit == Init => NoTaskLostOrDuplicated
<1> SUFFICES ASSUME Init PROVE NoTaskLostOrDuplicated
  OBVIOUS
<1>1. Added = {} /\ InQueue = {} /\ done = {} /\ queue_size = 0
  BY DEF Init, Added, InQueue
<1>2. \A w \in Slots : ~Holding(w)
  BY DEF Init, Holding
<1>3. Held = {}
  BY <1>2 DEF Held
<1> QED
  BY <1>1, <1>2, <1>3 DEF NoTaskLostOrDuplicated

LEMMA WorkerKeepsTasks ==
  ASSUME PoolInv, NoTaskLostOrDuplicated, NEW w \in Slots, Worker(w)
  PROVE  NoTaskLostOrDuplicated'
<1>0. TypeOK
  BY DEF PoolInv
<1>1. CASE WorkerTake(w)
  <2>1. /\ OnlyGoes(w, "loop", "taken")
        /\ \A v \in Slots \ {w} : task'[v] = task[v]
        /\ done' = done
    BY <1>0, <1>1, GoesMoves DEF WorkerTake, WorkerPC, TypeOK
  <2>2. Added' = Added
    BY <1>0, <1>1 DEF WorkerTake, BroadcastNotFull, Added, TypeOK
  <2>3. /\ queue_size \in 1..queue_max_size /\ queue_size' = queue_size - 1
        /\ task'[w] = Pending(0)
        /\ \A k \in 0..queue_size'-1 : Pending(k)' = Pending(k + 1)
    BY <1>1, TakeShifts
  <2>4. /\ ~Holding(w) /\ Holding(w)'
        /\ \A v \in Slots \ {w} : Holding(v)' <=> Holding(v)
    BY <2>1 DEF OnlyGoes, Holding
  <2>5. Held' = Held \cup {Pending(0)}
    BY <2>1, <2>3, <2>4 DEF Held
  <2>6. Pending(0) \in InQueue
    BY <2>3 DEF InQueue
  <2>7. InQueue' = InQueue \ {Pending(0)}
    <3>1. ASSUME NEW k \in 0..queue_size'-1
          PROVE  Pending(k)' \in InQueue \ {Pending(0)}
      <4>1. k + 1 \in 0..queue_size-1 /\ k + 1 # 0 /\ 0 \in 0..queue_size-1
        BY <2>3
      <4> QED
        BY <2>3, <4>1 DEF InQueue, NoTaskLostOrDuplicated
    <3>2. ASSUME NEW j \in 0..queue_size-1, Pending(j) # Pending(0)
          PROVE  \E k \in 0..queue_size'-1 : Pending(k)' = Pending(j)
      <4>1. j - 1 \in 0..queue_size'-1 /\ (j - 1) + 1 = j
        BY <2>3, <3>2
      <4>2. Pending(j - 1)' = Pending(j)
        BY <2>3, <4>1
      <4> QED
        BY <4>1, <4>2
    <3> QED
      BY <3>1, <3>2 DEF InQueue
  <2>8. \A j, k \in 0..queue_size'-1 : Pending(j)' = Pending(k)' => j = k
    <3> SUFFICES ASSUME NEW j \in 0..queue_size'-1, NEW k \in 0..queue_size'-1,
                        Pending(j)' = Pending(k)'
                 PROVE  j = k
      OBVIOUS
    <3>1. j + 1 \in 0..queue_size-1 /\ k + 1 \in 0..queue_size-1
      BY <2>3
    <3>2. Pending(j + 1) = Pending(k + 1)
      BY <2>3
    <3>3. j + 1 = k + 1
      BY <3>1, <3>2 DEF NoTaskLostOrDuplicated
    <3> QED
      BY <3>3
  <2>9. \A u, v \in Slots :
           Holding(u)' /\ Holding(v)' /\ task'[u] = task'[v] => u = v
    BY <2>1, <2>3, <2>4, <2>6 DEF NoTaskLostOrDuplicated, Held
  <2> QED
    BY <2>1, <2>2, <2>5, <2>6, <2>7, <2>8, <2>9 DEF NoTaskLostOrDuplicated
<1>2. CASE WorkerRun(w)
  <2>1. /\ OnlyGoes(w, "running", "ran")
        /\ \A v \in Slots \ {w} : task'[v] = task[v]
        /\ done' = done \cup {task[w]}
        /\ UNCHANGED <<queueVars, apc>>
    BY <1>0, <1>2, GoesMoves DEF WorkerRun, WorkerPC, TypeOK
  <2>2. Added' = Added /\ InQueue' = InQueue
        /\ queue_size' = queue_size
        /\ \A k \in 0..queue_size-1 : Pending(k)' = Pending(k)
    BY <2>1 DEF Added, InQueue, Pending, queueVars
  <2>3. /\ Holding(w) /\ ~Holding(w)'
        /\ \A v \in Slots \ {w} : Holding(v)' <=> Holding(v)
    BY <2>1 DEF OnlyGoes, Holding
  <2>4. task[w] \in Held /\ Held' = Held \ {task[w]}
    BY <2>1, <2>3 DEF Held, NoTaskLostOrDuplicated
  <2> QED
    BY <2>1, <2>2, <2>3, <2>4 DEF NoTaskLostOrDuplicated
<1>3. CASE Worker(w) /\ ~WorkerTake(w) /\ ~WorkerRun(w)
  <2>1. UNCHANGED <<queueVars, task, done, apc>>
    BY <1>3 DEF Worker, WorkerTakesLock, WorkerGoesOn, WorkerLock, WorkerTest,
       WorkerWait, SpuriousWake, WorkerWake, WorkerQuit, WorkerBusy, WorkerIdle,
       WorkerExit
  <2>2. \A v \in Slots : Holding(v)' <=> Holding(v)
    BY <1>0, <1>3 DEF Worker, WorkerTakesLock, WorkerGoesOn, WorkerLock,
       WorkerTest, WorkerWait, SpuriousWake, WorkerWake, WorkerQuit, WorkerBusy,
       WorkerIdle, WorkerExit, Goes, Holding, TypeOK
  <2> QED
    BY <2>1, <2>2, TaskFrame DEF Added
<1> QED
  BY <1>1, <1>2, <1>3

LEMMA StoreKeepsTasks ==
  ASSUME PoolInv, NoTaskLostOrDuplicated, NEW t \in Tasks, AddStores(t)
  PROVE  NoTaskLostOrDuplicated'
<1>0. TypeOK
  BY DEF PoolInv
<1>1. /\ OnlyWakes /\ task' = task /\ done' = done
  BY <1>0, SignalWakes DEF AddStores
<1>2. t \notin Added /\ Added' = Added \cup {t}
  BY <1>0 DEF AddStores, Added, TypeOK
<1>3. /\ queue_size \in Nat /\ queue_size' = queue_size + 1
      /\ \A k \in 0..queue_size :
            Pending(k)' = IF k = queue_size THEN t ELSE Pending(k)
  BY StoreAppends
<1>4. \A k \in 0..queue_size'-1 :
         k \in 0..queue_size /\ (k = queue_size \/ k \in 0..queue_size-1)
  BY <1>3
<1>5. InQueue' = InQueue \cup {t}
  <2>1. InQueue' \subseteq InQueue \cup {t}
    BY <1>3, <1>4 DEF InQueue
  <2>2. queue_size \in 0..queue_size'-1
        /\ \A k \in 0..queue_size-1 : k \in 0..queue_size'-1 /\ k # queue_size
    BY <1>3
  <2>3. \A k \in 0..queue_size-1 : Pending(k) \in InQueue'
    <3> SUFFICES ASSUME NEW k \in 0..queue_size-1 PROVE Pending(k) \in InQueue'
      OBVIOUS
    <3>1. Pending(k)' = Pending(k) /\ k \in 0..queue_size'-1
      BY <1>3, <1>4, <2>2
    <3> QED
      BY <3>1 DEF InQueue
  <2>4. t \in InQueue'
    <3>1. \E k \in 0..queue_size'-1 : Pending(k)' = t
      BY <1>3, <1>4, <2>2
    <3> QED
      BY <3>1 DEF InQueue
  <2> QED
    BY <2>1, <2>3, <2>4 DEF InQueue
<1>6. /\ Held' = Held
      /\ \A w \in Slots : Holding(w)' <=> Holding(w)
  BY <1>1 DEF OnlyWakes, Held, Holding
<1>7. \A j, k \in 0..queue_size'-1 : Pending(j)' = Pending(k)' => j = k
  <2>1. \A k \in 0..queue_size-1 : Pending(k) \in InQueue
    BY DEF InQueue
  <2>2. t \notin InQueue
    BY <1>2 DEF NoTaskLostOrDuplicated
  <2> QED
    BY <1>3, <1>4, <2>1, <2>2 DEF NoTaskLostOrDuplicated
<1> QED
  BY <1>1, <1>2, <1>5, <1>6, <1>7 DEF NoTaskLostOrDuplicated

LEMMA ManagerKeepsHands ==
  ASSUME TypeOK, Manager
  PROVE  \A w \in Slots : Holding(w)' <=> Holding(w)
<1>1. CASE ManagerGrow
  BY <1>1, NewSlotsFree DEF ManagerGrow, Holding, TypeOK
<1>2. CASE OnlyWakes
  BY <1>2 DEF OnlyWakes, Holding
<1> QED
  BY <1>1, <1>2, StillWakes, SignalWakes DEF Manager, ManagerTop, ManagerRead,
     ManagerReadBusy, ManagerShrink, ManagerSignal, workVars

LEMMA TaskStep ==
  PoolInv /\ NoTaskLostOrDuplicated /\ [Next]_vars => NoTaskLostOrDuplicated'
<1> SUFFICES ASSUME PoolInv, NoTaskLostOrDuplicated, [Next]_vars
             PROVE  NoTaskLostOrDuplicated'
  OBVIOUS
<1>0. TypeOK
  BY DEF PoolInv
<1>1. CASE \E w \in Slots : Worker(w)
  BY <1>1, WorkerKeepsTasks
<1>2. CASE \E t \in Tasks : AddStores(t)
  BY <1>2, StoreKeepsTasks
<1>3. CASE Manager
  <2>1. UNCHANGED <<queueVars, task, done, apc>>
    BY <1>3 DEF Manager, ManagerTop, ManagerRead, ManagerReadBusy, ManagerGrow,
       ManagerShrink, ManagerSignal, workVars
  <2>2. \A w \in Slots : Holding(w)' <=> Holding(w)
    BY <1>0, <1>3, ManagerKeepsHands
  <2> QED
    BY <2>1, <2>2, TaskFrame DEF Added
<1>4. CASE \/ \E t \in Tasks : AddWaits(t) \/ AddRejected(t) \/ SpuriousWakeAdder(t)
           \/ Destroyer
           \/ UNCHANGED vars
  <2>1. OnlyWakes
    BY <1>0, <1>4, OthersOnlyWake DEF Adder, Add
  <2>2. UNCHANGED <<queueVars, task, done>>
    BY <1>4 DEF AddWaits, AddRejected, SpuriousWakeAdder, Destroyer, DestroySet,
       DestroyJoinManager, DestroyBroadcast, DestroyJoin, FreeArrays, FreePool,
       vars, workVars
  <2>3. Added' = Added
    BY <1>0, <1>4 DEF AddWaits, AddRejected, SpuriousWakeAdder, Destroyer,
       DestroySet, DestroyJoinManager, DestroyBroadcast, DestroyJoin, FreeArrays,
       FreePool, vars, Added, TypeOK
  <2>4. \A w \in Slots : Holding(w)' <=> Holding(w)
    BY <2>1 DEF OnlyWakes, Holding
  <2> QED
    BY <2>2, <2>3, <2>4, TaskFrame
<1> QED
  BY <1>1, <1>2, <1>3, <1>4 DEF Next, Adder, Add

\* Every added task is in exactly one place, the ring, one worker's hands or
\* done, through every interleaving of adders, workers that retire or quit, a
\* manager that recycles slots and a shutdown (main.cpp 160-204, 241-250,
\* 292-302).
THEOREM NoTaskIsLostOrDuplicated == Spec => []NoTaskLostOrDuplicated
  BY PoolInvariant, TaskInit, TaskStep, PTL DEF Spec

-----------------------------------------------------------------------------
(***************************************************************************)
(* The pool implements the queue of TaskPool.  WorkerTake is Start,        *)
(* WorkerRun is Finish, AddStores is Submit, DestroySet is Close, and      *)
(* every other step leaves the abstract state alone.                       *)
(***************************************************************************)

\* The abstract queue: what the refinement mapping of ThreadPool gives.
PendingSeq == [k \in 1..queue_size |-> Pending(k - 1)]

-----------------------------------------------------------------------------
(* Sequences given as functions on 1..n. *)

LEMMA SeqOfFunction ==
  ASSUME NEW S, NEW n \in Nat, NEW q \in [1..n -> S]
  PROVE  q \in Seq(S) /\ Len(q) = n /\ (q = <<>> <=> n = 0)
  OBVIOUS

LEMMA AppendOfFunction ==
  ASSUME NEW S, NEW n \in Nat, NEW q \in [1..n -> S], NEW t \in S,
         NEW r \in [1..n+1 -> S], r[n+1] = t, \A k \in 1..n : r[k] = q[k]
  PROVE  r = Append(q, t)
<1>1. q \in Seq(S) /\ Len(q) = n
  BY SeqOfFunction
<1>2. /\ Append(q, t) \in Seq(S) /\ Len(Append(q, t)) = n + 1
      /\ \A k \in 1..n : Append(q, t)[k] = q[k]
      /\ Append(q, t)[n+1] = t
  BY <1>1, AppendProperties
<1>3. r \in Seq(S) /\ Len(r) = n + 1
  BY SeqOfFunction
<1>4. \A k \in 1..n+1 : r[k] = Append(q, t)[k]
  BY <1>2
<1> QED
  BY <1>2, <1>3, <1>4, SeqEqual

LEMMA TailOfFunction ==
  ASSUME NEW S, NEW n \in Nat, NEW q \in [1..n+1 -> S],
         NEW r \in [1..n -> S], \A k \in 1..n : r[k] = q[k+1]
  PROVE  q # <<>> /\ Head(q) = q[1] /\ r = Tail(q)
<1>1. q \in Seq(S) /\ Len(q) = n + 1 /\ q # <<>>
  BY SeqOfFunction
<1>2. /\ Tail(q) \in Seq(S) /\ Len(Tail(q)) = n
      /\ \A k \in 1..n : Tail(q)[k] = q[k+1]
      /\ Head(q) = q[1]
  BY <1>1, HeadTailProperties
<1>3. r \in Seq(S) /\ Len(r) = n
  BY SeqOfFunction
<1> QED
  BY <1>1, <1>2, <1>3, SeqEqual

-----------------------------------------------------------------------------
(* The mapping, one lemma per abstract action. *)

LEMMA PendingSeqType ==
  ASSUME PoolInv PROVE PendingSeq \in [1..queue_size -> Tasks]
<1>1. ASSUME NEW k \in 1..queue_size PROVE Pending(k - 1) \in Tasks
  <2>1. k - 1 \in 0..queue_size-1
    BY DEF PoolInv, TypeOK
  <2> QED
    BY <2>1 DEF PoolInv, RingFilled
<1> QED
  BY <1>1 DEF PendingSeq

\* What the abstract queue holds is what the ring holds.
LEMMA QueuedIsInQueue == ASSUME PoolInv PROVE Abstract!Queued = InQueue
<1>1. queue_size \in Nat /\ PendingSeq \in [1..queue_size -> Tasks]
  BY PendingSeqType DEF PoolInv, TypeOK
<1>2. Len(PendingSeq) = queue_size
  BY <1>1, SeqOfFunction
<1>3. Abstract!Queued = {PendingSeq[i] : i \in 1..queue_size}
  BY <1>2 DEF Abstract!Queued, PendingSeq
<1>4. ASSUME NEW i \in 1..queue_size
      PROVE  PendingSeq[i] = Pending(i - 1) /\ i - 1 \in 0..queue_size-1
  BY <1>1 DEF PendingSeq
<1>5. ASSUME NEW k \in 0..queue_size-1
      PROVE  k + 1 \in 1..queue_size /\ PendingSeq[k + 1] = Pending(k)
  <2>1. k + 1 \in 1..queue_size /\ (k + 1) - 1 = k
    BY <1>1
  <2> QED
    BY <2>1 DEF PendingSeq
<1> QED
  BY <1>3, <1>4, <1>5 DEF InQueue

LEMMA InitRefines == Init => Abstract!Init
<1> SUFFICES ASSUME Init PROVE Abstract!Init
  OBVIOUS
<1>1. queue_size = 0 /\ done = {} /\ shutdown = FALSE
  BY DEF Init
<1>2. Held = {}
  BY DEF Init, Held, Holding
<1>3. [k \in 1..queue_size |-> Pending(k - 1)] = <<>>
  BY <1>1
<1> QED
  BY <1>1, <1>2, <1>3 DEF Abstract!Init

LEMMA StoreRefines ==
  ASSUME PoolInv, NoTaskLostOrDuplicated, NEW t \in Tasks, AddStores(t)
  PROVE  Abstract!Submit(t)
<1>0. TypeOK
  BY DEF PoolInv
<1>1. /\ queue_size \in 0..queue_max_size-1 /\ queue_size' = queue_size + 1
      /\ \A k \in 0..queue_size :
            Pending(k)' = IF k = queue_size THEN t ELSE Pending(k)
  BY StoreAppends
<1>2. /\ queue_size \in Nat
      /\ PendingSeq \in [1..queue_size -> Tasks]
      /\ Len(PendingSeq) = queue_size
  BY <1>0, PendingSeqType, SeqOfFunction DEF TypeOK
<1>3. PendingSeq' = Append(PendingSeq, t)
  <2>1. PendingSeq' = [k \in 1..queue_size+1 |-> Pending(k - 1)']
    BY <1>1 DEF PendingSeq
  <2>2. ASSUME NEW k \in 1..queue_size+1
        PROVE  PendingSeq'[k] = IF k = queue_size + 1 THEN t ELSE PendingSeq[k]
    <3>1. k - 1 \in 0..queue_size /\ (k - 1 = queue_size <=> k = queue_size + 1)
          /\ (k # queue_size + 1 => k \in 1..queue_size)
      BY <1>2
    <3>2. Pending(k - 1)' = IF k - 1 = queue_size THEN t ELSE Pending(k - 1)
      BY <1>1, <3>1
    <3> QED
      BY <2>1, <3>1, <3>2 DEF PendingSeq
  <2>3. PendingSeq' \in [1..queue_size+1 -> Tasks]
    <3>1. \A k \in 1..queue_size+1 : PendingSeq'[k] \in Tasks
      BY <1>2, <2>2
    <3>2. PendingSeq' = [k \in 1..queue_size+1 |-> PendingSeq'[k]]
      BY <2>1
    <3> QED
      BY <3>1, <3>2
  <2>4. PendingSeq'[queue_size+1] = t
        /\ \A k \in 1..queue_size : PendingSeq'[k] = PendingSeq[k]
    BY <1>2, <2>2
  <2> QED
    BY <1>2, <2>3, <2>4, AppendOfFunction
<1>4. Held' = Held /\ done' = done /\ shutdown' = shutdown /\ ~shutdown
  <2>1. OnlyWakes
    BY <1>0, SignalWakes DEF AddStores
  <2> QED
    BY <2>1, WakesHold DEF AddStores, dstVars, Held, Holding, OnlyWakes
<1>5. t \notin Abstract!Queued \cup Held \cup done
  BY QueuedIsInQueue DEF AddStores, NoTaskLostOrDuplicated, Added
<1>6. Len(PendingSeq) < queue_max_size
  BY <1>1, <1>2, PoolAssumption
<1> QED
  BY <1>3, <1>4, <1>5, <1>6, Zenon DEF Abstract!Submit, PendingSeq

\* A worker that takes a task has none, so fewer than max_thr_num tasks run.
LEMMA RoomToRun ==
  ASSUME PoolInv, NoTaskLostOrDuplicated, NEW w \in Slots, ~Holding(w)
  PROVE  Cardinality(Held) < max_thr_num
<1> DEFINE Holders == {v \in Slots : Holding(v)}
           HeldBy == [v \in Holders |-> task[v]]
<1>1. Holders \in SUBSET (Slots \ {w})
  OBVIOUS
<1>2. /\ IsFiniteSet(Slots \ {w})
      /\ Cardinality(Slots \ {w}) = max_thr_num - 1
  BY CountedSetsFinite, FS_RemoveElement
<1>3. IsFiniteSet(Holders) /\ Cardinality(Holders) <= max_thr_num - 1
  <2> HIDE DEF Holders
  <2> QED
    BY <1>1, <1>2, FS_Subset
<1>4. HeldBy \in Surjection(Holders, Held)
  BY DEF Surjection, Held
<1>5. IsFiniteSet(Held) /\ Cardinality(Held) <= Cardinality(Holders)
  <2> HIDE DEF Holders, HeldBy
  <2> QED
    BY <1>3, <1>4, FS_Surjection
<1>6. Cardinality(Held) \in Nat /\ Cardinality(Holders) \in Nat
  BY <1>3, <1>5, FS_CardinalityType
<1> QED
  BY <1>3, <1>5, <1>6, PoolAssumption

\* The Cardinality TaskPool uses is the one used here.
LEMMA SameCardinality == Abstract!Cardinality(Held) = Cardinality(Held)
  BY DEF Abstract!Cardinality, Cardinality

LEMMA TakeRefines ==
  ASSUME PoolInv, NoTaskLostOrDuplicated, NEW w \in Slots, WorkerTake(w)
  PROVE  Abstract!Start
<1>0. TypeOK
  BY DEF PoolInv
<1>1. /\ queue_size \in 1..queue_max_size /\ queue_size' = queue_size - 1
      /\ task'[w] = Pending(0)
      /\ \A k \in 0..queue_size'-1 : Pending(k)' = Pending(k + 1)
  BY TakeShifts
<1> DEFINE n == queue_size - 1
<1>2. /\ n \in Nat /\ n + 1 = queue_size /\ queue_size' = n
      /\ PendingSeq \in [1..n+1 -> Tasks]
  BY <1>1, PendingSeqType
<1>3. PendingSeq # <<>> /\ Head(PendingSeq) = Pending(0)
      /\ PendingSeq' = Tail(PendingSeq)
  <2>1. PendingSeq' = [k \in 1..n |-> Pending(k - 1)']
    BY <1>2 DEF PendingSeq
  <2>2. ASSUME NEW k \in 1..n
        PROVE  PendingSeq'[k] = PendingSeq[k + 1] /\ PendingSeq[k + 1] \in Tasks
    <3>1. k - 1 \in 0..n-1 /\ (k - 1) + 1 = k /\ k + 1 \in 1..n+1
          /\ (k + 1) - 1 = k
      BY <1>2
    <3>2. Pending(k - 1)' = Pending((k - 1) + 1)
      BY <1>1, <1>2, <3>1
    <3>3. PendingSeq[k + 1] = Pending((k + 1) - 1)
      BY <1>2, <3>1 DEF PendingSeq
    <3> QED
      BY <1>2, <2>1, <3>1, <3>2, <3>3
  <2>3. PendingSeq' \in [1..n -> Tasks]
    <3>1. PendingSeq' = [k \in 1..n |-> PendingSeq'[k]]
      BY <2>1
    <3> QED
      BY <2>2, <3>1
  <2>4. PendingSeq[1] = Pending(0)
    <3>1. 1 \in 1..queue_size /\ 1 - 1 = 0
      BY <1>2
    <3> QED
      BY <3>1 DEF PendingSeq
  <2> HIDE DEF n
  <2> QED
    BY <1>2, <2>2, <2>3, <2>4, TailOfFunction
<1>4. /\ OnlyGoes(w, "loop", "taken")
      /\ \A v \in Slots \ {w} : task'[v] = task[v]
      /\ done' = done /\ shutdown' = shutdown /\ ~shutdown
  BY <1>0, GoesMoves DEF WorkerTake, MayTake, WorkerPC, TypeOK, dstVars
<1>5. ~Holding(w) /\ Holding(w)' /\ \A v \in Slots \ {w} : Holding(v)' <=> Holding(v)
  BY <1>4 DEF OnlyGoes, Holding
<1>6. Held' = Held \cup {Pending(0)}
  BY <1>1, <1>4, <1>5 DEF Held
<1>7. Abstract!Cardinality(Held) < max_thr_num
  BY <1>5, RoomToRun, SameCardinality
<1>8. Held' = Held \cup {Head(PendingSeq)}
  BY <1>3, <1>6
<1>9. UNCHANGED <<done, shutdown>> /\ (shutdown => FALSE)
  BY <1>4
<1> HIDE DEF n
<1> QED
  BY <1>3, <1>7, <1>8, <1>9, Zenon DEF Abstract!Start, PendingSeq

LEMMA RunRefines ==
  ASSUME PoolInv, NoTaskLostOrDuplicated, NEW w \in Slots, WorkerRun(w)
  PROVE  task[w] \in Tasks /\ Abstract!Finish(task[w])
<1>0. TypeOK
  BY DEF PoolInv
<1>1. /\ OnlyGoes(w, "running", "ran")
      /\ \A v \in Slots \ {w} : task'[v] = task[v]
      /\ done' = done \cup {task[w]}
      /\ UNCHANGED <<queueVars, shutdown>>
  BY <1>0, GoesMoves DEF WorkerRun, WorkerPC, TypeOK, dstVars
<1>2. /\ Holding(w) /\ ~Holding(w)'
      /\ \A v \in Slots \ {w} : Holding(v)' <=> Holding(v)
  BY <1>1 DEF OnlyGoes, Holding
<1>3. task[w] \in Held /\ Held' = Held \ {task[w]}
  BY <1>1, <1>2 DEF Held, NoTaskLostOrDuplicated
<1>4. PendingSeq' = PendingSeq
  BY <1>1 DEF PendingSeq, Pending, queueVars
<1>5. task[w] \in Tasks
  BY <1>2 DEF PoolInv, RingFilled
<1> QED
  BY <1>1, <1>3, <1>4, <1>5 DEF Abstract!Finish, PendingSeq

LEMMA StepRefines ==
  PoolInv /\ NoTaskLostOrDuplicated /\ [Next]_vars => [Abstract!Next]_Abstract!vars
<1> SUFFICES ASSUME PoolInv, NoTaskLostOrDuplicated, [Next]_vars
             PROVE  [Abstract!Next]_Abstract!vars
  OBVIOUS
<1>0. TypeOK
  BY DEF PoolInv
\* Any other step keeps the ring, the hands and the flag.
<1>1. ASSUME UNCHANGED <<queueVars, task, done, shutdown>>,
             \A w \in Slots : Holding(w)' <=> Holding(w)
      PROVE  UNCHANGED Abstract!vars
  <2>1. PendingSeq' = PendingSeq
    BY <1>1 DEF PendingSeq, Pending, queueVars
  <2>2. Held' = Held
    BY <1>1 DEF Held
  <2> QED
    BY <1>1, <2>1, <2>2 DEF Abstract!vars, PendingSeq
<1>2. CASE \E w \in Slots : WorkerTake(w) \/ WorkerRun(w)
  BY <1>2, TakeRefines, RunRefines DEF Abstract!Next
<1>3. CASE \E t \in Tasks : AddStores(t)
  BY <1>3, StoreRefines DEF Abstract!Next
<1>4. CASE DestroySet
  <2>1. UNCHANGED <<queueVars, wpc, task, done>> /\ shutdown' = TRUE
    BY <1>4 DEF DestroySet, workVars
  <2>2. PendingSeq' = PendingSeq /\ Held' = Held
    BY <2>1 DEF PendingSeq, Pending, queueVars, Held, Holding
  <2>3. CASE shutdown
    BY <1>0, <2>1, <2>2, <2>3 DEF Abstract!vars, PendingSeq, TypeOK
  <2>4. CASE ~shutdown
    <3>1. Abstract!Close
      BY <2>1, <2>2, <2>4 DEF Abstract!Close, PendingSeq
    <3> QED
      BY <3>1 DEF Abstract!Next
  <2> QED
    BY <2>3, <2>4
<1>5. CASE \E w \in Slots : Worker(w) /\ ~WorkerTake(w) /\ ~WorkerRun(w)
  <2>1. PICK w \in Slots : Worker(w) /\ ~WorkerTake(w) /\ ~WorkerRun(w)
    BY <1>5
  <2>2. UNCHANGED <<queueVars, task, done, shutdown>>
    BY <2>1 DEF Worker, WorkerTakesLock, WorkerGoesOn, WorkerLock, WorkerTest,
       WorkerWait, SpuriousWake, WorkerWake, WorkerQuit, WorkerBusy, WorkerIdle,
       WorkerExit, dstVars
  <2>3. \A v \in Slots : Holding(v)' <=> Holding(v)
    BY <1>0, <2>1 DEF Worker, WorkerTakesLock, WorkerGoesOn, WorkerLock,
       WorkerTest, WorkerWait, SpuriousWake, WorkerWake, WorkerQuit, WorkerBusy,
       WorkerIdle, WorkerExit, Goes, Holding, TypeOK
  <2> QED
    BY <1>1, <2>2, <2>3
<1>6. CASE Manager
  <2>1. UNCHANGED <<queueVars, task, done, shutdown>>
    BY <1>6 DEF Manager, ManagerTop, ManagerRead, ManagerReadBusy, ManagerGrow,
       ManagerShrink, ManagerSignal, workVars, dstVars
  <2>2. \A w \in Slots : Holding(w)' <=> Holding(w)
    BY <1>0, <1>6, ManagerKeepsHands
  <2> QED
    BY <1>1, <2>1, <2>2
<1>7. CASE \/ \E t \in Tasks : AddWaits(t) \/ AddRejected(t) \/ SpuriousWakeAdder(t)
           \/ Destroyer /\ ~DestroySet
           \/ UNCHANGED vars
  <2>1. OnlyWakes
    BY <1>0, <1>7, OthersOnlyWake DEF Adder, Add
  <2>2. UNCHANGED <<queueVars, task, done, shutdown>>
    BY <1>7 DEF AddWaits, AddRejected, SpuriousWakeAdder, Destroyer,
       DestroyJoinManager, DestroyBroadcast, DestroyJoin, FreeArrays, FreePool,
       vars, workVars, dstVars
  <2>3. \A w \in Slots : Holding(w)' <=> Holding(w)
    BY <2>1 DEF OnlyWakes, Holding
  <2> QED
    BY <1>1, <2>2, <2>3
<1> QED
  BY <1>2, <1>3, <1>4, <1>5, <1>6, <1>7 DEF Next, Adder, Add

\* The thread pool is a bounded first-in first-out queue: tasks start in the
\* order threadpool_add stored them, each at most once, at most max_thr_num at
\* a time, and none after threadpool_destory has set shutdown (main.cpp
\* 176-195, 284-302, 361).
THEOREM PoolImplementsTaskPool == Spec => ImplementsTaskPool
<1>1. Spec => [](PoolInv /\ NoTaskLostOrDuplicated)
  BY PoolInvariant, NoTaskIsLostOrDuplicated, PTL
<1> QED
  BY <1>1, InitRefines, StepRefines, PTL
     DEF Spec, ImplementsTaskPool, Abstract!Spec
=============================================================================
