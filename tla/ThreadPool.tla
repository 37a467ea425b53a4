----------------------------- MODULE ThreadPool -----------------------------
(***************************************************************************)
(* The pthread pool of socket/thread_Pool/main.cpp (socket/Server/Thread.cpp *)
(* is the same code): a fixed-size ring of tasks, between min_thr_num and  *)
(* max_thr_num worker threads, a manager thread that grows and shrinks the *)
(* pool, any number of threads that add tasks, and one that destroys it.   *)
(*                                                                         *)
(* Granularity.  A critical section of pool->lock is one action unless a   *)
(* thread that does not hold the lock can interfere with it.  `shutdown'   *)
(* is written and queue_not_empty is broadcast without the lock, so the    *)
(* worker's test of its wait condition and its pthread_cond_wait are two   *)
(* actions with the lock held between them.  The sections of               *)
(* pool->thread_counter hold one statement each and are one action.        *)
(*                                                                         *)
(* What happens to a thread that touches the pool after `delete pool' is   *)
(* not modelled: such a thread takes no further step, and FreeIsQuiet      *)
(* tells whether one exists.                                               *)
(*                                                                         *)
(* An operator that is used nowhere and stands before another is the other *)
(* with a slip in it (NeverWraps and Advance, LosesSignal and              *)
(* SignalNotEmpty, ...): a property of this module tells the two apart.    *)
(***************************************************************************)
EXTENDS Integers, FiniteSets, Sequences

CONSTANTS min_thr_num,          \* threadpool_create's parameters
          max_thr_num,
          queue_max_size,
          MIN_WAIT_TASK_NUM,    \* the macros, 10 and 10 in the source
          DEFAULT_THREAD_VARY,
          Tasks,                \* one element per call of threadpool_add
          NoTask,               \* the content of a ring slot never written
          Free,                 \* the value of an unlocked mutex
          KillSeesExited        \* does pthread_kill(tid,0) give ESRCH for a
                                \* thread that exited and was not joined?

ASSUME PoolAssumption ==
  /\ min_thr_num \in Nat \ {0}
  /\ max_thr_num \in Nat \ {0}
  /\ min_thr_num <= max_thr_num
  /\ queue_max_size \in Nat \ {0}
  /\ MIN_WAIT_TASK_NUM \in Nat
  /\ DEFAULT_THREAD_VARY \in Nat
  /\ NoTask \notin Tasks
  /\ Free \notin 0..max_thr_num-1
  /\ KillSeesExited \in BOOLEAN

Slots == 0..max_thr_num-1       \* indices of pool->threads
Ring == 0..queue_max_size-1     \* indices of pool->task_queue

VARIABLES
  lock,                 \* holder of pool->lock: a worker, or Free
  task_queue, queue_front, queue_rear, queue_size,
  live_thr_num, busy_thr_num, wait_exit_thr_num,
  shutdown,
  wpc,                  \* where the thread of each slot is
  task,                 \* the task each worker has taken and not finished
  mpc, seen, signals,   \* manager: where it is, what it read, signals to send
  apc,                  \* where each call of threadpool_add is
  dpc, di,              \* threadpool_destory: where it is, its loop index
  done                  \* the tasks whose function has returned

queueVars == <<task_queue, queue_front, queue_rear, queue_size>>
countVars == <<live_thr_num, busy_thr_num, wait_exit_thr_num>>
workVars == <<wpc, task, done>>
mgrVars == <<mpc, seen, signals>>
dstVars == <<shutdown, dpc, di>>
vars == <<lock, queueVars, countVars, workVars, mgrVars, apc, dstVars>>

(***************************************************************************)
(* Worker locations.                                                       *)
(*   none      threads[i] == 0                start    about to lock       *)
(*   loop      lock held, at the while test   towait   lock held, will wait *)
(*   waiting   in pthread_cond_wait           woken    wants the lock back *)
(*   taken     has a task, not counted busy   running  in the task function *)
(*   ran       task over, still counted busy                               *)
(*   retired   unlocked, before pthread_exit  exited   ended, joinable     *)
(*   quitting  saw shutdown, unlocked         gone     detached and ended  *)
(***************************************************************************)
WorkerPC == {"none", "start", "loop", "towait", "waiting", "woken", "taken",
             "running", "ran", "retired", "exited", "quitting", "gone"}
ManagerPC == {"top", "sleep", "busy", "grow", "shrink", "signal", "exited"}
AdderPC == {"idle", "full", "woken", "added", "rejected"}
DestroyPC == {"no", "joinmgr", "broadcast", "join", "free", "freelock", "freed"}

TypeOK ==
  /\ lock \in Slots \cup {Free}
  /\ task_queue \in [Ring -> Tasks \cup {NoTask}]
  /\ queue_front \in Ring /\ queue_rear \in Ring
  /\ queue_size \in 0..queue_max_size
  /\ live_thr_num \in Nat
  /\ busy_thr_num \in Int
  /\ wait_exit_thr_num \in 0..DEFAULT_THREAD_VARY
  /\ shutdown \in BOOLEAN
  /\ wpc \in [Slots -> WorkerPC]
  /\ task \in [Slots -> Tasks \cup {NoTask}]
  /\ mpc \in ManagerPC
  /\ seen \in [queue : Nat, live : Nat, busy : Int]
  /\ signals \in 0..DEFAULT_THREAD_VARY
  /\ apc \in [Tasks -> AdderPC]
  /\ dpc \in DestroyPC
  /\ di \in Nat
  /\ done \in SUBSET Tasks

NothingSeen == [queue |-> 0, live |-> 0, busy |-> 0]

\* threadpool_create: min_thr_num workers and the manager are started.
Init ==
  /\ lock = Free
  /\ task_queue = [i \in Ring |-> NoTask]
  /\ queue_front = 0 /\ queue_rear = 0 /\ queue_size = 0
  /\ live_thr_num = min_thr_num
  /\ busy_thr_num = 0
  /\ wait_exit_thr_num = 0
  /\ shutdown = FALSE
  /\ wpc = [i \in Slots |-> IF i < min_thr_num THEN "start" ELSE "none"]
  /\ task = [i \in Slots |-> NoTask]
  /\ mpc = "top" /\ seen = NothingSeen /\ signals = 0
  /\ apc = [t \in Tasks |-> "idle"]
  /\ dpc = "no" /\ di = 0
  /\ done = {}
-----------------------------------------------------------------------------
(* pthread condition variables and thread identity, as the pool uses them. *)

Waiting == {w \in Slots : wpc[w] = "waiting"}

LosesSignal == UNCHANGED wpc

\* pthread_cond_signal(queue_not_empty): wakes one waiter, if there is one.
SignalNotEmpty ==
  \/ Waiting = {} /\ UNCHANGED wpc
  \/ \E w \in Waiting : wpc' = [wpc EXCEPT ![w] = "woken"]

\* pthread_cond_broadcast(queue_not_empty)
BroadcastNotEmpty ==
  wpc' = [w \in Slots |-> IF wpc[w] = "waiting" THEN "woken" ELSE wpc[w]]

LosesBroadcast == UNCHANGED apc

\* pthread_cond_broadcast(queue_not_full)
BroadcastNotFull ==
  apc' = [t \in Tasks |-> IF apc[t] = "full" THEN "woken" ELSE apc[t]]

ReusesSlotOfBusyThread(i) == wpc[i] \in {"none", "taken", "running"}

\* threads[i] == 0 || !is_thread_alive(threads[i])
Reusable(i) ==
  \/ wpc[i] = "none"
  \/ KillSeesExited /\ wpc[i] \in {"exited", "gone"}

\* The pool's memory: threadpool_free deletes the two arrays first, the
\* structure with its locks last.
PoolThere == dpc # "freed"
ArraysThere == dpc \notin {"freelock", "freed"}

NeverWraps(i, size) == i + 1
Advance(i, size) == (i + 1) % size

-----------------------------------------------------------------------------
(* threadpool_thread: the worker in slot w. *)

Goes(w, from, to) == wpc[w] = from /\ wpc' = [wpc EXCEPT ![w] = to]

WorkerLock(w) ==
  /\ PoolThere /\ lock = Free /\ lock' = w
  /\ Goes(w, "start", "loop")
  /\ UNCHANGED <<queueVars, countVars, task, done, mgrVars, apc, dstVars>>

\* while (queue_size == 0 && !shutdown): the thread is going to wait.
WorkerTest(w) ==
  /\ PoolThere /\ queue_size = 0 /\ ~shutdown
  /\ Goes(w, "loop", "towait")
  /\ UNCHANGED <<lock, queueVars, countVars, task, done, mgrVars, apc, dstVars>>

\* pthread_cond_wait(queue_not_empty, lock) releases the lock and waits.
WorkerWait(w) ==
  /\ PoolThere /\ lock' = Free
  /\ Goes(w, "towait", "waiting")
  /\ UNCHANGED <<queueVars, countVars, task, done, mgrVars, apc, dstVars>>

\* POSIX lets pthread_cond_wait return without a signal.
SpuriousWake(w) ==
  /\ PoolThere /\ Goes(w, "waiting", "woken")
  /\ UNCHANGED <<lock, queueVars, countVars, task, done, mgrVars, apc, dstVars>>

IgnoresMinimum == wait_exit_thr_num > 0
Surplus == wait_exit_thr_num > 0 /\ live_thr_num > min_thr_num

ForgetsRetired == live_thr_num
LiveWithoutRetired == live_thr_num - 1

\* pthread_cond_wait returns with the lock; a surplus thread leaves, any
\* other goes back to the while test.
WorkerWake(w) ==
  /\ PoolThere /\ lock = Free
  /\ wait_exit_thr_num' = IF wait_exit_thr_num > 0
                          THEN wait_exit_thr_num - 1 ELSE 0
  /\ \/ /\ Surplus
        /\ live_thr_num' = LiveWithoutRetired
        /\ Goes(w, "woken", "retired")
        /\ UNCHANGED lock
     \/ /\ ~Surplus
        /\ Goes(w, "woken", "loop")
        /\ lock' = w
        /\ UNCHANGED live_thr_num
  /\ UNCHANGED <<queueVars, busy_thr_num, task, done, mgrVars, apc, dstVars>>

WorkerQuit(w) ==
  /\ PoolThere /\ shutdown /\ lock' = Free
  /\ Goes(w, "loop", "quitting")
  /\ UNCHANGED <<queueVars, countVars, task, done, mgrVars, apc, dstVars>>

TakesAfterShutdown == queue_size # 0
MayTake == queue_size # 0 /\ ~shutdown

WorkerTake(w) ==
  /\ ArraysThere /\ MayTake /\ lock' = Free
  /\ task' = [task EXCEPT ![w] = task_queue[queue_front]]
  /\ queue_front' = Advance(queue_front, queue_max_size)
  /\ queue_size' = queue_size - 1
  /\ BroadcastNotFull
  /\ Goes(w, "loop", "taken")
  /\ UNCHANGED <<task_queue, queue_rear, countVars, done, mgrVars, dstVars>>

WorkerBusy(w) ==
  /\ PoolThere
  /\ busy_thr_num' = busy_thr_num + 1
  /\ Goes(w, "taken", "running")
  /\ UNCHANGED <<lock, queueVars, live_thr_num, wait_exit_thr_num, task, done,
                 mgrVars, apc, dstVars>>

\* (*(task.function))(task.arg) returns.
WorkerRun(w) ==
  /\ Goes(w, "running", "ran")
  /\ done' = done \cup {task[w]}
  /\ task' = [task EXCEPT ![w] = NoTask]
  /\ UNCHANGED <<lock, queueVars, countVars, mgrVars, apc, dstVars>>

StaysCounted == busy_thr_num
BusyWithoutThis == busy_thr_num - 1

WorkerIdle(w) ==
  /\ PoolThere
  /\ busy_thr_num' = BusyWithoutThis
  /\ Goes(w, "ran", "start")
  /\ UNCHANGED <<lock, queueVars, live_thr_num, wait_exit_thr_num, task, done,
                 mgrVars, apc, dstVars>>

\* pthread_exit; a thread that saw shutdown detaches itself first.
WorkerExit(w) ==
  /\ Goes(w, "retired", "exited") \/ Goes(w, "quitting", "gone")
  /\ UNCHANGED <<lock, queueVars, countVars, task, done, mgrVars, apc, dstVars>>
-----------------------------------------------------------------------------
(* adjust_thread: the manager. *)

ManagerTop ==
  /\ mpc = "top"
  /\ mpc' = IF shutdown THEN "exited" ELSE "sleep"
  /\ UNCHANGED <<lock, queueVars, countVars, workVars, seen, signals, apc,
                 dstVars>>

\* sleep(DEFAULT_TIME) is over; queue_size and live_thr_num are read.
ManagerRead ==
  /\ mpc = "sleep" /\ lock = Free
  /\ seen' = [seen EXCEPT !.queue = queue_size, !.live = live_thr_num]
  /\ mpc' = "busy"
  /\ UNCHANGED <<lock, queueVars, countVars, workVars, signals, apc, dstVars>>

ManagerReadBusy ==
  /\ mpc = "busy"
  /\ seen' = [seen EXCEPT !.busy = busy_thr_num]
  /\ mpc' = "grow"
  /\ UNCHANGED <<lock, queueVars, countVars, workVars, signals, apc, dstVars>>

\* The slots the for loop gives a new thread: the first reusable ones, until
\* DEFAULT_THREAD_VARY are added or live_thr_num reaches max_thr_num.
Room == IF DEFAULT_THREAD_VARY <= max_thr_num - live_thr_num
        THEN DEFAULT_THREAD_VARY
        ELSE max_thr_num - live_thr_num
NewSlots ==
  {i \in Slots : /\ Reusable(i)
                 /\ Cardinality({j \in 0..i-1 : Reusable(j)}) < Room}

ShouldGrow == seen.queue >= MIN_WAIT_TASK_NUM /\ seen.live < max_thr_num

ManagerGrow ==
  /\ mpc = "grow"
  /\ \/ /\ ShouldGrow /\ lock = Free
        /\ wpc' = [i \in Slots |-> IF i \in NewSlots THEN "start" ELSE wpc[i]]
        /\ live_thr_num' = live_thr_num + Cardinality(NewSlots)
     \/ ~ShouldGrow /\ UNCHANGED <<wpc, live_thr_num>>
  /\ mpc' = "shrink"
  /\ UNCHANGED <<lock, queueVars, busy_thr_num, wait_exit_thr_num, task, seen,
                 signals, apc, dstVars, done>>

ShrinksLate == seen.busy * 2 < seen.live /\ seen.live > min_thr_num + 1
ShouldShrink == seen.busy * 2 < seen.live /\ seen.live > min_thr_num

ManagerShrink ==
  /\ mpc = "shrink"
  /\ \/ /\ ShouldShrink /\ lock = Free
        /\ wait_exit_thr_num' = DEFAULT_THREAD_VARY
        /\ signals' = DEFAULT_THREAD_VARY
        /\ mpc' = "signal"
     \/ /\ ~ShouldShrink
        /\ mpc' = "top"
        /\ UNCHANGED <<wait_exit_thr_num, signals>>
  /\ seen' = NothingSeen
  /\ UNCHANGED <<lock, queueVars, live_thr_num, busy_thr_num, workVars, apc,
                 dstVars>>

\* The DEFAULT_THREAD_VARY signals are sent without the lock.
ManagerSignal ==
  /\ mpc = "signal"
  /\ \/ /\ signals > 0
        /\ SignalNotEmpty
        /\ signals' = signals - 1
        /\ UNCHANGED mpc
     \/ /\ signals = 0
        /\ mpc' = "top"
        /\ UNCHANGED <<wpc, signals>>
  /\ UNCHANGED <<lock, queueVars, countVars, task, seen, apc, dstVars, done>>

-----------------------------------------------------------------------------
(* threadpool_add: the call that submits task t. *)

AddWaits(t) ==
  /\ ArraysThere /\ lock = Free /\ apc[t] \in {"idle", "woken"}
  /\ queue_size = queue_max_size /\ ~shutdown
  /\ apc' = [apc EXCEPT ![t] = "full"]
  /\ UNCHANGED <<lock, queueVars, countVars, workVars, mgrVars, dstVars>>

AddRejected(t) ==
  /\ ArraysThere /\ lock = Free /\ apc[t] \in {"idle", "woken"}
  /\ shutdown
  /\ BroadcastNotEmpty
  /\ apc' = [apc EXCEPT ![t] = "rejected"]
  /\ UNCHANGED <<lock, queueVars, countVars, task, mgrVars, dstVars, done>>

StoresPastRear(t) ==
  /\ queue_rear' = Advance(queue_rear, queue_max_size)
  /\ task_queue' = [task_queue EXCEPT ![queue_rear'] = t]
Store(t) ==
  /\ task_queue' = [task_queue EXCEPT ![queue_rear] = t]
  /\ queue_rear' = Advance(queue_rear, queue_max_size)

AddStores(t) ==
  /\ ArraysThere /\ lock = Free /\ apc[t] \in {"idle", "woken"}
  /\ queue_size # queue_max_size /\ ~shutdown
  /\ Store(t)
  /\ queue_size' = queue_size + 1
  /\ SignalNotEmpty
  /\ apc' = [apc EXCEPT ![t] = "added"]
  /\ UNCHANGED <<lock, queue_front, countVars, task, mgrVars, dstVars, done>>

Add(t) == AddWaits(t) \/ AddRejected(t) \/ AddStores(t)

\* POSIX lets the wait for queue_not_full return without a broadcast.
SpuriousWakeAdder(t) ==
  /\ ArraysThere /\ apc[t] = "full"
  /\ apc' = [apc EXCEPT ![t] = "woken"]
  /\ UNCHANGED <<lock, queueVars, countVars, workVars, mgrVars, dstVars>>

-----------------------------------------------------------------------------
(* threadpool_destory and threadpool_free. *)

DestroySet ==
  /\ dpc = "no"
  /\ shutdown' = TRUE
  /\ dpc' = "joinmgr"
  /\ UNCHANGED <<lock, queueVars, countVars, workVars, mgrVars, apc, di>>

DestroyJoinManager ==
  /\ dpc = "joinmgr" /\ mpc = "exited"
  /\ dpc' = "broadcast"
  /\ UNCHANGED <<lock, queueVars, countVars, shutdown, workVars, mgrVars, apc,
                 di>>

\* One broadcast per live thread; live_thr_num is read without the lock.
DestroyBroadcast ==
  /\ dpc = "broadcast"
  /\ \/ /\ di < live_thr_num
        /\ BroadcastNotEmpty
        /\ di' = di + 1
        /\ UNCHANGED dpc
     \/ /\ di >= live_thr_num
        /\ di' = 0
        /\ dpc' = "join"
        /\ UNCHANGED wpc
  /\ UNCHANGED <<lock, queueVars, countVars, shutdown, task, mgrVars, apc,
                 done>>

AllButTheLast == live_thr_num - 1
ToJoin == live_thr_num

\* pthread_join(threads[di]) returns when that thread has ended; when it has
\* detached itself the call fails, which nobody looks at.
DestroyJoin ==
  /\ dpc = "join"
  /\ \/ /\ di < ToJoin
        /\ di \in Slots /\ wpc[di] \in {"exited", "gone"}
        /\ di' = di + 1
        /\ UNCHANGED dpc
     \/ /\ di >= ToJoin
        /\ di' = 0
        /\ dpc' = "free"
  /\ UNCHANGED <<lock, queueVars, countVars, shutdown, workVars, mgrVars, apc>>

\* threadpool_free deletes task_queue and threads without the lock ...
FreeArrays ==
  /\ dpc = "free"
  /\ dpc' = "freelock"
  /\ UNCHANGED <<lock, queueVars, countVars, shutdown, workVars, mgrVars, apc,
                 di>>

\* ... takes the lock, destroys it and the conditions, and deletes the pool.
FreePool ==
  /\ dpc = "freelock" /\ lock = Free
  /\ dpc' = "freed"
  /\ UNCHANGED <<lock, queueVars, countVars, shutdown, workVars, mgrVars, apc,
                 di>>
-----------------------------------------------------------------------------
WorkerTakesLock(w) == WorkerLock(w) \/ WorkerWake(w)
WorkerGoesOn(w) ==
  \/ WorkerTest(w) \/ WorkerWait(w) \/ WorkerQuit(w) \/ WorkerTake(w)
  \/ WorkerBusy(w) \/ WorkerRun(w) \/ WorkerIdle(w) \/ WorkerExit(w)
Worker(w) == WorkerTakesLock(w) \/ WorkerGoesOn(w) \/ SpuriousWake(w)

Manager == \/ ManagerTop \/ ManagerRead \/ ManagerReadBusy \/ ManagerGrow
           \/ ManagerShrink \/ ManagerSignal
Adder(t) == Add(t) \/ SpuriousWakeAdder(t)
Destroyer == \/ DestroySet \/ DestroyJoinManager \/ DestroyBroadcast
             \/ DestroyJoin \/ FreeArrays \/ FreePool

Next == \/ \E w \in Slots : Worker(w)
        \/ Manager
        \/ \E t \in Tasks : Adder(t)
        \/ Destroyer

Spec == Init /\ [][Next]_vars

(***************************************************************************)
(* Fairness: a thread that can go on does (weak fairness); a thread that   *)
(* waits for a mutex gets it if the mutex is free again and again (strong  *)
(* fairness, since every holder lets go after a few statements but another *)
(* thread may take it first).  Task functions return.  Calls of            *)
(* threadpool_add and threadpool_destory need not happen, but once begun   *)
(* they go on.  Spurious wake-ups are never owed.  What the pool's own     *)
(* threads bring about needs the fairness of these alone: ThreadFairSpec.  *)
(***************************************************************************)
ThreadFairness ==
  /\ \A w \in Slots : /\ SF_vars(WorkerTakesLock(w))
                      /\ WF_vars(WorkerGoesOn(w))
  /\ SF_vars(Manager)
CallFairness ==
  /\ \A t \in Tasks : SF_vars(apc[t] = "woken" /\ Add(t))
  /\ SF_vars(dpc # "no" /\ Destroyer)

ThreadFairSpec == Spec /\ ThreadFairness
FairSpec == ThreadFairSpec /\ CallFairness

-----------------------------------------------------------------------------
(* Safety. *)

\* Threads that still execute the worker loop.
Alive(w) == wpc[w] \notin {"none", "retired", "exited", "quitting", "gone"}
Holding(w) == wpc[w] \in {"taken", "running"}
Added == {t \in Tasks : apc[t] = "added"}
Pending(k) == task_queue[(queue_front + k) % queue_max_size]
InQueue == {Pending(k) : k \in 0..queue_size-1}
Held == {task[w] : w \in {v \in Slots : Holding(v)}}

\* The ring's three numbers agree, and no worker ever takes a slot that was
\* not filled by threadpool_add (main.cpp 184-190 and 292-302).
RingConsistent ==
  /\ queue_rear = (queue_front + queue_size) % queue_max_size
  /\ NoTask \notin InQueue \cup Held

\* A task that was added is in exactly one place: the ring, one worker, or
\* done; in particular a thread that retires or quits carries none away
\* (main.cpp 160-172 and 177-186).
NoTaskLostOrDuplicated ==
  /\ Added = InQueue \cup Held \cup done
  /\ InQueue \cap Held = {} /\ (InQueue \cup Held) \cap done = {}
  /\ \A j, k \in 0..queue_size-1 : Pending(j) = Pending(k) => j = k
  /\ \A v, w \in Slots : Holding(v) /\ Holding(w) /\ task[v] = task[w] => v = w

\* While the pool is in service live_thr_num is the number of threads in the
\* worker loop, although the manager decides on stale reads and retiring
\* threads keep their slot for a while (main.cpp 164-171, 235-265).
LiveThreadsCounted ==
  ~shutdown => live_thr_num = Cardinality({w \in Slots : Alive(w)})

\* The pool never leaves the bounds given to threadpool_create, and never
\* counts more busy threads than live ones.
ThreadBounds ==
  /\ live_thr_num \in min_thr_num..max_thr_num
  /\ busy_thr_num \in 0..live_thr_num

\* A queue with tasks is never left to sleeping workers (main.cpp 303 "队列不可能
\* 还为空 唤醒阻塞的线程"): somebody is on the way to the queue.
NoStrandedTask ==
  queue_size > 0 /\ ~shutdown
    => \E w \in Slots : Alive(w) /\ wpc[w] \notin {"waiting", "towait"}

\* When threadpool_free deletes the pool, no worker will touch it again.
FreeIsQuiet ==
  dpc \in {"freelock", "freed"} => \A w \in Slots : ~Alive(w)

-----------------------------------------------------------------------------
(* The pool as a bounded queue of tasks: see TaskPool. *)
Abstract == INSTANCE TaskPool WITH
  Capacity <- queue_max_size,
  MaxRunning <- max_thr_num,
  DrainsOnClose <- FALSE,
  queue <- [k \in 1..queue_size |-> Pending(k - 1)],
  running <- Held,
  finished <- done,
  closed <- shutdown

\* Tasks are started in the order they were added, each at most once, never
\* more than max_thr_num at a time, and none after the pool is shut down.
ImplementsTaskPool == Abstract!Spec

-----------------------------------------------------------------------------
(* Liveness. *)

\* Every task added to a pool is executed, unless the pool is shut down
\* (main.cpp 184-204).
AddedTasksRun == \A t \in Tasks : apc[t] = "added" ~> t \in done \/ shutdown

\* A caller blocked on a full queue gets its task in, unless the pool is shut
\* down (main.cpp 284-286, 193).
BlockedAddersReturn ==
  \A t \in Tasks : apc[t] \in {"full", "woken"} ~> apc[t] = "added" \/ shutdown

\* A pool that is not shut down shrinks to min_thr_num once the load is over,
\* and stays there (main.cpp 254-265, 160-172).
PoolShrinksWhenIdle == []~shutdown => <>[](live_thr_num = min_thr_num)

\* threadpool_destory returns.
DestroyReturns == dpc = "joinmgr" ~> dpc = "freed"
=============================================================================
