---------------------------- MODULE ThreadPoolC11 ----------------------------
(***************************************************************************)
(* The C++11 pool of socket/thread_Pool/C11/ThreadPool.h: a fixed number   *)
(* of workers, an unbounded queue, enqueue(), whose notify_one comes after *)
(* the mutex is released, and a destructor that lets the workers drain the *)
(* queue and joins them.                                                   *)
(*                                                                         *)
(* Granularity.  tasks and stop are written only under queue_mutex, and    *)
(* condition.wait tests its predicate under it, so each critical section   *)
(* is one action; the notifications, made without it, are actions of their *)
(* own.                                                                    *)
(*                                                                         *)
(* The callers.  Tasks are enqueued by the thread that owns the pool,      *)
(* before it runs the destructor, or by a task that is running, at any     *)
(* time: the destructor waits for such a task, and its enqueue throws.     *)
(*                                                                         *)
(* An operator that is used nowhere and stands before another is the other *)
(* with a slip in it (LeavesAtStop and MayLeave, ...): a property of this  *)
(* module tells the two apart.                                             *)
(***************************************************************************)
EXTENDS Naturals, Sequences, FiniteSets

CONSTANTS Workers,     \* the threads of the pool
          Tasks,       \* one element per call of enqueue
          Owner,       \* the thread that owns the pool
          Caller,      \* who makes each call: Owner, or another task
          NoTask

ASSUME PoolAssumption ==
  /\ Workers # {} /\ IsFiniteSet(Workers)
  /\ IsFiniteSet(Tasks)
  /\ Owner \notin Tasks /\ NoTask \notin Tasks
  /\ Caller \in [Tasks -> Tasks \cup {Owner}]

VARIABLES tasks,       \* the queue
          stop,
          wpc, task,   \* where each worker is, and the task it runs
          call,        \* where each call of enqueue is
          ready,       \* tasks whose future is ready
          dpc          \* where the destructor is

vars == <<tasks, stop, wpc, task, call, ready, dpc>>

TypeOK ==
  /\ tasks \in Seq(Tasks)
  /\ stop \in BOOLEAN
  /\ wpc \in [Workers -> {"start", "waiting", "woken", "running", "exited"}]
  /\ task \in [Workers -> Tasks \cup {NoTask}]
  /\ call \in [Tasks -> {"no", "pushed", "returned", "threw"}]
  /\ ready \in SUBSET Tasks
  /\ dpc \in {"no", "notify", "join", "gone"}

Init ==
  /\ tasks = <<>>
  /\ stop = FALSE
  /\ wpc = [w \in Workers |-> "start"]
  /\ task = [w \in Workers |-> NoTask]
  /\ call = [t \in Tasks |-> "no"]
  /\ ready = {}
  /\ dpc = "no"

-----------------------------------------------------------------------------
(* condition.notify_one() and notify_all(). *)

Waiting == {w \in Workers : wpc[w] = "waiting"}

NotifyNobody == UNCHANGED wpc
NotifyOne == \/ Waiting = {} /\ UNCHANGED wpc
             \/ \E w \in Waiting : wpc' = [wpc EXCEPT ![w] = "woken"]
NotifyAll ==
  wpc' = [w \in Workers |-> IF wpc[w] = "waiting" THEN "woken" ELSE wpc[w]]

-----------------------------------------------------------------------------
(* The worker's loop. *)

\* The predicate of condition.wait.
WaitsForTasksOnly == tasks # <<>>
MayPass == stop \/ tasks # <<>>

LeavesAtStop == stop
MayLeave == stop /\ tasks = <<>>

\* The thread has the mutex, at first or after a wake-up, and tests the
\* predicate.
WorkerWait(w) ==
  /\ wpc[w] \in {"start", "woken"} /\ ~MayPass
  /\ wpc' = [wpc EXCEPT ![w] = "waiting"]
  /\ UNCHANGED <<tasks, stop, task, call, ready, dpc>>

WorkerLeave(w) ==
  /\ wpc[w] \in {"start", "woken"} /\ MayLeave
  /\ wpc' = [wpc EXCEPT ![w] = "exited"]
  /\ UNCHANGED <<tasks, stop, task, call, ready, dpc>>

\* tasks.front(), read before pop().
FrontAfterPop == IF Len(tasks) > 1 THEN tasks[2] ELSE NoTask
Front == Head(tasks)

WorkerTake(w) ==
  /\ wpc[w] \in {"start", "woken"} /\ ~MayLeave /\ tasks # <<>>
  /\ task' = [task EXCEPT ![w] = Front]
  /\ tasks' = Tail(tasks)
  /\ wpc' = [wpc EXCEPT ![w] = "running"]
  /\ UNCHANGED <<stop, call, ready, dpc>>

\* No call of enqueue by c is between the push and its return.
Idle(c) == \A t \in Tasks : Caller[t] = c => call[t] # "pushed"

\* task() returns, or leaves by the exception of an enqueue that threw, which
\* packaged_task keeps: the future is ready either way.
WorkerRun(w) ==
  /\ wpc[w] = "running" /\ Idle(task[w])
  /\ ready' = ready \cup {task[w]}
  /\ task' = [task EXCEPT ![w] = NoTask]
  /\ wpc' = [wpc EXCEPT ![w] = "start"]
  /\ UNCHANGED <<tasks, stop, call, dpc>>

SpuriousWake(w) ==
  /\ wpc[w] = "waiting"
  /\ wpc' = [wpc EXCEPT ![w] = "woken"]
  /\ UNCHANGED <<tasks, stop, task, call, ready, dpc>>

-----------------------------------------------------------------------------
(* enqueue(): the call for task t. *)

\* The caller runs, is in no other call, and has had no exception.
CanCall(t) ==
  /\ call[t] = "no"
  /\ \/ Caller[t] = Owner /\ dpc = "no"
     \/ \E w \in Workers : wpc[w] = "running" /\ task[w] = Caller[t]
  /\ \A u \in Tasks : Caller[u] = Caller[t] => call[u] \in {"no", "returned"}

AlwaysAccepts == TRUE
Accepts == ~stop

EnqueuePush(t) ==
  /\ CanCall(t) /\ Accepts
  /\ tasks' = Append(tasks, t)
  /\ call' = [call EXCEPT ![t] = "pushed"]
  /\ UNCHANGED <<stop, wpc, task, ready, dpc>>

EnqueueThrow(t) ==
  /\ CanCall(t) /\ ~Accepts
  /\ call' = [call EXCEPT ![t] = "threw"]
  /\ UNCHANGED <<tasks, stop, wpc, task, ready, dpc>>

EnqueueNotify(t) ==
  /\ call[t] = "pushed"
  /\ NotifyOne
  /\ call' = [call EXCEPT ![t] = "returned"]
  /\ UNCHANGED <<tasks, stop, task, ready, dpc>>

-----------------------------------------------------------------------------
(* ~ThreadPool(). *)

DestructorStop ==
  /\ dpc = "no" /\ Idle(Owner)
  /\ stop' = TRUE
  /\ dpc' = "notify"
  /\ UNCHANGED <<tasks, wpc, task, call, ready>>

DestructorNotify ==
  /\ dpc = "notify"
  /\ NotifyAll
  /\ dpc' = "join"
  /\ UNCHANGED <<tasks, stop, task, call, ready>>

DestructorJoin ==
  /\ dpc = "join"
  /\ \A w \in Workers : wpc[w] = "exited"
  /\ dpc' = "gone"
  /\ UNCHANGED <<tasks, stop, wpc, task, call, ready>>

-----------------------------------------------------------------------------
WorkerGoesOn(w) == \/ WorkerWait(w) \/ WorkerLeave(w)
                   \/ WorkerTake(w) \/ WorkerRun(w)
Enqueue(t) == EnqueuePush(t) \/ EnqueueThrow(t) \/ EnqueueNotify(t)
DestructorGoesOn == DestructorNotify \/ DestructorJoin

Next == \/ \E w \in Workers : WorkerGoesOn(w) \/ SpuriousWake(w)
        \/ \E t \in Tasks : Enqueue(t)
        \/ DestructorStop \/ DestructorGoesOn

Spec == Init /\ [][Next]_vars

\* Threads that can go on do, the mutex starves nobody, and tasks return.
\* Nobody has to call enqueue or the destructor.
Fairness == /\ \A w \in Workers : WF_vars(WorkerGoesOn(w))
            /\ \A t \in Tasks : WF_vars(EnqueueNotify(t))
            /\ WF_vars(DestructorGoesOn)

FairSpec == Spec /\ Fairness

-----------------------------------------------------------------------------
(* Safety. *)

Submitted == {t \in Tasks : call[t] \in {"pushed", "returned"}}
Held == {task[w] : w \in {v \in Workers : wpc[v] = "running"}}

\* notify_one comes after the unlock, so it may reach no sleeper, or one whose
\* task another worker has taken already (the comment at ThreadPool.h:84 fears a
\* deadlock). Still, whenever tasks are queued a worker is awake, or the
\* notification that will wake one is still to be made.
NoSleepOverWork ==
  tasks # <<>> => \/ \E w \in Workers : wpc[w] \in {"start", "woken", "running"}
                  \/ \E t \in Tasks : call[t] = "pushed"

\* No worker misses the end of the pool: once notify_all is done nobody sleeps
\* or falls asleep again (ThreadPool.h 45-46 and 89-93).
StopReachesWorkers == dpc \in {"join", "gone"} => Waiting = {}

\* When the destructor has joined the workers every task that was accepted has
\* run, and its future is ready (ThreadPool.h 47, 77-80, 94-95).
DestructorDrains == dpc = "gone" => Submitted = ready

-----------------------------------------------------------------------------
(* The pool as a queue of tasks: see TaskPool. *)
Abstract == INSTANCE TaskPool WITH
  Capacity <- Cardinality(Tasks),
  MaxRunning <- Cardinality(Workers),
  DrainsOnClose <- TRUE,
  queue <- tasks,
  running <- Held,
  finished <- ready,
  closed <- stop

\* Tasks start in the order they were pushed, each at most once, and none is
\* accepted after the destructor has set stop (ThreadPool.h 49-50, 76-80).
ImplementsTaskPool == Abstract!Spec

-----------------------------------------------------------------------------
(* Liveness. *)

\* The future of every accepted task becomes ready, with or without a
\* destructor that runs meanwhile.
FuturesBecomeReady == \A t \in Tasks : call[t] = "pushed" ~> t \in ready

\* The destructor returns.
DestructorReturns == dpc = "notify" ~> dpc = "gone"
=============================================================================
