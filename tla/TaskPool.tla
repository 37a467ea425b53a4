------------------------------ MODULE TaskPool ------------------------------
(***************************************************************************)
(* What a thread pool of this repository promises the code that submits    *)
(* tasks to it, with no threads, locks or condition variables: tasks wait  *)
(* in a bounded queue, are started in the order they were queued, each at  *)
(* most once, and never more than MaxRunning of them at a time.            *)
(*                                                                         *)
(* The two pools differ in what closing means.  threadpool_destory()       *)
(* (socket/thread_Pool/main.cpp) abandons the tasks still queued: nothing  *)
(* starts after the close.  ~ThreadPool() (thread_Pool/C11/ThreadPool.h)   *)
(* drains them.  DrainsOnClose tells the two apart.                        *)
(***************************************************************************)
EXTENDS Naturals, Sequences, FiniteSets

CONSTANTS Tasks,          \* the tasks that may be submitted
          Capacity,       \* how many tasks the queue holds
          MaxRunning,     \* how many tasks may run at the same time
          DrainsOnClose   \* are queued tasks still started after the close?

VARIABLES queue,          \* tasks submitted and not started, oldest first
          running,        \* tasks started and not finished
          finished,       \* tasks whose function has returned
          closed          \* has the pool been closed?

vars == <<queue, running, finished, closed>>

Queued == {queue[i] : i \in 1..Len(queue)}

Init == /\ queue = <<>>
        /\ running = {}
        /\ finished = {}
        /\ closed = FALSE

Submit(t) == /\ ~closed
             /\ Len(queue) < Capacity
             /\ t \notin Queued \cup running \cup finished
             /\ queue' = Append(queue, t)
             /\ UNCHANGED <<running, finished, closed>>

Start == /\ queue # <<>>
         /\ closed => DrainsOnClose
         /\ Cardinality(running) < MaxRunning
         /\ running' = running \cup {Head(queue)}
         /\ queue' = Tail(queue)
         /\ UNCHANGED <<finished, closed>>

Finish(t) == /\ t \in running
             /\ running' = running \ {t}
             /\ finished' = finished \cup {t}
             /\ UNCHANGED <<queue, closed>>

Close == /\ ~closed
         /\ closed' = TRUE
         /\ UNCHANGED <<queue, running, finished>>

Next == \/ \E t \in Tasks : Submit(t) \/ Finish(t)
        \/ Start
        \/ Close

Spec == Init /\ [][Next]_vars
=============================================================================
