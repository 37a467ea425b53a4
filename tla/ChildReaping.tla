---------------------------- MODULE ChildReaping ----------------------------
(***************************************************************************)
(* signal/recovery.cpp and signal/r2.cpp: a parent forks a number of       *)
(* children and collects them in a handler of SIGCHLD.  recovery.cpp       *)
(* blocks the signal before the first fork, r2.cpp after the last one.     *)
(* process_api/wait.cpp has one child and no handler: it asks for the      *)
(* child again and again.                                                  *)
(* Any number of SIGCHLDs that are not yet delivered are one pending       *)
(* signal, and one that is neither blocked nor caught is discarded.        *)
(*                                                                         *)
(* Granularity.  A system call is an action.  While the handler runs the   *)
(* parent's main program stands still, and SIGCHLD is blocked.             *)
(*                                                                         *)
(* An operator that is used nowhere and stands before another is the other *)
(* with a slip in it (WaitsOnce and AfterReap, ...): a property of this    *)
(* module tells the two apart.                                             *)
(***************************************************************************)
EXTENDS Naturals

CONSTANT N     \* the number of forks, 10 in the first two

ASSUME NAssumption == N \in Nat \ {0}

VARIABLES program,     \* which of the three programs runs
          ppc, i,      \* the parent: where it is, its loop index
          child,       \* the child of each turn of the loop
          blocked,     \* is SIGCHLD in the parent's signal mask?
          installed,   \* has it a handler?
          pending,
          hpc          \* where the handler is

vars == <<program, ppc, i, child, blocked, installed, pending, hpc>>

Children == 0..N-1

TypeOK ==
  /\ program \in {"recovery", "r2", "wait"}
  /\ ppc \in {"mask", "fork", "block", "install", "unblock", "serve", "poll",
             "exited"}
  /\ i \in 0..N
  /\ child \in [Children -> {"none", "running", "zombie", "reaped", "orphan"}]
  /\ blocked \in BOOLEAN /\ installed \in BOOLEAN /\ pending \in BOOLEAN
  /\ hpc \in {"off", "loop", "leaving"}

ForksFirst(p) == "fork"
FirstStep(p) == IF p = "recovery" THEN "mask" ELSE "fork"

Init ==
  /\ program \in {"recovery", "r2", "wait"}
  /\ ppc = FirstStep(program) /\ i = 0
  /\ child = [c \in Children |-> "none"]
  /\ blocked = FALSE /\ installed = FALSE /\ pending = FALSE
  /\ hpc = "off"
-----------------------------------------------------------------------------
(* The parent's main program. *)

At(p) == ppc = p /\ hpc = "off"

\* sigprocmask(SIG_BLOCK), before or after the loop.
Block ==
  /\ \/ At("mask") /\ ppc' = "fork"
     \/ At("block") /\ ppc' = "install"
  /\ blocked' = TRUE
  /\ UNCHANGED <<program, i, child, installed, pending, hpc>>

Forks == IF program = "wait" THEN 1 ELSE N

MoreForks == i < Forks

Fork ==
  /\ At("fork") /\ MoreForks
  /\ child' = [child EXCEPT ![i] = "running"]
  /\ i' = i + 1
  /\ UNCHANGED <<program, ppc, blocked, installed, pending, hpc>>

\* Only r2.cpp looks at a fork that fails: it exits, and leaves its children to
\* init.
ForkFails ==
  /\ At("fork") /\ MoreForks
  /\ \/ /\ program # "r2"
        /\ i' = i + 1
        /\ UNCHANGED <<ppc, child>>
     \/ /\ program = "r2"
        /\ ppc' = "exited"
        /\ child' = [c \in Children |-> IF child[c] = "none" THEN "none"
                                                             ELSE "orphan"]
        /\ UNCHANGED i
  /\ UNCHANGED <<program, blocked, installed, pending, hpc>>

ForkLoopEnds ==
  /\ At("fork") /\ ~MoreForks
  /\ ppc' = CASE program = "recovery" -> "install"
              [] program = "r2" -> "block"
              [] program = "wait" -> "poll"
  /\ UNCHANGED <<program, i, child, blocked, installed, pending, hpc>>

\* sigaction
Install ==
  /\ At("install")
  /\ installed' = TRUE
  /\ ppc' = "unblock"
  /\ UNCHANGED <<program, i, child, blocked, pending, hpc>>

\* sigprocmask(SIG_SETMASK, &old): then the parent only waits for signals.
Unblock ==
  /\ At("unblock")
  /\ blocked' = FALSE
  /\ ppc' = "serve"
  /\ UNCHANGED <<program, i, child, installed, pending, hpc>>
\* waitpid(WNOHANG) once a second, until it returns the child, or fails since
\* there is none.
PollChild ==
  /\ At("poll") /\ child[0] # "running"
  /\ child' = [child EXCEPT ![0] = IF @ = "zombie" THEN "reaped" ELSE @]
  /\ ppc' = "exited"
  /\ UNCHANGED <<program, i, blocked, installed, pending, hpc>>
-----------------------------------------------------------------------------
(* Children and the signal. *)

Zombies == {c \in Children : child[c] = "zombie"}

\* The default action of SIGCHLD is to ignore it; Linux keeps it all the same
\* while it is blocked.
Kept == blocked \/ installed

Die(c) ==
  /\ child[c] = "running"
  /\ child' = [child EXCEPT ![c] = "zombie"]
  /\ pending' = (pending \/ Kept)
  /\ UNCHANGED <<program, ppc, i, blocked, installed, hpc>>

Deliver ==
  /\ pending /\ installed /\ ~blocked /\ hpc = "off"
  /\ pending' = FALSE
  /\ hpc' = "loop"
  /\ UNCHANGED <<program, ppc, i, child, blocked, installed>>

WaitsOnce == "leaving"
AfterReap == "loop"

\* waitpid(WNOHANG) returns a child ...
Reap ==
  /\ hpc = "loop"
  /\ \E c \in Zombies : child' = [child EXCEPT ![c] = "reaped"]
  /\ hpc' = AfterReap
  /\ UNCHANGED <<program, ppc, i, blocked, installed, pending>>

\* ... or finds none that has ended.
ReapsNone ==
  /\ hpc = "loop" /\ Zombies = {}
  /\ hpc' = "leaving"
  /\ UNCHANGED <<program, ppc, i, child, blocked, installed, pending>>

HandlerReturns ==
  /\ hpc = "leaving"
  /\ hpc' = "off"
  /\ UNCHANGED <<program, ppc, i, child, blocked, installed, pending>>
-----------------------------------------------------------------------------
Main == \/ Block \/ Fork \/ ForkFails \/ ForkLoopEnds \/ Install \/ Unblock
        \/ PollChild
Handler == Deliver \/ Reap \/ ReapsNone \/ HandlerReturns

Next == Main \/ Handler \/ \E c \in Children : Die(c)

Spec == Init /\ [][Next]_vars

\* The parent is scheduled, and each child returns after a second.
FairSpec == /\ Spec
            /\ WF_vars(Main) /\ WF_vars(Handler)
            /\ \A c \in Children : WF_vars(Die(c))
-----------------------------------------------------------------------------
\* recovery.cpp never overlooks a child: while one has ended and is not
\* collected, a signal is pending or the handler has another waitpid to make --
\* whenever the child ended, before the handler was there, or between the
\* handler's last waitpid and its return (recovery.cpp 19, 37-41, 65-68).
ZombiesAreAnnounced ==
  program = "recovery" /\ Zombies # {} => pending \/ hpc = "loop"

\* Every child that was started is collected, those too whose signal became one
\* with another's (recovery.cpp 19, 37 "避免...变成僵尸进程", wait.cpp 24-30).  r2.cpp
\* overlooks children that end early.
EveryChildReaped ==
  \A c \in Children :
    program # "r2" /\ child[c] = "running" ~> child[c] = "reaped"
=============================================================================
