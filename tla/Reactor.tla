------------------------------ MODULE Reactor ------------------------------
(***************************************************************************)
(* The single-threaded reactor of socket/epoll/Reactor/main.cpp: a table   *)
(* gevents of connection slots whose last entry is the listening socket's, *)
(* a level-triggered epoll set that holds the address of a slot with every *)
(* descriptor, the callbacks acceptconn, recvdata and senddata, and a loop *)
(* that sweeps idle connections, waits, and calls the callbacks.           *)
(*                                                                         *)
(* Granularity.  The server has one thread: the sweep, epoll_wait and each *)
(* callback are one action, between which clients act and time passes.     *)
(* Time is counted in ticks and only as the age of a slot in use, from its *)
(* last_active on.                                                         *)
(*                                                                         *)
(* arg is always the address of the slot itself and is left out.  fcntl    *)
(* on a socket just accepted, socket, bind, listen and epoll_create do not *)
(* fail here.                                                              *)
(*                                                                         *)
(* An operator that is used nowhere and stands before another is the other *)
(* with a slip in it (ForgetsClose and Drop, ...): a property of this      *)
(* module tells the two apart.                                             *)
(***************************************************************************)
EXTENDS Sockets

CONSTANTS MAX_EVENTS,    \* 1024: slots for connections
          SCAN,          \* 100: slots the loop sweeps before each wait
          IDLE           \* 60: the age from which a connection is closed

ASSUME ReactorAssumption ==
  /\ MAX_EVENTS \in Nat \ {0}
  /\ SCAN \in 1..MAX_EVENTS
  /\ IDLE \in Nat \ {0}

Slots == 0..MAX_EVENTS
ConnSlots == 0..MAX_EVENTS-1
Last == MAX_EVENTS       \* the listening socket's slot

VARIABLES gevents,       \* struct myevent_s gevents[MAX_EVENTS+1]
          interest,      \* the epoll set: the slot and the events of each fd
          checkpos,      \* where the next sweep begins
          batch,         \* what epoll_wait reported and is still to be handled
          at,            \* where the loop is
          owed           \* units received from each client and not sent back

tableVars == <<gevents, interest>>
loopVars == <<checkpos, batch, at>>
vars == <<sockVars, tableVars, loopVars, owed>>

None == [slot |-> 0, events |-> "none"]     \* a descriptor not in the set

Event == [fd : {0} \cup Fds, events : {"none", "in", "out"},
          call_back : {"null", "acceptconn", "recvdata", "senddata"},
          status : {0, 1}, len : 0..1, age : 0..IDLE]

TypeOK ==
  /\ SocketsTypeOK
  /\ gevents \in [Slots -> Event]
  /\ interest \in [Fds -> [slot : Slots, events : {"none", "in", "out"}]]
  /\ checkpos \in 0..MAX_EVENTS
  /\ batch \in SUBSET [fd : Fds, slot : Slots, events : {"in", "out"}]
  /\ at \in {"sweep", "wait", "handle", "ended"}
  /\ owed \in [Clients -> 0..MaxData]

-----------------------------------------------------------------------------
(* eventset and eventadd on slot i, and what they leave in it. *)

\* eventset: everything but status is reset, buf and len with it.
EventSet(ev, fd, call_back) ==
  [ev EXCEPT !.fd = fd, !.events = "none", !.call_back = call_back,
             !.len = 0, !.age = 0]

\* eventadd sets events, and status if it was 0.
EventAdd(ev, events) == [ev EXCEPT !.events = events, !.status = 1]

\* EPOLL_CTL_ADD puts fd in the set, with the address of slot i.
Watched(fd, i, events) ==
  [interest EXCEPT ![fd] = [slot |-> i, events |-> events]]

Unused == [fd |-> 0, events |-> "none", call_back |-> "null", status |-> 0,
           len |-> 0, age |-> 0]

\* initListenSocket
ListenersSlot == EventAdd(EventSet(Unused, lfd, "acceptconn"), "in")

\* main, up to its loop
Init ==
  /\ SocketsInit
  /\ gevents = [i \in Slots |-> IF i = Last THEN ListenersSlot ELSE Unused]
  /\ interest = [f \in Fds |-> IF f = lfd THEN [slot |-> Last, events |-> "in"]
                                          ELSE None]
  /\ checkpos = 0 /\ batch = {} /\ at = "sweep"
  /\ owed = [c \in Clients |-> 0]

-----------------------------------------------------------------------------
(* The callbacks.  Each handles an event of slot i. *)

\* Two slips in Drop.
KeepsStatus(i) ==
  /\ UNCHANGED gevents
  /\ interest' = [interest EXCEPT ![gevents[i].fd] = None]
  /\ Close(gevents[i].fd)
ForgetsClose(i) ==
  /\ gevents' = [gevents EXCEPT ![i].status = 0, ![i].age = 0]
  /\ interest' = [interest EXCEPT ![gevents[i].fd] = None]
  /\ UNCHANGED files

\* eventdel(ev), whose EPOLL_CTL_DEL close() repeats, and close(ev->fd).
Drop(i) ==
  /\ gevents' = [gevents EXCEPT ![i].status = 0, ![i].age = 0]
  /\ interest' = [interest EXCEPT ![gevents[i].fd] = None]
  /\ Close(gevents[i].fd)

\* The first slot that is not in the set, or i == MAX_EVENTS: Last, which is
\* used all the same.
FirstEver == 0
FreeSlot == CHOOSE i \in Slots :
              /\ i = Last \/ gevents[i].status = 0
              /\ \A j \in 0..i-1 : gevents[j].status # 0

\* When the slot's status is 1, op is not initialised: as the descriptor is new,
\* EPOLL_CTL_ADD puts it in the set and any other value fails.
AcceptConn ==
  /\ \/ /\ CanAccept /\ Accept
        /\ gevents' = [gevents EXCEPT ![FreeSlot] =
                         EventAdd(EventSet(@, NewFd, "recvdata"), "in")]
        /\ \/ interest' = Watched(NewFd, FreeSlot, "in")
           \/ gevents[FreeSlot].status = 1 /\ UNCHANGED interest
     \/ /\ ~CanAccept          \* EAGAIN, EMFILE
        /\ UNCHANGED <<files, backlog, tableVars>>
  /\ UNCHANGED <<clientVars, inbox, owed>>

\* recv, eventdel; with data eventset, which clears what was received, and
\* eventadd for EPOLLOUT, else close.
RecvData(i) ==
  LET fd == gevents[i].fd IN
  /\ IF Received(fd) = "data"
     THEN /\ gevents' = [gevents EXCEPT ![i] =
                           EventAdd(EventSet(@, fd, "senddata"), "out")]
          /\ interest' = Watched(fd, i, "out")
          /\ inbox' = [inbox EXCEPT ![files[fd]] = @ - 1]
          /\ owed' = [owed EXCEPT ![files[fd]] = @ + 1]
          /\ UNCHANGED files
     ELSE /\ Drop(i)
          /\ UNCHANGED <<inbox, owed>>
  /\ UNCHANGED <<clientVars, backlog>>

\* send(ev->buf, ev->len), eventdel; if anything was sent eventadd for EPOLLIN,
\* else close.
SendData(i) ==
  LET fd == gevents[i].fd IN
  /\ IF gevents[i].len > 0 /\ peer[files[fd]] # "reset"
     THEN /\ gevents' = [gevents EXCEPT ![i] = EventAdd(@, "in")]
          /\ interest' = Watched(fd, i, "in")
          /\ owed' = [owed EXCEPT ![files[fd]] = @ - gevents[i].len]
          /\ UNCHANGED files
     ELSE /\ Drop(i)
          /\ UNCHANGED owed
  /\ UNCHANGED <<clientVars, inbox, backlog>>

-----------------------------------------------------------------------------
(* main's loop. *)

\* The SCAN slots from checkpos on, the last one followed by the first.
Scanned == {(checkpos + k) % MAX_EVENTS : k \in 0..SCAN-1}
Idle(i) == gevents[i].status = 1 /\ gevents[i].age >= IDLE

NeverWraps == checkpos + SCAN
StartsOver == SCAN
NextCheck == ((checkpos + SCAN - 1) % MAX_EVENTS) + 1

Sweep ==
  LET dropped == {i \in Scanned : Idle(i)}
      closed == {gevents[i].fd : i \in dropped}
  IN  /\ at = "sweep"
      /\ gevents' = [i \in Slots |-> IF i \in dropped
                       THEN [gevents[i] EXCEPT !.status = 0, !.age = 0] ELSE gevents[i]]
      /\ files' = [f \in Fds |-> IF f \in closed THEN NoFile ELSE files[f]]
      /\ interest' = [f \in Fds |-> IF f \in closed THEN None ELSE interest[f]]
      /\ checkpos' = NextCheck
      /\ at' = "wait"
      /\ UNCHANGED <<clientVars, inbox, backlog, batch, owed>>

\* epoll_wait returns what is ready, or nothing after a second.  A socket that
\* is watched for EPOLLOUT is always ready: nothing fills its send buffer.
Ready == {f \in Fds : \/ interest[f].events = "in" /\ CanRead(f)
                      \/ interest[f].events = "out"}

Wait ==
  /\ at = "wait"
  /\ batch' = {[fd |-> f, slot |-> interest[f].slot,
                events |-> interest[f].events] : f \in Ready}
  /\ at' = IF Ready = {} THEN "sweep" ELSE "handle"
  /\ UNCHANGED <<sockVars, tableVars, checkpos, owed>>

\* The next event of the batch, in whatever order they were reported: the
\* callback runs if the slot still wants such an event.
Handle(e) ==
  /\ at = "handle" /\ e \in batch
  /\ IF gevents[e.slot].events = e.events
     THEN CASE gevents[e.slot].call_back = "acceptconn" -> AcceptConn
            [] gevents[e.slot].call_back = "recvdata" -> RecvData(e.slot)
            [] gevents[e.slot].call_back = "senddata" -> SendData(e.slot)
     ELSE UNCHANGED <<sockVars, tableVars, owed>>
  /\ batch' = batch \ {e}
  /\ at' = IF batch' = {} THEN "sweep" ELSE "handle"
  /\ UNCHANGED checkpos

WaitFails ==
  /\ at = "wait"
  /\ at' = "ended"
  /\ UNCHANGED <<sockVars, tableVars, checkpos, batch, owed>>

\* A second or so passes.  Only the slots the sweep looks at have an age.
Tick ==
  LET aging == {i \in ConnSlots : gevents[i].status = 1 /\ gevents[i].age < IDLE}
  IN  /\ aging # {} /\ at # "ended"
      /\ gevents' = [i \in Slots |-> IF i \in aging
                       THEN [gevents[i] EXCEPT !.age = @ + 1] ELSE gevents[i]]
      /\ UNCHANGED <<sockVars, interest, loopVars, owed>>

Loop == Sweep \/ Wait \/ \E e \in batch : Handle(e)

Environment == \/ \E c \in Clients : Client(c) /\ UNCHANGED <<tableVars, loopVars, owed>>
               \/ Tick

\* A server whose epoll_wait never fails, and one that may end.
ServeNext == Loop \/ Environment
Next == ServeNext \/ WaitFails

Spec == Init /\ [][Next]_vars

\* The loop goes on and time passes; no client has to do anything.
FairServeSpec == Init /\ [][ServeNext]_vars /\ WF_vars(Loop) /\ WF_vars(Tick)

-----------------------------------------------------------------------------
(* Safety. *)

\* The table and the kernel agree, types included: a slot in use has an open
\* connection, watched for the slot's events under the slot's address, and every
\* address of a connection slot in the epoll set is that of a slot in use
\* (main.cpp 70-93, 205-217, 263-265).
SlotsMatchEpoll ==
  /\ TypeOK
  /\ \A i \in ConnSlots : gevents[i].status = 1 =>
       LET fd == gevents[i].fd IN
       /\ files[fd] \in Clients
       /\ interest[fd] = [slot |-> i, events |-> gevents[i].events]
  /\ \A f \in Fds : interest[f] # None /\ interest[f].slot \in ConnSlots =>
       gevents[interest[f].slot].status = 1 /\ gevents[interest[f].slot].fd = f

\* Every open connection has a slot, so that it is read, timed out or closed
\* some day; whoever takes it out of the table closes it (main.cpp 156-161,
\* 178-181, 263-265).
NoConnectionLeaks ==
  \A f \in Fds : files[f] \in Clients =>
    \E i \in Slots : gevents[i].status = 1 /\ gevents[i].fd = f

\* An event is handled on the connection it was reported for, although the
\* callbacks that run between epoll_wait and it may free slots and descriptors
\* and acceptconn may give them to a new connection (main.cpp 275-288).
BatchIsFresh ==
  \A e \in batch : e.slot \in ConnSlots =>
    gevents[e.slot].status = 1 /\ gevents[e.slot].fd = e.fd

\* What senddata is about to send is what recvdata received (main.cpp 169).
SendsWhatWasReceived ==
  \A i \in ConnSlots :
    gevents[i].status = 1 /\ gevents[i].call_back = "senddata"
      => gevents[i].len = owed[files[gevents[i].fd]]

-----------------------------------------------------------------------------
(* Liveness. *)

\* Every client that connects is accepted in the end.
EveryClientAccepted == \A c \in Clients : Queued(c) ~> ~Queued(c)

\* No slot stays in use for ever: the sweep comes to each of them (main.cpp
\* 240-267).
EverySlotIsFreed ==
  \A i \in ConnSlots : gevents[i].status = 1 ~> gevents[i].status = 0
=============================================================================
