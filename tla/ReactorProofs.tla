--------------------------- MODULE ReactorProofs ---------------------------
(***************************************************************************)
(* The reactor's table and the epoll set agree, no connection is lost, and *)
(* no event is handled on another connection than it was reported for, for *)
(* any number of slots, of clients and of descriptors.                     *)
(***************************************************************************)
EXTENDS Reactor, SocketsProofs

(***************************************************************************)
(* The inductive invariant: the three properties and, for them, what is in *)
(* the listening socket's slot, which a connection takes when no other is  *)
(* free, and that a batch reports a descriptor once.                       *)
(***************************************************************************)
\* Types of the table and of the loop.
TableTypeOK ==
  /\ gevents \in [Slots -> Event]
  /\ interest \in [Fds -> [slot : Slots, events : {"none", "in", "out"}]]
  /\ owed \in [Clients -> 0..MaxData]

LoopTypeOK ==
  /\ checkpos \in 0..MAX_EVENTS
  /\ batch \in SUBSET [fd : Fds, slot : Slots, events : {"in", "out"}]
  /\ at \in {"sweep", "wait", "handle", "ended"}

\* What a connection owes and has not read was sent; nothing is ever kept in buf.
Accounts ==
  /\ \A c \in Clients : owed[c] + inbox[c] <= sent[c]
  /\ \A i \in Slots : gevents[i].len = 0

\* A slot in use and the epoll set, both ways.
SlotsAreWatched ==
  \A i \in ConnSlots : gevents[i].status = 1 =>
    /\ gevents[i].fd \in Fds /\ files[gevents[i].fd] \in Clients
    /\ interest[gevents[i].fd] = [slot |-> i, events |-> gevents[i].events]
    /\ gevents[i].call_back \in {"recvdata", "senddata"}

WatchedHaveSlots ==
  \A f \in Fds : interest[f] # None /\ interest[f].slot \in ConnSlots =>
    gevents[interest[f].slot].status = 1 /\ gevents[interest[f].slot].fd = f

\* The last slot is the listening socket's, until a connection that found no
\* other is put there; from then on nothing is accepted any more.
ListenersOwn == gevents[Last].call_back = "acceptconn" /\ gevents[Last].fd = lfd

LastSlot ==
  /\ files[lfd] = Listener
  /\ \/ ListenersOwn
     \/ /\ gevents[Last].call_back \in {"recvdata", "senddata"}
        /\ gevents[Last].fd \in Fds \ {lfd}
  /\ \A i \in ConnSlots :
       gevents[i].status = 1 => gevents[i].fd # gevents[Last].fd

TableInv == /\ TableTypeOK /\ SocketsInv /\ Accounts /\ SlotsAreWatched
            /\ WatchedHaveSlots /\ LastSlot /\ NoConnectionLeaks

\* Nothing is left to handle when the loop sweeps or waits; a descriptor is
\* reported once.
BatchOnce ==
  /\ at # "handle" => batch = {}
  /\ \A d, e \in batch : d.fd = e.fd => d = e

ReactorInv == TableInv /\ LoopTypeOK /\ BatchOnce /\ BatchIsFresh

-----------------------------------------------------------------------------
(* Slots. *)

LEMMA ModRange ==
  ASSUME NEW n \in Nat \ {0}, NEW a \in Nat
  PROVE  a % n \in 0..n-1
  OBVIOUS

LEMMA SlotTypes ==
  /\ MAX_EVENTS \in Nat \ {0} /\ Slots \subseteq Nat
  /\ Last \in Slots /\ Last \notin ConnSlots /\ 0 \in ConnSlots
  /\ ConnSlots \subseteq Slots
  /\ \A i \in Slots : i = Last \/ i \in ConnSlots
  BY ReactorAssumption DEF Slots, ConnSlots, Last

\* What the code sets in a slot keeps its type.
LEMMA EventSetType ==
  \A e \in Event, f \in Fds, x \in {"acceptconn", "recvdata", "senddata"} :
    EventSet(e, f, x) \in Event
<1> SUFFICES ASSUME NEW e \in Event, NEW f \in Fds,
                    NEW x \in {"acceptconn", "recvdata", "senddata"}
             PROVE  EventSet(e, f, x) \in Event
  OBVIOUS
<1> DEFINE e1 == [e EXCEPT !.fd = f, !.events = "none"]
           e2 == [e1 EXCEPT !.call_back = x]
           e3 == [e2 EXCEPT !.len = 0]
           e4 == [e3 EXCEPT !.age = 0]
<1>1. e1 \in Event
  BY DEF Event
<1> HIDE DEF e1
<1>2. e2 \in Event
  BY <1>1 DEF Event
<1> HIDE DEF e2
<1>3. e3 \in Event
  BY <1>2 DEF Event
<1> HIDE DEF e3
<1>4. e4 \in Event
  BY <1>3, ReactorAssumption DEF Event
<1>5. EventSet(e, f, x) = e4
  BY DEF EventSet, e1, e2, e3
<1>6. QED
  BY <1>4, <1>5

LEMMA EventTypes ==
  ASSUME NEW e \in Event
  PROVE  /\ [e EXCEPT !.status = 0, !.age = 0] \in Event
         /\ \A f \in Fds, x \in {"acceptconn", "recvdata", "senddata"} :
              EventSet(e, f, x) \in Event
         /\ \A x \in {"in", "out"} : EventAdd(e, x) \in Event
         /\ e.age < IDLE => [e EXCEPT !.age = @ + 1] \in Event
<1> USE ReactorAssumption DEF Event
<1>1. \A d \in Event : [d EXCEPT !.age = 0] \in Event
  OBVIOUS
<1>2. [e EXCEPT !.status = 0] \in Event
  OBVIOUS
<1>3. [e EXCEPT !.status = 0, !.age = 0] \in Event
  <2>1. [[e EXCEPT !.status = 0] EXCEPT !.age = 0] \in Event
    <3> HIDE DEF Event
    <3>1. QED
      BY <1>1, <1>2
  <2>2. QED
    BY <2>1
<1>4. \A f \in Fds, x \in {"acceptconn", "recvdata", "senddata"} :
        EventSet(e, f, x) \in Event
  BY EventSetType
<1>5. \A x \in {"in", "out"} : EventAdd(e, x) \in Event
  BY DEF EventAdd
<1>6. e.age < IDLE => [e EXCEPT !.age = @ + 1] \in Event
  OBVIOUS
<1>7. QED
  <2> HIDE DEF Event
  <2>1. QED
    BY <1>3, <1>4, <1>5, <1>6

LEMMA SweepTypes ==
  ASSUME checkpos \in 0..MAX_EVENTS
  PROVE  Scanned \subseteq ConnSlots /\ NextCheck \in 0..MAX_EVENTS
<1>1. /\ MAX_EVENTS \in Nat \ {0} /\ SCAN \in Nat \ {0} /\ checkpos \in Nat
  BY ReactorAssumption
<1>2. \A a \in Nat : a % MAX_EVENTS \in 0..MAX_EVENTS-1
  BY <1>1, ModRange
<1>3. Scanned \subseteq ConnSlots
  <2>1. \A k \in 0..SCAN-1 : checkpos + k \in Nat
    BY <1>1
  <2>2. QED
    BY <1>2, <2>1 DEF Scanned, ConnSlots
<1>4. NextCheck \in 0..MAX_EVENTS
  <2>1. checkpos + SCAN - 1 \in Nat
    BY <1>1
  <2>2. (checkpos + SCAN - 1) % MAX_EVENTS \in 0..MAX_EVENTS-1
    BY <1>2, <2>1
  <2>3. QED
    BY <1>1, <2>2 DEF NextCheck
<1>5. QED
  BY <1>3, <1>4

\* acceptconn's search comes to a slot that is not in use or to the last one.
LEMMA FreeSlotType ==
  /\ FreeSlot \in Slots
  /\ FreeSlot = Last \/ gevents[FreeSlot].status = 0
<1> DEFINE S == {i \in Slots : i = Last \/ gevents[i].status = 0}
<1>1. S \subseteq Nat /\ S # {}
  BY SlotTypes
<1>2. PICK m \in S : \A n \in S : m <= n
  BY <1>1, LeastNatural
<1>3. \A j \in 0..m-1 : gevents[j].status # 0
  <2>1. ASSUME NEW j \in 0..m-1
        PROVE  gevents[j].status # 0
    <3>1. j \in Slots /\ j \in Nat /\ m \in Nat /\ ~(m <= j)
      BY <1>1, ReactorAssumption DEF Slots
    <3>2. j \notin S
      BY <1>2, <3>1
    <3>3. QED
      BY <3>1, <3>2
  <2>2. QED
    BY <2>1
<1>4. \E i \in Slots : /\ i = Last \/ gevents[i].status = 0
                       /\ \A j \in 0..i-1 : gevents[j].status # 0
  BY <1>2, <1>3
<1>5. QED
  BY <1>4 DEF FreeSlot

\* Two slots in use have different descriptors.
LEMMA SlotsApart ==
  ASSUME TableInv, NEW i \in ConnSlots, NEW j \in ConnSlots,
         gevents[i].status = 1, gevents[j].status = 1,
         gevents[i].fd = gevents[j].fd
  PROVE  i = j
<1>1. /\ interest[gevents[i].fd] = [slot |-> i, events |-> gevents[i].events]
      /\ interest[gevents[j].fd] = [slot |-> j, events |-> gevents[j].events]
  BY DEF TableInv, SlotsAreWatched
<1>2. interest[gevents[i].fd].slot = i /\ interest[gevents[j].fd].slot = j
  BY <1>1
<1>3. QED
  BY <1>2

\* A slot that recvdata and senddata may be called with.
Called(i) ==
  /\ i \in Slots
  /\ \/ i \in ConnSlots /\ gevents[i].status = 1
     \/ i = Last /\ gevents[Last].call_back \in {"recvdata", "senddata"}

LEMMA CalledSlot ==
  ASSUME TableInv, NEW i, Called(i)
  PROVE  /\ gevents[i].fd \in Fds /\ gevents[i].fd # lfd
         /\ gevents[i].call_back \in {"recvdata", "senddata"}
         /\ gevents[i] \in Event /\ gevents[i].len = 0
         /\ \A j \in ConnSlots : j # i /\ gevents[j].status = 1 =>
              gevents[j].fd # gevents[i].fd
<1>1. gevents[i] \in Event /\ gevents[i].len = 0
  BY DEF TableInv, TableTypeOK, Accounts, Called
<1>2. CASE i \in ConnSlots /\ gevents[i].status = 1
  <2>1. gevents[i].fd # lfd
    BY <1>2, SocketAssumption DEF TableInv, SlotsAreWatched, LastSlot
  <2>2. QED
    BY <1>1, <1>2, <2>1, SlotsApart DEF TableInv, SlotsAreWatched
<1>3. CASE i = Last /\ gevents[Last].call_back \in {"recvdata", "senddata"}
  BY <1>1, <1>3 DEF TableInv, LastSlot, ListenersOwn
<1>4. QED
  BY <1>2, <1>3 DEF Called

\* What a callback leaves of the other slots.
OthersKept(i) ==
  \A j \in ConnSlots : j # i /\ gevents[j].status = 1 =>
    gevents'[j].status = 1 /\ gevents'[j].fd = gevents[j].fd

-----------------------------------------------------------------------------
(* The callbacks. *)

LEMMA DropKeepsTable ==
  ASSUME TableInv, NEW i, Called(i), Drop(i),
         UNCHANGED <<clientVars, inbox, backlog, owed>>
  PROVE  TableInv' /\ OthersKept(i)
<1> DEFINE f == gevents[i].fd
<1>1. /\ f \in Fds /\ f # lfd /\ i \in Slots
      /\ \A j \in ConnSlots : j # i /\ gevents[j].status = 1 =>
           gevents[j].fd # f
  BY CalledSlot DEF Called
<1>2. /\ gevents' = [gevents EXCEPT ![i].status = 0, ![i].age = 0]
      /\ interest' = [interest EXCEPT ![f] = None]
      /\ files' = [files EXCEPT ![f] = NoFile]
      /\ UNCHANGED <<peer, sent, inbox, backlog, owed>>
  BY DEF Drop, Close, clientVars
<1>3. /\ \A j \in Slots : j # i => gevents'[j] = gevents[j]
      /\ gevents'[i].status = 0 /\ gevents'[i].fd = f
      /\ gevents'[i].len = gevents[i].len
      /\ gevents'[i].call_back = gevents[i].call_back
  BY <1>1, <1>2 DEF TableInv, TableTypeOK, Event
<1>4. \A g \in Fds : /\ g # f => files'[g] = files[g] /\ interest'[g] = interest[g]
                     /\ g = f => files'[g] = NoFile /\ interest'[g] = None
  BY <1>1, <1>2 DEF TableInv, TableTypeOK, SocketsInv, SocketsTypeOK
<1>5. TableTypeOK'
  <2>1. None \in [slot : Slots, events : {"none", "in", "out"}]
    BY SlotTypes DEF None
  <2>2. \A e \in Event : [e EXCEPT !.status = 0, !.age = 0] \in Event
    BY EventTypes
  <2>3. gevents' \in [Slots -> Event]
    BY <1>1, <1>2, <2>2 DEF TableInv, TableTypeOK
  <2>4. QED
    BY <1>1, <1>2, <2>1, <2>3 DEF TableInv, TableTypeOK
<1>6. SocketsInv'
  <2>1. /\ files' \in [Fds -> Clients \cup {Listener, NoFile}]
        /\ \A g \in Fds : files'[g] \in {files[g], NoFile}
    BY <1>1, <1>2 DEF TableInv, SocketsInv, SocketsTypeOK
  <2>2. QED
    BY <1>2, <2>1, CloseKeepsSocketsInv DEF TableInv, clientVars
<1>7. Accounts'
  BY <1>2, <1>3 DEF TableInv, Accounts
<1>8. OthersKept(i)
  BY <1>3, SlotTypes DEF OthersKept
<1>9. SlotsAreWatched'
  <2>1. ASSUME NEW j \in ConnSlots, gevents'[j].status = 1
        PROVE  /\ gevents'[j] = gevents[j] /\ gevents[j].status = 1
               /\ gevents[j].fd # f
    <3>1. j \in Slots /\ j # i
      BY <1>3, <2>1, SlotTypes
    <3>2. QED
      BY <1>1, <1>3, <2>1, <3>1
  <2>2. QED
    BY <1>4, <2>1 DEF TableInv, SlotsAreWatched
<1>10. WatchedHaveSlots'
  <2>1. ASSUME NEW g \in Fds, interest'[g] # None,
               interest'[g].slot \in ConnSlots
        PROVE  /\ gevents'[interest'[g].slot].status = 1
               /\ gevents'[interest'[g].slot].fd = g
    <3>1. g # f /\ interest'[g] = interest[g]
      BY <1>4, <2>1
    <3>2. /\ gevents[interest[g].slot].status = 1
          /\ gevents[interest[g].slot].fd = g
      BY <2>1, <3>1 DEF TableInv, WatchedHaveSlots
    <3>3. interest[g].slot # i /\ interest[g].slot \in Slots
      BY <2>1, <3>1, <3>2, SlotTypes
    <3>4. QED
      BY <1>3, <3>1, <3>2, <3>3
  <2>2. QED
    BY <2>1 DEF WatchedHaveSlots
<1>11. LastSlot'
  <2>1. files'[lfd] = Listener
    BY <1>1, <1>4, FdsAreNaturals DEF TableInv, LastSlot
  <2>2. gevents'[Last].fd = gevents[Last].fd
        /\ gevents'[Last].call_back = gevents[Last].call_back
    BY <1>3, SlotTypes
  <2>3. \A j \in ConnSlots : gevents'[j].status = 1 =>
          gevents[j].status = 1 /\ gevents'[j].fd = gevents[j].fd
    BY <1>3, SlotTypes
  <2>4. QED
    BY <2>1, <2>2, <2>3 DEF TableInv, LastSlot, ListenersOwn
<1>12. NoConnectionLeaks'
  <2>1. ASSUME NEW g \in Fds, files'[g] \in Clients
        PROVE  \E j \in Slots : gevents'[j].status = 1 /\ gevents'[j].fd = g
    <3>1. g # f /\ files[g] \in Clients
      BY <1>4, <2>1, SocketAssumption
    <3>2. PICK j \in Slots : gevents[j].status = 1 /\ gevents[j].fd = g
      BY <3>1 DEF TableInv, NoConnectionLeaks
    <3>3. QED
      BY <1>3, <3>1, <3>2
  <2>2. QED
    BY <2>1 DEF NoConnectionLeaks
<1>13. QED
  BY <1>5, <1>6, <1>7, <1>8, <1>9, <1>10, <1>11, <1>12 DEF TableInv

\* recvdata with data: the slot goes on to senddata.
LEMMA ReceiveKeepsTable ==
  ASSUME TableInv, NEW i, Called(i), RecvData(i),
         Received(gevents[i].fd) = "data"
  PROVE  TableInv' /\ OthersKept(i)
<1> DEFINE f == gevents[i].fd
           c == files[f]
           new == EventAdd(EventSet(gevents[i], f, "senddata"), "out")
<1>1. /\ f \in Fds /\ f # lfd /\ i \in Slots /\ gevents[i] \in Event
      /\ \A j \in ConnSlots : j # i /\ gevents[j].status = 1 =>
           gevents[j].fd # f
  BY CalledSlot DEF Called
<1>2. c \in Clients /\ inbox[c] > 0
  BY DEF Received
<1>3. /\ gevents' = [gevents EXCEPT ![i] = new]
      /\ interest' = [interest EXCEPT ![f] = [slot |-> i, events |-> "out"]]
      /\ inbox' = [inbox EXCEPT ![c] = @ - 1]
      /\ owed' = [owed EXCEPT ![c] = @ + 1]
      /\ UNCHANGED <<clientVars, files, backlog>>
  BY DEF RecvData, Watched, TableInv, TableTypeOK, Called
<1>4. /\ new \in Event /\ new.fd = f /\ new.status = 1 /\ new.len = 0
      /\ new.call_back = "senddata" /\ new.events = "out"
  <2>1. new \in Event
    BY <1>1, EventTypes
  <2>2. QED
    BY <1>1, <2>1 DEF EventAdd, EventSet, Event
<1> HIDE DEF new
<1>5. /\ \A j \in Slots : j # i => gevents'[j] = gevents[j]
      /\ gevents'[i] = new
  BY <1>1, <1>3 DEF TableInv, TableTypeOK
<1>6. \A g \in Fds :
        /\ g # f => interest'[g] = interest[g]
        /\ g = f => interest'[g] = [slot |-> i, events |-> "out"]
  BY <1>1, <1>3 DEF TableInv, TableTypeOK
<1>7. SocketsInv'
  BY <1>2, <1>3, ReceiveKeepsSocketsInv DEF TableInv
<1>8. owed[c] + 1 \in 0..MaxData /\ owed[c] + 1 + inbox'[c] <= sent[c]
  <2>1. /\ MaxData \in Nat /\ owed[c] \in Nat /\ inbox[c] \in Nat
        /\ sent[c] \in 0..MaxData
        /\ owed[c] + inbox[c] <= sent[c]
    BY <1>2, SocketAssumption
       DEF TableInv, TableTypeOK, SocketsInv, SocketsTypeOK, Accounts
  <2>2. inbox'[c] = inbox[c] - 1
    BY <1>2, <1>3 DEF TableInv, SocketsInv, SocketsTypeOK
  <2>3. QED
    BY <1>2, <2>1, <2>2
<1>9. TableTypeOK'
  <2>1. gevents' \in [Slots -> Event]
    BY <1>1, <1>3, <1>4 DEF TableInv, TableTypeOK
  <2>2. interest' \in [Fds -> [slot : Slots, events : {"none", "in", "out"}]]
    BY <1>1, <1>3 DEF TableInv, TableTypeOK
  <2>3. owed' \in [Clients -> 0..MaxData]
    BY <1>2, <1>3, <1>8 DEF TableInv, TableTypeOK
  <2>4. QED
    BY <2>1, <2>2, <2>3 DEF TableTypeOK
<1>10. Accounts'
  <2>1. \A d \in Clients : owed'[d] + inbox'[d] <= sent[d]
    <3>1. ASSUME NEW d \in Clients
          PROVE  owed'[d] + inbox'[d] <= sent[d]
      <4>1. CASE d = c
        BY <1>2, <1>3, <1>8, <4>1 DEF TableInv, TableTypeOK, Accounts
      <4>2. CASE d # c
        BY <1>2, <1>3, <4>2
           DEF TableInv, TableTypeOK, SocketsInv, SocketsTypeOK, Accounts
      <4>3. QED
        BY <4>1, <4>2
    <3>2. QED
      BY <3>1
  <2>2. \A j \in Slots : gevents'[j].len = 0
    BY <1>4, <1>5 DEF TableInv, Accounts
  <2>3. QED
    BY <1>3, <2>1, <2>2 DEF Accounts, clientVars
<1>11. OthersKept(i)
  BY <1>5, SlotTypes DEF OthersKept
<1>12. SlotsAreWatched'
  <2>1. ASSUME NEW j \in ConnSlots, gevents'[j].status = 1
        PROVE  /\ gevents'[j].fd \in Fds /\ files[gevents'[j].fd] \in Clients
               /\ interest'[gevents'[j].fd] =
                    [slot |-> j, events |-> gevents'[j].events]
               /\ gevents'[j].call_back \in {"recvdata", "senddata"}
    <3>1. CASE j = i
      BY <1>1, <1>2, <1>4, <1>5, <1>6, <3>1
    <3>2. CASE j # i
      <4>1. /\ gevents'[j] = gevents[j] /\ gevents[j].status = 1
            /\ gevents[j].fd # f
        BY <1>1, <1>5, <2>1, <3>2, SlotTypes
      <4>2. QED
        BY <1>6, <4>1 DEF TableInv, SlotsAreWatched
    <3>3. QED
      BY <3>1, <3>2
  <2>2. QED
    BY <1>3, <2>1 DEF SlotsAreWatched
<1>13. WatchedHaveSlots'
  <2>1. ASSUME NEW g \in Fds, interest'[g] # None,
               interest'[g].slot \in ConnSlots
        PROVE  /\ gevents'[interest'[g].slot].status = 1
               /\ gevents'[interest'[g].slot].fd = g
    <3>1. CASE g = f
      BY <1>4, <1>5, <1>6, <3>1
    <3>2. CASE g # f
      <4>1. interest'[g] = interest[g]
        BY <1>6, <3>2
      <4>2. /\ gevents[interest[g].slot].status = 1
            /\ gevents[interest[g].slot].fd = g
        BY <2>1, <4>1 DEF TableInv, WatchedHaveSlots
      <4>3. interest[g].slot # i /\ interest[g].slot \in Slots
        BY <2>1, <3>2, <4>1, <4>2, SlotTypes
      <4>4. QED
        BY <1>5, <4>1, <4>2, <4>3
    <3>3. QED
      BY <3>1, <3>2
  <2>2. QED
    BY <2>1 DEF WatchedHaveSlots
<1>14. LastSlot'
  <2>1. gevents'[Last].fd = gevents[Last].fd
        /\ (i # Last => gevents'[Last] = gevents[Last])
        /\ (i = Last => gevents'[Last].call_back = "senddata")
    BY <1>4, <1>5, SlotTypes
  <2>2. \A j \in ConnSlots : gevents'[j].status = 1 =>
          gevents'[j].fd # gevents[Last].fd
    <3>1. ASSUME NEW j \in ConnSlots, gevents'[j].status = 1
          PROVE  gevents'[j].fd # gevents[Last].fd
      <4>1. CASE j # i
        BY <1>5, <3>1, <4>1, SlotTypes DEF TableInv, LastSlot
      <4>2. CASE j = i
        <5>1. gevents[i].status = 1 /\ gevents'[j].fd = f
          BY <1>4, <1>5, <4>2, SlotTypes DEF Called
        <5>2. QED
          BY <4>2, <5>1 DEF TableInv, LastSlot
      <4>3. QED
        BY <4>1, <4>2
    <3>2. QED
      BY <3>1
  <2>3. i = Last => gevents[Last].fd \in Fds \ {lfd}
    BY <1>1
  <2>4. QED
    BY <1>3, <2>1, <2>2, <2>3 DEF TableInv, LastSlot, ListenersOwn
<1>15. NoConnectionLeaks'
  <2>1. ASSUME NEW g \in Fds, files[g] \in Clients
        PROVE  \E j \in Slots : gevents'[j].status = 1 /\ gevents'[j].fd = g
    <3>1. PICK j \in Slots : gevents[j].status = 1 /\ gevents[j].fd = g
      BY <2>1 DEF TableInv, NoConnectionLeaks
    <3>2. QED
      BY <1>1, <1>4, <1>5, <3>1
  <2>2. QED
    BY <1>3, <2>1 DEF NoConnectionLeaks
<1>16. QED
  BY <1>7, <1>9, <1>10, <1>11, <1>12, <1>13, <1>14, <1>15 DEF TableInv

LEMMA CallbackKeepsTable ==
  ASSUME TableInv, NEW i, Called(i), RecvData(i) \/ SendData(i)
  PROVE  TableInv' /\ OthersKept(i)
<1>1. CASE RecvData(i) /\ Received(gevents[i].fd) = "data"
  BY <1>1, ReceiveKeepsTable
<1>2. CASE RecvData(i) /\ Received(gevents[i].fd) # "data"
  BY <1>2, DropKeepsTable DEF RecvData
<1>3. CASE SendData(i)
  <2>1. ~(gevents[i].len > 0)
    BY CalledSlot
  <2>2. QED
    BY <1>3, <2>1, DropKeepsTable DEF SendData
<1>4. QED
  BY <1>1, <1>2, <1>3

\* acceptconn, which runs as long as the last slot is the listening socket's.
LEMMA AcceptKeepsTable ==
  ASSUME TableInv, ListenersOwn, AcceptConn
  PROVE  TableInv' /\ OthersKept(Last)
<1>1. CASE ~CanAccept
  <2>1. UNCHANGED <<sockVars, tableVars, owed>>
    BY <1>1 DEF AcceptConn, sockVars, clientVars
  <2>2. QED
    BY <2>1
       DEF TableInv, TableTypeOK, SocketsInv, SocketsTypeOK, OneFdEach,
           BacklogIsNew, SentCovers, Queued, Accepted, Accounts,
           SlotsAreWatched, WatchedHaveSlots, LastSlot, ListenersOwn,
           NoConnectionLeaks, OthersKept, sockVars, tableVars
<1>2. CASE CanAccept
  <2> DEFINE s == FreeSlot
             new == NewFd
             c == Head(backlog)
             ev == EventAdd(EventSet(gevents[s], new, "recvdata"), "in")
  <2>1. /\ Accept /\ UNCHANGED <<clientVars, inbox, owed>>
        /\ UNCHANGED <<clientVars, inbox>>
        /\ \/ interest' = [interest EXCEPT ![new] = [slot |-> s, events |-> "in"]]
           \/ gevents[s].status = 1 /\ interest' = interest
    BY <1>2 DEF AcceptConn, Watched
  <2>2. /\ SocketsInv' /\ new \in Fds /\ files[new] = NoFile
        /\ c \in Clients /\ files' = [files EXCEPT ![new] = c]
    BY <2>1, AcceptKeepsSocketsInv DEF TableInv
  <2>3. /\ s \in Slots /\ gevents[s] \in Event
        /\ s = Last \/ (s \in ConnSlots /\ gevents[s].status = 0)
    BY FreeSlotType, SlotTypes DEF TableInv, TableTypeOK
  <2>4. gevents' = [gevents EXCEPT ![s] = ev]
    BY <1>2, <2>3 DEF AcceptConn, TableInv, TableTypeOK
  <2>5. /\ ev \in Event /\ ev.fd = new /\ ev.status = 1 /\ ev.len = 0
        /\ ev.call_back = "recvdata" /\ ev.events = "in"
    <3>1. ev \in Event
      BY <2>2, <2>3, EventTypes
    <3>2. QED
      BY <2>2, <2>3, <3>1 DEF EventAdd, EventSet, Event
  <2> HIDE DEF ev, new, c, s
  <2>6. /\ \A j \in Slots : j # s => gevents'[j] = gevents[j]
        /\ gevents'[s] = ev
    BY <2>3, <2>4 DEF TableInv, TableTypeOK
  <2>7. \A g \in Fds : /\ g # new => files'[g] = files[g] /\ interest'[g] = interest[g]
                       /\ g = new => files'[g] = c
    BY <2>1, <2>2 DEF TableInv, TableTypeOK, SocketsInv, SocketsTypeOK
  <2>8. /\ s \in ConnSlots => interest'[new] = [slot |-> s, events |-> "in"]
        /\ s = Last => \/ interest'[new] = [slot |-> s, events |-> "in"]
                       \/ interest'[new] = interest[new]
    BY <2>1, <2>2, <2>3, SlotTypes DEF TableInv, TableTypeOK
  <2>9. \A j \in ConnSlots : gevents[j].status = 1 =>
          /\ j # s /\ j \in Slots /\ gevents'[j] = gevents[j]
          /\ gevents[j].fd \in Fds /\ gevents[j].fd # new
    <3>1. ASSUME NEW j \in ConnSlots, gevents[j].status = 1
          PROVE  /\ j # s /\ j \in Slots
                 /\ gevents[j].fd \in Fds /\ gevents[j].fd # new
      <4>1. j # s /\ j \in Slots
        BY <2>3, <3>1, SlotTypes
      <4>2. gevents[j].fd \in Fds /\ files[gevents[j].fd] \in Clients
        BY <3>1 DEF TableInv, SlotsAreWatched
      <4>3. QED
        BY <2>2, <4>1, <4>2, SocketAssumption
    <3>2. QED
      BY <2>6, <3>1
  <2>10. TableTypeOK'
    <3>1. gevents' \in [Slots -> Event]
      BY <2>3, <2>4, <2>5 DEF TableInv, TableTypeOK
    <3>2. interest' \in [Fds -> [slot : Slots, events : {"none", "in", "out"}]]
      BY <2>1, <2>2, <2>3 DEF TableInv, TableTypeOK
    <3>3. QED
      BY <2>1, <3>1, <3>2 DEF TableInv, TableTypeOK
  <2>11. Accounts'
    BY <2>1, <2>3, <2>5, <2>6 DEF TableInv, Accounts, clientVars
  <2>12. SlotsAreWatched'
    <3>1. ASSUME NEW j \in ConnSlots, gevents'[j].status = 1
          PROVE  /\ gevents'[j].fd \in Fds /\ files'[gevents'[j].fd] \in Clients
                 /\ interest'[gevents'[j].fd] =
                      [slot |-> j, events |-> gevents'[j].events]
                 /\ gevents'[j].call_back \in {"recvdata", "senddata"}
      <4>1. CASE j = s
        BY <2>2, <2>5, <2>6, <2>7, <2>8, <4>1
      <4>2. CASE j # s
        <5>1. gevents'[j] = gevents[j] /\ gevents[j].status = 1
          BY <2>6, <3>1, <4>2, SlotTypes
        <5>2. QED
          BY <2>7, <2>9, <5>1 DEF TableInv, SlotsAreWatched
      <4>3. QED
        BY <4>1, <4>2
    <3>2. QED
      BY <3>1 DEF SlotsAreWatched
  <2>13. WatchedHaveSlots'
    <3>1. ASSUME NEW g \in Fds, interest'[g] # None,
                 interest'[g].slot \in ConnSlots
          PROVE  /\ gevents'[interest'[g].slot].status = 1
                 /\ gevents'[interest'[g].slot].fd = g
      <4>1. CASE interest'[g] = interest[g]
        <5>1. /\ gevents[interest[g].slot].status = 1
              /\ gevents[interest[g].slot].fd = g
          BY <3>1, <4>1 DEF TableInv, WatchedHaveSlots
        <5>2. QED
          BY <2>9, <3>1, <4>1, <5>1
      <4>2. CASE interest'[g] # interest[g]
        <5>1. g = new /\ interest'[g] = [slot |-> s, events |-> "in"]
          BY <2>3, <2>7, <2>8, <4>2
        <5>2. QED
          BY <2>5, <2>6, <5>1
      <4>3. QED
        BY <4>1, <4>2
    <3>2. QED
      BY <3>1 DEF WatchedHaveSlots
  <2>14. LastSlot'
    <3>1. new # lfd /\ files'[lfd] = Listener
      BY <2>2, <2>7, FdsAreNaturals, SocketAssumption DEF TableInv, LastSlot
    <3>2. CASE s = Last
      <4>1. gevents'[Last].fd = new /\ gevents'[Last].call_back = "recvdata"
        BY <2>5, <2>6, <3>2
      <4>2. \A j \in ConnSlots : gevents'[j] = gevents[j]
        BY <2>6, <3>2, SlotTypes
      <4>3. QED
        BY <2>2, <2>9, <3>1, <4>1, <4>2 DEF LastSlot
    <3>3. CASE s # Last
      <4>1. gevents'[Last] = gevents[Last] /\ gevents[Last].fd = lfd
        BY <2>6, <3>3, SlotTypes DEF ListenersOwn
      <4>2. ASSUME NEW j \in ConnSlots, gevents'[j].status = 1
            PROVE  gevents'[j].fd # lfd
        <5>1. CASE j = s
          BY <2>5, <2>6, <3>1, <5>1
        <5>2. CASE j # s
          BY <2>6, <4>1, <4>2, <5>2, SlotTypes DEF TableInv, LastSlot
        <5>3. QED
          BY <5>1, <5>2
      <4>3. QED
        BY <3>1, <4>1, <4>2 DEF LastSlot, ListenersOwn
    <3>4. QED
      BY <3>2, <3>3
  <2>15. NoConnectionLeaks'
    <3>1. ASSUME NEW g \in Fds, files'[g] \in Clients
          PROVE  \E j \in Slots : gevents'[j].status = 1 /\ gevents'[j].fd = g
      <4>1. CASE g = new
        BY <2>3, <2>5, <2>6, <4>1
      <4>2. CASE g # new
        <5>1. files[g] \in Clients
          BY <2>7, <3>1, <4>2
        <5>2. PICK j \in Slots : gevents[j].status = 1 /\ gevents[j].fd = g
          BY <5>1 DEF TableInv, NoConnectionLeaks
        <5>3. j # s
          <6>1. g # lfd
            BY <5>1, SocketAssumption DEF TableInv, LastSlot
          <6>2. QED
            BY <2>3, <5>2, <6>1 DEF ListenersOwn
        <5>4. QED
          BY <2>6, <5>2, <5>3
      <4>3. QED
        BY <4>1, <4>2
    <3>2. QED
      BY <3>1 DEF NoConnectionLeaks
  <2>16. OthersKept(Last)
    BY <2>9 DEF OthersKept
  <2>17. QED
    BY <2>2, <2>10, <2>11, <2>12, <2>13, <2>14, <2>15, <2>16 DEF TableInv
<1>3. QED
  BY <1>1, <1>2

-----------------------------------------------------------------------------
(* The loop. *)

\* An event of the batch runs a callback of the connection it was reported for,
\* and leaves every other event its connection.
LEMMA HandleKeepsReactorInv ==
  ASSUME ReactorInv, NEW e \in batch, Handle(e)
  PROVE  ReactorInv'
<1> DEFINE i == e.slot
<1>1. /\ at = "handle" /\ batch' = batch \ {e} /\ checkpos' = checkpos
      /\ at' = IF batch' = {} THEN "sweep" ELSE "handle"
      /\ i \in Slots
  BY DEF Handle, ReactorInv, LoopTypeOK
<1>2. LoopTypeOK' /\ BatchOnce'
  BY <1>1 DEF ReactorInv, LoopTypeOK, BatchOnce
<1>3. TableInv' /\ \/ i \in ConnSlots /\ OthersKept(i)
                   \/ OthersKept(Last)
  <2>1. CASE gevents[i].events # e.events
    <3>1. UNCHANGED <<sockVars, tableVars, owed>>
      BY <2>1 DEF Handle
    <3>2. QED
      BY <3>1
         DEF ReactorInv, TableInv, TableTypeOK, SocketsInv, SocketsTypeOK,
             OneFdEach, BacklogIsNew, SentCovers, Queued, Accepted, Accounts,
             SlotsAreWatched, WatchedHaveSlots, LastSlot, ListenersOwn,
             NoConnectionLeaks, OthersKept, sockVars, tableVars
  <2>2. CASE gevents[i].events = e.events
    <3>1. CASE i \in ConnSlots
      <4>1. gevents[i].status = 1
        BY <3>1 DEF ReactorInv, BatchIsFresh
      <4>2. Called(i) /\ gevents[i].call_back \in {"recvdata", "senddata"}
        BY <1>1, <3>1, <4>1 DEF Called, ReactorInv, TableInv, SlotsAreWatched
      <4>3. RecvData(i) \/ SendData(i)
        BY <2>2, <4>2 DEF Handle
      <4>4. QED
        BY <3>1, <4>2, <4>3, CallbackKeepsTable DEF ReactorInv
    <3>2. CASE i = Last /\ ListenersOwn
      <4>1. AcceptConn
        BY <2>2, <3>2 DEF Handle, ListenersOwn
      <4>2. QED
        BY <3>2, <4>1, AcceptKeepsTable DEF ReactorInv
    <3>3. CASE i = Last /\ ~ListenersOwn
      <4>1. Called(i) /\ gevents[i].call_back \in {"recvdata", "senddata"}
        BY <1>1, <3>3 DEF Called, ReactorInv, TableInv, LastSlot
      <4>2. RecvData(i) \/ SendData(i)
        BY <2>2, <4>1 DEF Handle
      <4>3. QED
        BY <3>3, <4>1, <4>2, CallbackKeepsTable DEF ReactorInv
    <3>4. QED
      BY <1>1, <3>1, <3>2, <3>3, SlotTypes
  <2>3. QED
    BY <2>1, <2>2
<1>4. BatchIsFresh'
  <2>1. ASSUME NEW d \in batch, d # e, d.slot \in ConnSlots
        PROVE  gevents'[d.slot].status = 1 /\ gevents'[d.slot].fd = d.fd
    <3>1. gevents[d.slot].status = 1 /\ gevents[d.slot].fd = d.fd
      BY <2>1 DEF ReactorInv, BatchIsFresh
    <3>2. i \in ConnSlots => d.slot # i
      BY <2>1, <3>1 DEF ReactorInv, BatchIsFresh, BatchOnce
    <3>3. d.slot # Last
      BY <2>1, SlotTypes
    <3>4. QED
      BY <1>3, <2>1, <3>1, <3>2, <3>3 DEF OthersKept
  <2>2. QED
    BY <1>1, <2>1 DEF BatchIsFresh
<1>5. QED
  BY <1>2, <1>3, <1>4 DEF ReactorInv

\* Idle slots are left and their connections closed, all at once.
LEMMA SweepKeepsReactorInv == ReactorInv /\ Sweep => ReactorInv'
<1> SUFFICES ASSUME ReactorInv, Sweep
             PROVE  ReactorInv'
  OBVIOUS
<1> DEFINE dropped == {i \in Scanned : Idle(i)}
           closed == {gevents[i].fd : i \in dropped}
<1>1. /\ at = "sweep" /\ at' = "wait" /\ checkpos' = NextCheck
      /\ gevents' = [i \in Slots |-> IF i \in dropped
                       THEN [gevents[i] EXCEPT !.status = 0, !.age = 0]
                       ELSE gevents[i]]
      /\ files' = [f \in Fds |-> IF f \in closed THEN NoFile ELSE files[f]]
      /\ interest' = [f \in Fds |-> IF f \in closed THEN None ELSE interest[f]]
      /\ UNCHANGED <<clientVars, inbox, backlog, batch, owed>>
  BY DEF Sweep
<1>2. /\ NextCheck \in 0..MAX_EVENTS
      /\ \A i \in dropped : i \in ConnSlots /\ gevents[i].status = 1
  BY SweepTypes DEF ReactorInv, LoopTypeOK, Idle
<1>3. \A f \in closed : f \in Fds /\ files[f] \in Clients
  BY <1>2 DEF ReactorInv, TableInv, SlotsAreWatched
<1>4. \A j \in ConnSlots : gevents[j].status = 1 /\ j \notin dropped =>
        gevents[j].fd \notin closed
  BY <1>2, SlotsApart DEF ReactorInv
<1> HIDE DEF closed
<1>5. /\ \A j \in Slots : j \notin dropped => gevents'[j] = gevents[j]
      /\ \A j \in dropped : gevents'[j].status = 0
      /\ \A j \in Slots : /\ gevents'[j].fd = gevents[j].fd
                          /\ gevents'[j].call_back = gevents[j].call_back
                          /\ gevents'[j].len = gevents[j].len
  <2>1. \A j \in Slots : gevents[j] \in Event
    BY DEF ReactorInv, TableInv, TableTypeOK
  <2>2. \A e \in Event :
          LET d == [e EXCEPT !.status = 0, !.age = 0] IN
          d.fd = e.fd /\ d.call_back = e.call_back /\ d.len = e.len /\ d.status = 0
    BY DEF Event
  <2>3. QED
    BY <1>1, <1>2, <2>1, <2>2, SlotTypes
<1>6. TableTypeOK'
  <2>1. None \in [slot : Slots, events : {"none", "in", "out"}]
    BY SlotTypes DEF None
  <2>2. \A e \in Event : [e EXCEPT !.status = 0, !.age = 0] \in Event
    BY EventTypes
  <2>3. gevents' \in [Slots -> Event]
    BY <1>1, <2>2 DEF ReactorInv, TableInv, TableTypeOK
  <2>4. QED
    BY <1>1, <2>1, <2>3 DEF ReactorInv, TableInv, TableTypeOK
<1>7. SocketsInv'
  <2>1. /\ files' \in [Fds -> Clients \cup {Listener, NoFile}]
        /\ \A f \in Fds : files'[f] \in {files[f], NoFile}
    BY <1>1 DEF ReactorInv, TableInv, SocketsInv, SocketsTypeOK
  <2>2. QED
    BY <1>1, <2>1, CloseKeepsSocketsInv DEF ReactorInv, TableInv
<1>8. Accounts'
  BY <1>1, <1>5 DEF ReactorInv, TableInv, Accounts, clientVars
<1>9. \A j \in ConnSlots : gevents'[j].status = 1 =>
        /\ gevents'[j] = gevents[j] /\ gevents[j].status = 1
        /\ gevents[j].fd \notin closed
  <2>1. ASSUME NEW j \in ConnSlots, gevents'[j].status = 1
        PROVE  j \notin dropped /\ j \in Slots
    BY <1>5, <2>1, SlotTypes
  <2>2. QED
    BY <1>4, <1>5, <2>1
<1>10. SlotsAreWatched'
  <2>1. ASSUME NEW j \in ConnSlots, gevents'[j].status = 1
        PROVE  /\ gevents'[j].fd \in Fds /\ files'[gevents'[j].fd] \in Clients
               /\ interest'[gevents'[j].fd] =
                    [slot |-> j, events |-> gevents'[j].events]
               /\ gevents'[j].call_back \in {"recvdata", "senddata"}
    <3>1. /\ gevents'[j] = gevents[j] /\ gevents[j].status = 1
          /\ gevents[j].fd \notin closed
      BY <1>9, <2>1
    <3>2. QED
      BY <1>1, <3>1 DEF ReactorInv, TableInv, SlotsAreWatched
  <2>2. QED
    BY <2>1 DEF SlotsAreWatched
<1>11. WatchedHaveSlots'
  <2>1. ASSUME NEW f \in Fds, interest'[f] # None,
               interest'[f].slot \in ConnSlots
        PROVE  /\ gevents'[interest'[f].slot].status = 1
               /\ gevents'[interest'[f].slot].fd = f
    <3>1. f \notin closed /\ interest'[f] = interest[f]
      BY <1>1, <2>1
    <3>2. /\ gevents[interest[f].slot].status = 1
          /\ gevents[interest[f].slot].fd = f
      BY <2>1, <3>1 DEF ReactorInv, TableInv, WatchedHaveSlots
    <3>3. interest[f].slot \notin dropped /\ interest[f].slot \in Slots
      BY <2>1, <3>1, <3>2, SlotTypes DEF closed
    <3>4. QED
      BY <1>5, <3>1, <3>2, <3>3
  <2>2. QED
    BY <2>1 DEF WatchedHaveSlots
<1>12. LastSlot'
  <2>1. lfd \notin closed
    BY <1>3, SocketAssumption DEF ReactorInv, TableInv, LastSlot
  <2>2. files'[lfd] = Listener
    BY <1>1, <2>1, FdsAreNaturals DEF ReactorInv, TableInv, LastSlot
  <2>3. /\ gevents'[Last].fd = gevents[Last].fd
        /\ gevents'[Last].call_back = gevents[Last].call_back
    BY <1>5, SlotTypes
  <2>4. QED
    BY <1>9, <2>2, <2>3 DEF ReactorInv, TableInv, LastSlot, ListenersOwn
<1>13. NoConnectionLeaks'
  <2>1. ASSUME NEW f \in Fds, files'[f] \in Clients
        PROVE  \E j \in Slots : gevents'[j].status = 1 /\ gevents'[j].fd = f
    <3>1. f \notin closed /\ files[f] \in Clients
      BY <1>1, <2>1, SocketAssumption
    <3>2. PICK j \in Slots : gevents[j].status = 1 /\ gevents[j].fd = f
      BY <3>1 DEF ReactorInv, TableInv, NoConnectionLeaks
    <3>3. j \notin dropped
      BY <3>1, <3>2 DEF closed
    <3>4. QED
      BY <1>5, <3>2, <3>3
  <2>2. QED
    BY <2>1 DEF NoConnectionLeaks
<1>14. LoopTypeOK' /\ BatchOnce' /\ BatchIsFresh'
  BY <1>1, <1>2 DEF ReactorInv, LoopTypeOK, BatchOnce, BatchIsFresh
<1>15. QED
  BY <1>6, <1>7, <1>8, <1>10, <1>11, <1>12, <1>13, <1>14
     DEF ReactorInv, TableInv

LEMMA WaitKeepsReactorInv == ReactorInv /\ (Wait \/ WaitFails) => ReactorInv'
<1> SUFFICES ASSUME ReactorInv, Wait \/ WaitFails
             PROVE  ReactorInv'
  OBVIOUS
<1>1. UNCHANGED <<sockVars, tableVars, checkpos, owed>> /\ batch = {}
  BY DEF Wait, WaitFails, ReactorInv, BatchOnce
<1>2. TableInv'
  BY <1>1
     DEF ReactorInv, TableInv, TableTypeOK, SocketsInv, SocketsTypeOK,
         OneFdEach, BacklogIsNew, SentCovers, Queued, Accepted, Accounts,
         SlotsAreWatched, WatchedHaveSlots, LastSlot, ListenersOwn,
         NoConnectionLeaks, sockVars, tableVars
<1>3. CASE WaitFails
  BY <1>1, <1>2, <1>3
     DEF ReactorInv, WaitFails, LoopTypeOK, BatchOnce, BatchIsFresh
<1>4. CASE Wait
  <2> DEFINE report(f) == [fd |-> f, slot |-> interest[f].slot,
                           events |-> interest[f].events]
  <2>1. /\ batch' = {report(f) : f \in Ready}
        /\ at' = IF Ready = {} THEN "sweep" ELSE "handle"
    BY <1>4 DEF Wait
  <2>2. \A f \in Ready : /\ f \in Fds /\ interest[f].events \in {"in", "out"}
                         /\ interest[f].slot \in Slots /\ interest[f] # None
    BY DEF Ready, None, ReactorInv, TableInv, TableTypeOK
  <2>3. LoopTypeOK'
    BY <1>1, <2>1, <2>2 DEF ReactorInv, LoopTypeOK
  <2>4. BatchOnce'
    BY <2>1 DEF BatchOnce
  <2>5. BatchIsFresh'
    BY <1>1, <2>1, <2>2
       DEF ReactorInv, TableInv, WatchedHaveSlots, BatchIsFresh, tableVars
  <2>6. QED
    BY <1>2, <2>3, <2>4, <2>5 DEF ReactorInv
<1>5. QED
  BY <1>3, <1>4

LEMMA TickKeepsReactorInv == ReactorInv /\ Tick => ReactorInv'
<1> SUFFICES ASSUME ReactorInv, Tick
             PROVE  ReactorInv'
  OBVIOUS
<1> DEFINE aging == {i \in ConnSlots : gevents[i].status = 1 /\ gevents[i].age < IDLE}
<1>1. /\ gevents' = [i \in Slots |-> IF i \in aging
                       THEN [gevents[i] EXCEPT !.age = @ + 1] ELSE gevents[i]]
      /\ UNCHANGED <<sockVars, interest, loopVars, owed>>
  BY DEF Tick
<1>2. \A e \in Event :
        /\ LET d == [e EXCEPT !.age = @ + 1] IN
             /\ d.fd = e.fd /\ d.call_back = e.call_back /\ d.len = e.len
             /\ d.status = e.status /\ d.events = e.events
        /\ e.age < IDLE => [e EXCEPT !.age = @ + 1] \in Event
  <2>1. ASSUME NEW e \in Event
        PROVE  e.age < IDLE => [e EXCEPT !.age = @ + 1] \in Event
    BY EventTypes
  <2>2. \A e \in Event :
          LET d == [e EXCEPT !.age = @ + 1] IN
          /\ d.fd = e.fd /\ d.call_back = e.call_back /\ d.len = e.len
          /\ d.status = e.status /\ d.events = e.events
    BY DEF Event
  <2>3. QED
    BY <2>1, <2>2
<1>3. \A i \in Slots : gevents[i] \in Event
  BY DEF ReactorInv, TableInv, TableTypeOK
<1>4. \A i \in Slots :
        /\ gevents'[i].fd = gevents[i].fd /\ gevents'[i].len = gevents[i].len
        /\ gevents'[i].call_back = gevents[i].call_back
        /\ gevents'[i].status = gevents[i].status
        /\ gevents'[i].events = gevents[i].events
        /\ gevents'[i] \in Event
  BY <1>1, <1>2, <1>3
<1>5. TableTypeOK'
  <2>1. gevents' \in [Slots -> Event]
    BY <1>1, <1>4
  <2>2. QED
    BY <1>1, <2>1 DEF ReactorInv, TableInv, TableTypeOK
<1>6. SocketsInv'
  BY <1>1 DEF ReactorInv, TableInv, SocketsInv, SocketsTypeOK, OneFdEach,
              BacklogIsNew, SentCovers, Queued, Accepted, sockVars
<1>7. Accounts' /\ LastSlot' /\ NoConnectionLeaks'
  BY <1>1, <1>4, SlotTypes
     DEF ReactorInv, TableInv, Accounts, LastSlot, ListenersOwn,
         NoConnectionLeaks, sockVars
<1>8. SlotsAreWatched' /\ WatchedHaveSlots'
  BY <1>1, <1>4, SlotTypes
     DEF ReactorInv, TableInv, SlotsAreWatched, WatchedHaveSlots, sockVars
<1>9. LoopTypeOK' /\ BatchOnce' /\ BatchIsFresh'
  BY <1>1, <1>4, SlotTypes
     DEF ReactorInv, LoopTypeOK, BatchOnce, BatchIsFresh, loopVars
<1>10. QED
  BY <1>5, <1>6, <1>7, <1>8, <1>9 DEF ReactorInv, TableInv

LEMMA ClientKeepsReactorInv ==
  ASSUME ReactorInv, NEW c \in Clients, Client(c),
         UNCHANGED <<tableVars, loopVars, owed>>
  PROVE  ReactorInv'
<1>1. SocketsInv'
  BY ClientKeepsSocketsInv DEF ReactorInv, TableInv
<1>2. files' = files /\ UNCHANGED <<gevents, interest, owed, checkpos, batch, at>>
  BY DEF Client, Connect, Send, Finish, Reset, tableVars, loopVars
<1>3. Accounts'
  <2>1. /\ owed \in [Clients -> Nat]
        /\ inbox \in [Clients -> Nat] /\ sent \in [Clients -> Nat]
        /\ \A d \in Clients : owed[d] + inbox[d] <= sent[d]
    BY SocketAssumption
       DEF ReactorInv, TableInv, TableTypeOK, SocketsInv, SocketsTypeOK, Accounts
  <2>2. \/ inbox' = inbox /\ sent' = sent
        \/ /\ inbox' = [inbox EXCEPT ![c] = @ + 1]
           /\ sent' = [sent EXCEPT ![c] = @ + 1]
        \/ inbox' = [inbox EXCEPT ![c] = 0] /\ sent' = sent
    BY DEF Client, Connect, Send, Finish, Reset
  <2>3. \A d \in Clients : owed[d] + inbox'[d] <= sent'[d]
    BY <2>1, <2>2
  <2>4. QED
    BY <1>2, <2>3 DEF ReactorInv, TableInv, Accounts
<1>4. TableTypeOK' /\ SlotsAreWatched' /\ WatchedHaveSlots' /\ LastSlot'
      /\ NoConnectionLeaks' /\ LoopTypeOK' /\ BatchOnce' /\ BatchIsFresh'
  BY <1>2
     DEF ReactorInv, TableInv, TableTypeOK, SlotsAreWatched, WatchedHaveSlots,
         LastSlot, ListenersOwn, NoConnectionLeaks, LoopTypeOK, BatchOnce,
         BatchIsFresh
<1>5. QED
  BY <1>1, <1>3, <1>4 DEF ReactorInv, TableInv

LEMMA InitReactorInv == Init => ReactorInv
<1> SUFFICES ASSUME Init
             PROVE  ReactorInv
  OBVIOUS
<1>1. SocketsInv /\ files = [f \in Fds |-> IF f = lfd THEN Listener ELSE NoFile]
  BY InitSocketsInv DEF Init, SocketsInit
<1>2. /\ Unused \in Event /\ Unused.status = 0 /\ Unused.len = 0
      /\ Unused.fd = 0
  BY ReactorAssumption DEF Unused, Event
<1>3. /\ ListenersSlot \in Event /\ ListenersSlot.fd = lfd
      /\ ListenersSlot.call_back = "acceptconn" /\ ListenersSlot.len = 0
  <2>1. ListenersSlot \in Event
    BY <1>2, EventTypes, FdsAreNaturals DEF ListenersSlot
  <2>2. QED
    BY <2>1 DEF ListenersSlot, EventAdd, EventSet, Unused, Event
<1>4. gevents = [i \in Slots |-> IF i = Last THEN ListenersSlot ELSE Unused]
  BY DEF Init
<1>5. TableTypeOK
  <2>1. interest \in [Fds -> [slot : Slots, events : {"none", "in", "out"}]]
    BY SlotTypes DEF Init, None
  <2>2. owed \in [Clients -> 0..MaxData]
    BY SocketAssumption DEF Init
  <2>3. QED
    BY <1>2, <1>3, <1>4, <2>1, <2>2 DEF TableTypeOK
<1>6. Accounts
  BY <1>2, <1>3, <1>4 DEF Init, SocketsInit, Accounts
<1>7. SlotsAreWatched /\ LastSlot
  BY <1>1, <1>2, <1>3, <1>4, SlotTypes, FdsAreNaturals
     DEF SlotsAreWatched, LastSlot, ListenersOwn
<1>8. WatchedHaveSlots
  BY SlotTypes DEF Init, WatchedHaveSlots
<1>9. NoConnectionLeaks
  BY <1>1, SocketAssumption DEF NoConnectionLeaks
<1>10. LoopTypeOK /\ BatchOnce /\ BatchIsFresh
  BY SlotTypes DEF Init, LoopTypeOK, BatchOnce, BatchIsFresh
<1>11. QED
  BY <1>1, <1>5, <1>6, <1>7, <1>8, <1>9, <1>10 DEF ReactorInv, TableInv

LEMMA SpecReactorInv == Spec => []ReactorInv
<1>1. ReactorInv /\ [Next]_vars => ReactorInv'
  <2> SUFFICES ASSUME ReactorInv, [Next]_vars
               PROVE  ReactorInv'
    OBVIOUS
  <2>1. CASE Sweep \/ Wait \/ WaitFails \/ Tick
    BY <2>1, SweepKeepsReactorInv, WaitKeepsReactorInv, TickKeepsReactorInv
  <2>2. CASE \E e \in batch : Handle(e)
    BY <2>2, HandleKeepsReactorInv
  <2>3. CASE \E c \in Clients : Client(c) /\ UNCHANGED <<tableVars, loopVars, owed>>
    BY <2>3, ClientKeepsReactorInv
  <2>4. CASE UNCHANGED vars
    BY <2>4
       DEF ReactorInv, TableInv, TableTypeOK, SocketsInv, SocketsTypeOK,
           OneFdEach, BacklogIsNew, SentCovers, Queued, Accepted, Accounts,
           SlotsAreWatched, WatchedHaveSlots, LastSlot, ListenersOwn,
           NoConnectionLeaks, LoopTypeOK, BatchOnce, BatchIsFresh,
           vars, sockVars, tableVars, loopVars
  <2>5. QED
    BY <2>1, <2>2, <2>3, <2>4 DEF Next, ServeNext, Loop, Environment
<1>2. QED
  BY <1>1, InitReactorInv, PTL DEF Spec

-----------------------------------------------------------------------------
(* The theorems. *)

\* main.cpp 70-93, 205-217, 263-265: the table and the epoll set agree, for any
\* size of the table, also when it is full and a connection takes the listening
\* socket's slot.
THEOREM SlotsAlwaysMatchEpoll == Spec => []SlotsMatchEpoll
<1>1. ReactorInv => SlotsMatchEpoll
  BY DEF ReactorInv, TableInv, TableTypeOK, SocketsInv, LoopTypeOK,
         SlotsAreWatched, WatchedHaveSlots, SlotsMatchEpoll, TypeOK
<1>2. QED
  BY <1>1, SpecReactorInv, PTL

\* main.cpp 156-161, 178-181, 263-265: no connection is open that no slot has.
THEOREM NoConnectionEverLeaks == Spec => []NoConnectionLeaks
<1>1. ReactorInv => NoConnectionLeaks
  BY DEF ReactorInv, TableInv
<1>2. QED
  BY <1>1, SpecReactorInv, PTL

\* main.cpp 275-288: in whatever order a batch is handled, and whatever its
\* callbacks close and accept, each event still finds its connection.
THEOREM BatchAlwaysFresh == Spec => []BatchIsFresh
<1>1. ReactorInv => BatchIsFresh
  BY DEF ReactorInv
<1>2. QED
  BY <1>1, SpecReactorInv, PTL
=============================================================================
