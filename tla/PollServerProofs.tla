-------------------------- MODULE PollServerProofs --------------------------
(***************************************************************************)
(* Safety of the poll server, for any number of clients, of descriptors    *)
(* and of requests: its table, the reports it acts on, the texts it sends. *)
(***************************************************************************)
EXTENDS PollServer, SocketsProofs, FiniteSetTheorems

(***************************************************************************)
(* The inductive invariant.  TableIsExact and ReportsStayTrue need one     *)
(* another, TextIsTheConnections needs both; and a connection that is      *)
(* accepted must not find a debt of the server, which OwesOne sees to.     *)
(***************************************************************************)
ListenerFirst ==
  /\ files[lfd] = Listener
  /\ fds[0].fd = lfd /\ fds[0].events = "in"

EntriesAreOpen ==
  /\ \A k \in 1..conncount : files[fds[k].fd] \in Clients
  /\ \A j, k \in 1..conncount : fds[j].fd = fds[k].fd => j = k
  /\ \A f \in Fds : files[f] \in Clients => \E k \in 1..conncount : fds[k].fd = f

TrueReport(e) ==
  /\ "in" \in e.revents => e.events = "in" /\ CanRead(e.fd)
  /\ "out" \in e.revents => e.events = "out"
  /\ "hangup" \in e.revents => files[e.fd] \in Clients /\ HangsUp(files[e.fd])

ReportsAreTrue ==
  at = "loop" => \A k \in i..conncount : TrueReport(fds[k])

OwesOne ==
  \A c \in Clients : /\ owed[c] \in {0, 1}
                     /\ peer[c] = "off" \/ Queued(c) => owed[c] = 0

PollInv == /\ TypeOK /\ SocketsInv /\ ListenerFirst /\ EntriesAreOpen
           /\ ReportsAreTrue /\ OwesOne /\ TextIsTheConnections

-----------------------------------------------------------------------------
LEMMA SizeOfTable ==
  /\ CLIENTSIZE \in Nat \ {0} /\ 0 \in Entries /\ Entries \subseteq Nat
  /\ Cardinality(Clients) \in Nat /\ Cardinality(Clients) < CLIENTSIZE
  BY PollAssumption, FS_CardinalityType DEF Entries

\* Connections of different clients fit into the table.
LEMMA FewConnections ==
  ASSUME NEW n \in Nat, NEW g \in [1..n -> Clients],
         \A j, k \in 1..n : g[j] = g[k] => j = k
  PROVE  n \in Entries
<1>1. g \in Injection(1..n, Clients)
  BY DEF Injection, IsInjective
<1>2. Cardinality(1..n) = n
  BY FS_Interval
<1>3. n <= Cardinality(Clients)
  BY <1>1, <1>2, PollAssumption, FS_Injection
<1>4. QED
  BY <1>3, SizeOfTable DEF Entries

\* What is in the entries that are in use.
LEMMA EntryType ==
  ASSUME TypeOK
  PROVE  /\ conncount \in Nat /\ conncount \in Entries
         /\ \A k \in 0..conncount :
              /\ k \in Entries
              /\ fds[k] \in [fd : Fds, events : {"in", "out"},
                             revents : SUBSET {"in", "out", "hangup"}]
  BY SizeOfTable DEF TypeOK, Entries

\* Entries of different connections have different files behind them.
LEMMA EntryFiles ==
  ASSUME PollInv
  PROVE  /\ \A j, k \in 1..conncount : files[fds[j].fd] = files[fds[k].fd] => j = k
         /\ \A k \in 1..conncount : fds[k].fd # lfd
<1>1. \A k \in 1..conncount : fds[k].fd \in Fds /\ files[fds[k].fd] \in Clients
  BY EntryType DEF PollInv, EntriesAreOpen
<1>2. \A j, k \in 1..conncount : files[fds[j].fd] = files[fds[k].fd] => j = k
  BY <1>1 DEF PollInv, EntriesAreOpen, SocketsInv, OneFdEach
<1>3. QED
  BY <1>1, <1>2, SocketAssumption DEF PollInv, ListenerFirst

LEMMA InitPollInv == Init => PollInv
<1> SUFFICES ASSUME Init
             PROVE  PollInv
  OBVIOUS
<1> USE SocketAssumption, SizeOfTable DEF Init
<1>1. SocketsInv
  BY InitSocketsInv
<1>2. TypeOK
  <2>1. Unset \in [fd : Fds, events : {"in", "out"},
                   revents : SUBSET {"in", "out", "hangup"}]
    BY FdsAreNaturals DEF Unset
  <2>2. QED
    BY <1>1, <2>1 DEF TypeOK, SocketsInv, NoText
<1>3. files = [f \in Fds |-> IF f = lfd THEN Listener ELSE NoFile]
  BY DEF SocketsInit
<1>4. ListenerFirst /\ EntriesAreOpen
  BY <1>3, FdsAreNaturals DEF ListenerFirst, EntriesAreOpen, Unset
<1>5. ReportsAreTrue /\ OwesOne /\ TextIsTheConnections
  BY <1>3 DEF ReportsAreTrue, OwesOne, TextIsTheConnections, NoText
<1>6. QED
  BY <1>1, <1>2, <1>4, <1>5 DEF PollInv

-----------------------------------------------------------------------------
(* poll() *)

LEMMA PollKeepsPollInv == PollInv /\ Poll => PollInv'
<1> SUFFICES ASSUME PollInv, Poll
             PROVE  PollInv'
  OBVIOUS
<1>1. /\ UNCHANGED <<sockVars, conncount, mapdata, owed>>
      /\ i' = 0 /\ at' = "loop"
      /\ \A k \in 0..conncount :
           fds'[k] = [fds[k] EXCEPT !.revents = Revents(fds[k])]
      /\ \A k \in Entries : fds'[k] = fds[k]
           \/ fds'[k] = [fds[k] EXCEPT !.revents = Revents(fds[k])]
      /\ fds' = [k \in Entries |-> fds'[k]]
  BY EntryType DEF PollInv, Poll, Polled, Entries
<1>2. \A e : Revents(e) \subseteq {"in", "out", "hangup"}
  BY DEF Revents
<1>3. TypeOK'
  <2>1. \A k \in Entries : fds'[k] \in [fd : Fds, events : {"in", "out"},
                              revents : SUBSET {"in", "out", "hangup"}]
    BY <1>1, <1>2 DEF PollInv, TypeOK
  <2>2. QED
    BY <1>1, <2>1, SizeOfTable
       DEF PollInv, TypeOK, SocketsTypeOK, sockVars
<1>4. SocketsInv'
  BY <1>1 DEF PollInv, SocketsInv, SocketsTypeOK, OneFdEach, BacklogIsNew,
              SentCovers, Queued, Accepted, sockVars
<1>5. \A k \in 0..conncount : fds'[k].fd = fds[k].fd /\ fds'[k].events = fds[k].events
  BY <1>1, EntryType DEF PollInv
<1>6. conncount \in Nat /\ 0 \in 0..conncount
  BY EntryType DEF PollInv
<1>7. ListenerFirst' /\ EntriesAreOpen'
  BY <1>1, <1>5, <1>6 DEF PollInv, ListenerFirst, EntriesAreOpen, sockVars
<1>8. ReportsAreTrue'
  <2>1. ASSUME NEW k \in 0..conncount
        PROVE  TrueReport(fds[k])' 
    <3>1. fds'[k].revents = Revents(fds[k])
      BY <1>1, EntryType DEF PollInv
    <3>2. QED
      BY <1>1, <1>5, <3>1
         DEF TrueReport, Revents, CanRead, HangsUp, sockVars
  <2>2. QED
    BY <1>1, <2>1 DEF ReportsAreTrue
<1>9. OwesOne' /\ TextIsTheConnections'
  BY <1>1, <1>5, <1>6
     DEF PollInv, OwesOne, TextIsTheConnections, Queued, Open, sockVars
<1>10. QED
  BY <1>3, <1>4, <1>7, <1>8, <1>9 DEF PollInv

-----------------------------------------------------------------------------
(* Turns of the loop. *)

\* A report in the turn that is next.
LEMMA ReportOfThisTurn ==
  ASSUME PollInv, NEW x, Has(x)
  PROVE  /\ i \in 0..conncount /\ at = "loop" /\ x \in fds[i].revents
         /\ x = "in" => fds[i].events = "in" /\ CanRead(fds[i].fd)
         /\ x = "out" => fds[i].events = "out"
         /\ x = "hangup" => /\ files[fds[i].fd] \in Clients
                            /\ HangsUp(files[fds[i].fd])
         /\ fds[i].fd # lfd \/ x \in {"out", "hangup"} => i # 0
<1>1. i \in 0..conncount
  BY EntryType DEF Has, PollInv, TypeOK
<1>2. TrueReport(fds[i])
  BY <1>1 DEF Has, PollInv, ReportsAreTrue
<1>3. QED
  BY <1>1, <1>2, SocketAssumption DEF Has, TrueReport, PollInv, ListenerFirst

\* What the steps that leave the connections alone leave alone.
LEMMA OnlyTheTableChanges ==
  ASSUME PollInv, UNCHANGED <<sockVars, conncount>>, TypeOK',
         \A k \in 0..conncount : fds'[k].fd = fds[k].fd,
         fds'[0].events = fds[0].events
  PROVE  SocketsInv' /\ ListenerFirst' /\ EntriesAreOpen'
<1>1. conncount \in Nat /\ 0 \in 0..conncount
  BY EntryType DEF PollInv
<1>2. SocketsInv'
  BY DEF PollInv, SocketsInv, SocketsTypeOK, OneFdEach, BacklogIsNew,
         SentCovers, Queued, Accepted, sockVars
<1>3. ListenerFirst' /\ EntriesAreOpen'
  BY <1>1 DEF PollInv, ListenerFirst, EntriesAreOpen, sockVars
<1>4. QED
  BY <1>2, <1>3

LEMMA IdleTurnsKeepPollInv == PollInv /\ (Skip \/ LoopEnds) => PollInv'
<1> SUFFICES ASSUME PollInv, Skip \/ LoopEnds
             PROVE  PollInv'
  OBVIOUS
<1>1. /\ UNCHANGED <<sockVars, fds, conncount, mapdata, owed>>
      /\ \/ i <= conncount /\ i' = i + 1 /\ at' = at
         \/ i' = i /\ at' = "poll"
  BY DEF Skip, LoopEnds, GoesOn
<1>2. TypeOK'
  BY <1>1, SizeOfTable DEF PollInv, TypeOK, SocketsTypeOK, sockVars, Entries
<1>3. SocketsInv' /\ ListenerFirst' /\ EntriesAreOpen'
  BY <1>1, <1>2, OnlyTheTableChanges
<1>4. ReportsAreTrue'
  <2>1. i \in Nat /\ conncount \in Nat
    BY EntryType DEF PollInv, TypeOK
  <2>2. QED
    BY <1>1, <2>1
       DEF PollInv, ReportsAreTrue, TrueReport, CanRead, HangsUp, sockVars
<1>5. OwesOne' /\ TextIsTheConnections'
  BY <1>1 DEF PollInv, OwesOne, TextIsTheConnections, Queued, Open, sockVars
<1>6. QED
  BY <1>2, <1>3, <1>4, <1>5 DEF PollInv

LEMMA ReadKeepsPollInv == PollInv /\ Read => PollInv'
<1> SUFFICES ASSUME PollInv, Read
             PROVE  PollInv'
  OBVIOUS
<1> DEFINE f == fds[i].fd
           c == files[f]
<1>1. /\ i \in 1..conncount /\ at = "loop"
      /\ fds[i].events = "in" /\ CanRead(f)
      /\ UNCHANGED <<clientVars, backlog, files, conncount>>
  BY ReportOfThisTurn, EntryType DEF Read, PollInv
<1>2. /\ f \in Fds /\ c \in Clients /\ i \in Entries
      /\ conncount \in Nat /\ i + 1 \in 0..CLIENTSIZE
  BY <1>1, EntryType, SizeOfTable DEF PollInv, EntriesAreOpen, Entries
<1>3. CASE Received(f) # "data"
  <2>1. UNCHANGED <<sockVars, fds, conncount, mapdata, owed>>
    BY <1>1, <1>3 DEF Read, sockVars, clientVars
  <2>2. \/ i' = i + 1 /\ at' = at
        \/ i' = i /\ at' = "exited"
    BY <1>3 DEF Read, GoesOn, Exits
  <2>3. TypeOK'
    BY <1>2, <2>1, <2>2 DEF PollInv, TypeOK, SocketsTypeOK, sockVars
  <2>4. SocketsInv' /\ ListenerFirst' /\ EntriesAreOpen'
    BY <2>1, <2>3, OnlyTheTableChanges
  <2>5. ReportsAreTrue'
    BY <1>1, <1>2, <2>1, <2>2
       DEF PollInv, ReportsAreTrue, TrueReport, CanRead, HangsUp, sockVars
  <2>6. OwesOne' /\ TextIsTheConnections'
    BY <2>1 DEF PollInv, OwesOne, TextIsTheConnections, Queued, Open, sockVars
  <2>7. QED
    BY <2>3, <2>4, <2>5, <2>6 DEF PollInv
<1>4. CASE Received(f) = "data"
  <2>1. /\ inbox' = [inbox EXCEPT ![c] = @ - 1]
        /\ owed' = [owed EXCEPT ![c] = @ + 1]
        /\ mapdata' = [mapdata EXCEPT ![f] = c]
        /\ fds' = [fds EXCEPT ![i].events = "out"]
        /\ i' = i + 1 /\ at' = at
    BY <1>4 DEF Read, GoesOn, Conn, TurnsToWriting
  <2>2. inbox[c] > 0
    BY <1>4 DEF Received
  <2>3. owed[c] = 0
    BY <1>1, <1>2 DEF PollInv, OwesOne, TextIsTheConnections
  <2>4. SocketsInv'
    BY <1>1, <1>2, <2>1, <2>2, ReceiveKeepsSocketsInv DEF PollInv
  <2>5. /\ \A k \in 0..conncount : fds'[k].fd = fds[k].fd
        /\ \A k \in 0..conncount :
              k # i => fds'[k] = fds[k]
        /\ fds'[i].events = "out"
    BY <1>1, <1>2, <2>1, EntryType DEF PollInv, TypeOK
  <2>6. TypeOK'
    <3>1. fds' \in [Entries -> [fd : Fds, events : {"in", "out"},
                                revents : SUBSET {"in", "out", "hangup"}]]
      BY <1>2, <2>1 DEF PollInv, TypeOK
    <3>2. owed' \in [Clients -> 0..MaxData]
      BY <1>2, <2>1, <2>3, SocketAssumption DEF PollInv, TypeOK
    <3>3. mapdata' \in [Fds -> Clients \cup {NoText}]
      BY <1>2, <2>1 DEF PollInv, TypeOK
    <3>4. QED
      BY <1>1, <1>2, <2>1, <2>4, <3>1, <3>2, <3>3
         DEF PollInv, TypeOK, SocketsInv
  <2>7. ListenerFirst' /\ EntriesAreOpen'
    BY <1>1, <1>2, <2>5 DEF PollInv, ListenerFirst, EntriesAreOpen
  <2>8. ReportsAreTrue'
    <3>1. ASSUME NEW k \in i+1..conncount
          PROVE  TrueReport(fds[k])'
      <4>1. k \in i..conncount /\ k \in 1..conncount /\ k # i
            /\ k \in 0..conncount
        BY <1>1, <1>2
      <4>2. TrueReport(fds[k]) /\ fds'[k] = fds[k]
        BY <1>1, <2>5, <4>1 DEF PollInv, ReportsAreTrue
      <4>3. files[fds[k].fd] # c /\ files[fds[k].fd] \in Clients
        BY <1>1, <4>1, EntryFiles DEF PollInv, EntriesAreOpen
      <4>4. inbox'[files[fds[k].fd]] = inbox[files[fds[k].fd]]
        BY <2>1, <4>3 DEF PollInv, TypeOK, SocketsTypeOK
      <4>5. QED
        BY <1>1, <4>2, <4>4 DEF TrueReport, CanRead, HangsUp, clientVars
    <3>2. QED
      BY <2>1, <1>1, <3>1 DEF ReportsAreTrue
  <2>9. OwesOne'
    <3>1. peer[c] # "off" /\ ~Queued(c)
      <4>1. Accepted(c)
        BY <1>2 DEF Accepted
      <4>2. QED
        BY <1>2, <4>1 DEF PollInv, SocketsInv, BacklogIsNew, Queued
    <3>2. QED
      BY <1>1, <1>2, <2>1, <2>3, <3>1
         DEF PollInv, OwesOne, TypeOK, Queued, clientVars
  <2>10. TextIsTheConnections'
    <3>1. ASSUME NEW k \in 1..conncount
          PROVE  /\ fds'[k].events = "out" <=> owed'[files[fds[k].fd]] = 1
                 /\ fds'[k].events = "out" =>
                       mapdata'[fds[k].fd] = files[fds[k].fd]
      <4>1. CASE k = i
        BY <1>2, <2>1, <2>3, <2>5, <4>1 DEF PollInv, TypeOK
      <4>2. CASE k # i
        <5>1. files[fds[k].fd] # c /\ fds[k].fd # f
              /\ files[fds[k].fd] \in Clients /\ fds'[k] = fds[k]
              /\ fds[k].fd \in Fds
          BY <1>1, <1>2, <2>5, <4>2, EntryFiles, EntryType
             DEF PollInv, EntriesAreOpen
        <5>2. QED
          BY <2>1, <5>1 DEF PollInv, TypeOK, TextIsTheConnections
      <4>3. QED
        BY <4>1, <4>2
    <3>2. \A g \in Fds \ Open : mapdata'[g] = NoText
      BY <1>2, <2>1 DEF PollInv, TextIsTheConnections, Open, TypeOK
    <3>3. QED
      BY <1>1, <1>2, <2>5, <3>1, <3>2 DEF TextIsTheConnections, Open
  <2>11. QED
    BY <2>4, <2>6, <2>7, <2>8, <2>9, <2>10 DEF PollInv
<1>5. QED
  BY <1>3, <1>4

LEMMA WriteKeepsPollInv == PollInv /\ Write => PollInv'
<1> SUFFICES ASSUME PollInv, Write
             PROVE  PollInv'
  OBVIOUS
<1> DEFINE f == fds[i].fd
           c == files[f]
<1>1. /\ i \in 1..conncount /\ at = "loop" /\ fds[i].events = "out"
      /\ UNCHANGED <<sockVars, conncount, mapdata>>
  BY ReportOfThisTurn, EntryType DEF Write, PollInv
<1>2. /\ f \in Fds /\ c \in Clients /\ i \in Entries
      /\ conncount \in Nat /\ i + 1 \in 0..CLIENTSIZE
  BY <1>1, EntryType, SizeOfTable DEF PollInv, EntriesAreOpen, Entries
<1>3. CASE peer[c] = "reset"
  <2>1. UNCHANGED <<fds, owed>>
    BY <1>3 DEF Write, Conn
  <2>2. \/ i' = i + 1 /\ at' = at
        \/ i' = i /\ at' = "exited"
    BY <1>3 DEF Write, GoesOn, Exits, Conn
  <2>3. TypeOK'
    BY <1>1, <1>2, <2>1, <2>2 DEF PollInv, TypeOK, SocketsTypeOK, sockVars
  <2>4. SocketsInv' /\ ListenerFirst' /\ EntriesAreOpen'
    BY <1>1, <2>1, <2>3, OnlyTheTableChanges
  <2>5. ReportsAreTrue'
    BY <1>1, <1>2, <2>1, <2>2
       DEF PollInv, ReportsAreTrue, TrueReport, CanRead, HangsUp, sockVars
  <2>6. OwesOne' /\ TextIsTheConnections'
    BY <1>1, <2>1 DEF PollInv, OwesOne, TextIsTheConnections, Queued, Open, sockVars
  <2>7. QED
    BY <2>3, <2>4, <2>5, <2>6 DEF PollInv
<1>4. CASE peer[c] # "reset"
  <2>1. owed[c] = 1 /\ mapdata[f] = c
    BY <1>1 DEF PollInv, TextIsTheConnections
  <2>2. /\ owed' = [owed EXCEPT ![c] = @ - 1]
        /\ fds' = [fds EXCEPT ![i].events = "in"]
        /\ i' = i + 1 /\ at' = at
    BY <1>4, <2>1 DEF Write, GoesOn, Conn, TurnsToReading
  <2>3. /\ \A k \in 0..conncount : fds'[k].fd = fds[k].fd
        /\ \A k \in 0..conncount :
              k # i => fds'[k] = fds[k]
        /\ fds'[i].events = "in"
    BY <1>1, <1>2, <2>2, EntryType DEF PollInv, TypeOK
  <2>4. TypeOK'
    <3>1. fds' \in [Entries -> [fd : Fds, events : {"in", "out"},
                                revents : SUBSET {"in", "out", "hangup"}]]
      BY <1>2, <2>2 DEF PollInv, TypeOK
    <3>2. owed' \in [Clients -> 0..MaxData]
      BY <1>2, <2>1, <2>2, SocketAssumption DEF PollInv, TypeOK
    <3>3. QED
      BY <1>1, <1>2, <2>2, <3>1, <3>2
         DEF PollInv, TypeOK, SocketsTypeOK, sockVars
  <2>5. SocketsInv' /\ ListenerFirst' /\ EntriesAreOpen'
    <3>1. fds'[0].events = fds[0].events
      BY <1>1, <1>2, <2>3
    <3>2. QED
      BY <1>1, <2>3, <2>4, <3>1, OnlyTheTableChanges
  <2>6. ReportsAreTrue'
    <3>1. ASSUME NEW k \in i+1..conncount
          PROVE  TrueReport(fds[k])'
      <4>1. k \in i..conncount /\ k # i /\ k \in 0..conncount
        BY <1>1, <1>2
      <4>2. TrueReport(fds[k]) /\ fds'[k] = fds[k]
        BY <1>1, <2>3, <4>1 DEF PollInv, ReportsAreTrue
      <4>3. QED
        BY <1>1, <4>2 DEF TrueReport, CanRead, HangsUp, sockVars
    <3>2. QED
      BY <1>1, <2>2, <3>1 DEF ReportsAreTrue
  <2>7. OwesOne'
    BY <1>1, <1>2, <2>1, <2>2
       DEF PollInv, OwesOne, TypeOK, Queued, sockVars
  <2>8. TextIsTheConnections'
    <3>1. ASSUME NEW k \in 1..conncount
          PROVE  /\ fds'[k].events = "out" <=> owed'[files[fds[k].fd]] = 1
                 /\ fds'[k].events = "out" =>
                       mapdata[fds[k].fd] = files[fds[k].fd]
      <4>1. CASE k = i
        BY <1>2, <2>1, <2>2, <2>3, <4>1 DEF PollInv, TypeOK
      <4>2. CASE k # i
        <5>1. files[fds[k].fd] # c
              /\ files[fds[k].fd] \in Clients /\ fds'[k] = fds[k]
          BY <1>1, <1>2, <2>3, <4>2, EntryFiles, EntryType
             DEF PollInv, EntriesAreOpen
        <5>2. QED
          BY <2>2, <5>1 DEF PollInv, TypeOK, TextIsTheConnections
      <4>3. QED
        BY <4>1, <4>2
    <3>2. QED
      BY <1>1, <1>2, <2>3, <3>1
         DEF PollInv, TextIsTheConnections, Open, sockVars
  <2>9. QED
    BY <2>4, <2>5, <2>6, <2>7, <2>8 DEF PollInv
<1>5. QED
  BY <1>3, <1>4

\* In the turn of the listening socket: the connection comes into the table.
LEMMA AcceptKeepsPollInv == PollInv /\ AcceptClient => PollInv'
<1> SUFFICES ASSUME PollInv, AcceptClient
             PROVE  PollInv'
  OBVIOUS
<1>1. /\ i = 0 /\ at = "loop"
      /\ UNCHANGED <<clientVars, inbox, mapdata, owed>>
      /\ conncount \in Nat /\ conncount \in Entries
  <2>1. i \in 0..conncount /\ fds[i].fd = lfd /\ at = "loop"
    BY ReportOfThisTurn DEF AcceptClient
  <2>2. i = 0
    BY <2>1, EntryFiles
  <2>3. QED
    BY <2>1, <2>2, EntryType DEF AcceptClient, PollInv
<1>2. CASE ~CanAccept
  <2>1. UNCHANGED <<sockVars, fds, conncount, mapdata, owed, i>> /\ at' = "exited"
    BY <1>1, <1>2 DEF AcceptClient, Exits, sockVars, clientVars
  <2>2. TypeOK'
    BY <2>1 DEF PollInv, TypeOK, SocketsTypeOK, sockVars
  <2>3. SocketsInv' /\ ListenerFirst' /\ EntriesAreOpen'
    BY <2>1, <2>2, OnlyTheTableChanges
  <2>4. ReportsAreTrue' /\ OwesOne' /\ TextIsTheConnections'
    BY <2>1 DEF PollInv, ReportsAreTrue, OwesOne, TextIsTheConnections, Queued,
                Open, sockVars
  <2>5. QED
    BY <2>2, <2>3, <2>4 DEF PollInv
<1>3. CASE CanAccept
  <2> DEFINE c == Head(backlog)
             new == NewFd
             n == conncount + 1
  <2>1. /\ Accept /\ conncount' = n
        /\ fds' = [fds EXCEPT ![n] = NewEntry(new)]
        /\ i' = 1 /\ at' = at
    BY <1>1, <1>3 DEF AcceptClient, GoesOn
  <2>2. /\ SocketsInv'
        /\ new \in Fds /\ files[new] = NoFile
        /\ c \in Clients /\ Queued(c) /\ ~Accepted(c)
        /\ \A d \in Clients : Queued(d)' <=> Queued(d) /\ d # c
        /\ files' = [files EXCEPT ![new] = c]
    BY <1>1, <2>1, AcceptKeepsSocketsInv DEF PollInv
  <2> HIDE DEF c, new
  <2>3. n \in Entries /\ n \in Nat /\ conncount \in 0..n
    <3> DEFINE g == [k \in 1..n |-> IF k = n THEN c ELSE files[fds[k].fd]]
    <3>1. ASSUME NEW k \in 1..n, k # n
          PROVE  /\ k \in 1..conncount
                 /\ files[fds[k].fd] \in Clients /\ files[fds[k].fd] # c
      BY <1>1, <2>2, EntryType, <3>1 DEF PollInv, EntriesAreOpen, Accepted
    <3>2. g \in [1..n -> Clients]
      BY <2>2, <3>1
    <3>3. \A j, k \in 1..n : g[j] = g[k] => j = k
      BY <3>1, EntryFiles
    <3>4. n \in Nat /\ conncount \in 0..n
      BY <1>1
    <3>5. n \in Entries
      <4> HIDE DEF g
      <4>1. QED
        BY <3>2, <3>3, <3>4, FewConnections
    <3>6. QED
      BY <3>4, <3>5
  <2>4. /\ fds'[n] = [fd |-> new, events |-> "in", revents |-> {}]
        /\ \A k \in 0..conncount : fds'[k] = fds[k]
    BY <1>1, <2>1, <2>3, EntryType DEF PollInv, TypeOK, NewEntry
  <2>5. \A k \in 0..conncount :
          /\ fds[k].fd \in Fds /\ fds[k].fd # new
          /\ files'[fds[k].fd] = files[fds[k].fd]
    <3>1. ASSUME NEW k \in 0..conncount
          PROVE  fds[k].fd \in Fds /\ files[fds[k].fd] # NoFile
      BY <1>1, EntryType, SocketAssumption DEF PollInv, EntriesAreOpen, ListenerFirst
    <3>2. QED
      BY <2>2, <3>1 DEF PollInv, TypeOK, SocketsTypeOK
  <2>6. TypeOK'
    <3>1. fds' \in [Entries -> [fd : Fds, events : {"in", "out"},
                                revents : SUBSET {"in", "out", "hangup"}]]
      BY <2>1, <2>2, <2>3 DEF PollInv, TypeOK, NewEntry
    <3>2. 1 \in 0..CLIENTSIZE
      BY SizeOfTable
    <3>3. QED
      BY <1>1, <2>1, <2>2, <2>3, <3>1, <3>2 DEF PollInv, TypeOK, SocketsInv
  <2>7. ListenerFirst'
    BY <1>1, <2>4, <2>5 DEF PollInv, ListenerFirst
  <2>8. EntriesAreOpen'
    <3>1. files'[new] = c
      BY <2>2 DEF PollInv, TypeOK, SocketsTypeOK
    <3>2. \A k \in 1..n :
            k # n => k \in 1..conncount /\ k \in 0..conncount
      BY <1>1
    <3>3. \A k \in 1..n : files'[fds'[k].fd] \in Clients
      BY <2>2, <2>4, <2>5, <3>1, <3>2 DEF PollInv, EntriesAreOpen
    <3>4. \A j, k \in 1..n : fds'[j].fd = fds'[k].fd => j = k
      BY <2>4, <2>5, <3>2 DEF PollInv, EntriesAreOpen
    <3>5. ASSUME NEW f \in Fds, files'[f] \in Clients
          PROVE  \E k \in 1..n : fds'[k].fd = f
      <4>1. CASE f = new
        BY <1>1, <2>3, <2>4, <4>1
      <4>2. CASE f # new
        <5>1. files[f] \in Clients
          BY <2>2, <3>5, <4>2 DEF PollInv, TypeOK, SocketsTypeOK
        <5>2. PICK k \in 1..conncount : fds[k].fd = f
          BY <5>1 DEF PollInv, EntriesAreOpen
        <5>3. k \in 1..n /\ fds'[k].fd = f
          BY <1>1, <2>4, <5>2
        <5>4. QED
          BY <5>3
      <4>3. QED
        BY <4>1, <4>2
    <3>6. QED
      BY <2>1, <3>3, <3>4, <3>5 DEF EntriesAreOpen
  <2>9. ReportsAreTrue'
    <3>1. ASSUME NEW k \in 1..n
          PROVE  TrueReport(fds[k])'
      <4>1. CASE k = n
        BY <2>4, <4>1 DEF TrueReport
      <4>2. CASE k # n
        <5>1. k \in 0..conncount /\ k \in i..conncount /\ k \in 1..conncount
          BY <1>1, <4>2
        <5>2. /\ TrueReport(fds[k]) /\ fds'[k] = fds[k]
              /\ files'[fds[k].fd] = files[fds[k].fd]
              /\ files[fds[k].fd] \in Clients
          BY <1>1, <2>4, <2>5, <5>1 DEF PollInv, ReportsAreTrue, EntriesAreOpen
        <5>3. QED
          BY <1>1, <5>2, SocketAssumption DEF TrueReport, CanRead, HangsUp, clientVars
      <4>3. QED
        BY <4>1, <4>2
    <3>2. QED
      BY <2>1, <3>1 DEF ReportsAreTrue
  <2>10. OwesOne'
    BY <1>1, <2>2 DEF PollInv, OwesOne, clientVars
  <2>11. TextIsTheConnections'
    <3>1. files'[new] = c /\ owed[c] = 0
      BY <2>2 DEF PollInv, TypeOK, SocketsTypeOK, OwesOne
    <3>2. ASSUME NEW k \in 1..n
          PROVE  /\ fds'[k].events = "out" <=> owed[files'[fds'[k].fd]] = 1
                 /\ fds'[k].events = "out" =>
                       mapdata[fds'[k].fd] = files'[fds'[k].fd]
      <4>1. CASE k = n
        BY <2>4, <3>1, <4>1
      <4>2. CASE k # n
        <5>1. k \in 0..conncount /\ k \in 1..conncount
          BY <1>1, <4>2
        <5>2. QED
          BY <2>4, <2>5, <5>1 DEF PollInv, TextIsTheConnections
      <4>3. QED
        BY <4>1, <4>2
    <3>3. ASSUME NEW f \in Fds, files'[f] \notin Clients
          PROVE  mapdata[f] = NoText
      <4>1. f # new /\ files[f] \notin Clients
        BY <2>2, <3>1, <3>3 DEF PollInv, TypeOK, SocketsTypeOK
      <4>2. QED
        BY <4>1 DEF PollInv, TextIsTheConnections, Open
    <3>4. QED
      BY <1>1, <2>1, <3>2, <3>3 DEF TextIsTheConnections, Open
  <2>12. QED
    BY <2>2, <2>6, <2>7, <2>8, <2>9, <2>10, <2>11 DEF PollInv
<1>4. QED
  BY <1>2, <1>3

\* A connection is closed: the last entry comes in its place, the one in the
\* entry that the loop looks at again.
LEMMA DeleteKeepsPollInv == PollInv /\ Delete => PollInv'
<1> SUFFICES ASSUME PollInv, Delete
             PROVE  PollInv'
  OBVIOUS
<1> DEFINE n == conncount
           f == fds[i].fd
           From(k) == IF k = i THEN n ELSE k
<1>1. /\ i \in 1..n /\ at = "loop" /\ n \in Nat /\ n \in Entries
      /\ f \in Fds /\ files[f] \in Clients /\ i \in Entries
  <2>1. i \in 0..n /\ at = "loop" /\ i # 0 /\ files[f] \in Clients
    BY ReportOfThisTurn DEF Delete
  <2>2. QED
    BY <2>1, EntryType DEF PollInv
<1>2. /\ fds' = [fds EXCEPT ![i] = fds[n], ![n] = Unset]
      /\ conncount' = n - 1
      /\ mapdata' = [mapdata EXCEPT ![f] = NoText]
      /\ files' = [files EXCEPT ![f] = NoFile]
      /\ UNCHANGED <<clientVars, inbox, backlog, owed, i, at>>
  BY DEF Delete, MovesTheLast, ErasesText, Close
<1>3. n - 1 \in Entries /\ n - 1 \in Nat
  BY <1>1, SizeOfTable DEF Entries
<1>4. \A k \in 0..n-1 :
        /\ From(k) \in 0..n /\ From(k) # i
        /\ fds'[k] = fds[From(k)]
        /\ k # 0 => From(k) \in 1..n
        /\ k >= i => From(k) \in i..n
  BY <1>1, <1>2, EntryType DEF PollInv, TypeOK
<1>5. \A j, k \in 0..n-1 : From(j) = From(k) => j = k
  BY <1>1
<1>6. \A m \in 1..n : m # i => \E k \in 1..n-1 : From(k) = m
  <2>1. ASSUME NEW m \in 1..n, m # i
        PROVE  \E k \in 1..n-1 : From(k) = m
    <3>1. CASE m = n
      <4>1. i \in 1..n-1 /\ From(i) = m
        BY <1>1, <2>1, <3>1
      <4>2. QED
        BY <4>1
    <3>2. CASE m # n
      <4>1. m \in 1..n-1 /\ From(m) = m
        BY <1>1, <2>1, <3>2
      <4>2. QED
        BY <4>1
    <3>3. QED
      BY <3>1, <3>2
  <2>2. QED
    BY <2>1
<1>7. \A k \in 0..n : k # i =>
        /\ fds[k].fd \in Fds /\ fds[k].fd # f
        /\ files'[fds[k].fd] = files[fds[k].fd]
        /\ mapdata'[fds[k].fd] = mapdata[fds[k].fd]
  <2>1. \A k \in 0..n : k # i => fds[k].fd \in Fds /\ fds[k].fd # f
    <3>1. ASSUME NEW k \in 0..n, k # i
          PROVE  fds[k].fd # f
      <4>1. CASE k = 0
        BY <1>1, <4>1, SocketAssumption DEF PollInv, ListenerFirst
      <4>2. CASE k \in 1..n
        BY <1>1, <3>1, <4>2 DEF PollInv, EntriesAreOpen
      <4>3. QED
        BY <4>1, <4>2, <1>1
    <3>2. QED
      BY <1>1, <3>1, EntryType DEF PollInv
  <2>2. QED
    BY <1>1, <1>2, <2>1 DEF PollInv, TypeOK, SocketsTypeOK
<1> HIDE DEF From
<1>8. SocketsInv'
  <2>1. /\ files' \in [Fds -> Clients \cup {Listener, NoFile}]
        /\ \A g \in Fds : files'[g] \in {files[g], NoFile}
    BY <1>1, <1>2 DEF PollInv, TypeOK, SocketsTypeOK
  <2>2. QED
    BY <1>2, <2>1, CloseKeepsSocketsInv DEF PollInv
<1>9. TypeOK'
  <2>1. Unset \in [fd : Fds, events : {"in", "out"},
                   revents : SUBSET {"in", "out", "hangup"}]
    BY FdsAreNaturals DEF Unset
  <2>2. fds' \in [Entries -> [fd : Fds, events : {"in", "out"},
                              revents : SUBSET {"in", "out", "hangup"}]]
    BY <1>1, <1>2, <2>1 DEF PollInv, TypeOK
  <2>3. mapdata' \in [Fds -> Clients \cup {NoText}]
    BY <1>1, <1>2 DEF PollInv, TypeOK
  <2>4. QED
    BY <1>1, <1>2, <1>3, <1>8, <2>2, <2>3 DEF PollInv, TypeOK, SocketsInv
<1>10. ListenerFirst'
  <2>1. 0 \in 0..n-1 /\ 0 \in 0..n /\ 0 # i
    BY <1>1
  <2>2. fds'[0] = fds[0]
    BY <1>1, <1>4, <2>1 DEF From
  <2>3. QED
    BY <1>7, <2>1, <2>2 DEF PollInv, ListenerFirst
<1>11. \A k \in 1..n-1 :
        /\ k \in 0..n-1
        /\ From(k) \in 1..n /\ From(k) \in 0..n /\ From(k) # i
        /\ fds'[k] = fds[From(k)]
        /\ fds[From(k)].fd \in Fds
        /\ fds[From(k)].fd # f
        /\ files'[fds[From(k)].fd] = files[fds[From(k)].fd]
        /\ mapdata'[fds[From(k)].fd] = mapdata[fds[From(k)].fd]
  <2>1. ASSUME NEW k \in 1..n-1
        PROVE  k \in 0..n-1 /\ k # 0
    BY <1>1
  <2>2. QED
    BY <2>1, <1>4, <1>7
<1>12. EntriesAreOpen'
  <2>1. \A k \in 1..n-1 : files'[fds'[k].fd] \in Clients
    BY <1>11 DEF PollInv, EntriesAreOpen
  <2>2. \A j, k \in 1..n-1 : fds'[j].fd = fds'[k].fd => j = k
    BY <1>11, <1>5 DEF PollInv, EntriesAreOpen
  <2>3. ASSUME NEW g \in Fds, files'[g] \in Clients
        PROVE  \E k \in 1..n-1 : fds'[k].fd = g
    <3>1. g # f /\ files[g] \in Clients
      BY <1>2, <2>3, SocketAssumption DEF PollInv, TypeOK, SocketsTypeOK
    <3>2. PICK m \in 1..n : fds[m].fd = g
      BY <3>1 DEF PollInv, EntriesAreOpen
    <3>3. PICK k \in 1..n-1 : From(k) = m
      BY <1>6, <3>1, <3>2
    <3>4. QED
      BY <3>2, <3>3, <1>11
  <2>4. QED
    BY <1>2, <2>1, <2>2, <2>3 DEF EntriesAreOpen
<1>13. ReportsAreTrue'
  <2>1. ASSUME NEW k \in i..n-1
        PROVE  TrueReport(fds[k])'
    <3>1. k \in 0..n-1 /\ k \in 1..n-1 /\ k >= i
      BY <1>1
    <3>2. /\ TrueReport(fds[From(k)]) /\ fds'[k] = fds[From(k)]
          /\ files'[fds[From(k)].fd] = files[fds[From(k)].fd]
          /\ files[fds[From(k)].fd] \in Clients
      BY <1>1, <1>4, <1>11, <3>1 DEF PollInv, ReportsAreTrue, EntriesAreOpen
    <3>3. QED
      BY <1>2, <3>2, SocketAssumption DEF TrueReport, CanRead, HangsUp, clientVars
  <2>2. QED
    BY <1>2, <2>1 DEF ReportsAreTrue
<1>14. OwesOne'
  BY <1>2 DEF PollInv, OwesOne, Queued, clientVars
<1>15. TextIsTheConnections'
  <2>1. \A k \in 1..n-1 :
          /\ fds'[k].events = "out" <=> owed[files'[fds'[k].fd]] = 1
          /\ fds'[k].events = "out" =>
                mapdata'[fds'[k].fd] = files'[fds'[k].fd]
    BY <1>11 DEF PollInv, TextIsTheConnections
  <2>2. ASSUME NEW g \in Fds, files'[g] \notin Clients
        PROVE  mapdata'[g] = NoText
    <3>1. CASE g = f
      BY <1>2, <3>1 DEF PollInv, TypeOK
    <3>2. CASE g # f
      BY <1>2, <2>2, <3>2
         DEF PollInv, TypeOK, SocketsTypeOK, TextIsTheConnections, Open
    <3>3. QED
      BY <3>1, <3>2
  <2>3. QED
    BY <1>2, <2>1, <2>2 DEF TextIsTheConnections, Open
<1>16. QED
  BY <1>8, <1>9, <1>10, <1>12, <1>13, <1>14, <1>15 DEF PollInv

-----------------------------------------------------------------------------
(* The clients. *)

LEMMA ClientKeepsPollInv ==
  ASSUME PollInv, NEW c \in Clients, Client(c), UNCHANGED <<pollVars, owed>>
  PROVE  PollInv'
<1>1. SocketsInv'
  BY ClientKeepsSocketsInv DEF PollInv
<1>2. files' = files /\ UNCHANGED <<fds, conncount, i, mapdata, at, owed>>
  BY DEF Client, Connect, Send, Finish, Reset, pollVars
<1>3. TypeOK'
  BY <1>1, <1>2 DEF PollInv, TypeOK, SocketsInv
<1>4. ListenerFirst' /\ EntriesAreOpen' /\ TextIsTheConnections'
  BY <1>2 DEF PollInv, ListenerFirst, EntriesAreOpen, TextIsTheConnections, Open
<1>5. ReportsAreTrue'
  <2>1. ASSUME at = "loop", NEW k \in i..conncount
        PROVE  TrueReport(fds[k])'
    <3>1. TrueReport(fds[k])
      BY <2>1 DEF PollInv, ReportsAreTrue
    <3>2. fds[k].fd \in Fds
      <4>1. k \in 0..conncount
        BY EntryType DEF PollInv, TypeOK
      <4>2. QED
        BY <4>1, EntryType DEF PollInv
    <3>3. "in" \in fds[k].revents => CanRead(fds[k].fd)'
      BY <1>2, <3>1, <3>2, ClientKeepsCanRead DEF PollInv, TrueReport
    <3>4. "hangup" \in fds[k].revents =>
            HangsUp(files[fds[k].fd])'
      BY <1>2, <3>1, ClientKeepsHangUp DEF PollInv, TrueReport, HangsUp
    <3>5. QED
      BY <1>2, <3>1, <3>3, <3>4 DEF TrueReport
  <2>2. QED
    BY <1>2, <2>1 DEF ReportsAreTrue
<1>6. OwesOne'
  <2>1. ASSUME NEW d \in Clients, peer'[d] = "off" \/ Queued(d)'
        PROVE  peer[d] = "off" \/ Queued(d)
    <3>1. CASE Connect(c)
      <4>1. /\ peer[c] = "off" /\ peer' = [peer EXCEPT ![c] = "open"]
            /\ backlog \in Seq(Clients) /\ backlog' = Append(backlog, c)
        BY <3>1 DEF Connect, PollInv, TypeOK, SocketsTypeOK
      <4>2. /\ Len(backlog') = Len(backlog) + 1 /\ Len(backlog) \in Nat
            /\ \A k \in 1..Len(backlog) : backlog'[k] = backlog[k]
            /\ backlog'[Len(backlog) + 1] = c
        BY <4>1, BacklogGrows
      <4>3. CASE d = c
        BY <4>1, <4>3
      <4>4. CASE d # c
        <5>1. peer'[d] = peer[d]
          BY <4>1, <4>4 DEF PollInv, TypeOK, SocketsTypeOK
        <5>2. Queued(d)' => Queued(d)
          BY <4>2, <4>4 DEF Queued
        <5>3. QED
          BY <2>1, <5>1, <5>2
      <4>5. QED
        BY <4>3, <4>4
    <3>2. CASE ~Connect(c)
      <4>1. backlog' = backlog /\ (peer'[d] = "off" => peer[d] = "off")
        BY <3>2 DEF Client, Send, Finish, Reset, PollInv, TypeOK, SocketsTypeOK
      <4>2. QED
        BY <2>1, <4>1 DEF Queued
    <3>3. QED
      BY <3>1, <3>2
  <2>2. QED
    BY <1>2, <2>1 DEF PollInv, OwesOne
<1>7. QED
  BY <1>1, <1>3, <1>4, <1>5, <1>6 DEF PollInv

LEMMA NextKeepsPollInv == PollInv /\ [Next]_vars => PollInv'
<1> SUFFICES ASSUME PollInv, [Next]_vars
             PROVE  PollInv'
  OBVIOUS
<1>1. CASE Main
  BY <1>1, PollKeepsPollInv, DeleteKeepsPollInv, AcceptKeepsPollInv,
     ReadKeepsPollInv, WriteKeepsPollInv, IdleTurnsKeepPollInv DEF Main, Turn
<1>2. CASE \E c \in Clients : Client(c) /\ UNCHANGED <<pollVars, owed>>
  BY <1>2, ClientKeepsPollInv
<1>3. CASE UNCHANGED vars
  BY <1>3
     DEF PollInv, TypeOK, SocketsTypeOK, SocketsInv, OneFdEach, BacklogIsNew,
         SentCovers, ListenerFirst, EntriesAreOpen, ReportsAreTrue, TrueReport,
         OwesOne, TextIsTheConnections, Open, Queued, Accepted, CanRead,
         HangsUp, vars, sockVars, pollVars
<1>4. QED
  BY <1>1, <1>2, <1>3 DEF Next

LEMMA SpecPollInv == Spec => []PollInv
<1>1. QED
  BY InitPollInv, NextKeepsPollInv, PTL DEF Spec

-----------------------------------------------------------------------------
(* The theorems. *)

\* poll.cpp 86-114: whatever is deleted and accepted while the loop is under
\* way, fds[1..conncount] are the open connections, each of them once.
THEOREM TableAlwaysExact == Spec => []TableIsExact
<1>1. PollInv => TableIsExact
  <2> SUFFICES ASSUME PollInv
               PROVE  TableIsExact
    OBVIOUS
  <2>1. Watched = Open
    <3>1. \A k \in 1..conncount : fds[k].fd \in Fds
      BY EntryType DEF PollInv
    <3>2. QED
      BY <3>1 DEF PollInv, EntriesAreOpen, Watched, Open
  <2>2. QED
    BY <2>1 DEF PollInv, TableIsExact, ListenerFirst, EntriesAreOpen
<1>2. QED
  BY <1>1, SpecPollInv, PTL

\* poll.cpp 77-90, 120: what poll() reported of an entry the loop has still to
\* come to is true of the descriptor in it, so no read of the loop waits.
THEOREM ReportsAlwaysTrue == Spec => []ReportsStayTrue
<1>1. PollInv => ReportsStayTrue
  BY DEF PollInv, ReportsAreTrue, TrueReport, ReportsStayTrue
<1>2. QED
  BY <1>1, SpecPollInv, PTL

\* poll.cpp 92, 123-129, 144, 154-155: POLLOUT is watched for just on the
\* connections with a text to send back, and the text is that connection's.
THEOREM TextAlwaysTheConnections == Spec => []TextIsTheConnections
<1>1. QED
  BY SpecPollInv, PTL DEF PollInv

-----------------------------------------------------------------------------
(* The echo service. *)

\* The server's side of each connection, as the echo service sees it.
Conns == [c \in Clients |-> ConnOf(c)]

LEMMA InitRefinesEcho == Init => Echo!EchoInit
<1> SUFFICES ASSUME Init
             PROVE  Echo!EchoInit
  OBVIOUS
<1>1. \A c \in Clients : ConnOf(c) = "none"
  BY SocketAssumption DEF Init, SocketsInit, ConnOf, Accepted
<1>2. QED
  BY <1>1 DEF Init, SocketsInit, Echo!EchoInit

\* Connections that neither open nor close, to a client that has connected or
\* has not.
LEMMA SameConns ==
  ASSUME UNCHANGED <<files, backlog>>,
         \A c \in Clients : peer'[c] = "off" <=> peer[c] = "off"
  PROVE  Conns' = Conns
<1>1. \A c \in Clients : ConnOf(c)' = ConnOf(c)
  BY DEF ConnOf, Accepted, Queued
<1>2. QED
  BY <1>1 DEF Conns

LEMMA ClientRefines ==
  ASSUME PollInv, NEW c \in Clients, Client(c), UNCHANGED <<pollVars, owed>>
  PROVE  Echo!EchoNext
<1> USE DEF PollInv, TypeOK, SocketsTypeOK
<1>1. CASE Connect(c)
  <2>1. /\ peer[c] = "off" /\ peer' = [peer EXCEPT ![c] = "open"]
        /\ UNCHANGED <<inbox, files, owed>>
        /\ backlog \in Seq(Clients) /\ backlog' = Append(backlog, c)
    BY <1>1 DEF Connect
  <2>2. /\ Len(backlog') = Len(backlog) + 1 /\ Len(backlog) \in Nat
        /\ \A k \in 1..Len(backlog) : backlog'[k] = backlog[k]
        /\ backlog'[Len(backlog) + 1] = c
    BY <2>1, BacklogGrows
  <2>3. ~Accepted(c)
    BY <2>1 DEF SocketsInv, BacklogIsNew
  <2>4. Queued(c)'
    <3>1. Len(backlog) + 1 \in 1..Len(backlog')
      BY <2>2
    <3>2. QED
      BY <2>2, <3>1 DEF Queued
  <2>5. ConnOf(c) = "none" /\ ConnOf(c)' = "none"
    BY <2>1, <2>3, <2>4 DEF ConnOf, Accepted
  <2>6. ASSUME NEW d \in Clients, d # c
        PROVE  ConnOf(d)' = ConnOf(d)
    <3>1. Queued(d)' <=> Queued(d)
      <4>1. \A k \in 1..Len(backlog) : k \in 1..Len(backlog')
        BY <2>2
      <4>2. \A k \in 1..Len(backlog') :
              k # Len(backlog) + 1 => k \in 1..Len(backlog)
        BY <2>2
      <4>3. QED
        BY <2>2, <2>6, <4>1, <4>2 DEF Queued
    <3>2. peer'[d] = peer[d] /\ (Accepted(d)' <=> Accepted(d))
      BY <2>1, <2>6 DEF Accepted
    <3>3. QED
      BY <3>1, <3>2 DEF ConnOf
  <2>7. Conns' = Conns
    BY <2>5, <2>6 DEF Conns
  <2>8. Echo!Connect(c)
    BY <2>1, <2>7 DEF Echo!Connect, Conns
  <2>9. QED
    BY <2>8 DEF Echo!EchoNext
<1>2. CASE Send(c)
  <2>1. inbox[c] < MaxData
    BY <1>2, MaxSentType, SocketAssumption DEF Send, SocketsInv, SentCovers
  <2>2. Conns' = Conns
    BY <1>2, SameConns DEF Send
  <2>3. Echo!Request(c)
    BY <1>2, <2>1, <2>2 DEF Send, Echo!Request, Conns
  <2>4. QED
    BY <2>3 DEF Echo!EchoNext
<1>3. CASE Finish(c) \/ Reset(c)
  <2>1. UNCHANGED <<files, backlog>>
    BY <1>3 DEF Finish, Reset
  <2>2. \A d \in Clients : peer'[d] = "off" <=> peer[d] = "off"
    BY <1>3 DEF Finish, Reset
  <2>3. Conns' = Conns
    BY <2>1, <2>2, SameConns
  <2>4. Echo!Leave(c)
    BY <1>3, <2>3 DEF Finish, Reset, Echo!Leave, Conns
  <2>5. QED
    BY <2>4 DEF Echo!EchoNext
<1>4. QED
  BY <1>1, <1>2, <1>3 DEF Client

LEMMA AcceptRefines == PollInv /\ AcceptClient => [Echo!EchoNext]_Echo!echoVars
<1> SUFFICES ASSUME PollInv, AcceptClient
             PROVE  [Echo!EchoNext]_Echo!echoVars
  OBVIOUS
<1>1. UNCHANGED <<peer, inbox, owed>> /\ UNCHANGED <<clientVars, inbox>>
  BY DEF AcceptClient, clientVars
<1>2. CASE ~CanAccept
  <2>1. Conns' = Conns
    BY <1>1, <1>2, SameConns DEF AcceptClient
  <2>2. QED
    BY <1>1, <2>1 DEF Echo!echoVars, Conns
<1>3. CASE CanAccept
  <2> DEFINE c == Head(backlog)
             new == NewFd
  <2>1. Accept
    BY <1>3 DEF AcceptClient
  <2>2. /\ new \in Fds /\ files[new] = NoFile
        /\ c \in Clients /\ Queued(c) /\ ~Accepted(c)
        /\ \A d \in Clients : Queued(d)' <=> Queued(d) /\ d # c
        /\ files' = [files EXCEPT ![new] = c]
        /\ SocketsInv'
    BY <1>1, <2>1, AcceptKeepsSocketsInv DEF PollInv
  <2> HIDE DEF c, new
  <2>3. peer[c] # "off"
    BY <2>2 DEF PollInv, SocketsInv, BacklogIsNew, Queued
  <2>4. ConnOf(c) = "none"
    BY <2>2 DEF ConnOf
  <2>5. \A f \in Fds : files'[f] = IF f = new THEN c ELSE files[f]
    BY <2>2 DEF PollInv, TypeOK, SocketsTypeOK
  <2>6. \A d \in Clients : Accepted(d)' <=> Accepted(d) \/ d = c
    BY <2>2, <2>5, SocketAssumption DEF Accepted
  <2>7. \A d \in Clients :
          ConnOf(d)' = IF d = c THEN "served" ELSE ConnOf(d)
    BY <1>1, <2>2, <2>6 DEF ConnOf
  <2>8. Conns' = [Conns EXCEPT ![c] = "served"]
    BY <2>2, <2>7 DEF Conns
  <2>9. Echo!Serve(c)
    BY <1>1, <2>2, <2>3, <2>4, <2>8 DEF Echo!Serve, Conns
  <2>10. QED
    BY <2>2, <2>9 DEF Echo!EchoNext
<1>4. QED
  BY <1>2, <1>3

LEMMA ReadRefines == PollInv /\ Read => [Echo!EchoNext]_Echo!echoVars
<1> SUFFICES ASSUME PollInv, Read
             PROVE  [Echo!EchoNext]_Echo!echoVars
  OBVIOUS
<1> DEFINE f == fds[i].fd
           c == files[f]
<1>1. i \in 1..conncount /\ fds[i].events = "in" /\ CanRead(f)
  BY ReportOfThisTurn, EntryType DEF Read, PollInv
<1>2. f \in Fds /\ c \in Clients
  BY <1>1, EntryType DEF PollInv, EntriesAreOpen
<1>3. UNCHANGED <<peer, files, backlog>>
  BY DEF Read, clientVars
<1>4. Conns' = Conns
  BY <1>3, SameConns
<1>5. CASE Received(f) # "data"
  <2>1. UNCHANGED <<inbox, owed>>
    BY <1>2, <1>5 DEF Read
  <2>2. QED
    BY <1>3, <1>4, <2>1 DEF Echo!echoVars, Conns
<1>6. CASE Received(f) = "data"
  <2>1. /\ inbox' = [inbox EXCEPT ![c] = @ - 1]
        /\ owed' = [owed EXCEPT ![c] = @ + 1]
        /\ inbox[c] > 0
    BY <1>6 DEF Read, Conn, Received
  <2>2. owed[c] = 0
    BY <1>1, <1>2 DEF PollInv, OwesOne, TextIsTheConnections
  <2>3. owed' = [owed EXCEPT ![c] = 1]
    BY <1>2, <2>1, <2>2 DEF PollInv, TypeOK
  <2>4. ConnOf(c) = "served"
    BY <1>2 DEF ConnOf, Accepted
  <2>5. Echo!Take(c)
    BY <1>2, <1>3, <1>4, <2>1, <2>2, <2>3, <2>4 DEF Echo!Take, Conns
  <2>6. QED
    BY <1>2, <2>5 DEF Echo!EchoNext
<1>7. QED
  BY <1>5, <1>6

LEMMA WriteRefines == PollInv /\ Write => [Echo!EchoNext]_Echo!echoVars
<1> SUFFICES ASSUME PollInv, Write
             PROVE  [Echo!EchoNext]_Echo!echoVars
  OBVIOUS
<1> DEFINE f == fds[i].fd
           c == files[f]
<1>1. i \in 1..conncount /\ fds[i].events = "out"
  BY ReportOfThisTurn, EntryType DEF Write, PollInv
<1>2. f \in Fds /\ c \in Clients
  BY <1>1, EntryType DEF PollInv, EntriesAreOpen
<1>3. UNCHANGED <<peer, inbox, files, backlog>>
  BY DEF Write, sockVars
<1>4. Conns' = Conns
  BY <1>3, SameConns
<1>5. CASE peer[c] = "reset"
  <2>1. UNCHANGED owed
    BY <1>5 DEF Write, Conn
  <2>2. QED
    BY <1>3, <1>4, <2>1 DEF Echo!echoVars, Conns
<1>6. CASE peer[c] # "reset"
  <2>1. owed[c] = 1 /\ mapdata[f] = c
    BY <1>1 DEF PollInv, TextIsTheConnections
  <2>2. owed' = [owed EXCEPT ![c] = @ - 1]
    BY <1>6, <2>1 DEF Write, Conn
  <2>3. owed' = [owed EXCEPT ![c] = 0]
    BY <1>2, <2>1, <2>2 DEF PollInv, TypeOK
  <2>4. ConnOf(c) = "served"
    BY <1>2 DEF ConnOf, Accepted
  <2>5. Echo!SendBack(c)
    BY <1>2, <1>3, <1>4, <2>1, <2>3, <2>4 DEF Echo!SendBack, Conns
  <2>6. QED
    BY <1>2, <2>5 DEF Echo!EchoNext
<1>7. QED
  BY <1>5, <1>6

LEMMA DeleteRefines == PollInv /\ Delete => [Echo!EchoNext]_Echo!echoVars
<1> SUFFICES ASSUME PollInv, Delete
             PROVE  [Echo!EchoNext]_Echo!echoVars
  OBVIOUS
<1>0. /\ i \in 0..conncount /\ files[fds[i].fd] \in Clients
      /\ peer[files[fds[i].fd]] \in {"finished", "reset"}
  BY ReportOfThisTurn DEF Delete, HangsUp
<1>1. PICK f \in Fds, c \in Clients :
        /\ f = fds[i].fd /\ c = files[f]
        /\ peer[c] \in {"finished", "reset"}
  BY <1>0, EntryType DEF PollInv
<1>3. /\ UNCHANGED <<peer, inbox, backlog, owed>>
      /\ files' = [files EXCEPT ![f] = NoFile]
  BY <1>1 DEF Delete, Close, clientVars
<1>4. \A g \in Fds : files'[g] = IF g = f THEN NoFile ELSE files[g]
  BY <1>1, <1>3 DEF PollInv, TypeOK, SocketsTypeOK
<1>5. Accepted(c) /\ ~Accepted(c)'
  BY <1>1, <1>4, SocketAssumption
     DEF Accepted, PollInv, SocketsInv, OneFdEach
<1>6. ~Queued(c)'
  BY <1>1, <1>3, <1>5 DEF Queued, PollInv, SocketsInv, BacklogIsNew
<1>7. ConnOf(c) = "served" /\ ConnOf(c)' = "closed"
  BY <1>1, <1>3, <1>5, <1>6 DEF ConnOf
<1>8. ASSUME NEW d \in Clients, d # c
      PROVE  ConnOf(d)' = ConnOf(d)
  <2>1. Accepted(d)' <=> Accepted(d)
    BY <1>1, <1>4, <1>8, SocketAssumption DEF Accepted
  <2>2. QED
    BY <1>3, <2>1 DEF ConnOf, Queued
<1>9. Conns' = [Conns EXCEPT ![c] = "closed"]
  BY <1>1, <1>7, <1>8 DEF Conns
<1>10. Echo!CloseEnded(c)
  BY <1>1, <1>3, <1>7, <1>9 DEF Echo!CloseEnded, Conns
<1>11. QED
  BY <1>1, <1>10 DEF Echo!EchoNext

LEMMA NextRefinesEcho ==
  PollInv /\ [Next]_vars => [Echo!EchoNext]_Echo!echoVars
<1> SUFFICES ASSUME PollInv, [Next]_vars
             PROVE  [Echo!EchoNext]_Echo!echoVars
  OBVIOUS
<1>1. CASE AcceptClient \/ Read \/ Write \/ Delete
  BY <1>1, AcceptRefines, ReadRefines, WriteRefines, DeleteRefines
<1>2. CASE Poll \/ Skip \/ LoopEnds \/ UNCHANGED vars
  <2>1. UNCHANGED <<peer, inbox, owed, files, backlog>>
    BY <1>2 DEF Poll, Skip, LoopEnds, vars, sockVars
  <2>2. Conns' = Conns
    BY <2>1, SameConns
  <2>3. QED
    BY <2>1, <2>2 DEF Echo!echoVars, Conns
<1>3. CASE \E c \in Clients : Client(c) /\ UNCHANGED <<pollVars, owed>>
  BY <1>3, ClientRefines
<1>4. QED
  BY <1>1, <1>2, <1>3 DEF Next, Main, Turn

\* poll.cpp 86-93, 120-130, 144-155: the poll server is an echo service.
THEOREM PollServerImplementsEcho == Spec => ImplementsEcho
<1>1. QED
  BY SpecPollInv, InitRefinesEcho, NextRefinesEcho, PTL
     DEF Spec, ImplementsEcho, Echo!EchoSpec
=============================================================================
