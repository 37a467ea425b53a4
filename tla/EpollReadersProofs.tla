------------------------- MODULE EpollReadersProofs -------------------------
(***************************************************************************)
(* The epoll programs that only read never wait in a read, for any number  *)
(* of clients, of descriptors and of messages.                             *)
(***************************************************************************)
EXTENDS EpollReaders, SocketsProofs

\* The inductive invariant: beside what was reported, that no two descriptors
\* are one connection's, so that a read takes nothing from another event.
EventsAreTrue == at = "handle" => \A f \in batch : CanRead(f)

ReadersInv == TypeOK /\ SocketsInv /\ EventsAreTrue

LEMMA InitReadersInv == Init => ReadersInv
<1> SUFFICES ASSUME Init
             PROVE  ReadersInv
  OBVIOUS
<1>1. edge = {} /\ batch = {} /\ EventsAreTrue
  BY DEF Init, EventsAreTrue
<1>2. CASE program \in {"server", "edge"}
  <2>1. SocketsInit
    BY <1>2 DEF Init, ServerInit, EdgeInit
  <2>2. SocketsInv
    BY <2>1, InitSocketsInv
  <2>3. at \in {"accept", "wait"} /\ interest \subseteq Fds
    BY <1>2, FdsAreNaturals DEF Init, ServerInit, EdgeInit
  <2>4. QED
    BY <1>1, <1>2, <2>2, <2>3 DEF ReadersInv, TypeOK, SocketsInv
<1>3. CASE program = "pipe"
  <2>1. PipeInit
    BY <1>3 DEF Init
  <2>2. pfd \in Fds /\ Child \in Clients /\ MaxData \in Nat
    BY SocketAssumption, ReadersAssumption DEF pfd, Fds
  <2> USE SocketAssumption DEF PipeInit
  <2>3. SocketsTypeOK
    BY <2>1, <2>2 DEF SocketsTypeOK
  <2>4. OneFdEach
    BY <2>1, <2>2 DEF OneFdEach
  <2>5. BacklogIsNew
    BY <2>1, <2>2 DEF BacklogIsNew, Queued, Accepted
  <2>6. SentCovers
    BY <2>1 DEF SentCovers
  <2>7. at = "wait" /\ interest \subseteq Fds
    BY <2>1, <2>2
  <2>8. QED
    BY <1>1, <1>3, <2>3, <2>4, <2>5, <2>6, <2>7
       DEF ReadersInv, TypeOK, SocketsInv
<1>4. QED
  BY <1>2, <1>3 DEF Init

LEMMA AcceptOneKeepsReadersInv == ReadersInv /\ AcceptOne => ReadersInv'
<1> SUFFICES ASSUME ReadersInv, AcceptOne
             PROVE  ReadersInv'
  OBVIOUS
<1>1. SocketsInv' /\ NewFd \in Fds
  BY AcceptKeepsSocketsInv DEF ReadersInv, AcceptOne
<1>2. TypeOK' /\ EventsAreTrue'
  BY <1>1 DEF ReadersInv, TypeOK, SocketsInv, EventsAreTrue, AcceptOne
<1>3. QED
  BY <1>1, <1>2 DEF ReadersInv

LEMMA WaitKeepsReadersInv == ReadersInv /\ Wait => ReadersInv'
<1> SUFFICES ASSUME ReadersInv, Wait
             PROVE  ReadersInv'
  OBVIOUS
<1>1. UNCHANGED <<peer, sent, inbox, backlog, files, program, interest>>
  BY DEF Wait, sockVars
<1>2. SocketsInv'
  BY <1>1 DEF ReadersInv, SocketsInv, SocketsTypeOK, OneFdEach, BacklogIsNew,
              SentCovers, Queued, Accepted
<1>3. TypeOK'
  BY <1>1, <1>2 DEF ReadersInv, TypeOK, SocketsInv, Wait, Ready
<1>4. EventsAreTrue'
  BY <1>1 DEF EventsAreTrue, Wait, Ready, CanRead
<1>5. QED
  BY <1>2, <1>3, <1>4 DEF ReadersInv

LEMMA AcceptConnKeepsReadersInv == ReadersInv /\ AcceptConn => ReadersInv'
<1> SUFFICES ASSUME ReadersInv, AcceptConn
             PROVE  ReadersInv'
  OBVIOUS
<1>1. /\ at = "handle" /\ batch' = batch \ {lfd} /\ at' \in {"wait", "handle"}
      /\ UNCHANGED <<peer, sent, inbox, program, edge>>
      /\ UNCHANGED <<clientVars, inbox>>
  BY DEF AcceptConn, Handled, Others, clientVars
<1>2. CASE UNCHANGED <<files, backlog>> /\ interest' = interest
  <2>1. SocketsInv'
    BY <1>1, <1>2 DEF ReadersInv, SocketsInv, SocketsTypeOK, OneFdEach,
       BacklogIsNew, SentCovers, Queued, Accepted
  <2>2. TypeOK'
    BY <1>1, <1>2, <2>1 DEF ReadersInv, TypeOK, SocketsInv
  <2>3. EventsAreTrue'
    BY <1>1, <1>2 DEF ReadersInv, EventsAreTrue, CanRead
  <2>4. QED
    BY <2>1, <2>2, <2>3 DEF ReadersInv
<1>3. CASE Accept /\ interest' = interest \cup {NewFd}
  <2> DEFINE c == Head(backlog)
             new == NewFd
  <2>1. /\ SocketsInv' /\ new \in Fds /\ files[new] = NoFile
        /\ files' = [files EXCEPT ![new] = c]
    BY <1>1, <1>3, AcceptKeepsSocketsInv DEF ReadersInv
  <2>2. TypeOK'
    BY <1>1, <1>3, <2>1 DEF ReadersInv, TypeOK, SocketsInv
  <2> HIDE DEF c, new
  <2>3. ASSUME NEW f \in batch, f # lfd
        PROVE  CanRead(f)'
    <3>1. CanRead(f) /\ f \in Fds
      BY <1>1 DEF ReadersInv, EventsAreTrue, TypeOK
    <3>2. files[f] \in Clients
      BY <2>3, <3>1 DEF CanRead, ReadersInv, SocketsInv, OneFdEach
    <3>3. files'[f] = files[f]
      BY <2>1, <3>1, <3>2, SocketAssumption
         DEF ReadersInv, SocketsInv, SocketsTypeOK
    <3>4. QED
      BY <1>1, <3>1, <3>2, <3>3, SocketAssumption DEF CanRead
  <2>4. EventsAreTrue'
    BY <1>1, <2>3 DEF EventsAreTrue
  <2>5. QED
    BY <2>1, <2>2, <2>4 DEF ReadersInv
<1>4. QED
  BY <1>2, <1>3 DEF AcceptConn, Watching, NotWatched

LEMMA ReadConnKeepsReadersInv ==
  ASSUME ReadersInv, NEW f \in Fds, ReadConn(f)
  PROVE  ReadersInv'
<1>1. /\ at = "handle" /\ batch' = batch \ {f} /\ at' \in {"wait", "handle"}
      /\ UNCHANGED <<peer, sent, backlog, program, edge>>
      /\ UNCHANGED <<clientVars, backlog>>
      /\ files[f] \in Clients
      /\ interest' \subseteq interest
  BY DEF ReadConn, Handled, Others, clientVars
<1>2. \/ inbox' = inbox /\ files' \in {files, [files EXCEPT ![f] = NoFile]}
      \/ /\ files' = files /\ inbox[files[f]] > 0
         /\ inbox' = [inbox EXCEPT ![files[f]] = @ - 1]
  <2>1. Received(f) = "data" => inbox[files[f]] > 0
    BY DEF Received
  <2>2. QED
    BY <2>1 DEF ReadConn, Close
<1>3. SocketsInv'
  <2>1. CASE inbox' = inbox /\ files' \in {files, [files EXCEPT ![f] = NoFile]}
    <3>1. /\ files' \in [Fds -> Clients \cup {Listener, NoFile}]
          /\ \A g \in Fds : files'[g] \in {files[g], NoFile}
      BY <2>1 DEF ReadersInv, SocketsInv, SocketsTypeOK
    <3>2. QED
      BY <1>1, <2>1, <3>1, CloseKeepsSocketsInv DEF ReadersInv
  <2>2. CASE ~(inbox' = inbox /\ files' \in {files, [files EXCEPT ![f] = NoFile]})
    BY <1>1, <1>2, <2>2, ReceiveKeepsSocketsInv DEF ReadersInv
  <2>3. QED
    BY <2>1, <2>2
<1>4. TypeOK'
  BY <1>1, <1>3 DEF ReadersInv, TypeOK, SocketsInv
<1>5. ASSUME NEW g \in batch, g # f
      PROVE  CanRead(g)'
  <2>1. CanRead(g) /\ g \in Fds
    BY <1>1 DEF ReadersInv, EventsAreTrue, TypeOK
  <2>2. files'[g] = files[g] /\ files[g] # files[f]
    BY <1>1, <1>2, <1>5, <2>1
       DEF ReadersInv, SocketsInv, SocketsTypeOK, OneFdEach
  <2>3. files[g] \in Clients => inbox'[files[g]] = inbox[files[g]]
    BY <1>2, <2>2 DEF ReadersInv, SocketsInv, SocketsTypeOK
  <2>4. QED
    BY <1>1, <2>1, <2>2, <2>3 DEF CanRead
<1>6. EventsAreTrue'
  BY <1>1, <1>5 DEF EventsAreTrue
<1>7. QED
  BY <1>3, <1>4, <1>6 DEF ReadersInv

LEMMA DrainKeepsReadersInv ==
  ASSUME ReadersInv, NEW f \in Fds, Drain(f)
  PROVE  ReadersInv'
<1>1. /\ UNCHANGED <<clientVars, peer, sent, backlog, files, program, interest, edge>>
      /\ batch' \subseteq batch /\ at' \in {"wait", "drain"}
  BY DEF Drain, ReadsOn, clientVars
<1>2. CASE inbox' = inbox
  BY <1>1, <1>2
     DEF ReadersInv, TypeOK, EventsAreTrue, SocketsInv, SocketsTypeOK,
         OneFdEach, BacklogIsNew, SentCovers, Queued, Accepted
<1>3. CASE inbox' # inbox
  <2>1. /\ files[f] \in Clients /\ inbox[files[f]] > 0
        /\ inbox' = [inbox EXCEPT ![files[f]] = @ - 1]
    BY <1>3 DEF Drain, Received
  <2>2. SocketsInv'
    BY <1>1, <2>1, ReceiveKeepsSocketsInv DEF ReadersInv
  <2>3. QED
    BY <1>1, <2>2 DEF ReadersInv, TypeOK, EventsAreTrue, SocketsInv
<1>4. QED
  BY <1>2, <1>3

LEMMA EnvironmentKeepsReadersInv == ReadersInv /\ Environment => ReadersInv'
<1> SUFFICES ASSUME ReadersInv, Environment
             PROVE  ReadersInv'
  OBVIOUS
<1>1. PICK c \in Clients :
        /\ \/ program # "pipe" /\ Client(c)
           \/ program = "pipe" /\ c = Child /\ WriteMessage
        /\ edge' = edge \cup {f \in Arrives(c) : program = "edge"}
  BY DEF Environment
<1>2. UNCHANGED <<program, interest, batch, at>>
  BY DEF Environment, readVars
<1>3. edge' \in SUBSET Fds
  BY <1>1 DEF Arrives, ReadersInv, TypeOK
<1>4. CASE Client(c)
  <2>1. SocketsInv'
    BY <1>4, ClientKeepsSocketsInv DEF ReadersInv
  <2>2. TypeOK'
    BY <1>2, <1>3, <2>1 DEF ReadersInv, TypeOK, SocketsInv
  <2>3. EventsAreTrue'
    <3>1. ASSUME at = "handle", NEW f \in batch
          PROVE  CanRead(f)'
      BY <1>4, <3>1, ClientKeepsCanRead DEF ReadersInv, EventsAreTrue, TypeOK
    <3>2. QED
      BY <1>2, <3>1 DEF EventsAreTrue
  <2>4. QED
    BY <2>1, <2>2, <2>3 DEF ReadersInv
<1>5. CASE WriteMessage
  <2>1. /\ UNCHANGED <<peer, backlog, files>>
        /\ sent[Child] + 2 <= MaxData
        /\ sent' = [sent EXCEPT ![Child] = @ + 2]
        /\ inbox' = [inbox EXCEPT ![Child] = @ + 2]
    BY <1>5 DEF WriteMessage
  <2>2. SocketsTypeOK' /\ SentCovers'
    BY <2>1, ReadersAssumption, SocketAssumption
       DEF ReadersInv, SocketsInv, SocketsTypeOK, SentCovers
  <2>3. SocketsInv'
    BY <2>1, <2>2, SameConnections DEF ReadersInv
  <2>4. TypeOK'
    BY <1>2, <1>3, <2>3 DEF ReadersInv, TypeOK, SocketsInv
  <2>5. \A d \in Clients : inbox[d] > 0 => inbox'[d] > 0
    BY <2>1 DEF ReadersInv, SocketsInv, SocketsTypeOK
  <2>6. EventsAreTrue'
    BY <1>2, <2>1, <2>5 DEF ReadersInv, EventsAreTrue, CanRead
  <2>7. QED
    BY <2>3, <2>4, <2>6 DEF ReadersInv
<1>6. QED
  BY <1>1, <1>4, <1>5

\* CS_socket/server.cpp 65-101, pipe.cpp 71-77: what was reported is still
\* there when its turn comes, so that no accept() and no read() waits.
THEOREM ReadsNeverBlock == Spec => []ReadNeverBlocks
<1>1. ReadersInv /\ [Next]_vars => ReadersInv'
  <2> SUFFICES ASSUME ReadersInv, [Next]_vars
               PROVE  ReadersInv'
    OBVIOUS
  <2>1. CASE AcceptOne \/ Wait \/ AcceptConn
    BY <2>1, AcceptOneKeepsReadersInv, WaitKeepsReadersInv,
       AcceptConnKeepsReadersInv
  <2>2. CASE \E f \in Fds : ReadConn(f) \/ Drain(f)
    BY <2>2, ReadConnKeepsReadersInv, DrainKeepsReadersInv
  <2>3. CASE Environment
    BY <2>3, EnvironmentKeepsReadersInv
  <2>4. CASE UNCHANGED vars
    BY <2>4
       DEF ReadersInv, TypeOK, EventsAreTrue, CanRead, SocketsInv,
           SocketsTypeOK, OneFdEach, BacklogIsNew, SentCovers, Queued,
           Accepted, vars, sockVars, readVars
  <2>5. QED
    BY <2>1, <2>2, <2>3, <2>4 DEF Next, Main
<1>2. ReadersInv => ReadNeverBlocks
  BY DEF ReadersInv, EventsAreTrue, ReadNeverBlocks
<1>3. QED
  BY <1>1, <1>2, InitReadersInv, PTL DEF Spec
=============================================================================
