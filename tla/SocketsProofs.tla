---------------------------- MODULE SocketsProofs ----------------------------
(***************************************************************************)
(* What the proofs about the socket servers have in common: an invariant   *)
(* of clients, backlog and descriptors, which every client's step and      *)
(* every system call keeps.                                                *)
(***************************************************************************)
EXTENDS Sockets, SequenceTheorems, WellFoundedInduction, TLAPS

\* A descriptor other than the listening socket's is a connection's alone, and
\* an accepted connection is not in the backlog any more.
OneFdEach ==
  /\ \A f, g \in Fds : files[f] \in Clients /\ files[f] = files[g] => f = g
  /\ \A f \in Fds : files[f] = Listener => f = lfd

BacklogIsNew ==
  /\ \A j, k \in 1..Len(backlog) : backlog[j] = backlog[k] => j = k
  /\ \A j \in 1..Len(backlog) : ~Accepted(backlog[j])
  /\ \A c \in Clients : peer[c] = "off" => ~Queued(c) /\ ~Accepted(c)

SentCovers == \A c \in Clients : inbox[c] <= sent[c]

SocketsInv == SocketsTypeOK /\ OneFdEach /\ BacklogIsNew /\ SentCovers

-----------------------------------------------------------------------------
(* The least descriptor. *)

LEMMA LeastNatural ==
  ASSUME NEW S, S \subseteq Nat, S # {}
  PROVE  \E m \in S : \A n \in S : m <= n
<1>1. PICK m \in S : \A n \in S : ~(<<n, m>> \in OpToRel(<, Nat))
  BY WFMin, NatLessThanWellFounded
<1>2. ASSUME NEW n \in S
      PROVE  m <= n
  <2>1. m \in Nat /\ n \in Nat
    OBVIOUS
  <2>2. ~(n < m)
    BY <1>1, <2>1 DEF OpToRel
  <2>3. QED
    BY <2>1, <2>2
<1>3. QED
  BY <1>2

LEMMA FdsAreNaturals == Fds \subseteq Nat /\ lfd \in Fds
  BY SocketAssumption DEF Fds

LEMMA NewFdIsFree ==
  ASSUME CanAccept
  PROVE  NewFd \in Fds /\ files[NewFd] = NoFile
<1>1. FreeFds # {} /\ FreeFds \subseteq Nat
  BY FdsAreNaturals DEF CanAccept, FreeFds
<1>2. \E f \in FreeFds : \A g \in FreeFds : f <= g
  BY <1>1, LeastNatural
<1>3. NewFd \in FreeFds
  BY <1>2 DEF NewFd
<1>4. QED
  BY <1>3 DEF FreeFds

-----------------------------------------------------------------------------
(* What keeps the invariant. *)

LEMMA InitSocketsInv == SocketsInit => SocketsInv
<1> SUFFICES ASSUME SocketsInit
             PROVE  SocketsInv
  OBVIOUS
<1> USE SocketAssumption DEF SocketsInit
<1>1. SocketsTypeOK
  BY FdsAreNaturals DEF SocketsTypeOK
<1>2. OneFdEach
  BY DEF OneFdEach
<1>3. BacklogIsNew
  BY DEF BacklogIsNew, Queued, Accepted
<1>4. SentCovers
  BY DEF SentCovers
<1>5. QED
  BY <1>1, <1>2, <1>3, <1>4 DEF SocketsInv

LEMMA MaxSentType ==
  ASSUME NEW c \in Clients
  PROVE  MaxSent(c) \in Nat /\ MaxSent(c) <= MaxData
  BY SocketAssumption DEF MaxSent

\* The backlog after a connection was added.
LEMMA BacklogGrows ==
  ASSUME backlog \in Seq(Clients), NEW c \in Clients,
         backlog' = Append(backlog, c)
  PROVE  /\ backlog' \in Seq(Clients) /\ Len(backlog') = Len(backlog) + 1
         /\ Len(backlog) \in Nat
         /\ \A k \in 1..Len(backlog) : backlog'[k] = backlog[k]
         /\ backlog'[Len(backlog) + 1] = c
  BY AppendProperties, LenProperties

LEMMA BacklogShrinks ==
  ASSUME backlog \in Seq(Clients), backlog # <<>>, backlog' = Tail(backlog)
  PROVE  /\ backlog' \in Seq(Clients)
         /\ Len(backlog) \in Nat \ {0} /\ Len(backlog') = Len(backlog) - 1
         /\ \A k \in 1..Len(backlog') : backlog'[k] = backlog[k + 1]
         /\ Head(backlog) = backlog[1] /\ Head(backlog) \in Clients
  BY HeadTailProperties, LenProperties, ElementOfSeq

LEMMA ConnectKeepsSocketsInv ==
  ASSUME SocketsInv, NEW c \in Clients, Connect(c)
  PROVE  SocketsInv'
<1> USE DEF SocketsInv
<1>1. /\ peer[c] = "off" /\ peer' = [peer EXCEPT ![c] = "open"]
      /\ UNCHANGED <<sent, inbox, files>>
      /\ backlog \in Seq(Clients) /\ backlog' = Append(backlog, c)
  BY DEF Connect, SocketsTypeOK
<1>2. /\ backlog' \in Seq(Clients) /\ Len(backlog') = Len(backlog) + 1
      /\ Len(backlog) \in Nat
      /\ \A k \in 1..Len(backlog) : backlog'[k] = backlog[k]
      /\ backlog'[Len(backlog) + 1] = c
  BY <1>1, BacklogGrows
<1>3. SocketsTypeOK'
  BY <1>1, <1>2 DEF SocketsTypeOK
<1>4. OneFdEach' /\ SentCovers'
  BY <1>1 DEF OneFdEach, SentCovers
<1>5. ASSUME NEW d \in Clients
      PROVE  Accepted(d)' = Accepted(d) /\ (Queued(d)' <=> Queued(d) \/ d = c)
  <2>1. Accepted(d)' = Accepted(d)
    BY <1>1 DEF Accepted
  <2>2. Queued(d)' <=> Queued(d) \/ d = c
    BY <1>2 DEF Queued
  <2>3. QED
    BY <2>1, <2>2
<1>6. BacklogIsNew'
  <2>0. ~Queued(c) /\ ~Accepted(c)
    BY <1>1 DEF BacklogIsNew
  <2>1. \A k \in 1..Len(backlog) : backlog[k] # c
    BY <2>0 DEF Queued
  <2>2. \A j, k \in 1..Len(backlog') : backlog'[j] = backlog'[k] => j = k
    BY <1>2, <2>1 DEF BacklogIsNew
  <2>3. \A j \in 1..Len(backlog') : \A f \in Fds : files'[f] # backlog'[j]
    <3>1. ASSUME NEW j \in 1..Len(backlog'), NEW f \in Fds
          PROVE  files'[f] # backlog'[j]
      <4>1. CASE j \in 1..Len(backlog)
        BY <1>1, <1>2, <4>1 DEF BacklogIsNew, Accepted
      <4>2. CASE j = Len(backlog) + 1
        BY <1>1, <1>2, <2>0, <4>2 DEF Accepted
      <4>3. QED
        BY <1>2, <4>1, <4>2
    <3>2. QED
      BY <3>1
  <2>4. \A d \in Clients : peer'[d] = "off" => ~Queued(d)' /\ ~Accepted(d)'
    BY <1>1, <1>5 DEF BacklogIsNew, SocketsTypeOK
  <2>5. QED
    BY <2>2, <2>3, <2>4 DEF BacklogIsNew, Accepted
<1>7. QED
  BY <1>3, <1>4, <1>6

\* A step that leaves the backlog and the descriptors alone.
LEMMA SameConnections ==
  ASSUME SocketsInv, UNCHANGED <<backlog, files>>,
         SocketsTypeOK', SentCovers',
         \A c \in Clients : peer'[c] = "off" => peer[c] = "off"
  PROVE  SocketsInv'
<1>1. OneFdEach'
  BY DEF SocketsInv, OneFdEach
<1>2. BacklogIsNew'
  BY DEF SocketsInv, BacklogIsNew, Queued, Accepted
<1>3. QED
  BY <1>1, <1>2 DEF SocketsInv

LEMMA ClientKeepsSocketsInv ==
  ASSUME SocketsInv, NEW c \in Clients, Client(c)
  PROVE  SocketsInv'
<1> USE DEF SocketsInv
<1>1. CASE Connect(c)
  BY <1>1, ConnectKeepsSocketsInv
<1>2. CASE Send(c)
  <2>1. SocketsTypeOK' /\ SentCovers'
    BY <1>2, MaxSentType, SocketAssumption DEF Send, SocketsTypeOK, SentCovers
  <2>2. QED
    BY <1>2, <2>1, SameConnections DEF Send
<1>3. CASE Finish(c)
  <2>1. SocketsTypeOK' /\ SentCovers'
    BY <1>3 DEF Finish, SocketsTypeOK, SentCovers
  <2>2. QED
    BY <1>3, <2>1, SameConnections DEF Finish, SocketsTypeOK
<1>4. CASE Reset(c)
  <2>1. SocketsTypeOK' /\ SentCovers'
    BY <1>4, SocketAssumption DEF Reset, SocketsTypeOK, SentCovers
  <2>2. QED
    BY <1>4, <2>1, SameConnections DEF Reset, SocketsTypeOK
<1>5. QED
  BY <1>1, <1>2, <1>3, <1>4 DEF Client

\* recv() of a unit.
LEMMA ReceiveKeepsSocketsInv ==
  ASSUME SocketsInv, NEW c \in Clients, inbox[c] > 0,
         inbox' = [inbox EXCEPT ![c] = @ - 1],
         UNCHANGED <<clientVars, backlog, files>>
  PROVE  SocketsInv'
<1>1. SocketsTypeOK' /\ SentCovers'
  BY SocketAssumption DEF SocketsInv, SocketsTypeOK, SentCovers, clientVars
<1>2. QED
  BY <1>1, SameConnections DEF clientVars

LEMMA AcceptKeepsSocketsInv ==
  ASSUME SocketsInv, Accept, UNCHANGED <<clientVars, inbox>>
  PROVE  /\ SocketsInv'
         /\ NewFd \in Fds /\ files[NewFd] = NoFile
         /\ Head(backlog) \in Clients /\ Queued(Head(backlog))
         /\ ~Accepted(Head(backlog))
         /\ \A d \in Clients : Queued(d)' <=> Queued(d) /\ d # Head(backlog)
         /\ files' = [files EXCEPT ![NewFd] = Head(backlog)]
<1> DEFINE c == Head(backlog)
<1>1. CanAccept /\ backlog # <<>> /\ backlog \in Seq(Clients)
      /\ files' = [files EXCEPT ![NewFd] = c]
      /\ backlog' = Tail(backlog)
  BY DEF SocketsInv, SocketsTypeOK, Accept, CanAccept
<1>2. /\ backlog' \in Seq(Clients)
      /\ Len(backlog) \in Nat \ {0} /\ Len(backlog') = Len(backlog) - 1
      /\ \A k \in 1..Len(backlog') : backlog'[k] = backlog[k + 1]
      /\ c = backlog[1] /\ c \in Clients
  BY <1>1, BacklogShrinks
<1>3. NewFd \in Fds /\ files[NewFd] = NoFile
  BY <1>1, NewFdIsFree
<1>4. Queued(c) /\ ~Accepted(c)
  BY <1>2 DEF Queued, SocketsInv, BacklogIsNew
<1>5. \A k \in 1..Len(backlog') : backlog'[k] # c
  <2>1. ASSUME NEW k \in 1..Len(backlog'), backlog'[k] = c
        PROVE  FALSE
    <3>1. k + 1 \in 1..Len(backlog) /\ 1 \in 1..Len(backlog) /\ k + 1 # 1
      BY <1>2
    <3>2. backlog[k + 1] = backlog[1]
      BY <1>2, <2>1
    <3>3. QED
      BY <3>1, <3>2 DEF SocketsInv, BacklogIsNew
  <2>2. QED
    BY <2>1
<1> HIDE DEF c
<1>6. ASSUME NEW d \in Clients
      PROVE  Queued(d)' <=> Queued(d) /\ d # c
  <2>1. ASSUME NEW k \in 1..Len(backlog), backlog[k] = d, d # c
        PROVE  k - 1 \in 1..Len(backlog') /\ backlog'[k - 1] = d
    <3>1. k # 1
      BY <1>2, <2>1
    <3>2. k - 1 \in 1..Len(backlog') /\ (k - 1) + 1 = k
      BY <1>2, <3>1
    <3>3. QED
      BY <1>2, <2>1, <3>2
  <2>2. ASSUME NEW k \in 1..Len(backlog'), backlog'[k] = d
        PROVE  k + 1 \in 1..Len(backlog) /\ backlog[k + 1] = d
    BY <1>2, <2>2
  <2>3. QED
    BY <1>5, <2>1, <2>2 DEF Queued
<1>7. ASSUME NEW d \in Clients
      PROVE  Accepted(d)' <=> Accepted(d) \/ d = c
  BY <1>1, <1>3, SocketAssumption DEF Accepted, SocketsInv, SocketsTypeOK
<1>8. SocketsTypeOK' /\ SentCovers'
  BY <1>1, <1>2, <1>3
     DEF SocketsInv, SocketsTypeOK, SentCovers, clientVars
<1>9. OneFdEach'
  <2>1. \A f \in Fds : f # NewFd => files'[f] = files[f] /\ files[f] # c
    BY <1>1, <1>3, <1>4 DEF SocketsInv, SocketsTypeOK, Accepted
  <2>2. files'[NewFd] = c /\ c # Listener
    BY <1>1, <1>2, <1>3, SocketAssumption DEF SocketsInv, SocketsTypeOK
  <2>3. QED
    BY <2>1, <2>2 DEF SocketsInv, OneFdEach
<1>10. BacklogIsNew'
  <2>1. \A j, k \in 1..Len(backlog') : backlog'[j] = backlog'[k] => j = k
    <3>1. ASSUME NEW j \in 1..Len(backlog'), NEW k \in 1..Len(backlog'),
                 backlog'[j] = backlog'[k]
          PROVE  j = k
      <4>1. j + 1 \in 1..Len(backlog) /\ k + 1 \in 1..Len(backlog)
            /\ backlog[j + 1] = backlog[k + 1]
        BY <1>2, <3>1
      <4>2. j + 1 = k + 1
        BY <4>1 DEF SocketsInv, BacklogIsNew
      <4>3. QED
        BY <4>2
    <3>2. QED
      BY <3>1
  <2>2. \A j \in 1..Len(backlog') : \A f \in Fds : files'[f] # backlog'[j]
    <3>1. ASSUME NEW j \in 1..Len(backlog')
          PROVE  \A f \in Fds : files'[f] # backlog'[j]
      <4>1. j + 1 \in 1..Len(backlog) /\ backlog'[j] = backlog[j + 1]
        BY <1>2
      <4>2. backlog'[j] \in Clients /\ backlog'[j] # c
        BY <1>2, <1>5, ElementOfSeq
      <4>3. ~Accepted(backlog'[j])
        BY <4>1 DEF SocketsInv, BacklogIsNew
      <4>4. QED
        BY <1>1, <1>3, <4>2, <4>3 DEF SocketsInv, SocketsTypeOK, Accepted
    <3>2. QED
      BY <3>1
  <2>3. ASSUME NEW d \in Clients, peer'[d] = "off"
        PROVE  ~Queued(d)' /\ ~Accepted(d)'
    <3>1. peer[d] = "off" /\ ~Queued(d) /\ ~Accepted(d)
      BY <2>3 DEF SocketsInv, BacklogIsNew, clientVars
    <3>2. d # c
      BY <1>4, <3>1
    <3>3. QED
      BY <1>6, <1>7, <3>1, <3>2
  <2>4. QED
    BY <2>1, <2>2, <2>3 DEF BacklogIsNew, Accepted
<1>11. QED
  BY <1>1, <1>2, <1>3, <1>4, <1>5, <1>6, <1>8, <1>9, <1>10 DEF SocketsInv, c

\* Descriptors of connections, and any that are closed already, are closed.
LEMMA CloseKeepsSocketsInv ==
  ASSUME SocketsInv, UNCHANGED <<clientVars, inbox, backlog>>,
         files' \in [Fds -> Clients \cup {Listener, NoFile}],
         \A f \in Fds : files'[f] \in {files[f], NoFile}
  PROVE  SocketsInv'
<1>1. SocketsTypeOK' /\ SentCovers'
  BY DEF SocketsInv, SocketsTypeOK, SentCovers, clientVars
<1>2. OneFdEach'
  BY SocketAssumption DEF SocketsInv, OneFdEach
<1>3. BacklogIsNew'
  <2>1. \A c \in Clients : Accepted(c)' => Accepted(c)
    BY SocketAssumption DEF Accepted
  <2>2. \A j \in 1..Len(backlog) : backlog[j] \in Clients
    BY ElementOfSeq DEF SocketsInv, SocketsTypeOK
  <2>3. \A j \in 1..Len(backlog) : \A f \in Fds : files'[f] # backlog[j]
    BY <2>2, SocketAssumption DEF SocketsInv, BacklogIsNew, Accepted
  <2>4. QED
    BY <2>1, <2>3 DEF Accepted, SocketsInv, BacklogIsNew, Queued, clientVars
<1>4. QED
  BY <1>1, <1>2, <1>3 DEF SocketsInv

-----------------------------------------------------------------------------
(* Nothing a client does makes a call wait that would not have waited. *)

LEMMA ClientKeepsCanRead ==
  ASSUME SocketsInv, NEW c \in Clients, Client(c), NEW f \in Fds, CanRead(f)
  PROVE  CanRead(f)'
<1> USE DEF SocketsInv, SocketsTypeOK
<1>1. files' = files
  BY DEF Client, Connect, Send, Finish, Reset
<1>2. CASE files[f] = Listener /\ backlog # <<>>
  <2>1. backlog' # <<>>
    BY <1>2, AppendProperties DEF Client, Connect, Send, Finish, Reset
  <2>2. QED
    BY <1>1, <1>2, <2>1 DEF CanRead
<1>3. CASE files[f] \in Clients /\ inbox[files[f]] > 0
  <2> DEFINE d == files[f]
  <2>1. d \in Clients /\ inbox[d] > 0
    BY <1>3
  <2>2. inbox'[d] > 0 \/ peer'[d] = "reset"
    <3>1. CASE Connect(c) \/ Finish(c)
      BY <2>1, <3>1 DEF Connect, Finish
    <3>2. CASE Send(c)
      BY <2>1, <3>2, SocketAssumption DEF Send
    <3>3. CASE Reset(c)
      BY <2>1, <3>3 DEF Reset
    <3>4. QED
      BY <3>1, <3>2, <3>3 DEF Client
  <2>3. QED
    BY <1>1, <2>1, <2>2 DEF CanRead
<1>4. CASE files[f] \in Clients /\ peer[files[f]] \in {"finished", "reset"}
  BY <1>1, <1>4 DEF Client, Connect, Send, Finish, Reset, CanRead
<1>5. QED
  BY <1>2, <1>3, <1>4 DEF CanRead

LEMMA ClientKeepsHangUp ==
  ASSUME SocketsInv, NEW c \in Clients, Client(c), NEW d \in Clients,
         peer[d] \in {"finished", "reset"}
  PROVE  peer'[d] \in {"finished", "reset"}
  BY DEF SocketsInv, SocketsTypeOK, Client, Connect, Send, Finish, Reset
=============================================================================
