------------------------------- MODULE Sockets -------------------------------
(***************************************************************************)
(* The part of Linux the socket servers of this repository stand on, as    *)
(* far as they use it: clients that connect, send, finish and reset, the   *)
(* queue of connections not yet accepted, and the server's descriptors.    *)
(* A server's module extends this one and owns the descriptors.            *)
(*                                                                         *)
(* Data is counted, not spelled: a unit is what one recv() of the server   *)
(* can take.                                                               *)
(***************************************************************************)
EXTENDS Naturals, Sequences, FiniteSets

CONSTANTS Clients,       \* one element per connection a client may open
          Chatty,        \* the clients that may send more than one unit
          MaxData,       \* how many units of data these send at most
          lfd,           \* the listening socket's descriptor
          FdLimit,       \* RLIMIT_NOFILE: descriptors are below it
          Listener,      \* the file behind lfd
          NoFile         \* what is behind a closed descriptor

ASSUME SocketAssumption ==
  /\ Chatty \subseteq Clients /\ MaxData \in Nat \ {0}
  /\ lfd \in Nat /\ FdLimit \in Nat /\ lfd < FdLimit
  /\ Listener \notin Clients /\ NoFile \notin Clients /\ Listener # NoFile

Fds == lfd..FdLimit-1    \* the descriptors for sockets; the first is lfd

VARIABLES peer,          \* what each client has done to its connection
          sent,          \* units each client has sent
          inbox,         \* units sent and not yet read by the server
          backlog,       \* connections waiting for accept(), oldest first
          files          \* the server's descriptor table

clientVars == <<peer, sent>>
sockVars == <<peer, sent, inbox, backlog, files>>

SocketsTypeOK ==
  /\ peer \in [Clients -> {"off", "open", "finished", "reset"}]
  /\ sent \in [Clients -> 0..MaxData]
  /\ inbox \in [Clients -> 0..MaxData]
  /\ backlog \in Seq(Clients)
  /\ files \in [Fds -> Clients \cup {Listener, NoFile}]

SocketsInit ==
  /\ peer = [c \in Clients |-> "off"]
  /\ sent = [c \in Clients |-> 0]
  /\ inbox = [c \in Clients |-> 0]
  /\ backlog = <<>>
  /\ files = [f \in Fds |-> IF f = lfd THEN Listener ELSE NoFile]

-----------------------------------------------------------------------------
(* The clients. *)

Queued(c) == \E i \in 1..Len(backlog) : backlog[i] = c
Accepted(c) == \E f \in Fds : files[f] = c

MaxSent(c) == IF c \in Chatty THEN MaxData ELSE 1

Connect(c) ==
  /\ peer[c] = "off"
  /\ peer' = [peer EXCEPT ![c] = "open"]
  /\ backlog' = Append(backlog, c)
  /\ UNCHANGED <<sent, inbox, files>>

\* A client's later steps matter only while the server has the connection.
Send(c) ==
  /\ peer[c] = "open" /\ sent[c] < MaxSent(c) /\ (Queued(c) \/ Accepted(c))
  /\ sent' = [sent EXCEPT ![c] = @ + 1]
  /\ inbox' = [inbox EXCEPT ![c] = @ + 1]
  /\ UNCHANGED <<peer, backlog, files>>

\* shutdown() or close(): what was sent can still be read.
Finish(c) ==
  /\ peer[c] = "open" /\ (Queued(c) \/ Accepted(c))
  /\ peer' = [peer EXCEPT ![c] = "finished"]
  /\ UNCHANGED <<sent, inbox, backlog, files>>

\* RST: what was sent and not read is lost.
Reset(c) ==
  /\ peer[c] \in {"open", "finished"} /\ (Queued(c) \/ Accepted(c))
  /\ peer' = [peer EXCEPT ![c] = "reset"]
  /\ inbox' = [inbox EXCEPT ![c] = 0]
  /\ UNCHANGED <<sent, backlog, files>>

Client(c) == Connect(c) \/ Send(c) \/ Finish(c) \/ Reset(c)

-----------------------------------------------------------------------------
(* The system calls. *)

\* EPOLLIN and POLLIN: the call that reads f would not block.
CanRead(f) ==
  \/ files[f] = Listener /\ backlog # <<>>
  \/ files[f] \in Clients /\ \/ inbox[files[f]] > 0
                             \/ peer[files[f]] \in {"finished", "reset"}

\* recv() on a non-blocking socket: the units it takes, "end" or "error"
\* (the connection was reset, it has no data yet, f is no connection).
Received(f) ==
  IF files[f] \notin Clients THEN "error"
  ELSE IF inbox[files[f]] > 0 THEN "data"
  ELSE IF peer[files[f]] = "finished" THEN "end"
  ELSE "error"

\* accept() gives the lowest free descriptor, and fails when there is none.
FreeFds == {f \in Fds : files[f] = NoFile}
NewFd == CHOOSE f \in FreeFds : \A g \in FreeFds : f <= g
CanAccept == backlog # <<>> /\ FreeFds # {}

Accept ==
  /\ CanAccept
  /\ files' = [files EXCEPT ![NewFd] = Head(backlog)]
  /\ backlog' = Tail(backlog)

Close(f) == files' = [files EXCEPT ![f] = NoFile]
=============================================================================
