---------------------------- MODULE EpollReaders ----------------------------
(***************************************************************************)
(* Three programs of socket/epoll that only read what others send:         *)
(*   server  CS_socket/server.cpp, level-triggered, any number of blocking *)
(*           connections, one read() for each event                        *)
(*   edge    non_block/server.cpp, edge-triggered, one non-blocking        *)
(*           connection, read() until it gives nothing                     *)
(*   pipe    pipe/pipe.cpp, level-triggered, the read end of a pipe, one   *)
(*           read() of half a message for each event                       *)
(* A level-triggered descriptor is reported while it can be read, an       *)
(* edge-triggered one once for each time something arrives.  The child     *)
(* that writes into the pipe is the first of Clients here; a unit is half  *)
(* a message.                                                              *)
(*                                                                         *)
(* Granularity.  epoll_wait, the handling of one event and each read() of  *)
(* the edge-triggered program are an action each.                          *)
(*                                                                         *)
(* An operator that is used nowhere and stands before another is the other *)
(* with a slip in it (ReadsOnce and ReadsOn, ...): a property of this      *)
(* module tells the two apart.                                             *)
(***************************************************************************)
EXTENDS Sockets

CONSTANT Child

ASSUME ReadersAssumption == Child \in Clients /\ lfd + 1 < FdLimit

VARIABLES program,
          interest,    \* the descriptors in the epoll set
          edge,        \* those that have something new, when edge-triggered
          batch,       \* events reported and not yet handled
          at           \* where main is

readVars == <<program, interest, batch, at>>
vars == <<sockVars, readVars, edge>>

TypeOK ==
  /\ SocketsTypeOK
  /\ program \in {"server", "edge", "pipe"}
  /\ interest \in SUBSET Fds /\ edge \in SUBSET Fds /\ batch \in SUBSET Fds
  /\ at \in {"accept", "wait", "handle", "drain"}

pfd == lfd + 1     \* the read end of the pipe

\* What is done before the three loops.
ServerInit == SocketsInit /\ interest = {lfd} /\ at = "wait"

EdgeInit == SocketsInit /\ interest = {} /\ at = "accept"

PipeInit ==
  /\ peer = [c \in Clients |-> IF c = Child THEN "open" ELSE "off"]
  /\ sent = [c \in Clients |-> 0] /\ inbox = [c \in Clients |-> 0]
  /\ backlog = <<>>
  /\ files = [f \in Fds |-> IF f = pfd THEN Child ELSE NoFile]
  /\ interest = {pfd} /\ at = "wait"

Init ==
  /\ \/ program = "server" /\ ServerInit
     \/ program = "edge" /\ EdgeInit
     \/ program = "pipe" /\ PipeInit
  /\ edge = {} /\ batch = {}
-----------------------------------------------------------------------------
\* The call of accept() before the loop of the edge-triggered program.
AcceptOne ==
  /\ at = "accept" /\ Accept
  /\ interest' = {NewFd}
  /\ edge' = {f \in {NewFd} : inbox[Head(backlog)] > 0
                              \/ peer[Head(backlog)] # "open"}
  /\ at' = "wait"
  /\ UNCHANGED <<clientVars, inbox, program, batch>>

Ready == IF program = "edge" THEN edge ELSE {f \in interest : CanRead(f)}

\* epoll_wait
Wait ==
  /\ at = "wait" /\ Ready # {}
  /\ batch' = Ready
  /\ edge' = {}
  /\ at' = IF program = "edge" THEN "drain" ELSE "handle"
  /\ UNCHANGED <<sockVars, program, interest>>

KeepsEvent(f) == batch
Others(f) == batch \ {f}

Handled(f) ==
  /\ at = "handle" /\ f \in batch
  /\ batch' = Others(f)
  /\ at' = IF batch' = {} THEN "wait" ELSE "handle"
  /\ UNCHANGED <<clientVars, program, edge>>

Watching(f) == interest \cup {f}

\* The -1 of an accept() that fails is given to epoll_ctl, which refuses it.
WatchesMinusOne == interest \cup {0 - 1}
NotWatched == interest

AcceptConn ==
  /\ Handled(lfd) /\ files[lfd] = Listener
  /\ \/ Accept /\ interest' = Watching(NewFd)
     \/ ~CanAccept /\ interest' = NotWatched /\ UNCHANGED <<files, backlog>>
  /\ UNCHANGED inbox

\* At the end of its data a connection leaves the epoll set and stays open; at
\* an error it is closed.
ReadConn(f) ==
  /\ Handled(f) /\ files[f] \in Clients
  /\ \/ /\ Received(f) = "data"
        /\ inbox' = [inbox EXCEPT ![files[f]] = @ - 1]
        /\ UNCHANGED <<files, interest>>
     \/ /\ Received(f) = "end"
        /\ interest' = interest \ {f}
        /\ UNCHANGED <<files, inbox>>
     \/ /\ peer[files[f]] = "reset"
        /\ interest' = interest \ {f}
        /\ Close(f)
        /\ UNCHANGED inbox
  /\ UNCHANGED backlog

ReadsOnce == "wait"
ReadsOn == "drain"

\* A read() of the edge-triggered program: when it gives nothing, EAGAIN, the
\* end of the data or an error, the loop is over.
Drain(f) ==
  /\ at = "drain" /\ f \in batch
  /\ \/ /\ Received(f) = "data"
        /\ inbox' = [inbox EXCEPT ![files[f]] = @ - 1]
        /\ at' = ReadsOn
        /\ UNCHANGED batch
     \/ /\ Received(f) # "data"
        /\ at' = "wait" /\ batch' = {}
        /\ UNCHANGED inbox
  /\ UNCHANGED <<clientVars, backlog, files, program, interest, edge>>
-----------------------------------------------------------------------------
Main == AcceptOne \/ Wait \/ AcceptConn
        \/ \E f \in Fds : ReadConn(f) \/ Drain(f)

\* The child writes a message, two halves, in one call.
WriteMessage ==
  /\ sent[Child] + 2 <= MaxData
  /\ sent' = [sent EXCEPT ![Child] = @ + 2]
  /\ inbox' = [inbox EXCEPT ![Child] = @ + 2]
  /\ UNCHANGED <<peer, backlog, files>>

\* Something arrives on c's connection.
Arrives(c) ==
  {f \in interest : files[f] = c /\ (peer'[c] # peer[c] \/ sent'[c] # sent[c])}

Environment ==
  /\ \E c \in Clients :
       /\ \/ program # "pipe" /\ Client(c)
          \/ program = "pipe" /\ c = Child /\ WriteMessage
       /\ edge' = edge \cup {f \in Arrives(c) : program = "edge"}
  /\ UNCHANGED readVars

Next == Main \/ Environment

Spec == Init /\ [][Next]_vars
FairSpec == Spec /\ WF_vars(Main)
-----------------------------------------------------------------------------
\* The sockets of the server block, and it never waits in accept() or read():
\* what was reported is still there when its turn comes, whatever happened to
\* the other connections meanwhile; its variables keep their types
\* (CS_socket/server.cpp 65-101).
ReadNeverBlocks ==
  TypeOK /\ (at = "handle" => \A f \in batch : CanRead(f))

\* Whatever arrives is read, under either trigger, in however small pieces
\* (CS_socket/server.cpp 87, non_block/server.cpp 58, pipe.cpp 71-77).
EverythingIsRead ==
  \A c \in Clients : Accepted(c) /\ inbox[c] > 0 ~> inbox[c] = 0
=============================================================================
