----------------------------- MODULE PollServer -----------------------------
(***************************************************************************)
(* The echo server of socket/poll/poll.cpp: one thread, the array fds that *)
(* is poll()'s argument, the listening socket in fds[0] and a connection   *)
(* in each of fds[1..conncount], and mapdata, the text to send back on     *)
(* each descriptor.  A closed connection's entry is overwritten by the     *)
(* last one while the loop over the array is under way.                    *)
(*                                                                         *)
(* Granularity.  poll() and one turn of the loop are an action each,       *)
(* between which clients act.                                              *)
(*                                                                         *)
(* The code does not check conncount against the size of fds; here there   *)
(* are fewer clients than entries.                                         *)
(*                                                                         *)
(* An operator that is used nowhere and stands before another is the other *)
(* with a slip in it (DropsTheLast and MovesTheLast, ...): a property of   *)
(* this module tells the two apart.                                        *)
(***************************************************************************)
EXTENDS Sockets

CONSTANTS CLIENTSIZE     \* the size of fds, 100

ASSUME PollAssumption ==
  /\ CLIENTSIZE \in Nat
  /\ IsFiniteSet(Clients) /\ Cardinality(Clients) < CLIENTSIZE

VARIABLES fds, conncount,
          i,             \* the index of the loop over fds
          mapdata,       \* whose text is kept for each descriptor
          owed,          \* units received from each client and not sent back
          at             \* where main is

pollVars == <<fds, conncount, i, mapdata, at>>
vars == <<sockVars, pollVars, owed>>

Entries == 0..CLIENTSIZE-1
NoText == NoFile
Unset == [fd |-> lfd, events |-> "in", revents |-> {}]

TypeOK ==
  /\ SocketsTypeOK
  /\ fds \in [Entries -> [fd : Fds, events : {"in", "out"},
                          revents : SUBSET {"in", "out", "hangup"}]]
  /\ conncount \in Entries
  /\ i \in 0..CLIENTSIZE
  /\ mapdata \in [Fds -> Clients \cup {NoText}]
  /\ owed \in [Clients -> 0..MaxData]
  /\ at \in {"poll", "loop", "exited"}

\* What fds holds past conncount is never read.
Init ==
  /\ SocketsInit
  /\ fds = [k \in Entries |-> Unset] /\ conncount = 0 /\ i = 0
  /\ mapdata = [f \in Fds |-> NoText]
  /\ owed = [c \in Clients |-> 0]
  /\ at = "poll"

-----------------------------------------------------------------------------
(* poll() *)

AsksForErrorsOnly(c) == peer[c] = "reset"
HangsUp(c) == peer[c] \in {"finished", "reset"}

\* POLLRDHUP and POLLERR are asked for on every connection: here "hangup".  A
\* connection can always be written to.
Revents(e) ==
  {x \in {"in", "out", "hangup"} :
     \/ x = "in" /\ e.events = "in" /\ CanRead(e.fd)
     \/ x = "out" /\ e.events = "out"
     \/ x = "hangup" /\ files[e.fd] \in Clients /\ HangsUp(files[e.fd])}

\* The number of entries poll() looks at.
Polled == conncount + 1

\* It waits, with no time limit, until there is something to report.
Poll ==
  /\ at = "poll"
  /\ \E k \in 0..Polled-1 : Revents(fds[k]) # {}
  /\ fds' = [k \in Entries |-> IF k < Polled
                THEN [fds[k] EXCEPT !.revents = Revents(fds[k])] ELSE fds[k]]
  /\ i' = 0
  /\ at' = "loop"
  /\ UNCHANGED <<sockVars, conncount, mapdata, owed>>

-----------------------------------------------------------------------------
(* One turn of the loop, for fds[i]. *)

Has(x) == at = "loop" /\ i <= conncount /\ x \in fds[i].revents
Conn == files[fds[i].fd]

GoesOn == i' = i + 1 /\ UNCHANGED at
Exits == at' = "exited" /\ UNCHANGED i

DropsTheLast == UNCHANGED fds

\* The last entry, with what poll() reported of it, takes the place of the one
\* deleted.
MovesTheLast ==
  fds' = [fds EXCEPT ![i] = fds[conncount], ![conncount] = Unset]

\* mapdata.erase(fds[i].fd), after fds[i] has been overwritten.
ErasesTextOfTheMoved ==
  mapdata' = [mapdata EXCEPT ![fds[conncount].fd] = NoText]
ErasesText == mapdata' = [mapdata EXCEPT ![fds[i].fd] = NoText]

\* i-- makes the loop come to the same index again.
Delete ==
  /\ Has("hangup")
  /\ MovesTheLast
  /\ conncount' = conncount - 1
  /\ ErasesText
  /\ Close(fds[i].fd)
  /\ UNCHANGED <<clientVars, inbox, backlog, owed, i, at>>

KeepsReports(fd) == [fds[0] EXCEPT !.fd = fd]
NewEntry(fd) == [fd |-> fd, events |-> "in", revents |-> {}]

AcceptClient ==
  /\ ~Has("hangup") /\ Has("in") /\ fds[i].fd = lfd
  /\ \/ /\ CanAccept /\ Accept
        /\ conncount' = conncount + 1
        /\ fds' = [fds EXCEPT ![conncount + 1] = NewEntry(NewFd)]
        /\ GoesOn
     \/ /\ ~CanAccept
        /\ Exits
        /\ UNCHANGED <<files, backlog, fds, conncount>>
  /\ UNCHANGED <<clientVars, inbox, mapdata, owed>>

StaysReading == "in"
TurnsToWriting == "out"

\* recv() of at most BUFSIZE-1 bytes; a connection with text to send back is
\* watched for that alone.
Read ==
  /\ ~Has("hangup") /\ Has("in") /\ fds[i].fd # lfd
  /\ \/ /\ Received(fds[i].fd) = "data"
        /\ inbox' = [inbox EXCEPT ![Conn] = @ - 1]
        /\ owed' = [owed EXCEPT ![Conn] = @ + 1]
        /\ mapdata' = [mapdata EXCEPT ![fds[i].fd] = Conn]
        /\ fds' = [fds EXCEPT ![i].events = TurnsToWriting]
        /\ GoesOn
     \/ /\ Received(fds[i].fd) = "end"
        /\ GoesOn
        /\ UNCHANGED <<inbox, owed, mapdata, fds>>
     \/ /\ Received(fds[i].fd) = "error"
        /\ Exits
        /\ UNCHANGED <<inbox, owed, mapdata, fds>>
  /\ UNCHANGED <<clientVars, backlog, files, conncount>>

StaysWriting == "out"
TurnsToReading == "in"

\* send() on a connection that was reset gives ECONNRESET, which is ignored, or,
\* if the client had finished before, EPIPE and the signal that ends main.
Write ==
  /\ ~Has("hangup") /\ ~Has("in") /\ Has("out")
  /\ \/ /\ peer[Conn] # "reset"
        /\ owed' = IF mapdata[fds[i].fd] = Conn
                   THEN [owed EXCEPT ![Conn] = @ - 1] ELSE owed
        /\ fds' = [fds EXCEPT ![i].events = TurnsToReading]
        /\ GoesOn
     \/ /\ peer[Conn] = "reset"
        /\ GoesOn \/ Exits
        /\ UNCHANGED <<owed, fds>>
  /\ UNCHANGED <<sockVars, conncount, mapdata>>

Skip ==
  /\ at = "loop" /\ i <= conncount /\ fds[i].revents = {}
  /\ GoesOn
  /\ UNCHANGED <<sockVars, fds, conncount, mapdata, owed>>

LoopEnds ==
  /\ at = "loop" /\ i > conncount
  /\ at' = "poll"
  /\ UNCHANGED <<sockVars, fds, conncount, i, mapdata, owed>>

-----------------------------------------------------------------------------
Turn == Delete \/ AcceptClient \/ Read \/ Write \/ Skip \/ LoopEnds
Main == Poll \/ Turn

Next == Main \/ \E c \in Clients : Client(c) /\ UNCHANGED <<pollVars, owed>>

Spec == Init /\ [][Next]_vars

\* main goes on unless it is blocked in poll(); no client has to do anything.
FairSpec == Spec /\ WF_vars(Main)

-----------------------------------------------------------------------------
(* Safety. *)

Watched == {fds[k].fd : k \in 1..conncount}
Open == {f \in Fds : files[f] \in Clients}

\* fds[1..conncount] are the open connections, each of them once, whatever was
\* deleted and accepted in the loop that is under way; types are kept
\* (poll.cpp 86-114).
TableIsExact ==
  /\ TypeOK
  /\ fds[0].fd = lfd
  /\ Watched = Open
  /\ \A j, k \in 1..conncount : fds[j].fd = fds[k].fd => j = k

\* The entries the loop has still to come to hold what poll() reported of the
\* descriptor they hold now: a read never has to wait (poll.cpp 77-90, 120).
ReportsStayTrue ==
  at = "loop" => \A k \in i..conncount :
    "in" \in fds[k].revents => fds[k].events = "in" /\ CanRead(fds[k].fd)

\* A connection is watched for POLLOUT just when the server has a text of it to
\* send back, and that text is no earlier connection's (poll.cpp 92, 123-129,
\* 144, 154-155).
TextIsTheConnections ==
  /\ \A k \in 1..conncount :
       LET f == fds[k].fd IN
       /\ fds[k].events = "out" <=> owed[files[f]] = 1
       /\ fds[k].events = "out" => mapdata[f] = files[f]
  /\ \A f \in Fds \ Open : mapdata[f] = NoText

-----------------------------------------------------------------------------
(* What clients see. *)

ConnOf(c) == IF Accepted(c) THEN "served"
             ELSE IF peer[c] = "off" \/ Queued(c) THEN "none" ELSE "closed"

Echo == INSTANCE EchoService WITH
  unread <- inbox, conn <- [c \in Clients |-> ConnOf(c)]

\* The server is an echo service: it reads no request before it has sent back
\* the one before, sends each back once and to the client it came from, and
\* closes a connection only after its client has (poll.cpp 86-93, 120-130,
\* 144-155).
ImplementsEcho == Echo!EchoSpec

-----------------------------------------------------------------------------
(* Liveness. *)

\* As long as the client stays and the server does not end, what the client
\* sent is read, and sent back.
RequestsAnswered ==
  \A c \in Clients : Accepted(c) /\ (inbox[c] > 0 \/ owed[c] > 0)
    ~> inbox[c] + owed[c] = 0 \/ peer[c] # "open" \/ at = "exited"

\* A connection its client has ended is closed in the end.
EndedConnectionsClosed ==
  \A c \in Clients : Accepted(c) /\ peer[c] \in {"finished", "reset"}
    ~> ~Accepted(c) \/ at = "exited"
=============================================================================
