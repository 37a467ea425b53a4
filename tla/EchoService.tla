---------------------------- MODULE EchoService ----------------------------
(***************************************************************************)
(* What an echo server promises its clients, one request after another:    *)
(* it takes a request from a client it serves only when it owes that       *)
(* client nothing, and sends back once what it took; it closes a           *)
(* connection only after the client has ended it.  A client's requests are *)
(* counted.                                                                *)
(***************************************************************************)
EXTENDS Naturals

CONSTANTS Clients, MaxData       \* MaxData bounds a client's requests

VARIABLES peer,      \* what each client has done to its connection
          unread,    \* requests the server has not taken
          owed,      \* requests taken and not sent back
          conn       \* the server's side of the connection

echoVars == <<peer, unread, owed, conn>>

EchoInit ==
  /\ peer = [c \in Clients |-> "off"]
  /\ unread = [c \in Clients |-> 0]
  /\ owed = [c \in Clients |-> 0]
  /\ conn = [c \in Clients |-> "none"]
-----------------------------------------------------------------------------
Connect(c) ==
  /\ peer[c] = "off"
  /\ peer' = [peer EXCEPT ![c] = "open"]
  /\ UNCHANGED <<unread, owed, conn>>

Request(c) ==
  /\ peer[c] = "open" /\ unread[c] < MaxData
  /\ unread' = [unread EXCEPT ![c] = @ + 1]
  /\ UNCHANGED <<peer, owed, conn>>

\* A client that resets its connection takes back what was not read.
Leave(c) ==
  /\ \/ /\ peer[c] = "open"
        /\ peer' = [peer EXCEPT ![c] = "finished"]
        /\ UNCHANGED unread
     \/ /\ peer[c] \in {"open", "finished"}
        /\ peer' = [peer EXCEPT ![c] = "reset"]
        /\ unread' = [unread EXCEPT ![c] = 0]
  /\ UNCHANGED <<owed, conn>>

Serve(c) ==
  /\ peer[c] # "off" /\ conn[c] = "none"
  /\ conn' = [conn EXCEPT ![c] = "served"]
  /\ UNCHANGED <<peer, unread, owed>>

Take(c) ==
  /\ conn[c] = "served" /\ unread[c] > 0 /\ owed[c] = 0
  /\ unread' = [unread EXCEPT ![c] = @ - 1]
  /\ owed' = [owed EXCEPT ![c] = 1]
  /\ UNCHANGED <<peer, conn>>

SendBack(c) ==
  /\ conn[c] = "served" /\ owed[c] = 1
  /\ owed' = [owed EXCEPT ![c] = 0]
  /\ UNCHANGED <<peer, unread, conn>>

CloseEnded(c) ==
  /\ conn[c] = "served" /\ peer[c] \in {"finished", "reset"}
  /\ conn' = [conn EXCEPT ![c] = "closed"]
  /\ UNCHANGED <<peer, unread, owed>>
-----------------------------------------------------------------------------
EchoNext ==
  \E c \in Clients : \/ Connect(c) \/ Request(c) \/ Leave(c)
                     \/ Serve(c) \/ Take(c) \/ SendBack(c) \/ CloseEnded(c)

EchoSpec == EchoInit /\ [][EchoNext]_echoVars
=============================================================================
