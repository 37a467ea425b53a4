------------------------- MODULE MCThreadExercises -------------------------
(***************************************************************************)
(* The programs on threads and locks, for one run of TLC: each behaviour   *)
(* is one of SharedCounter's, ProducerConsumer's or FileCopy's, while the  *)
(* two others stay where they start.                                       *)
(***************************************************************************)
EXTENDS SharedCounter, ProducerConsumer, FileCopy

VARIABLE runs     \* the module whose program runs

ThreadsInit ==
  /\ runs \in {"counter", "messages", "copy"}
  /\ Init /\ PCInit /\ CopyInit

CounterStep == /\ runs = "counter" /\ Next
               /\ UNCHANGED <<runs, pcVars, copyVars>>
MessageStep == /\ runs = "messages" /\ PCNext
               /\ UNCHANGED <<runs, vars, copyVars>>
CopyStep == /\ runs = "copy" /\ CopyNext
            /\ UNCHANGED <<runs, vars, pcVars>>

ThreadsNext == CounterStep \/ MessageStep \/ CopyStep

\* Producer and consumer are scheduled, and the mutex starves neither.
ThreadsSpec ==
  /\ ThreadsInit /\ [][ThreadsNext]_<<runs, vars, pcVars, copyVars>>
  /\ WF_pcVars(runs = "messages" /\ Producer)
  /\ WF_pcVars(runs = "messages" /\ Consumer)
=============================================================================
