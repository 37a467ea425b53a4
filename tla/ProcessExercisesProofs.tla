----------------------- MODULE ProcessExercisesProofs -----------------------
(***************************************************************************)
(* What the programs on processes and on pipes promise, for any number of  *)
(* children, of lines and of units a pipe holds.                           *)
(***************************************************************************)
EXTENDS ChildReaping, Pipes, TLAPS

-----------------------------------------------------------------------------
(* The children. *)

(***************************************************************************)
(* Why ZombiesAreAnnounced is not inductive by itself: a death must find   *)
(* the signal blocked or caught.  Here `mask' is before the first fork, so *)
(* that there is no child yet, and the mask is lifted only after the       *)
(* handler is installed.                                                   *)
(***************************************************************************)
Covered ==
  program = "recovery" =>
    /\ ppc = "mask" => \A c \in Children : child[c] = "none"
    /\ ppc \in {"fork", "install"} => blocked
    /\ ppc \in {"unblock", "serve"} => installed
    /\ ppc \in {"mask", "fork", "install", "unblock", "serve"}

ReapInv == TypeOK /\ Covered /\ ZombiesAreAnnounced

LEMMA InitReapInv == Init => ReapInv
<1> SUFFICES ASSUME Init
             PROVE  ReapInv
  OBVIOUS
<1> USE NAssumption DEF Init, FirstStep
<1>1. TypeOK
  <2>1. blocked \in BOOLEAN /\ installed \in BOOLEAN /\ pending \in BOOLEAN
    BY Zenon
  <2>2. /\ ppc \in {"mask", "fork", "block", "install", "unblock", "serve",
                   "poll", "exited"}
        /\ i \in 0..N
        /\ child \in [Children ->
                      {"none", "running", "zombie", "reaped", "orphan"}]
    OBVIOUS
  <2>3. QED
    BY <2>1, <2>2, Zenon DEF TypeOK
<1>2. Covered
  BY DEF Covered
<1>3. Zombies = {}
  BY DEF Zombies
<1>4. QED
  BY <1>1, <1>2, <1>3 DEF ReapInv, ZombiesAreAnnounced

LEMMA MainKeepsReapInv == ReapInv /\ Main => ReapInv'
<1> SUFFICES ASSUME ReapInv, Main
             PROVE  ReapInv'
  OBVIOUS
<1> USE NAssumption
        DEF ReapInv, TypeOK, Covered, ZombiesAreAnnounced, Children, Zombies, At
<1>1. CASE Block
  BY <1>1 DEF Block
<1>2. CASE Fork
  BY <1>2 DEF Fork, MoreForks, Forks
<1>3. CASE ForkFails
  BY <1>3 DEF ForkFails, MoreForks, Forks
<1>4. CASE ForkLoopEnds
  BY <1>4 DEF ForkLoopEnds
<1>5. CASE Install
  BY <1>5 DEF Install
<1>6. CASE Unblock
  BY <1>6 DEF Unblock
<1>7. CASE PollChild
  BY <1>7 DEF PollChild
<1>8. QED
  BY <1>1, <1>2, <1>3, <1>4, <1>5, <1>6, <1>7 DEF Main

LEMMA HandlerKeepsReapInv == ReapInv /\ Handler => ReapInv'
<1> SUFFICES ASSUME ReapInv, Handler
             PROVE  ReapInv'
  OBVIOUS
<1> USE DEF ReapInv, TypeOK, Covered, ZombiesAreAnnounced, Children, Zombies
<1>1. CASE Deliver
  BY <1>1 DEF Deliver
<1>2. CASE Reap
  BY <1>2 DEF Reap, AfterReap
<1>3. CASE ReapsNone
  BY <1>3 DEF ReapsNone
<1>4. CASE HandlerReturns
  BY <1>4 DEF HandlerReturns
<1>5. QED
  BY <1>1, <1>2, <1>3, <1>4 DEF Handler

\* A death is announced: it finds the signal blocked or caught.
LEMMA DieKeepsReapInv ==
  ASSUME ReapInv, NEW c \in Children, Die(c)
  PROVE  ReapInv'
<1>1. program = "recovery" => Kept
  BY DEF ReapInv, TypeOK, Covered, Die, Kept
<1>2. QED
  BY <1>1 DEF ReapInv, TypeOK, Covered, ZombiesAreAnnounced, Die, Zombies

LEMMA StutterKeepsReapInv == ReapInv /\ UNCHANGED vars => ReapInv'
  BY DEF ReapInv, TypeOK, Covered, ZombiesAreAnnounced, Zombies, vars

THEOREM SpecReapInv == Spec => []ReapInv
<1>1. ReapInv /\ [Next]_vars => ReapInv'
  BY MainKeepsReapInv, HandlerKeepsReapInv, DieKeepsReapInv, StutterKeepsReapInv
     DEF Next
<1>2. QED
  BY InitReapInv, <1>1, PTL DEF Spec

\* However many children there are and whenever each of them ends, recovery.cpp
\* has a signal pending or a waitpid to make while one is not collected.
THEOREM NoChildIsOverlooked == Spec => []ZombiesAreAnnounced
<1>1. ReapInv => ZombiesAreAnnounced
  BY DEF ReapInv
<1>2. QED
  BY SpecReapInv, <1>1, PTL

-----------------------------------------------------------------------------
(* The pipes. *)

\* Where each program's processes can be.
InPlace ==
  /\ piped = "alone" => wAt \in {"closeR", "write", "ended"} /\ rAt = "none"
  /\ piped = "fifo" =>
       /\ wAt \in {"access", "open", "opening", "write", "ended"}
       /\ rAt \in {"open", "opening", "read", "spinning", "ended"}
       /\ rAt = "read" => wAt \notin {"access", "open"}
       /\ wAt = "write" => rAt \in {"opening", "read"}
  /\ piped \in {"pipe", "wc"} =>
       /\ wAt \in {"fork", "closeR", "dup", "write", "ended"}
       /\ rAt \in {"none", "closeW", "dup", "read", "ended"}
       /\ wAt = "fork" => rAt = "none"
       /\ wAt = "dup" => piped = "wc"
       /\ rAt = "none" => wAt \in {"fork", "ended"}

\* Who holds an end of the pipe: a writer until it has ended, so that no reader
\* is told of the end, and a reader until then, so that no writer breaks off.
HoldsEnds ==
  /\ wAt \in {"fork", "closeR", "dup", "opening", "write"} =>
       <<"writer", "w", "fd">> \in ends
  /\ wAt = "fork" => <<"writer", "r", "fd">> \in ends
  /\ rAt \in {"closeW", "dup", "opening", "read"} =>
       <<"reader", "r", "fd">> \in ends
  /\ rAt \in {"open", "spinning", "ended"} =>
       <<"reader", "r", "fd">> \notin ends

\* Nothing is lost on the way.
FlowAddsUp ==
  /\ got + data = put /\ put + todo <= Most
  /\ piped = "pipe" => put + todo <= 1
  /\ wAt \notin {"write", "ended"} => todo = 0 /\ put = 0

\* Who has ended has seen to everything.
EndedIsDone ==
  /\ rAt = "ended" => /\ todo = 0 /\ data = 0
                      /\ wAt = "ended" \/ (wAt = "write" /\ piped = "pipe")
  /\ wAt = "ended" /\ piped # "alone" => todo = 0

PipeInv == PipeTypeOK /\ InPlace /\ HoldsEnds /\ FlowAddsUp /\ EndedIsDone

LEMMA MostType == Most \in Nat /\ Most >= 2 /\ Most >= MaxLines
  BY PipeAssumption DEF Most

LEMMA InitPipeInv == PipeInit => PipeInv
<1> SUFFICES ASSUME PipeInit
             PROVE  PipeInv
  OBVIOUS
<1> USE MostType, PipeAssumption DEF PipeInit
<1>1. PipeTypeOK
  <2>1. piped \in {"pipe", "wc", "fifo", "alone"} /\ named \in BOOLEAN
    BY Zenon
  <2>2. ends \in SUBSET ({"writer", "reader"} \X {"r", "w"} \X {"fd", "std"})
    OBVIOUS
  <2>3. QED
    BY <2>1, <2>2 DEF PipeTypeOK
<1>2. InPlace
  BY DEF InPlace
<1>3. HoldsEnds
  BY DEF HoldsEnds
<1>4. FlowAddsUp /\ EndedIsDone
  BY DEF FlowAddsUp, EndedIsDone
<1>5. QED
  BY <1>1, <1>2, <1>3, <1>4 DEF PipeInv

LEMMA FirstUnits ==
  ASSUME NEW k, k = 0, NEW n \in Nat, NEW m \in Nat, n <= m
  PROVE  k + n <= m
  OBVIOUS

LEMMA DupAddsUp ==
  ASSUME FlowAddsUp, DupWriteEnd, piped # "pipe"
  PROVE  FlowAddsUp'
<1>1. /\ wAt = "dup" /\ wAt' = "write" /\ todo' \in 0..MaxLines
      /\ piped' = piped /\ data' = data /\ put' = put /\ got' = got
  BY DEF DupWriteEnd, WriterGoes
<1>2. put = 0 /\ todo' \in Nat /\ todo' <= Most
  BY <1>1, PipeAssumption, MostType DEF FlowAddsUp
<1>3. put' + todo' <= Most
  BY <1>1, <1>2, MostType, FirstUnits
<1>4. QED
  BY <1>1, <1>3 DEF FlowAddsUp

\* What the writer's and the reader's steps before the first unit leave true.
LEMMA WriterStartsKeepsPipeInv ==
  PipeInv /\ (PipeFork \/ PipeForkFails \/ CloseReadEnd \/ DupWriteEnd
              \/ MakeFifo \/ OpenForWriting \/ OpenedForWriting) => PipeInv'
<1> SUFFICES ASSUME PipeInv,
                    PipeFork \/ PipeForkFails \/ CloseReadEnd \/ DupWriteEnd
                    \/ MakeFifo \/ OpenForWriting \/ OpenedForWriting
             PROVE  PipeInv'
  OBVIOUS
<1> USE MostType, PipeAssumption
        DEF PipeInv, WriterGoes, ReaderGoes, WithoutProcess, flowVars
<1>1. CASE PipeFork
  <2>1. PipeTypeOK'
    BY <1>1 DEF PipeFork, PipeTypeOK
  <2>2. InPlace'
    BY <1>1 DEF PipeFork, PipeTypeOK, InPlace, HoldsEnds
  <2>3. HoldsEnds'
    BY <1>1 DEF PipeFork, PipeTypeOK, InPlace, HoldsEnds
  <2>4. FlowAddsUp'
    BY <1>1 DEF PipeFork, PipeTypeOK, InPlace, FlowAddsUp
  <2>5. EndedIsDone'
    BY <1>1 DEF PipeFork, PipeTypeOK, InPlace, FlowAddsUp, EndedIsDone
  <2>6. QED
    BY <2>1, <2>2, <2>3, <2>4, <2>5
<1>2. CASE PipeForkFails
  <2>1. PipeTypeOK'
    BY <1>2 DEF PipeForkFails, PipeTypeOK
  <2>2. InPlace'
    BY <1>2 DEF PipeForkFails, PipeTypeOK, InPlace, HoldsEnds
  <2>3. HoldsEnds'
    BY <1>2 DEF PipeForkFails, PipeTypeOK, InPlace, HoldsEnds
  <2>4. FlowAddsUp'
    BY <1>2 DEF PipeForkFails, PipeTypeOK, InPlace, FlowAddsUp
  <2>5. EndedIsDone'
    BY <1>2 DEF PipeForkFails, PipeTypeOK, InPlace, FlowAddsUp, EndedIsDone
  <2>6. QED
    BY <2>1, <2>2, <2>3, <2>4, <2>5
<1>3. CASE CloseReadEnd
  <2>1. PipeTypeOK'
    BY <1>3 DEF CloseReadEnd, PipeTypeOK
  <2>2. InPlace'
    BY <1>3 DEF CloseReadEnd, PipeTypeOK, InPlace, HoldsEnds
  <2>3. HoldsEnds'
    BY <1>3 DEF CloseReadEnd, PipeTypeOK, InPlace, HoldsEnds
  <2>4. FlowAddsUp'
    BY <1>3 DEF CloseReadEnd, PipeTypeOK, InPlace, FlowAddsUp
  <2>5. EndedIsDone'
    BY <1>3 DEF CloseReadEnd, PipeTypeOK, InPlace, FlowAddsUp, EndedIsDone
  <2>6. QED
    BY <2>1, <2>2, <2>3, <2>4, <2>5
<1>4. CASE DupWriteEnd
  <2>1. PipeTypeOK'
    BY <1>4 DEF DupWriteEnd, PipeTypeOK
  <2>2. InPlace'
    BY <1>4 DEF DupWriteEnd, PipeTypeOK, InPlace, HoldsEnds
  <2>3. HoldsEnds'
    BY <1>4 DEF DupWriteEnd, PipeTypeOK, InPlace, HoldsEnds
  <2>4. FlowAddsUp'
    <3>1. piped # "pipe"
      BY <1>4 DEF DupWriteEnd, PipeTypeOK, InPlace
    <3>2. QED
      BY <1>4, <3>1, DupAddsUp
  <2>5. EndedIsDone'
    BY <1>4 DEF DupWriteEnd, PipeTypeOK, InPlace, FlowAddsUp, EndedIsDone
  <2>6. QED
    BY <2>1, <2>2, <2>3, <2>4, <2>5
<1>5. CASE MakeFifo
  <2>1. PipeTypeOK'
    BY <1>5 DEF MakeFifo, PipeTypeOK
  <2>2. InPlace'
    BY <1>5 DEF MakeFifo, PipeTypeOK, InPlace, HoldsEnds
  <2>3. HoldsEnds'
    BY <1>5 DEF MakeFifo, PipeTypeOK, InPlace, HoldsEnds
  <2>4. FlowAddsUp'
    BY <1>5 DEF MakeFifo, PipeTypeOK, InPlace, FlowAddsUp
  <2>5. EndedIsDone'
    BY <1>5 DEF MakeFifo, PipeTypeOK, InPlace, FlowAddsUp, EndedIsDone
  <2>6. QED
    BY <2>1, <2>2, <2>3, <2>4, <2>5
<1>6. CASE OpenForWriting
  <2>1. PipeTypeOK'
    BY <1>6 DEF OpenForWriting, PipeTypeOK
  <2>2. InPlace'
    BY <1>6 DEF OpenForWriting, PipeTypeOK, InPlace, HoldsEnds
  <2>3. HoldsEnds'
    BY <1>6 DEF OpenForWriting, PipeTypeOK, InPlace, HoldsEnds
  <2>4. FlowAddsUp'
    BY <1>6 DEF OpenForWriting, PipeTypeOK, InPlace, FlowAddsUp
  <2>5. EndedIsDone'
    BY <1>6 DEF OpenForWriting, PipeTypeOK, InPlace, FlowAddsUp, EndedIsDone
  <2>6. QED
    BY <2>1, <2>2, <2>3, <2>4, <2>5
<1>7. CASE OpenedForWriting
  <2>1. PipeTypeOK'
    BY <1>7 DEF OpenedForWriting, PipeTypeOK
  <2>2. InPlace'
    BY <1>7 DEF OpenedForWriting, PipeTypeOK, InPlace, HoldsEnds
  <2>3. HoldsEnds'
    BY <1>7 DEF OpenedForWriting, PipeTypeOK, InPlace, HoldsEnds
  <2>4. FlowAddsUp'
    BY <1>7 DEF OpenedForWriting, PipeTypeOK, InPlace, FlowAddsUp
  <2>5. EndedIsDone'
    BY <1>7 DEF OpenedForWriting, PipeTypeOK, InPlace, FlowAddsUp, EndedIsDone
  <2>6. QED
    BY <2>1, <2>2, <2>3, <2>4, <2>5
<1>8. QED
  BY <1>1, <1>2, <1>3, <1>4, <1>5, <1>6, <1>7

LEMMA WriterWritesKeepsPipeInv ==
  PipeInv /\ (Write \/ BrokenPipe \/ WriterEnds) => PipeInv'
<1> SUFFICES ASSUME PipeInv, Write \/ BrokenPipe \/ WriterEnds
             PROVE  PipeInv'
  OBVIOUS
<1> USE MostType, PipeAssumption
        DEF PipeInv, WriterGoes, WithoutProcess, flowVars, AllWritten,
            Write, BrokenPipe, WriterEnds
<1>1. PipeTypeOK'
  BY DEF PipeTypeOK, FlowAddsUp
<1>2. InPlace'
  BY DEF PipeTypeOK, InPlace
<1>3. HoldsEnds'
  BY DEF PipeTypeOK, HoldsEnds
<1>4. FlowAddsUp'
  BY DEF PipeTypeOK, FlowAddsUp
\* No writer breaks off whose reader is still there.
<1>5. EndedIsDone'
  <2>1. BrokenPipe => piped = "alone"
    BY DEF PipeTypeOK, InPlace, HoldsEnds, EndedIsDone, Readable
  <2>2. QED
    BY <2>1 DEF PipeTypeOK, InPlace, EndedIsDone
<1>6. QED
  BY <1>1, <1>2, <1>3, <1>4, <1>5

LEMMA ReaderKeepsPipeInv == PipeInv /\ PipeReader => PipeInv'
<1> SUFFICES ASSUME PipeInv, PipeReader
             PROVE  PipeInv'
  OBVIOUS
<1>1. CASE \/ CloseWriteEnd \/ DupReadEnd \/ OpenForReading \/ OpenedForReading
  <2> USE MostType, PipeAssumption
          DEF PipeInv, ReaderGoes, DropWriteEnd, flowVars, CloseWriteEnd,
              DupReadEnd, OpenForReading, OpenedForReading
  <2>1. PipeTypeOK'
    BY <1>1 DEF PipeTypeOK
  <2>2. InPlace' /\ HoldsEnds'
    BY <1>1 DEF PipeTypeOK, InPlace, HoldsEnds
  <2>3. FlowAddsUp' /\ EndedIsDone'
    BY <1>1 DEF PipeTypeOK, FlowAddsUp, EndedIsDone
  <2>4. QED
    BY <2>1, <2>2, <2>3
<1>2. CASE Read
  <2>1. PICK n \in 1..data : /\ data' = data - n /\ got' = got + n
                             /\ piped = "pipe" => n = data
    <3>1. data \in 1..data
      BY <1>2, PipeAssumption DEF PipeInv, PipeTypeOK, Read
    <3>2. QED
      BY <1>2, <3>1 DEF Read
  <2>2. /\ rAt = "read" /\ data > 0
        /\ IF piped = "pipe"
           THEN rAt' = "ended" /\ ends' = WithoutProcess("reader")
           ELSE UNCHANGED <<rAt, ends>>
        /\ UNCHANGED <<piped, named, todo, put, wAt>>
    BY <1>2 DEF Read
  <2> USE MostType, PipeAssumption DEF PipeInv, WithoutProcess
  <2>3. PipeTypeOK'
    BY <2>1, <2>2 DEF PipeTypeOK, FlowAddsUp
  <2>4. InPlace'
    BY <2>2 DEF InPlace
  <2>5. HoldsEnds'
    BY <2>2 DEF HoldsEnds
  <2>6. FlowAddsUp'
    BY <2>1, <2>2 DEF PipeTypeOK, FlowAddsUp
  <2>7. EndedIsDone'
    BY <2>1, <2>2 DEF PipeTypeOK, FlowAddsUp, EndedIsDone
  <2>8. QED
    BY <2>3, <2>4, <2>5, <2>6, <2>7
\* Nobody holds the writing end, so the writer has ended and is done.
<1>3. CASE ReadsEnd
  <2> USE DEF PipeInv, ReadsEnd, ReaderGoes, WithoutProcess, flowVars
  <2>1. wAt = "ended"
    BY <1>3 DEF PipeTypeOK, InPlace, HoldsEnds, Writable
  <2>2. PipeTypeOK'
    BY <1>3 DEF PipeTypeOK
  <2>3. InPlace' /\ HoldsEnds'
    BY <1>3, <2>1 DEF InPlace, HoldsEnds
  <2>4. FlowAddsUp' /\ EndedIsDone'
    BY <1>3, <2>1 DEF InPlace, FlowAddsUp, EndedIsDone
  <2>5. QED
    BY <2>2, <2>3, <2>4
<1>4. QED
  BY <1>1, <1>2, <1>3 DEF PipeReader

\* PIPE.cpp 29-34, mywc.cpp 20-24, fifo_B.cpp 18-22: however many lines there
\* are and however few of them the pipe holds, a reader that has ended has read
\* all there was.
THEOREM NoReaderEndsEarly == PipeSpec => []EndMeansAll
<1>1. PipeInv /\ [PipeNext]_pipeVars => PipeInv'
  <2> SUFFICES ASSUME PipeInv, [PipeNext]_pipeVars
               PROVE  PipeInv'
    OBVIOUS
  <2>1. CASE PipeWriter
    BY <2>1, WriterStartsKeepsPipeInv, WriterWritesKeepsPipeInv DEF PipeWriter
  <2>2. CASE PipeReader
    BY <2>2, ReaderKeepsPipeInv
  <2>3. CASE UNCHANGED pipeVars
    BY <2>3 DEF PipeInv, PipeTypeOK, InPlace, HoldsEnds, FlowAddsUp,
                EndedIsDone, pipeVars, flowVars
  <2>4. QED
    BY <2>1, <2>2, <2>3 DEF PipeNext
<1>2. PipeInv => EndMeansAll
  BY PipeAssumption
     DEF PipeInv, EndMeansAll, EndedIsDone, FlowAddsUp, PipeTypeOK
<1>3. QED
  BY <1>1, <1>2, InitPipeInv, PTL DEF PipeSpec
=============================================================================
