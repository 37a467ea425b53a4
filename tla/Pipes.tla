------------------------------- MODULE Pipes -------------------------------
(***************************************************************************)
(* The programs of IPC/ in which one process writes into a pipe and        *)
(* another reads from it:                                                  *)
(*   pipe   PIPE.cpp: the parent passes on a line of the terminal, the     *)
(*          child prints it                                                *)
(*   wc     mywc.cpp: the parent becomes ls, the child wc -l               *)
(*   fifo   fifo_A.cpp writes a message twice into a named pipe,           *)
(*          fifo_B.cpp prints what comes                                   *)
(*   alone  SIGPIPE.cpp has no reader                                      *)
(* A reader is told of the end only when no process has a descriptor of    *)
(* the writing end any more, the reader included: `ends' are the           *)
(* descriptors of either end that are open.                                *)
(*                                                                         *)
(* Data is counted in units: a message, or a line of ls.  The terminal     *)
(* gives a line in the end, and pipe() succeeds.                           *)
(*                                                                         *)
(* Granularity.  A system call is an action.                               *)
(*                                                                         *)
(* An operator that is used nowhere and stands before another is the other *)
(* with a slip in it: a property of this module tells the two apart.       *)
(***************************************************************************)
EXTENDS Naturals

CONSTANTS MaxLines,     \* a bound on the lines of ls
          Capacity      \* units the pipe holds

ASSUME PipeAssumption == MaxLines \in Nat /\ Capacity \in Nat \ {0}

VARIABLES piped,        \* which program runs
          named,        \* does the file myfifo exist?
          ends,         \* <<process, end, descriptor>>
          data,         \* units in the pipe
          todo, put,    \* units the writer has still to write, has written
          got,          \* units the reader has read
          wAt, rAt      \* where writer and reader are

flowVars == <<data, todo, put, got>>
pipeVars == <<piped, named, ends, flowVars, wAt, rAt>>

Most == IF MaxLines > 2 THEN MaxLines ELSE 2

PipeTypeOK ==
  /\ piped \in {"pipe", "wc", "fifo", "alone"}
  /\ named \in BOOLEAN
  /\ ends \in SUBSET ({"writer", "reader"} \X {"r", "w"} \X {"fd", "std"})
  /\ data \in 0..Capacity
  /\ todo \in 0..Most /\ put \in 0..Most /\ got \in 0..Most
  /\ wAt \in {"fork", "closeR", "dup", "access", "open", "opening", "write",
             "ended"}
  /\ rAt \in {"none", "closeW", "dup", "open", "opening", "read", "spinning",
              "ended"}

PipeInit ==
  /\ piped \in {"pipe", "wc", "fifo", "alone"}
  /\ named \in {FALSE, piped = "fifo"}     \* left by an earlier run
  /\ ends = IF piped = "fifo" THEN {}
            ELSE {<<"writer", "r", "fd">>, <<"writer", "w", "fd">>}
  /\ data = 0 /\ todo = 0 /\ put = 0 /\ got = 0
  /\ wAt = CASE piped = "fifo" -> "access" [] piped = "alone" -> "closeR"
             [] OTHER -> "fork"
  /\ rAt = IF piped = "fifo" THEN "open" ELSE "none"
-----------------------------------------------------------------------------
WriterGoes(from, to) == wAt = from /\ wAt' = to
ReaderGoes(from, to) == rAt = from /\ rAt' = to

\* Somebody may still write, somebody may still read.
Writable == \E e \in ends : e[2] = "w"
Readable == \E e \in ends : e[2] = "r"

WithoutProcess(p) == {e \in ends : e[1] # p}

\* fork: the child has the parent's descriptors.
PipeFork ==
  /\ WriterGoes("fork", "closeR")
  /\ ReaderGoes("none", "closeW")
  /\ ends' = ends \cup {<<"reader", e[2], e[3]>> : e \in ends}
  /\ UNCHANGED <<piped, named, flowVars>>

PipeForkFails ==
  /\ WriterGoes("fork", "ended")
  /\ ends' = WithoutProcess("writer")
  /\ UNCHANGED <<piped, named, flowVars, rAt>>
-----------------------------------------------------------------------------
(* The writer. *)

CloseReadEnd ==
  /\ wAt = "closeR" /\ wAt' = IF piped = "wc" THEN "dup" ELSE "write"
  /\ ends' = ends \ {<<"writer", "r", "fd">>}
  /\ todo' = IF piped = "wc" THEN todo ELSE 1
  /\ UNCHANGED <<piped, named, data, put, got, rAt>>

\* dup2 onto the standard output; then the process is ls.
DupWriteEnd ==
  /\ WriterGoes("dup", "write")
  /\ ends' = ends \cup {<<"writer", "w", "std">>}
  /\ todo' \in 0..MaxLines
  /\ UNCHANGED <<piped, named, data, put, got, rAt>>

\* access, and mkfifo if there is no such file.
MakeFifo ==
  /\ WriterGoes("access", "open")
  /\ named' = TRUE
  /\ UNCHANGED <<piped, ends, flowVars, rAt>>

\* open(O_WRONLY) returns when there is a reader.
OpenForWriting ==
  /\ WriterGoes("open", "opening")
  /\ ends' = ends \cup {<<"writer", "w", "fd">>}
  /\ UNCHANGED <<piped, named, flowVars, rAt>>
OpenedForWriting ==
  /\ WriterGoes("opening", "write")
  /\ <<"reader", "r", "fd">> \in ends
  /\ todo' = 2
  /\ UNCHANGED <<piped, named, ends, data, put, got, rAt>>

Write ==
  /\ wAt = "write" /\ todo > 0 /\ data < Capacity /\ Readable
  /\ data' = data + 1 /\ todo' = todo - 1 /\ put' = put + 1
  /\ UNCHANGED <<piped, named, ends, got, wAt, rAt>>

\* SIGPIPE ends a writer that nobody reads from.
BrokenPipe ==
  /\ todo > 0 /\ ~Readable
  /\ WriterGoes("write", "ended")
  /\ ends' = WithoutProcess("writer")
  /\ UNCHANGED <<piped, named, flowVars, rAt>>

AllButOne == todo <= 1
AllWritten == todo = 0

\* The writer closes what it has, or ends.
WriterEnds ==
  /\ AllWritten
  /\ WriterGoes("write", "ended")
  /\ ends' = WithoutProcess("writer")
  /\ UNCHANGED <<piped, named, flowVars, rAt>>
-----------------------------------------------------------------------------
(* The reader. *)

KeepsWriteEnd == UNCHANGED ends
DropWriteEnd == ends' = ends \ {<<"reader", "w", "fd">>}

CloseWriteEnd ==
  /\ rAt = "closeW" /\ rAt' = IF piped = "wc" THEN "dup" ELSE "read"
  /\ DropWriteEnd
  /\ UNCHANGED <<piped, named, flowVars, wAt>>

\* dup2 onto the standard input; then the process is wc.
DupReadEnd ==
  /\ ReaderGoes("dup", "read")
  /\ ends' = ends \cup {<<"reader", "r", "std">>}
  /\ UNCHANGED <<piped, named, flowVars, wAt>>

\* open(O_RDONLY): without the file it fails, and then so does every read, which
\* the loop does not take for the end.
OpenForReading ==
  /\ rAt = "open" /\ rAt' = IF named THEN "opening" ELSE "spinning"
  /\ ends' = ends \cup {e \in {<<"reader", "r", "fd">>} : named}
  /\ UNCHANGED <<piped, named, flowVars, wAt>>
OpenedForReading ==
  /\ ReaderGoes("opening", "read")
  /\ wAt \notin {"access", "open"}
  /\ UNCHANGED <<piped, named, ends, flowVars, wAt>>

\* PIPE.cpp reads once.  The buffers hold more than there is to read, except that
\* wc may take it in pieces.
Read ==
  /\ rAt = "read" /\ data > 0
  /\ \E n \in IF piped = "wc" THEN 1..data ELSE {data} :
       data' = data - n /\ got' = got + n
  /\ IF piped = "pipe" THEN rAt' = "ended" /\ ends' = WithoutProcess("reader")
                       ELSE UNCHANGED <<rAt, ends>>
  /\ UNCHANGED <<piped, named, todo, put, wAt>>

ReadsEnd ==
  /\ data = 0 /\ ~Writable
  /\ ReaderGoes("read", "ended")
  /\ ends' = WithoutProcess("reader")
  /\ UNCHANGED <<piped, named, flowVars, wAt>>
-----------------------------------------------------------------------------
PipeWriter == \/ PipeFork \/ PipeForkFails \/ CloseReadEnd \/ DupWriteEnd
              \/ MakeFifo \/ OpenForWriting \/ OpenedForWriting
              \/ Write \/ BrokenPipe \/ WriterEnds
PipeReader == \/ CloseWriteEnd \/ DupReadEnd \/ OpenForReading
              \/ OpenedForReading \/ Read \/ ReadsEnd

PipeNext == PipeWriter \/ PipeReader

PipeSpec == PipeInit /\ [][PipeNext]_pipeVars
-----------------------------------------------------------------------------
\* A reader that has ended has read all there was: nobody takes a pause of the
\* writer, or its late start, for the end; types are kept (PIPE.cpp 29-34,
\* mywc.cpp 20-24, fifo_B.cpp 18-22).
EndMeansAll ==
  PipeTypeOK /\ (rAt = "ended" => todo = 0 /\ data = 0 /\ got = put)

\* A reader that has begun comes to the end: no process has kept a descriptor of
\* the writing end, neither by the fork nor by a dup2 (mywc.cpp 21-30).
ReaderSeesTheEnd == rAt \in {"closeW", "opening"} ~> rAt = "ended"
=============================================================================
