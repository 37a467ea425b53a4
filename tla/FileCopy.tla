------------------------------ MODULE FileCopy ------------------------------
(***************************************************************************)
(* Two programs that copy a file:                                          *)
(*   threads   thread/multhread_copy/main.cpp, five threads, each with a   *)
(*             block of the mapped source that it writes at its place      *)
(*   loop      bases/mycp.cpp, which reads and writes a buffer at a time   *)
(*                                                                         *)
(* The byte at position p of the source is p.  A position of the copy has  *)
(* such a byte, an Old one from before, Zero if a write past the end       *)
(* skipped it, or nothing (Absent) if it is past the end.  A write may     *)
(* take less than it is given, and nothing when the file could not be      *)
(* opened; neither program looks.  `lost' are the positions of the source  *)
(* such writes left out.                                                   *)
(*                                                                         *)
(* The source can be read and mapped, unless it could not be opened, which *)
(* the first program does not look at either: len is -1 then.              *)
(*                                                                         *)
(* Granularity.  A thread, which main waits for at once, is an action.     *)
(***************************************************************************)
EXTENDS Integers

CONSTANTS MaxLen,                \* a bound on the size of either file
          BUF,                   \* mycp.cpp's buffer, 1024
          Old, Zero, Absent

ASSUME CopyAssumption ==
  /\ MaxLen \in Nat
  /\ BUF \in Nat \ {0}
  /\ {Old, Zero, Absent} \cap Int = {}
  /\ Old # Zero /\ Old # Absent /\ Zero # Absent

VARIABLES copier,        \* which program runs
          len,           \* the size of the source, -1 if it was not opened
          before, desc,  \* the copy, before and now
          lost,
          block,         \* thread that is next
          from, to,      \* the positions of mycp.cpp in the two files
          copyAt

copyVars == <<copier, len, before, desc, lost, block, from, to, copyAt>>

Positions == 0..MaxLen-1

CopyTypeOK ==
  /\ copier \in {"threads", "loop"}
  /\ len \in -1..MaxLen
  /\ before \in [Positions -> {Old, Absent}]
  /\ desc \in [Positions -> Positions \cup {Old, Zero, Absent}]
  /\ lost \in SUBSET Positions
  /\ block \in 0..5
  /\ from \in 0..MaxLen /\ to \in 0..MaxLen
  /\ copyAt \in {"open", "copy", "done"}

CopyInit ==
  /\ copier \in {"threads", "loop"}
  /\ len = 0 /\ lost = {} /\ block = 0 /\ from = 0 /\ to = 0
  /\ before = [p \in Positions |-> Absent] /\ desc = before
  /\ copyAt = "open"
-----------------------------------------------------------------------------
\* The file d after n bytes of the source, from position src on, were written
\* at position dst.
Written(d, dst, src, n) ==
  [p \in Positions |->
     IF p \in dst..dst+n-1 THEN src + (p - dst)
     ELSE IF n > 0 /\ p < dst /\ d[p] = Absent THEN Zero
     ELSE d[p]]

\* mycp.cpp opens with O_TRUNC.
Emptied == [p \in Positions |-> Absent]

Open ==
  /\ copyAt = "open"
  /\ len' \in -1..MaxLen
  /\ \E m \in 0..MaxLen :
       before' = [p \in Positions |-> IF p < m THEN Old ELSE Absent]
  /\ desc' = IF copier = "threads" THEN before' ELSE Emptied
  /\ copyAt' = "copy"
  /\ UNCHANGED <<copier, lost, block, from, to>>

-----------------------------------------------------------------------------
(* multhread_copy/main.cpp *)

\* Division in C rounds towards zero.
BlockSize == IF len < 0 THEN 0 ELSE len \div 5
Offset(b) == b * BlockSize

SizeOfTheOthers == BlockSize
LastSize == len - Offset(4)
Size(b) == IF b < 4 THEN BlockSize ELSE LastSize

\* fun: open, lseek and a write of n bytes; main waits for the thread.
CopyBlock ==
  /\ copier = "threads" /\ copyAt = "copy" /\ block < 5
  /\ \E n \in 0..len :
       /\ n <= Size(block)
       /\ desc' = Written(desc, Offset(block), Offset(block), n)
       /\ lost' = lost \cup Offset(block)+n..Offset(block)+Size(block)-1
  /\ block' = block + 1
  /\ UNCHANGED <<copier, len, before, from, to, copyAt>>

\* Without a source every thread writes from nowhere, which fails.
CopyNothing ==
  /\ copier = "threads" /\ copyAt = "copy" /\ block < 5
  /\ len = -1
  /\ block' = block + 1
  /\ UNCHANGED <<copier, len, before, desc, lost, from, to, copyAt>>

AllBlocks ==
  /\ copier = "threads" /\ copyAt = "copy" /\ block = 5
  /\ copyAt' = "done"
  /\ UNCHANGED <<copier, len, before, desc, lost, block, from, to>>
-----------------------------------------------------------------------------
(* mycp.cpp *)

\* read() of n bytes and write() of m of them.  Without a source read() fails for
\* ever, which the loop does not take for an end.
CopyChunk ==
  /\ copier = "loop" /\ copyAt = "copy"
  /\ \E n \in 1..BUF :
       /\ from + n <= len
       /\ from' = from + n
       /\ \E m \in 0..n :
            /\ desc' = Written(desc, to, from, m)
            /\ lost' = lost \cup from+m..from+n-1
            /\ to' = to + m
  /\ UNCHANGED <<copier, len, before, block, copyAt>>

ReadsNothing ==
  /\ copier = "loop" /\ copyAt = "copy" /\ from = len
  /\ copyAt' = "done"
  /\ UNCHANGED <<copier, len, before, desc, lost, block, from, to>>
-----------------------------------------------------------------------------
Threads == CopyBlock \/ CopyNothing \/ AllBlocks
Loop == CopyChunk \/ ReadsNothing

CopyNext == Open \/ Threads \/ Loop

CopySpec == CopyInit /\ [][CopyNext]_copyVars
-----------------------------------------------------------------------------
\* What the threads leave at position p: the source's byte, but for what a short
\* write left out, and what was there before past the source's end.
ThreadsLeave(p) ==
  IF p >= len THEN desc[p] = before[p]
  ELSE IF p \in lost THEN desc[p] \in {before[p], Zero}
  ELSE desc[p] = p

\* When the threads are through, the source is in its place whatever its length,
\* the remainder of the division included: the blocks neither overlap nor leave
\* a gap, a short write spoils nothing but what it leaves out, and an older,
\* longer copy keeps its end (multhread_copy/main.cpp 29-33, 62-77).  Without a
\* short write mycp.cpp makes an exact copy, and nothing of an older one is left
\* (mycp.cpp 12-16).  Types are kept.
CopyIsExact ==
  /\ CopyTypeOK
  /\ copyAt = "done" => \A p \in Positions :
       /\ copier = "threads" => ThreadsLeave(p)
       /\ copier = "loop" /\ lost = {} =>
            desc[p] = IF p < len THEN p ELSE Absent
=============================================================================
