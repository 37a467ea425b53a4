---------------------------- MODULE SharedCounter ----------------------------
(***************************************************************************)
(* The programs of lock/: a counter that threads or processes add to.      *)
(*   mutex.cpp      two threads, a mutex, main sleeps for ever             *)
(*   mutexattr.cpp  a child and its father, a mutex in shared memory, which*)
(*                  either destroys when it is through                     *)
(*   rwlock.cpp     writers and readers, a read-write lock, no end         *)
(*                                                                         *)
(* Granularity.  The read of the counter and its write are two actions.    *)
(* rwlock.cpp also reads it outside the lock, for a printf and nothing     *)
(* else: left out.                                                         *)
(*                                                                         *)
(* A destroyed mutex is as glibc leaves it: pthread_mutex_destroy fails if *)
(* the mutex is held; afterwards lock and unlock fail, which no program    *)
(* here looks at, so that the caller goes on without the lock.             *)
(*                                                                         *)
(* An operator that is used nowhere and stands before another is the other *)
(* with a slip in it (GoesInUnlocked and Lock, ...): a property of         *)
(* this module tells the two apart.                                        *)
(***************************************************************************)
EXTENDS Naturals, FiniteSets, FiniteSetsExt

CONSTANTS Writers, Readers,    \* threads or processes
          Father,              \* the one that adds 2 in mutexattr.cpp
          Rounds,              \* turns of each loop: 1000, 10; a bound for
                               \* rwlock.cpp, whose loops have no end
          None

ASSUME CounterAssumption ==
  /\ IsFiniteSet(Writers) /\ Father \in Writers
  /\ Writers \cap Readers = {} /\ None \notin Writers
  /\ Rounds \in Nat \ {0}

VARIABLES program,
          num,         \* num, tickNum, count
          holder,      \* the writer that holds the lock
          reading,     \* the readers that hold it
          destroyed,
          pc, tem, rounds     \* of each writer

vars == <<program, num, holder, reading, destroyed, pc, tem, rounds>>

TypeOK ==
  /\ program \in {"mutex", "mutexattr", "rwlock"}
  /\ num \in Nat
  /\ holder \in Writers \cup {None}
  /\ reading \in SUBSET Readers
  /\ destroyed \in BOOLEAN
  /\ pc \in [Writers -> {"lock", "read", "write", "unlock", "through", "ended"}]
  /\ tem \in [Writers -> Nat]
  /\ rounds \in [Writers -> 0..Rounds]

Init ==
  /\ program \in {"mutex", "mutexattr", "rwlock"}
  /\ program = "mutexattr" => Cardinality(Writers) = 2
  /\ num = 0 /\ holder = None /\ reading = {} /\ destroyed = FALSE
  /\ pc = [t \in Writers |-> "lock"]
  /\ tem = [t \in Writers |-> 0]
  /\ rounds = [t \in Writers |-> 0]
-----------------------------------------------------------------------------
Goes(t, from, to) == pc[t] = from /\ pc' = [pc EXCEPT ![t] = to]

\* What a writer adds.
Step(t) == IF program = "mutexattr" /\ t = Father THEN 2 ELSE 1

CanWrite == holder = None /\ reading = {}

GoesInUnlocked(t) ==
  /\ Goes(t, "lock", "read")
  /\ UNCHANGED <<program, num, holder, reading, destroyed, tem, rounds>>

\* pthread_mutex_lock, pthread_rwlock_wrlock
Lock(t) ==
  /\ Goes(t, "lock", "read")
  /\ \/ ~destroyed /\ CanWrite /\ holder' = t
     \/ destroyed /\ UNCHANGED holder
  /\ UNCHANGED <<program, num, reading, destroyed, tem, rounds>>

Read(t) ==
  /\ Goes(t, "read", "write")
  /\ tem' = [tem EXCEPT ![t] = num]
  /\ UNCHANGED <<program, num, holder, reading, destroyed, rounds>>

Write(t) ==
  /\ Goes(t, "write", "unlock")
  /\ num' = tem[t] + Step(t)
  /\ rounds' = [rounds EXCEPT ![t] = @ + 1]
  /\ UNCHANGED <<program, holder, reading, destroyed, tem>>

MoreRounds(t) == rounds[t] < Rounds

Released(t) == IF holder = t THEN None ELSE holder

Unlock(t) ==
  /\ Goes(t, "unlock", IF MoreRounds(t) THEN "lock" ELSE "through")
  /\ holder' = Released(t)
  /\ UNCHANGED <<program, num, reading, destroyed, tem, rounds>>

\* Threads end.  The father waits for the child; each of them destroys the mutex.
End(t) ==
  /\ Goes(t, "through", "ended")
  /\ \/ program # "mutexattr" /\ UNCHANGED destroyed
     \/ /\ program = "mutexattr"
        /\ t = Father => \A u \in Writers \ {t} : pc[u] = "ended"
        /\ destroyed' = (destroyed \/ holder = None)
  /\ UNCHANGED <<program, num, holder, reading, tem, rounds>>

ReadsUnlocked(r) ==
  /\ program = "rwlock" /\ r \notin reading
  /\ reading' = reading \cup {r}
  /\ UNCHANGED <<program, num, holder, destroyed, pc, tem, rounds>>

\* pthread_rwlock_rdlock, the printf and the unlock.
StartReading(r) ==
  /\ program = "rwlock" /\ r \notin reading /\ holder = None
  /\ reading' = reading \cup {r}
  /\ UNCHANGED <<program, num, holder, destroyed, pc, tem, rounds>>

StopReading(r) ==
  /\ r \in reading
  /\ reading' = reading \ {r}
  /\ UNCHANGED <<program, num, holder, destroyed, pc, tem, rounds>>
-----------------------------------------------------------------------------
Writer(t) == Lock(t) \/ Read(t) \/ Write(t) \/ Unlock(t) \/ End(t)
Reader(r) == StartReading(r) \/ StopReading(r)

Next == (\E t \in Writers : Writer(t)) \/ (\E r \in Readers : Reader(r))

Spec == Init /\ [][Next]_vars
-----------------------------------------------------------------------------
InSection == {t \in Writers : pc[t] \in {"read", "write", "unlock"}}

\* A writer in its section is alone there -- also one whose lock failed since
\* the other process has destroyed the mutex (mutexattr.cpp 66-88, rwlock.cpp
\* 25-27 and 38-40).
SectionsExclude ==
  \A t \in InSection : InSection = {t} /\ reading = {}

\* The counter is the sum of what was added: no update is lost, whoever
\* destroys the mutex first (mutex.cpp 23-29, mutexattr.cpp 22 and 66-88).
NoUpdateIsLost ==
  num = MapThenSumSet(LAMBDA t : rounds[t] * Step(t), Writers)
=============================================================================
