-------------------------- MODULE ProducerConsumer --------------------------
(***************************************************************************)
(* thread/P_C_Model/Signal_type.cpp: a producer puts messages at the head  *)
(* of a linked list, a consumer takes them from there.  The list is under  *)
(* a mutex; the condition that tells of a message is signalled after the   *)
(* mutex is released.                                                      *)
(*                                                                         *)
(* A message is the memory it is in: Nodes are the addresses, which `new'  *)
(* gives out and `free' takes back, so that both loops run for ever.  What *)
(* is printed, and the sleeps, are left out.                               *)
(*                                                                         *)
(* Granularity.  The producer's section is one action.  In the consumer's, *)
(* the test of head and pthread_cond_wait are two, since a signal can fall *)
(* between them.                                                           *)
(*                                                                         *)
(* An operator that is used nowhere and stands before another is the other *)
(* with a slip in it: a property of this module tells the two apart.       *)
(***************************************************************************)
EXTENDS Naturals, FiniteSets

CONSTANTS Nodes,       \* memory for messages
          NULL

ASSUME NodesAssumption == IsFiniteSet(Nodes) /\ NULL \notin Nodes

VARIABLES head, next,      \* the list
          heap,            \* the nodes that are allocated
          lockedBy,        \* who holds the mutex between two actions
          t, producerAt,   \* producer: the message it made, where it is
          mp, consumerAt   \* consumer: the message it took, where it is

listVars == <<head, next, heap>>
producerVars == <<t, producerAt>>
consumerVars == <<mp, consumerAt>>
pcVars == <<listVars, lockedBy, producerVars, consumerVars>>

PCTypeOK ==
  /\ head \in Nodes \cup {NULL}
  /\ next \in [Nodes -> Nodes \cup {NULL}]
  /\ heap \in SUBSET Nodes
  /\ lockedBy \in {"nobody", "consumer"}
  /\ t \in Nodes \cup {NULL}
  /\ producerAt \in {"make", "push", "signal"}
  /\ mp \in Nodes \cup {NULL}
  /\ consumerAt \in {"lock", "test", "towait", "waiting", "woken", "use"}

PCInit ==
  /\ head = NULL /\ next = [n \in Nodes |-> NULL] /\ heap = {}
  /\ lockedBy = "nobody"
  /\ t = NULL /\ producerAt = "make"
  /\ mp = NULL /\ consumerAt = "lock"
-----------------------------------------------------------------------------
(* producer *)

ProducerGoes(from, to) == producerAt = from /\ producerAt' = to

Make ==
  /\ ProducerGoes("make", "push")
  /\ \E n \in Nodes \ heap : t' = n /\ heap' = heap \cup {n}
  /\ UNCHANGED <<head, next, lockedBy, consumerVars>>

AfterPushQuiet == "make"
AfterPush == "signal"

Push ==
  /\ lockedBy = "nobody"
  /\ ProducerGoes("push", AfterPush)
  /\ next' = [next EXCEPT ![t] = head]
  /\ head' = t
  /\ UNCHANGED <<heap, lockedBy, t, consumerVars>>

\* pthread_cond_signal, without the mutex: lost if the consumer is not waiting.
Signal ==
  /\ ProducerGoes("signal", "make")
  /\ consumerAt' = IF consumerAt = "waiting" THEN "woken" ELSE consumerAt
  /\ UNCHANGED <<listVars, lockedBy, t, mp>>
-----------------------------------------------------------------------------
(* consumer *)

ConsumerGoes(from, to) == consumerAt = from /\ consumerAt' = to

\* pthread_mutex_lock, and the return of pthread_cond_wait with the mutex.
ConsumerLock ==
  /\ lockedBy = "nobody" /\ lockedBy' = "consumer"
  /\ ConsumerGoes("lock", "test") \/ ConsumerGoes("woken", "test")
  /\ UNCHANGED <<listVars, producerVars, mp>>

FindsNothing ==
  /\ head = NULL
  /\ ConsumerGoes("test", "towait")
  /\ UNCHANGED <<listVars, lockedBy, producerVars, mp>>

WaitForProduct ==
  /\ ConsumerGoes("towait", "waiting")
  /\ lockedBy' = "nobody"
  /\ UNCHANGED <<listVars, producerVars, mp>>

WakesByItself ==
  /\ ConsumerGoes("waiting", "woken")
  /\ UNCHANGED <<listVars, lockedBy, producerVars, mp>>

KeepsHead(n) == head
Behind(n) == next[n]

Take ==
  /\ head # NULL
  /\ ConsumerGoes("test", "use")
  /\ mp' = head
  /\ head' = Behind(head)
  /\ lockedBy' = "nobody"
  /\ UNCHANGED <<next, heap, producerVars>>

\* The message is printed and freed.
Use ==
  /\ ConsumerGoes("use", "lock")
  /\ heap' = heap \ {mp}
  /\ UNCHANGED <<head, next, lockedBy, producerVars, mp>>
-----------------------------------------------------------------------------
Producer == Make \/ Push \/ Signal
Consumer == ConsumerLock \/ FindsNothing \/ WaitForProduct \/ Take \/ Use

PCNext == Producer \/ Consumer \/ WakesByItself

PCSpec == PCInit /\ [][PCNext]_pcVars
-----------------------------------------------------------------------------
\* The nodes that can be reached from head: the k-th of them, NULL after the
\* last.
Nth[k \in 0..Cardinality(Nodes)] ==
  IF k = 0 THEN head
  ELSE IF Nth[k - 1] = NULL THEN NULL ELSE next[Nth[k - 1]]
Listed == {Nth[k] : k \in 0..Cardinality(Nodes)} \ {NULL}

Hands == {t : x \in {y \in {producerAt} : y = "push"}}
           \cup {mp : x \in {y \in {consumerAt} : y = "use"}}

\* Every message that is allocated is with the producer, in the list or with the
\* consumer, in one of these places only, and the list ends: none is lost, none
\* is consumed twice, none is used after it was freed; types are kept
\* (Signal_type.cpp 35-39, 48-54).
EveryMessageInOnePlace ==
  /\ PCTypeOK
  /\ Listed \cup Hands = heap
  /\ Listed \cap Hands = {}
  /\ producerAt = "push" /\ consumerAt = "use" => t # mp
  /\ Nth[Cardinality(Nodes)] = NULL

\* The consumer never sleeps over a message unless the signal that wakes it is
\* still to come, although the signal is sent without the mutex and may come
\* before the wait (Signal_type.cpp 32-34, 54-56).
NoSleepOverMessages ==
  head # NULL => /\ consumerAt # "towait"
                 /\ consumerAt = "waiting" => producerAt = "signal"

\* As long as there are messages the consumer goes on taking them.  Not every
\* message need be taken: the last one put in comes out first.
MessagesAreTaken == head # NULL ~> consumerAt = "use"
=============================================================================
