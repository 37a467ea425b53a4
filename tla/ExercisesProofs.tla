-------------------------- MODULE ExercisesProofs --------------------------
(***************************************************************************)
(* Theorems about the programs of lock/, of thread/P_C_Model/, about the   *)
(* file copies and the directory listing, one part each.  Sums and lists   *)
(* come first: the library's induction principles take a predicate, which  *)
(* the provers cannot instantiate, but that a set of numbers that is not   *)
(* empty has a least element (WFMin) is about a set, and induction follows *)
(* from it.                                                                *)
(***************************************************************************)
EXTENDS SharedCounter, ProducerConsumer, FileCopy, DirectoryListing,
        FiniteSetTheorems, WellFoundedInduction, TLAPS

-----------------------------------------------------------------------------
(* Induction, as a fact about a set of numbers. *)

Below == {p \in Nat \X Nat : p[1] < p[2]}

LEMMA BelowWellFounded == IsWellFoundedOn(Below, Nat)
  BY NatLessThanWellFounded DEF Below, OpToRel

LEMMA Induction ==
  ASSUME NEW T, 0 \in T, \A n \in Nat : n \in T => n + 1 \in T
  PROVE  Nat \subseteq T
<1> SUFFICES ASSUME Nat \ T # {} PROVE FALSE
  OBVIOUS
<1> DEFINE B == Nat \ T
<1>1. PICK x \in B : \A y \in B : ~ (<<y, x>> \in Below)
  <2>1. B \subseteq Nat /\ B # {}
    OBVIOUS
  <2> HIDE DEF B
  <2> QED BY <2>1, BelowWellFounded, WFMin, Zenon
<1>2. x \in Nat /\ x # 0 /\ x - 1 \in Nat /\ x - 1 < x /\ x = (x - 1) + 1
  OBVIOUS
<1>3. x - 1 \in T
  BY <1>1, <1>2 DEF Below
<1> QED BY <1>2, <1>3

-----------------------------------------------------------------------------
(* Sums over finite sets: what MapThenSumSet of the module FiniteSetsExt is. *)

\* F has the sum of g over each of these sets.
Some(s) == CHOOSE x \in s : TRUE
Sums(F, g, Sets) ==
  F = [s \in Sets |-> IF s = {} THEN 0 ELSE g[Some(s)] + F[s \ {Some(s)}]]

Small(S, n) == {s \in SUBSET S : Cardinality(s) <= n}

LEMMA SmallerByOne ==
  ASSUME NEW S, IsFiniteSet(S), NEW n \in Nat, NEW s \in Small(S, n), 
         NEW x \in s
  PROVE  /\ n # 0 /\ n - 1 \in Nat
         /\ s \ {x} \in Small(S, n - 1)
<1>1. IsFiniteSet(s) /\ Cardinality(s) \in Nat /\ Cardinality(s) <= n
  BY FS_Subset, FS_CardinalityType DEF Small
<1>2. Cardinality(s \ {x}) = Cardinality(s) - 1 /\ IsFiniteSet(s \ {x})
  BY <1>1, FS_RemoveElement
<1>3. Cardinality(s \ {x}) \in Nat
  BY <1>2, FS_CardinalityType
<1> QED BY <1>1, <1>2, <1>3 DEF Small

LEMMA SumsExist ==
  ASSUME NEW S, IsFiniteSet(S), NEW g \in [S -> Nat]
  PROVE  \E F \in [SUBSET S -> Nat] : Sums(F, g, SUBSET S)
<1> DEFINE T == {n \in Nat : \E F \in [Small(S, n) -> Nat] :
                               Sums(F, g, Small(S, n))}
<1>1. 0 \in T
  <2> DEFINE F == [s \in Small(S, 0) |-> 0]
  <2>1. \A s \in Small(S, 0) : s = {}
    BY SmallerByOne
  <2>2. F \in [Small(S, 0) -> Nat] /\ Sums(F, g, Small(S, 0))
    BY <2>1 DEF Sums
  <2> QED BY <2>2
<1>2. ASSUME NEW n \in Nat, n \in T PROVE n + 1 \in T
  <2>1. PICK F \in [Small(S, n) -> Nat] : Sums(F, g, Small(S, n))
    BY <1>2
  <2> DEFINE G == [s \in Small(S, n + 1) |->
                     IF s = {} THEN 0 ELSE g[Some(s)] + F[s \ {Some(s)}]]
  <2>2. ASSUME NEW s \in Small(S, n + 1), s # {}
        PROVE  /\ Some(s) \in s /\ g[Some(s)] \in Nat
               /\ s \ {Some(s)} \in Small(S, n)
    <3>1. Some(s) \in s
      BY <2>2 DEF Some
    <3>2. s \ {Some(s)} \in Small(S, (n + 1) - 1) /\ (n + 1) - 1 = n
      BY <3>1, SmallerByOne
    <3> QED BY <3>1, <3>2 DEF Small
  <2>3. \A s \in Small(S, n) : s \in Small(S, n + 1)
    <3>1. \A s \in SUBSET S : Cardinality(s) \in Nat
      BY FS_Subset, FS_CardinalityType
    <3> QED BY <3>1 DEF Small
  <2>4. G \in [Small(S, n + 1) -> Nat]
    <3> QED BY <2>2
  <2>5. ASSUME NEW s \in Small(S, n) PROVE G[s] = F[s]
    BY <2>1, <2>3 DEF Sums
  <2>6. Sums(G, g, Small(S, n + 1))
    <3>1. \A s \in Small(S, n + 1) :
             s # {} => G[s \ {Some(s)}] = F[s \ {Some(s)}]
      <4> HIDE DEF G
      <4> QED BY <2>2, <2>5
    <3> QED BY <3>1 DEF Sums
  <2> HIDE DEF G
  <2> QED BY <2>4, <2>6
<1>3. Cardinality(S) \in Nat
  BY FS_CardinalityType
<1>4. Cardinality(S) \in T
  <2> HIDE DEF T
  <2> QED BY <1>1, <1>2, <1>3, Induction
<1>5. Small(S, Cardinality(S)) = SUBSET S
  BY FS_Subset DEF Small
<1> QED BY <1>4, <1>5

LEMMA SumOfZeros ==
  ASSUME NEW S, IsFiniteSet(S), NEW g \in [S -> Nat],
         \A x \in S : g[x] = 0,
         NEW F, Sums(F, g, SUBSET S)
  PROVE  F[S] = 0
<1> DEFINE T == {n \in Nat : \A s \in Small(S, n) : F[s] = 0}
<1>1. 0 \in T
  <2> SUFFICES ASSUME NEW s \in Small(S, 0) PROVE F[s] = 0
    OBVIOUS
  <2>1. s = {} /\ s \in SUBSET S
    BY SmallerByOne DEF Small
  <2> QED BY <2>1 DEF Sums
<1>2. ASSUME NEW n \in Nat, n \in T PROVE n + 1 \in T
  <2> SUFFICES ASSUME NEW s \in Small(S, n + 1) PROVE F[s] = 0
    OBVIOUS
  <2>1. CASE s = {}
    BY <2>1 DEF Sums
  <2>2. CASE s # {}
    <3>1. Some(s) \in s /\ s \in SUBSET S
      BY <2>2 DEF Small, Some
    <3>2. F[s] = g[Some(s)] + F[s \ {Some(s)}]
      BY <2>2, <3>1 DEF Sums
    <3>3. s \ {Some(s)} \in Small(S, (n + 1) - 1) /\ (n + 1) - 1 = n
      BY <3>1, SmallerByOne
    <3> QED BY <1>2, <3>1, <3>2, <3>3
  <2> QED BY <2>1, <2>2
<1>3. Cardinality(S) \in T
  <2> HIDE DEF T
  <2> QED BY <1>1, <1>2, FS_CardinalityType, Induction
<1>4. S \in Small(S, Cardinality(S))
  BY FS_CardinalityType DEF Small
<1> QED BY <1>3, <1>4

\* h is g but for one term, which is larger by d.
OneTermGrows(g, h, S, m, d) ==
  \A x \in S : h[x] = IF x = m THEN g[x] + d ELSE g[x]

LEMMA SumsDiffer ==
  ASSUME NEW S, IsFiniteSet(S), NEW g \in [S -> Nat], NEW h \in [S -> Nat],
         NEW m \in S, NEW d \in Nat,
         OneTermGrows(g, h, S, m, d),
         NEW F, Sums(F, g, SUBSET S), NEW G, Sums(G, h, SUBSET S)
  PROVE  F[S] \in Nat /\ G[S] = F[S] + d
<1> DEFINE T == {n \in Nat : \A s \in Small(S, n) :
                   F[s] \in Nat /\ G[s] = IF m \in s THEN F[s] + d ELSE F[s]}
<1>1. 0 \in T
  <2>1. ASSUME NEW s \in Small(S, 0) PROVE s = {}
    BY SmallerByOne
  <2>2. F[{}] = 0 /\ G[{}] = 0
    BY DEF Sums
  <2>3. ASSUME NEW s \in Small(S, 0)
        PROVE  F[s] \in Nat /\ G[s] = IF m \in s THEN F[s] + d ELSE F[s]
    <3>1. s = {}
      BY <2>1
    <3>2. F[s] = 0 /\ G[s] = 0
      BY <2>2, <3>1, Zenon
    <3> QED BY <3>1, <3>2
  <2> QED BY <2>3
<1>2. ASSUME NEW n \in Nat, n \in T PROVE n + 1 \in T
  <2> SUFFICES ASSUME NEW s \in Small(S, n + 1)
               PROVE  /\ F[s] \in Nat
                      /\ G[s] = IF m \in s THEN F[s] + d ELSE F[s]
    OBVIOUS
  <2>1. CASE s = {}
    BY <2>1 DEF Sums
  <2>2. CASE s # {}
    <3> DEFINE x == Some(s)
    <3>1. x \in s /\ s \in SUBSET S
      BY <2>2 DEF Small, Some
    <3>2. F[s] = g[x] + F[s \ {x}] /\ G[s] = h[x] + G[s \ {x}]
      BY <2>2, <3>1 DEF Sums
    <3> HIDE DEF x
    <3>3. s \ {x} \in Small(S, (n + 1) - 1) /\ (n + 1) - 1 = n
      BY <3>1, SmallerByOne
    <3>4. /\ F[s \ {x}] \in Nat
          /\ G[s \ {x}] = IF m \in s \ {x} THEN F[s \ {x}] + d ELSE F[s \ {x}]
      BY <1>2, <3>3
    <3>5. g[x] \in Nat /\ h[x] = IF x = m THEN g[x] + d ELSE g[x]
      BY <3>1 DEF OneTermGrows
    <3> QED BY <3>1, <3>2, <3>4, <3>5
  <2> QED BY <2>1, <2>2
<1>3. Cardinality(S) \in T
  <2> HIDE DEF T
  <2> QED BY <1>1, <1>2, FS_CardinalityType, Induction
<1>4. S \in Small(S, Cardinality(S))
  BY FS_CardinalityType DEF Small
<1> QED BY <1>3, <1>4

\* There is one sum.
LEMMA SumIsOne ==
  ASSUME NEW S, IsFiniteSet(S), NEW g \in [S -> Nat],
         NEW F, Sums(F, g, SUBSET S), NEW G, Sums(G, g, SUBSET S)
  PROVE  F[S] = G[S]
<1>1. CASE S = {}
  BY <1>1 DEF Sums
<1>2. CASE S # {}
  <2>1. PICK m \in S : TRUE
    BY <1>2
  <2>2. OneTermGrows(g, g, S, m, 0)
    BY DEF OneTermGrows
  <2>3. F[S] \in Nat /\ G[S] = F[S] + 0
    BY <2>1, <2>2, SumsDiffer
  <2> QED BY <2>3
<1> QED BY <1>1, <1>2

-----------------------------------------------------------------------------
(* Linked lists: F[k] is the k-th node from h on, NULL after the last. *)

Chain(F, n, h, nx) ==
  F = [k \in 0..n |-> IF k = 0 THEN h
                      ELSE IF F[k - 1] = NULL THEN NULL ELSE nx[F[k - 1]]]

LEMMA ChainSteps ==
  ASSUME NEW F, NEW n \in Nat, NEW h, NEW nx, Chain(F, n, h, nx)
  PROVE  /\ F[0] = h
         /\ \A k \in 0..n-1 :
               F[k + 1] = IF F[k] = NULL THEN NULL ELSE nx[F[k]]
<1>1. F[0] = h
  BY DEF Chain
<1>2. ASSUME NEW k \in 0..n-1
      PROVE  F[k + 1] = IF F[k] = NULL THEN NULL ELSE nx[F[k]]
  <2>1. k + 1 \in 0..n /\ k + 1 # 0 /\ (k + 1) - 1 = k
    OBVIOUS
  <2> QED BY <2>1 DEF Chain
<1> QED BY <1>1, <1>2

LEMMA ChainExists ==
  ASSUME NEW h, NEW nx PROVE \A n \in Nat : \E F : Chain(F, n, h, nx)
<1> DEFINE T == {n \in Nat : \E F : Chain(F, n, h, nx)}
<1>1. 0 \in T
  <2> DEFINE F == [k \in 0..0 |-> h]
  <2>1. Chain(F, 0, h, nx)
    BY DEF Chain
  <2> QED BY <2>1
<1>2. ASSUME NEW n \in Nat, n \in T PROVE n + 1 \in T
  <2>1. PICK F : Chain(F, n, h, nx)
    BY <1>2
  <2> DEFINE G == [k \in 0..n+1 |->
                     IF k = 0 THEN h
                     ELSE IF F[k - 1] = NULL THEN NULL ELSE nx[F[k - 1]]]
  <2>2. \A k \in 0..n : G[k] = F[k]
    BY <2>1 DEF Chain
  <2>3. \A k \in 0..n+1 : k # 0 => k - 1 \in 0..n
    OBVIOUS
  <2>4. \A k \in 0..n+1 : k # 0 => G[k - 1] = F[k - 1]
    <3> HIDE DEF G
    <3> QED BY <2>2, <2>3
  <2>5. Chain(G, n + 1, h, nx)
    BY <2>4 DEF Chain
  <2> HIDE DEF G
  <2> QED BY <2>5
<1> HIDE DEF T
<1>3. Nat \subseteq T
  BY <1>1, <1>2, Induction
<1> QED BY <1>3 DEF T

LEMMA ChainType ==
  ASSUME NEW S, NEW F, NEW n \in Nat, NEW h \in S \cup {NULL},
         NEW nx \in [S -> S \cup {NULL}], Chain(F, n, h, nx)
  PROVE  \A k \in 0..n : F[k] \in S \cup {NULL}
<1> DEFINE T == {k \in Nat : k <= n => F[k] \in S \cup {NULL}}
<1>1. 0 \in T
  BY ChainSteps
<1>2. ASSUME NEW k \in Nat, k \in T PROVE k + 1 \in T
  <2> SUFFICES ASSUME k + 1 <= n PROVE F[k + 1] \in S \cup {NULL}
    OBVIOUS
  <2>1. k \in 0..n-1 /\ F[k] \in S \cup {NULL}
    BY <1>2
  <2> QED BY <2>1, ChainSteps
<1> HIDE DEF T
<1>3. Nat \subseteq T
  BY <1>1, <1>2, Induction
<1> QED BY <1>3 DEF T

\* After the end there is nothing.
LEMMA ChainEnds ==
  ASSUME NEW F, NEW n \in Nat, NEW h, NEW nx, Chain(F, n, h, nx),
         NEW i \in 0..n, F[i] = NULL
  PROVE  \A j \in i..n : F[j] = NULL
<1> DEFINE T == {d \in Nat : i + d <= n => F[i + d] = NULL}
<1>1. 0 \in T
  OBVIOUS
<1>2. ASSUME NEW d \in Nat, d \in T PROVE d + 1 \in T
  <2> SUFFICES ASSUME i + (d + 1) <= n PROVE F[i + (d + 1)] = NULL
    OBVIOUS
  <2>1. i + d \in 0..n-1 /\ F[i + d] = NULL /\ i + (d + 1) = (i + d) + 1
    BY <1>2
  <2> QED BY <2>1, ChainSteps
<1>3. Nat \subseteq T
  <2> HIDE DEF T
  <2> QED BY <1>1, <1>2, Induction
<1> SUFFICES ASSUME NEW j \in i..n PROVE F[j] = NULL
  OBVIOUS
<1>4. j - i \in Nat /\ i + (j - i) = j /\ j <= n
  OBVIOUS
<1>5. j - i \in T
  BY <1>3, <1>4
<1> QED BY <1>4, <1>5

\* A list that ends has no node twice: from the second time on it would go on
\* as from the first.
LEMMA ChainDistinct ==
  ASSUME NEW F, NEW n \in Nat, NEW h, NEW nx, Chain(F, n, h, nx),
         F[n] = NULL, NEW i \in 0..n, NEW j \in 0..n, i < j, F[i] = F[j]
  PROVE  F[i] = NULL
<1> SUFFICES ASSUME F[i] # NULL PROVE FALSE
  OBVIOUS
<1> DEFINE T == {d \in Nat : j + d <= n => F[i + d] = F[j + d]}
<1>1. 0 \in T
  OBVIOUS
<1>2. ASSUME NEW d \in Nat, d \in T PROVE d + 1 \in T
  <2> SUFFICES ASSUME j + (d + 1) <= n PROVE F[i + (d + 1)] = F[j + (d + 1)]
    OBVIOUS
  <2>1. /\ i + d \in 0..n-1 /\ j + d \in 0..n-1 /\ F[i + d] = F[j + d]
        /\ i + (d + 1) = (i + d) + 1 /\ j + (d + 1) = (j + d) + 1
    BY <1>2
  <2>2. F[(i + d) + 1] = F[(j + d) + 1]
    BY <2>1, ChainSteps
  <2> QED BY <2>1, <2>2
<1>3. Nat \subseteq T
  <2> HIDE DEF T
  <2> QED BY <1>1, <1>2, Induction
<1> DEFINE E == {k \in 0..n : F[k] = NULL}
<1>4. PICK m \in E : \A k \in E : ~ (k < m)
  <2>1. E \subseteq Nat /\ E # {}
    OBVIOUS
  <2>2. \E m \in E : \A k \in E : ~ (<<k, m>> \in Below)
    <3> HIDE DEF E
    <3> QED BY <2>1, BelowWellFounded, WFMin, Zenon
  <2> QED BY <2>1, <2>2 DEF Below
<1>5. ~ (m <= j)
  <2> SUFFICES ASSUME m <= j PROVE FALSE
    OBVIOUS
  <2>1. j \in m..n
    BY <1>4
  <2> QED BY <1>4, <2>1, ChainEnds
<1>6. m - j \in Nat /\ j + (m - j) = m /\ m <= n /\ F[m] = NULL
  BY <1>4, <1>5
<1>7. F[i + (m - j)] = NULL
  <2>1. m - j \in T
    BY <1>3, <1>6
  <2> QED BY <1>6, <2>1
<1>8. i + (m - j) \in 0..n /\ i + (m - j) < m
  BY <1>6
<1> QED BY <1>4, <1>7, <1>8

\* A list that misses one of the nodes is shorter than there are nodes.
LEMMA ChainHasRoom ==
  ASSUME NEW S, IsFiniteSet(S), NULL \notin S, NEW m \in S,
         NEW F, NEW h \in S \cup {NULL}, NEW nx \in [S -> S \cup {NULL}],
         Chain(F, Cardinality(S), h, nx), F[Cardinality(S)] = NULL,
         \A k \in 0..Cardinality(S) : F[k] # m
  PROVE  Cardinality(S) - 1 \in Nat /\ F[Cardinality(S) - 1] = NULL
<1> DEFINE n == Cardinality(S)
<1>1. n \in Nat /\ n # 0
  BY FS_CardinalityType, FS_EmptySet
<1>2. IsFiniteSet(S \ {m}) /\ Cardinality(S \ {m}) = n - 1
  BY FS_RemoveElement
<1> HIDE DEF n
<1> SUFFICES ASSUME F[n - 1] # NULL PROVE FALSE
  BY <1>1 DEF n
<1> DEFINE R == [k \in 0..n-1 |-> F[k]]
<1>3. \A k \in 0..n-1 : F[k] # NULL
  <2> SUFFICES ASSUME NEW k \in 0..n-1, F[k] = NULL PROVE FALSE
    OBVIOUS
  <2>1. n - 1 \in k..n /\ k \in 0..n
    BY <1>1
  <2> QED BY <1>1, <2>1, ChainEnds DEF n
<1>4. R \in [0..n-1 -> S \ {m}]
  <2>1. \A k \in 0..n : F[k] \in S \cup {NULL}
    BY <1>1, ChainType DEF n
  <2>2. \A k \in 0..n-1 : k \in 0..n
    BY <1>1
  <2> QED BY <1>3, <2>1, <2>2 DEF n
<1>5. ASSUME NEW i \in 0..n-1, NEW j \in 0..n-1, R[i] = R[j] PROVE i = j
  <2>1. i \in 0..n /\ j \in 0..n /\ F[i] = F[j] /\ F[i] # NULL
    BY <1>1, <1>3, <1>5
  <2>2. ~ (i < j) /\ ~ (j < i)
    BY <1>1, <2>1, ChainDistinct DEF n
  <2> QED BY <2>2
<1>6. R \in Injection(0..n-1, S \ {m})
  <2> HIDE DEF R
  <2> QED BY <1>4, <1>5 DEF Injection, IsInjective
<1>7. IsFiniteSet(0..n-1) /\ Cardinality(0..n-1) = n
  BY <1>1, FS_Interval
<1>8. Cardinality(0..n-1) <= Cardinality(S \ {m})
  <2> HIDE DEF R
  <2> QED BY <1>2, <1>6, <1>7, FS_Injection
<1> QED BY <1>1, <1>2, <1>7, <1>8

\* What is on the list.
OnList(F, n) == {F[k] : k \in 0..n} \ {NULL}

\* The node m is linked to h.
LinksTo(nt, nx, m, h) == nt = [nx EXCEPT ![m] = h]

\* A node put in front: the list follows it.
LEMMA ChainPushed ==
  ASSUME NEW S, IsFiniteSet(S), NULL \notin S, NEW m \in S,
         NEW F, NEW h \in S \cup {NULL}, NEW nx \in [S -> S \cup {NULL}],
         Chain(F, Cardinality(S), h, nx), F[Cardinality(S)] = NULL,
         m \notin OnList(F, Cardinality(S)),
         NEW nt, LinksTo(nt, nx, m, h),
         NEW G, Chain(G, Cardinality(S), m, nt)
  PROVE  /\ G[Cardinality(S)] = NULL
         /\ OnList(G, Cardinality(S)) = {m} \cup OnList(F, Cardinality(S))
<1> DEFINE n == Cardinality(S)
<1>1. \A k \in 0..n : F[k] # m
  BY DEF OnList
<1>2. n - 1 \in Nat /\ F[n - 1] = NULL /\ n \in Nat
  BY <1>1, ChainHasRoom, FS_CardinalityType
<1>3. \A k \in 0..n : F[k] \in S \cup {NULL}
  BY <1>2, ChainType
<1>4. nt[m] = h /\ \A s \in S : s # m => nt[s] = nx[s]
  BY DEF LinksTo
<1>5. Chain(F, n, h, nx) /\ Chain(G, n, m, nt) /\ F[n] = NULL
  OBVIOUS
<1> HIDE DEF n
<1>6. F[0] = h /\ G[0] = m /\ m # NULL
  BY <1>2, <1>5, ChainSteps
<1> DEFINE T == {k \in Nat : k + 1 <= n => G[k + 1] = F[k]}
<1>7. 0 \in T
  <2>1. G[0 + 1] = nt[m]
    BY <1>2, <1>5, <1>6, ChainSteps
  <2> QED BY <1>4, <1>6, <2>1
<1>8. ASSUME NEW k \in Nat, k \in T PROVE k + 1 \in T
  <2> SUFFICES ASSUME (k + 1) + 1 <= n PROVE G[(k + 1) + 1] = F[k + 1]
    OBVIOUS
  <2>1. k \in 0..n-1 /\ k + 1 \in 0..n-1 /\ k \in 0..n /\ G[k + 1] = F[k]
    BY <1>2, <1>8
  <2>2. /\ G[(k + 1) + 1] = IF F[k] = NULL THEN NULL ELSE nt[F[k]]
        /\ F[k + 1] = IF F[k] = NULL THEN NULL ELSE nx[F[k]]
    BY <1>2, <1>5, <2>1, ChainSteps
  <2> QED BY <1>1, <1>3, <1>4, <2>1, <2>2 DEF n
<1>9. \A k \in 0..n-1 : G[k + 1] = F[k]
  <2>1. Nat \subseteq T
    <3> HIDE DEF T
    <3> QED BY <1>7, <1>8, Induction
  <2>2. \A k \in 0..n-1 : k \in Nat /\ k + 1 <= n
    BY <1>2
  <2> QED BY <2>1, <2>2
<1>10. G[n] = NULL
  <2>1. n - 1 \in 0..n-1 /\ (n - 1) + 1 = n
    BY <1>2
  <2> QED BY <1>2, <1>9, <2>1
<1>11. \A k \in 0..n : G[k] = m \/ \E i \in 0..n : G[k] = F[i]
  <2> SUFFICES ASSUME NEW k \in 0..n PROVE G[k] = m \/ \E i \in 0..n : G[k] = F[i]
    OBVIOUS
  <2>1. CASE k = 0
    BY <1>6, <2>1
  <2>2. CASE k # 0
    <3>1. k - 1 \in 0..n-1 /\ k - 1 \in 0..n /\ (k - 1) + 1 = k
      BY <1>2, <2>2
    <3> QED BY <1>9, <3>1
  <2> QED BY <2>1, <2>2
<1>12. \A i \in 0..n : F[i] # NULL => \E k \in 0..n : G[k] = F[i]
  <2> SUFFICES ASSUME NEW i \in 0..n, F[i] # NULL
               PROVE  \E k \in 0..n : G[k] = F[i]
    OBVIOUS
  <2>1. i # n
    BY <1>5
  <2>2. i \in 0..n-1 /\ i + 1 \in 0..n
    BY <1>2, <2>1
  <2> QED BY <1>9, <2>2
<1>13. 0 \in 0..n
  BY <1>2
<1>14. OnList(G, n) = {m} \cup OnList(F, n)
  BY <1>6, <1>11, <1>12, <1>13 DEF OnList
<1> QED BY <1>10, <1>14 DEF n

\* The first node taken off: the list is what was behind it.
LEMMA ChainPopped ==
  ASSUME NEW S, IsFiniteSet(S), NULL \notin S, NEW h \in S,
         NEW F, NEW nx \in [S -> S \cup {NULL}],
         Chain(F, Cardinality(S), h, nx), F[Cardinality(S)] = NULL,
         NEW G, Chain(G, Cardinality(S), nx[h], nx)
  PROVE  /\ G[Cardinality(S)] = NULL
         /\ h \in OnList(F, Cardinality(S))
         /\ OnList(G, Cardinality(S)) = OnList(F, Cardinality(S)) \ {h}
<1> DEFINE n == Cardinality(S)
<1>1. n \in Nat /\ n # 0 /\ n - 1 \in Nat
  BY FS_CardinalityType, FS_EmptySet
<1>2. Chain(F, n, h, nx) /\ Chain(G, n, nx[h], nx) /\ F[n] = NULL
  OBVIOUS
<1> HIDE DEF n
<1>3. F[0] = h /\ G[0] = nx[h] /\ h # NULL /\ 0 \in 0..n /\ 0 \in 0..n-1
  BY <1>1, <1>2, ChainSteps
<1> DEFINE T == {k \in Nat : k + 1 <= n => G[k] = F[k + 1]}
<1>4. 0 \in T
  <2>1. F[0 + 1] = nx[h]
    BY <1>1, <1>2, <1>3, ChainSteps
  <2> QED BY <1>3, <2>1
<1>5. ASSUME NEW k \in Nat, k \in T PROVE k + 1 \in T
  <2> SUFFICES ASSUME (k + 1) + 1 <= n PROVE G[k + 1] = F[(k + 1) + 1]
    OBVIOUS
  <2>1. k \in 0..n-1 /\ k + 1 \in 0..n-1 /\ G[k] = F[k + 1]
    BY <1>1, <1>5
  <2> QED BY <1>1, <1>2, <2>1, ChainSteps
<1>6. \A k \in 0..n-1 : G[k] = F[k + 1]
  <2>1. Nat \subseteq T
    <3> HIDE DEF T
    <3> QED BY <1>4, <1>5, Induction
  <2>2. \A k \in 0..n-1 : k \in Nat /\ k + 1 <= n
    BY <1>1
  <2> QED BY <2>1, <2>2
<1>7. G[n] = NULL
  <2>1. n - 1 \in 0..n-1 /\ (n - 1) + 1 = n
    BY <1>1
  <2>2. G[n - 1] = NULL
    BY <1>2, <1>6, <2>1
  <2> QED BY <1>1, <1>2, <2>1, <2>2, ChainSteps
<1>8. \A k \in 0..n : k # 0 => F[k] # h
  <2> SUFFICES ASSUME NEW k \in 0..n, k # 0, F[k] = h PROVE FALSE
    OBVIOUS
  <2>1. 0 < k /\ F[0] = F[k]
    BY <1>3
  <2> QED BY <1>1, <1>2, <1>3, <2>1, ChainDistinct
<1>9. \A k \in 0..n : G[k] # NULL => \E i \in 0..n : i # 0 /\ G[k] = F[i]
  <2> SUFFICES ASSUME NEW k \in 0..n, G[k] # NULL
               PROVE  \E i \in 0..n : i # 0 /\ G[k] = F[i]
    OBVIOUS
  <2>1. k # n
    BY <1>7
  <2>2. k \in 0..n-1 /\ k + 1 \in 0..n /\ k + 1 # 0
    BY <1>1, <2>1
  <2> QED BY <1>6, <2>2
<1>10. \A i \in 0..n : i # 0 => \E k \in 0..n : G[k] = F[i]
  <2> SUFFICES ASSUME NEW i \in 0..n, i # 0 PROVE \E k \in 0..n : G[k] = F[i]
    OBVIOUS
  <2>1. i - 1 \in 0..n-1 /\ i - 1 \in 0..n /\ (i - 1) + 1 = i
    BY <1>1
  <2> QED BY <1>6, <2>1
<1>11. OnList(G, n) = OnList(F, n) \ {h}
  BY <1>3, <1>8, <1>9, <1>10 DEF OnList
<1>12. h \in OnList(F, n)
  BY <1>3 DEF OnList
<1> QED BY <1>7, <1>11, <1>12 DEF n

-----------------------------------------------------------------------------
(***************************************************************************)
(* SectionsExclude for any number of threads and rounds.  The mutex is     *)
(* what protects a section as long as it is not destroyed; afterwards it   *)
(* is that one of the two processes has ended.                             *)
(***************************************************************************)

Sections == {"read", "write", "unlock"}

\* While the lock works a writer is in its section exactly when it holds it, and
\* no reader then does.
LockWorks ==
  ~destroyed => \A w \in Writers : pc[w] \in Sections <=> holder = w

WritersExcludeReaders == holder # None => reading = {}

\* Only mutexattr.cpp destroys its mutex, and only a process that has left its
\* loop does, at a moment when nobody holds it.
DestroyedByTheEnded ==
  destroyed => /\ program = "mutexattr" /\ holder = None
               /\ \E w \in Writers : pc[w] = "ended"

TwoProcesses == program = "mutexattr" => Cardinality(Writers) = 2

OnlyRwlockReads == program # "rwlock" => reading = {}

\* A writer that has a turn to make has not made them all.
TurnsLeft ==
  \A w \in Writers : pc[w] \in {"lock", "read", "write"} => rounds[w] < Rounds

ExclusionInv == /\ TypeOK /\ LockWorks /\ WritersExcludeReaders
                /\ DestroyedByTheEnded /\ TwoProcesses /\ OnlyRwlockReads
                /\ TurnsLeft

-----------------------------------------------------------------------------
LEMMA InitExclusion == Init => ExclusionInv
<1> SUFFICES ASSUME Init PROVE ExclusionInv
  OBVIOUS
<1>1. TypeOK
  <2>1. rounds \in [Writers -> 0..Rounds] /\ tem \in [Writers -> Nat]
    BY CounterAssumption DEF Init
  <2>2. pc \in [Writers -> {"lock", "read", "write", "unlock", "through", "ended"}]
    BY DEF Init
  <2>3. program \in {"mutex", "mutexattr", "rwlock"} /\ num \in Nat
    BY DEF Init
  <2>4. holder = None /\ reading = {} /\ destroyed = FALSE
    BY DEF Init
  <2> QED BY <2>1, <2>2, <2>3, <2>4 DEF TypeOK
<1>2. LockWorks /\ WritersExcludeReaders /\ DestroyedByTheEnded
  BY CounterAssumption
     DEF Init, LockWorks, WritersExcludeReaders, DestroyedByTheEnded, Sections
<1>3. TwoProcesses /\ OnlyRwlockReads /\ TurnsLeft
  BY CounterAssumption DEF Init, TwoProcesses, OnlyRwlockReads, TurnsLeft
<1> QED BY <1>1, <1>2, <1>3 DEF ExclusionInv

LEMMA WriterKeepsExclusion ==
  ASSUME ExclusionInv, NEW w \in Writers, Writer(w)
  PROVE  ExclusionInv'
<1> USE DEF ExclusionInv, Goes
<1>1. CASE Lock(w)
  <2>1. TypeOK'
    BY <1>1 DEF Lock, TypeOK, TurnsLeft
  <2>2. LockWorks'
    BY <1>1, CounterAssumption DEF Lock, TypeOK, LockWorks, Sections, CanWrite
  <2>3. WritersExcludeReaders'
    BY <1>1 DEF Lock, TypeOK, WritersExcludeReaders, CanWrite
  <2>4. DestroyedByTheEnded'
    BY <1>1 DEF Lock, TypeOK, DestroyedByTheEnded
  <2>5. TwoProcesses' /\ OnlyRwlockReads'
    BY <1>1 DEF Lock, TwoProcesses, OnlyRwlockReads
  <2>6. TurnsLeft'
    BY <1>1, CounterAssumption DEF Lock, TypeOK, TurnsLeft
  <2> QED BY <2>1, <2>2, <2>3, <2>4, <2>5, <2>6
<1>2. CASE Read(w)
  <2>1. TypeOK'
    BY <1>2 DEF Read, TypeOK, TurnsLeft
  <2>2. LockWorks'
    BY <1>2 DEF Read, TypeOK, LockWorks, Sections
  <2>3. WritersExcludeReaders'
    BY <1>2 DEF Read, TypeOK, WritersExcludeReaders
  <2>4. DestroyedByTheEnded'
    BY <1>2 DEF Read, TypeOK, DestroyedByTheEnded
  <2>5. TwoProcesses' /\ OnlyRwlockReads'
    BY <1>2 DEF Read, TwoProcesses, OnlyRwlockReads
  <2>6. TurnsLeft'
    BY <1>2, CounterAssumption DEF Read, TypeOK, TurnsLeft
  <2> QED BY <2>1, <2>2, <2>3, <2>4, <2>5, <2>6
<1>3. CASE Write(w)
  <2>1. TypeOK'
    BY <1>3, CounterAssumption DEF Write, TypeOK, TurnsLeft, Step
  <2>2. LockWorks'
    BY <1>3 DEF Write, TypeOK, LockWorks, Sections
  <2>3. WritersExcludeReaders'
    BY <1>3 DEF Write, TypeOK, WritersExcludeReaders
  <2>4. DestroyedByTheEnded'
    BY <1>3 DEF Write, TypeOK, DestroyedByTheEnded
  <2>5. TwoProcesses' /\ OnlyRwlockReads'
    BY <1>3 DEF Write, TwoProcesses, OnlyRwlockReads
  <2>6. TurnsLeft'
    BY <1>3, CounterAssumption DEF Write, TypeOK, TurnsLeft
  <2> QED BY <2>1, <2>2, <2>3, <2>4, <2>5, <2>6
<1>4. CASE Unlock(w)
  <2>1. TypeOK'
    BY <1>4 DEF Unlock, TypeOK, TurnsLeft, Released
  <2>2. LockWorks'
    BY <1>4, CounterAssumption DEF Unlock, TypeOK, LockWorks, Sections, Released
  <2>3. WritersExcludeReaders'
    BY <1>4 DEF Unlock, TypeOK, WritersExcludeReaders, Released
  <2>4. DestroyedByTheEnded'
    BY <1>4 DEF Unlock, TypeOK, DestroyedByTheEnded, Released
  <2>5. TwoProcesses' /\ OnlyRwlockReads'
    BY <1>4 DEF Unlock, TwoProcesses, OnlyRwlockReads
  <2>6. TurnsLeft'
    BY <1>4, CounterAssumption DEF Unlock, TypeOK, TurnsLeft, MoreRounds
  <2> QED BY <2>1, <2>2, <2>3, <2>4, <2>5, <2>6
<1>5. CASE End(w)
  <2>1. TypeOK'
    BY <1>5 DEF End, TypeOK, TurnsLeft
  <2>2. LockWorks'
    BY <1>5 DEF End, TypeOK, LockWorks, Sections
  <2>3. WritersExcludeReaders'
    BY <1>5 DEF End, TypeOK, WritersExcludeReaders
  <2>4. DestroyedByTheEnded'
    BY <1>5 DEF End, TypeOK, DestroyedByTheEnded
  <2>5. TwoProcesses' /\ OnlyRwlockReads'
    BY <1>5 DEF End, TwoProcesses, OnlyRwlockReads
  <2>6. TurnsLeft'
    BY <1>5, CounterAssumption DEF End, TypeOK, TurnsLeft
  <2> QED BY <2>1, <2>2, <2>3, <2>4, <2>5, <2>6
<1> QED BY <1>1, <1>2, <1>3, <1>4, <1>5 DEF Writer

LEMMA ReaderKeepsExclusion ==
  ASSUME ExclusionInv, NEW r \in Readers, Reader(r)
  PROVE  ExclusionInv'
<1> USE DEF ExclusionInv, TypeOK, LockWorks, WritersExcludeReaders,
            DestroyedByTheEnded, TwoProcesses, OnlyRwlockReads, TurnsLeft
<1>1. CASE StartReading(r)
  BY <1>1 DEF StartReading
<1>2. CASE StopReading(r)
  BY <1>2 DEF StopReading
<1> QED BY <1>1, <1>2 DEF Reader

LEMMA StutterKeepsExclusion == ExclusionInv /\ UNCHANGED vars => ExclusionInv'
  BY DEF vars, ExclusionInv, TypeOK, LockWorks, WritersExcludeReaders,
     DestroyedByTheEnded, TwoProcesses, OnlyRwlockReads, TurnsLeft

LEMMA ExclusionInvariant == Spec => []ExclusionInv
<1>1. ExclusionInv /\ [Next]_vars => ExclusionInv'
  BY WriterKeepsExclusion, ReaderKeepsExclusion, StutterKeepsExclusion DEF Next
<1> QED BY InitExclusion, <1>1, PTL DEF Spec

-----------------------------------------------------------------------------
LEMMA OnlyOther ==
  ASSUME Cardinality(Writers) = 2, NEW e \in Writers,
         NEW w \in Writers, NEW u \in Writers, w # e, u # e
  PROVE  w = u
<1>1. IsFiniteSet(Writers)
  BY CounterAssumption
<1>2. Cardinality(Writers \ {e}) = 1
  BY <1>1, FS_RemoveElement
<1>3. IsFiniteSet(Writers \ {e})
  BY <1>1, FS_RemoveElement
<1>4. PICK x : Writers \ {e} = {x}
  BY <1>2, <1>3, FS_Singleton
<1> QED BY <1>4

\* A writer in its section is alone there, in every program of lock/, with any
\* number of threads, and although the shared mutex of mutexattr.cpp is
\* destroyed while the other process still counts (66-88).
THEOREM SectionsAreExclusive == Spec => []SectionsExclude
<1>1. ASSUME ExclusionInv PROVE SectionsExclude
  <2> USE <1>1 DEF ExclusionInv
  <2> SUFFICES ASSUME NEW w \in InSection
               PROVE  InSection = {w} /\ reading = {}
    BY DEF SectionsExclude
  <2>1. w \in Writers /\ pc[w] \in Sections
    BY DEF InSection, Sections
  <2>2. CASE ~destroyed
    <3>1. holder = w
      BY <2>1, <2>2 DEF LockWorks
    <3>2. \A u \in InSection : u = w
      BY <2>2, <3>1 DEF InSection, LockWorks, Sections
    <3>3. reading = {}
      BY <2>1, <3>1, CounterAssumption DEF WritersExcludeReaders
    <3> QED BY <3>2, <3>3
  <2>3. CASE destroyed
    <3>1. program = "mutexattr" /\ Cardinality(Writers) = 2
      BY <2>3 DEF DestroyedByTheEnded, TwoProcesses
    <3>2. PICK e \in Writers : pc[e] = "ended"
      BY <2>3 DEF DestroyedByTheEnded
    <3>3. \A u \in InSection : u \in Writers /\ u # e
      BY <3>2 DEF InSection
    <3>4. \A u \in InSection : u = w
      BY <3>1, <3>2, <3>3, OnlyOther
    <3>5. reading = {}
      BY <3>1 DEF OnlyRwlockReads
    <3> QED BY <3>4, <3>5
  <2> QED BY <2>2, <2>3 DEF TypeOK
<1> QED BY <1>1, ExclusionInvariant, PTL

-----------------------------------------------------------------------------
(* The counter of lock/ is the sum of what was added. *)

Turns == [w \in Writers |-> rounds[w] * Step(w)]

\* What a writer read is still the counter when it writes.
CounterInv ==
  /\ NoUpdateIsLost
  /\ \A w \in Writers : pc[w] = "write" => tem[w] = num

TurnsType == Turns \in [Writers -> Nat]

\* NoUpdateIsLost says that the counter is the sum of the turns.
CounterIsTheSum ==
  \E F : /\ Sums(F, Turns, SUBSET Writers)
         /\ NoUpdateIsLost <=> num = F[Writers]

LEMMA TurnsSum == ASSUME TypeOK PROVE TurnsType /\ CounterIsTheSum
<1>0. TurnsType
  BY DEF TypeOK, TurnsType, Turns, Step
<1> DEFINE Is(H) ==
      H = [s \in SUBSET Writers |->
             IF s = {} THEN 0
             ELSE rounds[Some(s)] * Step(Some(s)) + H[s \ {Some(s)}]]
           F == CHOOSE H : Is(H)
<1>1. \A s \in SUBSET Writers : s # {} => Some(s) \in Writers
  BY DEF Some
<1>2. \A s \in SUBSET Writers :
         s # {} => Turns[Some(s)] = rounds[Some(s)] * Step(Some(s))
  BY <1>1 DEF Turns
<1>3. ASSUME NEW H PROVE Is(H) <=> Sums(H, Turns, SUBSET Writers)
  BY <1>2 DEF Sums
<1>4. \E H : Is(H)
  <2> HIDE DEF Is
  <2> QED BY <1>0, <1>3, SumsExist, CounterAssumption DEF TurnsType
<1>5. Is(F)
  BY <1>4
<1>6. Sums(F, Turns, SUBSET Writers)
  <2> HIDE DEF Is, F
  <2> QED BY <1>3, <1>5
<1>7. NoUpdateIsLost <=> num = F[Writers]
  BY DEF NoUpdateIsLost, MapThenSumSet, MapThenFoldSet, Some
<1> HIDE DEF F
<1> QED BY <1>0, <1>6, <1>7 DEF CounterIsTheSum

LEMMA TurnsStep ==
  ASSUME TypeOK, TypeOK'
  PROVE  \E F, G :
           /\ Sums(F, Turns, SUBSET Writers) /\ Turns \in [Writers -> Nat]
           /\ Sums(G, Turns', SUBSET Writers) /\ Turns' \in [Writers -> Nat]
           /\ NoUpdateIsLost <=> num = F[Writers]
           /\ NoUpdateIsLost' <=> num' = G[Writers]
<1>1. /\ TurnsType /\ CounterIsTheSum
      /\ TurnsType' /\ CounterIsTheSum'
  BY TurnsSum, PTL
<1>2. PICK F : /\ Sums(F, Turns, SUBSET Writers)
               /\ NoUpdateIsLost <=> num = F[Writers]
  BY <1>1 DEF CounterIsTheSum
<1>3. PICK G : /\ Sums(G, Turns', SUBSET Writers)
               /\ NoUpdateIsLost' <=> num' = G[Writers]
  BY <1>1 DEF CounterIsTheSum
<1> QED BY <1>1, <1>2, <1>3 DEF TurnsType

LEMMA InitCounter == Init => CounterInv
<1> SUFFICES ASSUME Init PROVE CounterInv
  OBVIOUS
<1>1. TypeOK
  BY InitExclusion DEF ExclusionInv
<1>2. PICK F : /\ Sums(F, Turns, SUBSET Writers)
               /\ NoUpdateIsLost <=> num = F[Writers]
  BY <1>1, TurnsSum DEF CounterIsTheSum
<1>3. \A w \in Writers : Turns[w] = 0
  BY DEF Init, Turns, Step
<1>4. F[Writers] = 0
  BY <1>1, <1>2, <1>3, TurnsSum, SumOfZeros, CounterAssumption
     DEF TurnsType
<1>5. num = 0 /\ \A w \in Writers : pc[w] = "lock"
  BY DEF Init
<1> QED BY <1>2, <1>4, <1>5 DEF CounterInv

LEMMA WriteKeepsCounter ==
  ASSUME ExclusionInv, ExclusionInv', SectionsExclude, CounterInv,
         NEW w \in Writers, Write(w)
  PROVE  CounterInv'
<1>1. TypeOK /\ TypeOK'
  BY DEF ExclusionInv
<1>2. PICK F, G :
        /\ Sums(F, Turns, SUBSET Writers) /\ Turns \in [Writers -> Nat]
        /\ Sums(G, Turns', SUBSET Writers) /\ Turns' \in [Writers -> Nat]
        /\ NoUpdateIsLost <=> num = F[Writers]
        /\ NoUpdateIsLost' <=> num' = G[Writers]
  BY <1>1, TurnsStep
<1>4. /\ pc[w] = "write" /\ tem[w] = num /\ Step(w) \in Nat
      /\ num' = num + Step(w) /\ program' = program
      /\ rounds' = [rounds EXCEPT ![w] = rounds[w] + 1]
      /\ pc' = [pc EXCEPT ![w] = "unlock"]
  BY DEF Write, Goes, CounterInv, Step
<1>5. OneTermGrows(Turns, Turns', Writers, w, Step(w))
  <2>1. \A u \in Writers : Step(u) \in Nat /\ Step(u)' = Step(u)
    BY <1>4 DEF Step
  <2>2. \A u \in Writers : /\ rounds[u] \in Nat
                           /\ rounds'[u] = IF u = w THEN rounds[u] + 1
                                                    ELSE rounds[u]
    BY <1>1, <1>4 DEF TypeOK
  <2>3. \A u \in Writers : /\ Turns[u] = rounds[u] * Step(u)
                           /\ Turns'[u] = rounds'[u] * Step(u)
    BY <2>1 DEF Turns
  <2>4. \A r, s \in Nat : (r + 1) * s = r * s + s
    OBVIOUS
  <2> QED BY <2>1, <2>2, <2>3, <2>4 DEF OneTermGrows
<1>6. G[Writers] = F[Writers] + Step(w)
  BY <1>2, <1>4, <1>5, SumsDiffer, CounterAssumption
<1>7. NoUpdateIsLost'
  BY <1>2, <1>4, <1>6 DEF CounterInv
<1>8. \A u \in Writers : pc'[u] # "write"
  BY <1>1, <1>4 DEF SectionsExclude, InSection, TypeOK
<1> QED BY <1>7, <1>8 DEF CounterInv

LEMMA OthersKeepCounter ==
  ASSUME TypeOK, TypeOK', CounterInv,
         \/ \E w \in Writers : Lock(w) \/ Read(w) \/ Unlock(w) \/ End(w)
         \/ \E r \in Readers : Reader(r)
         \/ UNCHANGED vars
  PROVE  CounterInv'
<1>1. UNCHANGED <<num, rounds, program>>
  BY DEF Lock, Read, Unlock, End, Reader, StartReading, StopReading, vars
<1>2. PICK F, G :
        /\ Sums(F, Turns, SUBSET Writers) /\ Turns \in [Writers -> Nat]
        /\ Sums(G, Turns', SUBSET Writers) /\ Turns' \in [Writers -> Nat]
        /\ NoUpdateIsLost <=> num = F[Writers]
        /\ NoUpdateIsLost' <=> num' = G[Writers]
  BY TurnsStep
<1>3. Turns' = Turns
  BY <1>1 DEF Turns, Step
<1>4. OneTermGrows(Turns, Turns', Writers, Father, 0)
  BY <1>2, <1>3 DEF OneTermGrows
<1>5. G[Writers] = F[Writers] + 0 /\ F[Writers] \in Nat
  BY <1>2, <1>4, SumsDiffer, CounterAssumption
<1>6. NoUpdateIsLost'
  BY <1>1, <1>2, <1>5 DEF CounterInv
<1>7. \A u \in Writers : pc'[u] = "write" => tem'[u] = num'
  BY DEF CounterInv, TypeOK, Lock, Read, Unlock, End, Goes, Reader,
     StartReading, StopReading, vars
<1> QED BY <1>6, <1>7 DEF CounterInv

\* No update is lost: in every program of lock/, with any number of threads and
\* rounds, the counter is what the writers have added, also while the shared
\* mutex is destroyed (mutex.cpp 23-29, mutexattr.cpp 22 and 66-88).
THEOREM CounterIsExact == Spec => []NoUpdateIsLost
<1>1. ExclusionInv /\ ExclusionInv' /\ SectionsExclude /\ CounterInv
        /\ [Next]_vars => CounterInv'
  <2> SUFFICES ASSUME ExclusionInv, ExclusionInv', SectionsExclude,
                      CounterInv, [Next]_vars
               PROVE  CounterInv'
    OBVIOUS
  <2>1. TypeOK /\ TypeOK'
    BY DEF ExclusionInv
  <2>2. CASE \E w \in Writers : Write(w)
    BY <2>2, WriteKeepsCounter
  <2>3. CASE \/ \E w \in Writers : Lock(w) \/ Read(w) \/ Unlock(w) \/ End(w)
             \/ \E r \in Readers : Reader(r)
             \/ UNCHANGED vars
    BY <2>1, <2>3, OthersKeepCounter
  <2> QED BY <2>2, <2>3 DEF Next, Writer
<1>2. Spec => []CounterInv
  BY ExclusionInvariant, SectionsAreExclusive, InitCounter, <1>1, PTL DEF Spec
<1>3. CounterInv => NoUpdateIsLost
  BY DEF CounterInv
<1> QED BY <1>2, <1>3, PTL

-----------------------------------------------------------------------------
(***************************************************************************)
(* The consumer never sleeps over a message for ever, with any amount of   *)
(* memory.                                                                 *)
(***************************************************************************)

(***************************************************************************)
(* Why NoSleepOverMessages is not inductive by itself: the producer must   *)
(* not get in between the consumer's test and its wait, which the mutex    *)
(* sees to.                                                                *)
(***************************************************************************)
MutexHeld == lockedBy = "consumer" <=> consumerAt \in {"test", "towait"}

WaitInv == PCTypeOK /\ MutexHeld /\ NoSleepOverMessages

LEMMA InitWaitInv == PCInit => WaitInv
  BY DEF PCInit, WaitInv, PCTypeOK, MutexHeld, NoSleepOverMessages

LEMMA ProducerKeepsWaitInv == WaitInv /\ Producer => WaitInv'
<1> SUFFICES ASSUME WaitInv, Producer
             PROVE  WaitInv'
  OBVIOUS
<1> USE DEF WaitInv, PCTypeOK, MutexHeld, NoSleepOverMessages, listVars,
            consumerVars
<1>1. CASE Make
  BY <1>1 DEF Make, ProducerGoes
<1>2. CASE Push
  BY <1>2 DEF Push, ProducerGoes, AfterPush
<1>3. CASE Signal
  BY <1>3 DEF Signal, ProducerGoes
<1>4. QED
  BY <1>1, <1>2, <1>3 DEF Producer

LEMMA ConsumerKeepsWaitInv == WaitInv /\ (Consumer \/ WakesByItself) => WaitInv'
<1> SUFFICES ASSUME WaitInv, Consumer \/ WakesByItself
             PROVE  WaitInv'
  OBVIOUS
<1> USE DEF WaitInv, PCTypeOK, MutexHeld, NoSleepOverMessages, listVars,
            producerVars, ConsumerGoes
<1>1. CASE ConsumerLock
  BY <1>1 DEF ConsumerLock
<1>2. CASE FindsNothing
  BY <1>2 DEF FindsNothing
<1>3. CASE WaitForProduct
  BY <1>3 DEF WaitForProduct
<1>4. CASE Take
  BY <1>4 DEF Take, Behind
<1>5. CASE Use
  BY <1>5 DEF Use
<1>6. CASE WakesByItself
  BY <1>6 DEF WakesByItself
<1>7. QED
  BY <1>1, <1>2, <1>3, <1>4, <1>5, <1>6 DEF Consumer

THEOREM SpecWaitInv == PCSpec => []WaitInv
<1>1. WaitInv /\ UNCHANGED pcVars => WaitInv'
  BY DEF WaitInv, PCTypeOK, MutexHeld, NoSleepOverMessages, pcVars, listVars,
         producerVars, consumerVars
<1>2. WaitInv /\ [PCNext]_pcVars => WaitInv'
  BY ProducerKeepsWaitInv, ConsumerKeepsWaitInv, <1>1 DEF PCNext
<1>3. QED
  BY InitWaitInv, <1>2, PTL DEF PCSpec

\* However many messages there is memory for, the consumer does not sleep while
\* there is one, unless the signal is on its way: the signal outside the mutex is
\* never lost.
THEOREM NobodySleepsOverMessages == PCSpec => []NoSleepOverMessages
<1>1. WaitInv => NoSleepOverMessages
  BY DEF WaitInv
<1>2. QED
  BY SpecWaitInv, <1>1, PTL

-----------------------------------------------------------------------------
(* Where the messages of Signal_type.cpp are. *)

\* Nth and Listed in terms of the lemmas on lists.
ListIsChain ==
  /\ Chain(Nth, Cardinality(Nodes), head, next)
  /\ Listed = OnList(Nth, Cardinality(Nodes))

LEMMA ListedIsChain == ListIsChain
<1> DEFINE n == Cardinality(Nodes)
<1>1. n \in Nat
  BY FS_CardinalityType, NodesAssumption
<1>2. \E F : Chain(F, n, head, next)
  <2> HIDE DEF n
  <2> QED BY <1>1, ChainExists
<1>3. Chain(Nth, n, head, next)
  BY <1>2 DEF Chain, Nth
<1> QED BY <1>3 DEF ListIsChain, Listed, OnList

LEMMA HandsAre ==
  Hands = (IF producerAt = "push" THEN {t} ELSE {})
            \cup (IF consumerAt = "use" THEN {mp} ELSE {})
  BY DEF Hands

LEMMA ListStep ==
  /\ Chain(Nth, Cardinality(Nodes), head, next)
  /\ Listed = OnList(Nth, Cardinality(Nodes))
  /\ Chain(Nth', Cardinality(Nodes), head', next')
  /\ Listed' = OnList(Nth', Cardinality(Nodes))
  /\ Hands' = (IF producerAt' = "push" THEN {t'} ELSE {})
                \cup (IF consumerAt' = "use" THEN {mp'} ELSE {})
<1>1. ListIsChain /\ ListIsChain'
  BY ListedIsChain, PTL
<1>2. Hands' = (IF producerAt' = "push" THEN {t'} ELSE {})
                 \cup (IF consumerAt' = "use" THEN {mp'} ELSE {})
  BY DEF Hands
<1> QED BY <1>1, <1>2 DEF ListIsChain

LEMMA InitPlaces == PCInit => EveryMessageInOnePlace
<1> SUFFICES ASSUME PCInit PROVE EveryMessageInOnePlace
  OBVIOUS
<1> DEFINE n == Cardinality(Nodes)
<1>1. n \in Nat
  BY FS_CardinalityType, NodesAssumption
<1>2. Chain(Nth, n, head, next) /\ Listed = OnList(Nth, n)
  BY ListStep
<1>3. head = NULL /\ heap = {} /\ Hands = {}
  BY HandsAre DEF PCInit
<1> HIDE DEF n
<1>4. \A k \in 0..n : Nth[k] = NULL
  <2>1. Nth[0] = NULL /\ 0 \in 0..n
    BY <1>1, <1>2, <1>3, ChainSteps
  <2> QED BY <1>1, <1>2, <2>1, ChainEnds
<1>5. Listed = {} /\ Nth[n] = NULL
  BY <1>1, <1>2, <1>4 DEF OnList
<1>6. PCTypeOK
  BY DEF PCInit, PCTypeOK
<1>7. producerAt # "push"
  BY DEF PCInit
<1> QED BY <1>3, <1>5, <1>6, <1>7 DEF EveryMessageInOnePlace, n

\* A step that leaves the list alone.
LEMMA SameList ==
  ASSUME EveryMessageInOnePlace, UNCHANGED <<head, next>>
  PROVE  Listed' = Listed /\ Nth'[Cardinality(Nodes)] = NULL
<1>1. Nth' = Nth
  BY DEF Nth
<1> QED BY <1>1 DEF Listed, EveryMessageInOnePlace

LEMMA PushKeepsPlaces ==
  ASSUME EveryMessageInOnePlace, Push PROVE EveryMessageInOnePlace'
<1> USE DEF EveryMessageInOnePlace
<1>1. /\ producerAt = "push" /\ producerAt' = "signal" /\ t' = t
      /\ next' = [next EXCEPT ![t] = head] /\ head' = t
      /\ UNCHANGED <<heap, lockedBy, mp, consumerAt>>
  BY DEF Push, ProducerGoes, AfterPush, consumerVars
<1>2. t \in Hands
  BY <1>1, HandsAre
<1>3. t \in Nodes /\ t \notin Listed
  BY <1>2 DEF PCTypeOK
<1>4. Nth'[Cardinality(Nodes)] = NULL /\ Listed' = {t} \cup Listed
  <2>1. /\ head \in Nodes \cup {NULL}
        /\ next \in [Nodes -> Nodes \cup {NULL}]
        /\ IsFiniteSet(Nodes) /\ NULL \notin Nodes
    BY NodesAssumption DEF PCTypeOK
  <2>2. /\ Chain(Nth, Cardinality(Nodes), head, next)
        /\ Chain(Nth', Cardinality(Nodes), t, next')
        /\ LinksTo(next', next, t, head)
        /\ Listed = OnList(Nth, Cardinality(Nodes))
        /\ Listed' = OnList(Nth', Cardinality(Nodes))
        /\ Nth[Cardinality(Nodes)] = NULL
        /\ t \notin OnList(Nth, Cardinality(Nodes))
    BY <1>1, <1>3, ListStep DEF LinksTo
  <2>3. /\ Nth'[Cardinality(Nodes)] = NULL
        /\ OnList(Nth', Cardinality(Nodes))
             = {t} \cup OnList(Nth, Cardinality(Nodes))
    <3> HIDE DEF EveryMessageInOnePlace
    <3> QED BY <1>3, <2>1, <2>2, ChainPushed
  <2> QED BY <2>2, <2>3
<1>5. Hands' = Hands \ {t}
  BY <1>1, ListStep, HandsAre
<1>6. PCTypeOK'
  BY <1>1, <1>3 DEF PCTypeOK
<1> QED BY <1>1, <1>2, <1>3, <1>4, <1>5, <1>6

LEMMA TakeKeepsPlaces ==
  ASSUME EveryMessageInOnePlace, Take PROVE EveryMessageInOnePlace'
<1> USE DEF EveryMessageInOnePlace
<1>1. /\ head # NULL /\ consumerAt = "test" /\ consumerAt' = "use"
      /\ mp' = head /\ head' = next[head] /\ lockedBy' = "nobody"
      /\ UNCHANGED <<next, heap, t, producerAt>>
  BY DEF Take, ConsumerGoes, Behind, producerVars
<1>2. head \in Nodes
  BY <1>1 DEF PCTypeOK
<1>3. /\ Nth'[Cardinality(Nodes)] = NULL
      /\ head \in Listed /\ Listed' = Listed \ {head}
  <2>1. /\ next \in [Nodes -> Nodes \cup {NULL}]
        /\ IsFiniteSet(Nodes) /\ NULL \notin Nodes
    BY NodesAssumption DEF PCTypeOK
  <2>2. /\ Chain(Nth, Cardinality(Nodes), head, next)
        /\ Chain(Nth', Cardinality(Nodes), next[head], next)
        /\ Listed = OnList(Nth, Cardinality(Nodes))
        /\ Listed' = OnList(Nth', Cardinality(Nodes))
    BY <1>1, ListStep
  <2> QED BY <1>2, <2>1, <2>2, ChainPopped
<1>4. Hands' = Hands \cup {head}
  BY <1>1, ListStep, HandsAre
<1>5. producerAt = "push" => t \in Hands
  BY HandsAre
<1>6. PCTypeOK'
  BY <1>1, <1>2 DEF PCTypeOK
<1> QED BY <1>1, <1>3, <1>4, <1>5, <1>6

LEMMA MakeKeepsPlaces ==
  ASSUME EveryMessageInOnePlace, Make PROVE EveryMessageInOnePlace'
<1> USE DEF EveryMessageInOnePlace
<1>1. PICK n \in Nodes \ heap : t' = n /\ heap' = heap \cup {n}
  BY DEF Make
<1>2. /\ producerAt = "make" /\ producerAt' = "push"
      /\ UNCHANGED <<head, next, lockedBy, mp, consumerAt>>
  BY DEF Make, ProducerGoes, consumerVars
<1>3. Listed' = Listed /\ Nth'[Cardinality(Nodes)] = NULL
  BY <1>2, SameList
<1>4. Hands' = Hands \cup {n}
  BY <1>1, <1>2, ListStep, HandsAre
<1>5. consumerAt = "use" => mp \in Hands
  BY HandsAre
<1>6. PCTypeOK'
  BY <1>1, <1>2 DEF PCTypeOK
<1> QED BY <1>1, <1>2, <1>3, <1>4, <1>5, <1>6

LEMMA UseKeepsPlaces ==
  ASSUME EveryMessageInOnePlace, Use PROVE EveryMessageInOnePlace'
<1> USE DEF EveryMessageInOnePlace
<1>1. /\ consumerAt = "use" /\ consumerAt' = "lock"
      /\ heap' = heap \ {mp}
      /\ UNCHANGED <<head, next, lockedBy, mp, t, producerAt>>
  BY DEF Use, ConsumerGoes, producerVars
<1>2. Listed' = Listed /\ Nth'[Cardinality(Nodes)] = NULL
  BY <1>1, SameList
<1>3. mp \in Hands /\ Hands' = Hands \ {mp}
  BY <1>1, ListStep, HandsAre
<1>4. PCTypeOK'
  BY <1>1 DEF PCTypeOK
<1> QED BY <1>1, <1>2, <1>3, <1>4

LEMMA OthersKeepPlaces ==
  ASSUME EveryMessageInOnePlace,
         \/ Signal \/ ConsumerLock \/ FindsNothing \/ WaitForProduct
         \/ WakesByItself \/ UNCHANGED pcVars
  PROVE  EveryMessageInOnePlace'
<1> USE DEF EveryMessageInOnePlace
<1>1. /\ UNCHANGED <<head, next, heap, t, mp>>
      /\ producerAt' = "push" <=> producerAt = "push"
      /\ consumerAt' = "use" <=> consumerAt = "use"
  BY DEF Signal, ConsumerLock, FindsNothing, WaitForProduct, WakesByItself,
     ProducerGoes, ConsumerGoes, pcVars, listVars, producerVars, consumerVars
<1>2. Listed' = Listed /\ Nth'[Cardinality(Nodes)] = NULL
  BY <1>1, SameList
<1>3. Hands' = Hands
  BY <1>1, ListStep, HandsAre
<1>4. PCTypeOK'
  BY DEF PCTypeOK, Signal, ConsumerLock, FindsNothing, WaitForProduct,
     WakesByItself, ProducerGoes, ConsumerGoes, pcVars, listVars, producerVars,
     consumerVars
<1> QED BY <1>1, <1>2, <1>3, <1>4

\* With any amount of memory: every message is with the producer, in the list
\* or with the consumer, and in one of these places only; the list ends and has
\* no node twice (Signal_type.cpp 35-39, 48-54).
THEOREM EveryMessageIsInOnePlace == PCSpec => []EveryMessageInOnePlace
<1>1. EveryMessageInOnePlace /\ [PCNext]_pcVars => EveryMessageInOnePlace'
  BY PushKeepsPlaces, TakeKeepsPlaces, MakeKeepsPlaces, UseKeepsPlaces,
     OthersKeepPlaces DEF PCNext, Producer, Consumer
<1> QED BY InitPlaces, <1>1, PTL DEF PCSpec

-----------------------------------------------------------------------------
(***************************************************************************)
(* Both programs copy exactly, for every length of the source and every    *)
(* size of the buffer.                                                     *)
(***************************************************************************)

(***************************************************************************)
(* Where the threads are: what is before the block that is next is the     *)
(* source, but for what was lost, and what is behind it is as it was.      *)
(***************************************************************************)
WrittenSoFar ==
  IF len < 0 THEN 0 ELSE IF block = 5 THEN len ELSE Offset(block)

ThreadsInv ==
  copier = "threads" /\ copyAt # "open" =>
    /\ \A p \in lost : p < WrittenSoFar
    /\ \A p \in Positions :
         IF p >= WrittenSoFar THEN desc[p] = before[p]
         ELSE IF p \in lost THEN desc[p] \in {before[p], Zero}
         ELSE desc[p] = p
    /\ copyAt = "done" => block = 5

\* Until mycp.cpp has a short write, both positions are the same, and what is
\* before them is copied.
LoopInv ==
  copier = "loop" /\ copyAt # "open" =>
    /\ to <= from
    /\ len >= 0 => from <= len
    /\ lost = {} =>
         /\ to = from
         /\ \A p \in Positions : desc[p] = IF p < from THEN p ELSE Absent
    /\ copyAt = "done" => from = len

Unopened ==
  copyAt = "open" => /\ len = 0 /\ lost = {} /\ block = 0 /\ from = 0 /\ to = 0

CopyInv == CopyTypeOK /\ Unopened /\ ThreadsInv /\ LoopInv

-----------------------------------------------------------------------------
(* The blocks follow one another up to the end of the source. *)

LEMMA DivFive ==
  ASSUME NEW n \in Nat
  PROVE  n \div 5 \in Nat /\ 0 * (n \div 5) = 0
  OBVIOUS

LEMMA ZeroTimes ==
  ASSUME NEW n \in Int
  PROVE  0 * n = 0
  OBVIOUS

LEMMA BlocksFit ==
  ASSUME len \in Nat
  PROVE  BlockSize \in Nat /\ 5 * BlockSize <= len
  BY DEF BlockSize

LEMMA BlockEnds ==
  ASSUME len \in Nat, block \in 0..4
  PROVE  /\ Offset(block) \in Nat /\ Size(block) \in Nat
         /\ Offset(block) + Size(block) =
              IF block = 4 THEN len ELSE Offset(block + 1)
         /\ Offset(block) + Size(block) <= len
<1>1. BlockSize \in Nat /\ 5 * BlockSize <= len
  BY BlocksFit
<1>2. CASE block = 0
  BY <1>1, <1>2 DEF Offset, Size
<1>3. CASE block = 1
  BY <1>1, <1>3 DEF Offset, Size
<1>4. CASE block = 2
  BY <1>1, <1>4 DEF Offset, Size
<1>5. CASE block = 3
  BY <1>1, <1>5 DEF Offset, Size
<1>6. CASE block = 4
  BY <1>1, <1>6 DEF Offset, Size, LastSize
<1>7. QED
  BY <1>2, <1>3, <1>4, <1>5, <1>6

LEMMA WrittenType ==
  ASSUME CopyTypeOK, NEW d \in [Positions -> Positions \cup {Old, Zero, Absent}],
         NEW dst \in Nat, NEW src \in Nat, NEW n \in Nat,
         src + n <= MaxLen
  PROVE  Written(d, dst, src, n) \in [Positions -> Positions \cup {Old, Zero, Absent}]
  BY CopyAssumption DEF Written, Positions

-----------------------------------------------------------------------------
LEMMA InitCopyInv == CopyInit => CopyInv
  BY CopyAssumption DEF CopyInit, CopyInv, CopyTypeOK, Unopened, ThreadsInv, LoopInv

LEMMA OpenKeepsCopyInv == CopyInv /\ Open => CopyInv'
<1> SUFFICES ASSUME CopyInv, Open
             PROVE  CopyInv'
  OBVIOUS
<1> USE CopyAssumption DEF CopyInv, Open, Unopened, CopyTypeOK
<1>1. before' \in [Positions -> {Old, Absent}]
  OBVIOUS
<1>2. CopyTypeOK'
  BY <1>1 DEF Emptied
<1>3. ThreadsInv'
  <2>1. block' = 0 /\ lost' = {} /\ len' \in -1..MaxLen
        /\ (copier' = "threads" => desc' = before')
        /\ copyAt' = "copy"
    OBVIOUS
  <2>2. BlockSize' \in Int
    <3>1. CASE len' < 0
      BY <3>1 DEF BlockSize
    <3>2. CASE ~(len' < 0)
      BY <2>1, <3>2, DivFive DEF BlockSize
    <3>3. QED
      BY <3>1, <3>2
  <2>3. WrittenSoFar' = 0 \/ WrittenSoFar' = 0 * BlockSize'
    BY <2>1 DEF WrittenSoFar, Offset
  <2>4. WrittenSoFar' = 0
    BY <2>2, <2>3, ZeroTimes
  <2>5. QED
    BY <2>1, <2>4 DEF ThreadsInv, Positions
<1>4. LoopInv'
  BY DEF LoopInv, Emptied, Positions
<1>5. QED
  BY <1>2, <1>3, <1>4

-----------------------------------------------------------------------------
(* One block more. *)

LEMMA CopyBlockKeepsCopyInv == CopyInv /\ CopyBlock => CopyInv'
<1> SUFFICES ASSUME CopyInv, CopyBlock
             PROVE  CopyInv'
  OBVIOUS
<1> USE CopyAssumption
<1>1. /\ CopyTypeOK /\ Unopened /\ ThreadsInv /\ LoopInv
      /\ copier = "threads" /\ copyAt = "copy" /\ block \in 0..4
      /\ block' = block + 1
      /\ UNCHANGED <<copier, len, before, from, to, copyAt>>
  BY DEF CopyInv, CopyBlock, CopyTypeOK
<1> DEFINE dst == Offset(block)
           end == Offset(block) + Size(block)
<1>2. PICK n \in 0..len :
        /\ n <= Size(block)
        /\ desc' = Written(desc, dst, dst, n)
        /\ lost' = lost \cup dst+n..dst+Size(block)-1
  BY Zenon DEF CopyBlock
<1>3. len \in Nat /\ len <= MaxLen /\ n \in Nat
  BY <1>1, <1>2 DEF CopyTypeOK
<1>4. /\ dst \in Nat /\ Size(block) \in Nat /\ end <= len
      /\ end = IF block = 4 THEN len ELSE Offset(block + 1)
  BY <1>1, <1>3, BlockEnds
<1>5. lost' = lost \cup dst+n..end-1
  <2>1. dst + Size(block) - 1 = end - 1
    BY <1>4
  <2>2. QED
    BY <1>2, <2>1
<1>6. WrittenSoFar = dst /\ WrittenSoFar' = end
  BY <1>1, <1>3, <1>4 DEF WrittenSoFar, Offset, BlockSize
<1> HIDE DEF dst, end
<1>7. end \in Nat /\ dst + n <= end /\ end <= MaxLen
  BY <1>2, <1>3, <1>4 DEF end, dst
<1>8. CopyTypeOK'
  <2>1. desc' \in [Positions -> Positions \cup {Old, Zero, Absent}]
    BY <1>1, <1>2, <1>3, <1>4, <1>7, WrittenType DEF CopyTypeOK
  <2>2. lost' \in SUBSET Positions
    <3>1. dst+n..end-1 \subseteq Positions
      BY <1>3, <1>4, <1>7 DEF Positions
    <3>2. QED
      BY <1>1, <1>5, <3>1 DEF CopyTypeOK
  <2>3. QED
    BY <1>1, <2>1, <2>2 DEF CopyTypeOK
<1>9. ThreadsInv'
  <2>1. \A p \in lost' : p < end
    BY <1>1, <1>2, <1>5, <1>3, <1>4, <1>6, <1>7
       DEF ThreadsInv, CopyTypeOK, Positions
  <2>2. ASSUME NEW p \in Positions
        PROVE  IF p >= end THEN desc'[p] = before[p]
               ELSE IF p \in lost' THEN desc'[p] \in {before[p], Zero}
               ELSE desc'[p] = p
    <3>1. /\ p \in Int
          /\ p < dst => IF p \in lost THEN desc[p] \in {before[p], Zero}
                        ELSE desc[p] = p
          /\ p >= dst => desc[p] = before[p] /\ p \notin lost
      BY <1>1, <1>3, <1>4, <1>6 DEF ThreadsInv, Positions
    <3>2. p \in lost' <=> p \in lost \/ (p >= dst + n /\ p < end)
      BY <1>5, <1>3, <1>4, <1>7, <3>1
    <3>3. desc'[p] = IF p >= dst /\ p < dst + n THEN p
                     ELSE IF n > 0 /\ p < dst /\ desc[p] = Absent THEN Zero
                     ELSE desc[p]
      BY <1>2, <1>3, <1>4, <3>1 DEF Written
    <3>4. CASE p < dst
      BY <1>7, <3>1, <3>2, <3>3, <3>4, <1>3, <1>4
    <3>5. CASE p >= dst /\ p < dst + n
      BY <1>7, <3>1, <3>2, <3>3, <3>5, <1>3, <1>4
    <3>6. CASE p >= dst + n
      BY <1>7, <3>1, <3>2, <3>3, <3>6, <1>3, <1>4
    <3>7. QED
      BY <3>1, <3>4, <3>5, <3>6, <1>3, <1>4
  <2>3. QED
    BY <1>1, <1>6, <2>1, <2>2 DEF ThreadsInv, Positions
<1>10. LoopInv' /\ Unopened'
  BY <1>1 DEF LoopInv, Unopened
<1>11. QED
  BY <1>8, <1>9, <1>10 DEF CopyInv

LEMMA ThreadsKeepCopyInv == CopyInv /\ (CopyNothing \/ AllBlocks) => CopyInv'
<1> SUFFICES ASSUME CopyInv, CopyNothing \/ AllBlocks
             PROVE  CopyInv'
  OBVIOUS
<1> USE DEF CopyInv, CopyTypeOK, Unopened, ThreadsInv, LoopInv, Positions
<1>1. CASE CopyNothing
  BY <1>1 DEF CopyNothing, WrittenSoFar
<1>2. CASE AllBlocks
  BY <1>2 DEF AllBlocks, WrittenSoFar
<1>3. QED
  BY <1>1, <1>2

-----------------------------------------------------------------------------
(* One turn of the loop. *)

LEMMA CopyChunkKeepsCopyInv == CopyInv /\ CopyChunk => CopyInv'
<1> SUFFICES ASSUME CopyInv, CopyChunk
             PROVE  CopyInv'
  OBVIOUS
<1> USE CopyAssumption
<1>1. /\ CopyTypeOK /\ Unopened /\ ThreadsInv /\ LoopInv
      /\ copier = "loop" /\ copyAt = "copy"
      /\ UNCHANGED <<copier, len, before, block, copyAt>>
  BY DEF CopyInv, CopyChunk
<1>0. PICK n \in 1..BUF :
        /\ from + n <= len /\ from' = from + n
        /\ \E m \in 0..n :
             /\ desc' = Written(desc, to, from, m)
             /\ lost' = lost \cup from+m..from+n-1
             /\ to' = to + m
  BY DEF CopyChunk
<1>2. PICK m \in 0..n :
        /\ from + n <= len /\ from' = from + n
        /\ desc' = Written(desc, to, from, m)
        /\ lost' = lost \cup from+m..from+n-1
        /\ to' = to + m
  BY <1>0
<1>3. /\ n \in Nat /\ m \in Nat /\ m <= n /\ n > 0
      /\ from \in Nat /\ to \in Nat /\ len \in Int /\ len <= MaxLen
      /\ to <= from
  BY <1>1, <1>2 DEF CopyTypeOK, LoopInv
<1>4. CopyTypeOK'
  <2>1. desc' \in [Positions -> Positions \cup {Old, Zero, Absent}]
    BY <1>1, <1>2, <1>3, WrittenType DEF CopyTypeOK
  <2>2. lost' \in SUBSET Positions
    BY <1>1, <1>2, <1>3 DEF CopyTypeOK, Positions
  <2>3. from' \in 0..MaxLen /\ to' \in 0..MaxLen
    BY <1>2, <1>3
  <2>4. QED
    BY <1>1, <2>1, <2>2, <2>3 DEF CopyTypeOK
<1>5. LoopInv'
  <2>1. ASSUME lost' = {}
        PROVE  /\ lost = {} /\ m = n /\ to = from /\ to' = from'
    <3>1. m < n => from + m \in from+m..from+n-1
      BY <1>3
    <3>2. QED
      BY <1>1, <1>2, <1>3, <2>1, <3>1 DEF LoopInv
  <2>2. ASSUME lost' = {}, NEW p \in Positions
        PROVE  desc'[p] = IF p < from' THEN p ELSE Absent
    <3>1. p \in Int /\ p # Absent
      BY DEF Positions
    <3>2. desc[p] = IF p < from THEN p ELSE Absent
      BY <1>1, <2>1, <2>2 DEF LoopInv
    <3>3. desc'[p] = IF p >= from /\ p < from + n THEN p ELSE desc[p]
      BY <1>2, <1>3, <2>1, <2>2, <3>1, <3>2 DEF Written
    <3>4. QED
      BY <1>2, <1>3, <3>1, <3>2, <3>3
  <2>3. QED
    BY <1>1, <1>2, <1>3, <2>1, <2>2 DEF LoopInv, Positions
<1>6. ThreadsInv' /\ Unopened'
  BY <1>1 DEF ThreadsInv, Unopened
<1>7. QED
  BY <1>4, <1>5, <1>6 DEF CopyInv

LEMMA ReadsNothingKeepsCopyInv == CopyInv /\ ReadsNothing => CopyInv'
  BY DEF CopyInv, CopyTypeOK, Unopened, ThreadsInv, LoopInv, ReadsNothing,
         Positions

-----------------------------------------------------------------------------
THEOREM SpecCopyInv == CopySpec => []CopyInv
<1>1. CopyInv /\ UNCHANGED copyVars => CopyInv'
  BY DEF CopyInv, CopyTypeOK, Unopened, ThreadsInv, LoopInv, WrittenSoFar,
         Offset, BlockSize, Positions, copyVars
<1>2. CopyInv /\ [CopyNext]_copyVars => CopyInv'
  BY OpenKeepsCopyInv, CopyBlockKeepsCopyInv, ThreadsKeepCopyInv,
     CopyChunkKeepsCopyInv, ReadsNothingKeepsCopyInv, <1>1
     DEF CopyNext, Threads, Loop
<1>3. QED
  BY InitCopyInv, <1>2, PTL DEF CopySpec

\* Whatever the length of the source and the size of the buffer, the five blocks
\* cover the source exactly, and the loop copies it byte by byte.
THEOREM CopiesAreExact == CopySpec => []CopyIsExact
<1>1. ASSUME CopyInv
      PROVE  CopyIsExact
  <2>1. CopyTypeOK /\ ThreadsInv /\ LoopInv
    BY <1>1 DEF CopyInv
  <2>2. ASSUME copyAt = "done", copier = "threads", NEW p \in Positions
        PROVE  ThreadsLeave(p)
    <3>1. block = 5
      BY <2>1, <2>2 DEF ThreadsInv
    <3>2. WrittenSoFar = IF len < 0 THEN 0 ELSE len
      BY <3>1 DEF WrittenSoFar
    <3>3. p >= len <=> p >= WrittenSoFar
      BY <2>1, <3>2, CopyAssumption DEF CopyTypeOK, Positions
    <3>4. QED
      BY <2>1, <2>2, <3>3 DEF ThreadsInv, ThreadsLeave
  <2>3. ASSUME copyAt = "done", copier = "loop", lost = {}, NEW p \in Positions
        PROVE  desc[p] = IF p < len THEN p ELSE Absent
    BY <2>1, <2>3 DEF LoopInv
  <2>4. QED
    BY <2>1, <2>2, <2>3 DEF CopyIsExact
<1>2. QED
  BY SpecCopyInv, <1>1, PTL
-----------------------------------------------------------------------------
(***************************************************************************)
(* The listing of a directory is complete and doubles with each level, for *)
(* every finite tree and any order in which readdir gives the entries.     *)
(***************************************************************************)

(* The tree: what is above an entry, without recursion. *)

Closed(S) == \A x \in S \ {Top} : Parent[x] \in S
Above(n, e) == \A S \in SUBSET Entries : e \in S /\ Closed(S) => n \in S

LEMMA AboveItself ==
  ASSUME NEW e \in Entries PROVE Above(e, e)
  BY DEF Above

LEMMA AboveType ==
  ASSUME NEW e \in Entries, NEW n, Above(n, e) PROVE n \in Entries
<1>1. Closed(Entries)
  BY TreeAssumption DEF Closed
<1> QED BY <1>1 DEF Above

LEMMA AboveParent ==
  ASSUME NEW e \in Entries, e # Top PROVE Above(Parent[e], e)
  BY DEF Above, Closed

LEMMA AboveAbove ==
  ASSUME NEW n, NEW m, NEW e, Above(n, m), Above(m, e) PROVE Above(n, e)
  BY DEF Above

\* What is above another entry is on a lower level.
LEMMA AboveLevel ==
  ASSUME NEW e \in Entries, NEW n, Above(n, e), n # e
  PROVE  Level[n] < Level[e]
<1> DEFINE S == {x \in Entries : Level[x] < Level[e]} \cup {e}
<1>1. ASSUME NEW x \in S, x # Top PROVE Parent[x] \in S
  <2>1. x \in Entries /\ Level[x] <= Level[e] /\ Level[x] = Level[Parent[x]] + 1
    BY <1>1, TreeAssumption
  <2>2. Parent[x] \in Entries /\ Level[x] \in Nat /\ Level[Parent[x]] \in Nat
    BY <1>1, <2>1, TreeAssumption
  <2> QED BY <2>1, <2>2, TreeAssumption
<1>2. n \in S
  <2>1. S \in SUBSET Entries /\ e \in S /\ Closed(S)
    BY <1>1 DEF Closed
  <2> HIDE DEF S
  <2> QED BY <2>1 DEF Above
<1> QED BY <1>2

\* Only one entry of each level is above another.
LEMMA AboveOnce ==
  ASSUME NEW e \in Entries, NEW n, NEW m, Above(n, e), Above(m, e),
         Level[n] = Level[m]
  PROVE  n = m
<1> DEFINE S == {x \in Entries : Above(n, x) \/ Above(x, n)}
<1>0. n \in Entries /\ m \in Entries /\ Level \in [Entries -> Nat]
  BY AboveType, TreeAssumption
<1>1. ASSUME NEW x \in S, x # Top PROVE Parent[x] \in S
  <2>1. x \in Entries /\ Parent[x] \in Entries /\ Above(Parent[x], x)
    BY <1>1, AboveParent, TreeAssumption
  <2>2. CASE Above(x, n)
    BY <2>1, <2>2, AboveAbove
  <2>3. CASE Above(n, x) /\ ~Above(n, Parent[x])
    <3>1. PICK R \in SUBSET Entries : Parent[x] \in R /\ Closed(R) /\ n \notin R
      BY <2>3 DEF Above
    <3>2. Closed(R \cup {x}) /\ R \cup {x} \in SUBSET Entries
      BY <3>1, <2>1 DEF Closed
    <3>3. n = x
      BY <2>3, <3>1, <3>2 DEF Above
    <3> QED BY <2>1, <3>3
  <2> QED BY <1>1, <2>1, <2>2, <2>3
<1>2. m \in S
  <2>1. S \in SUBSET Entries /\ e \in S /\ Closed(S)
    BY <1>1 DEF Closed
  <2> HIDE DEF S
  <2> QED BY <2>1 DEF Above
<1>3. CASE Above(n, m)
  <2>1. n # m => Level[n] < Level[m]
    BY <1>0, <1>3, AboveLevel
  <2> QED BY <1>0, <2>1
<1>4. CASE Above(m, n)
  <2>1. n # m => Level[m] < Level[n]
    BY <1>0, <1>4, AboveLevel
  <2> QED BY <1>0, <2>1
<1> QED BY <1>2, <1>3, <1>4

LEMMA TopAbove ==
  ASSUME NEW e \in Entries PROVE Above(Top, e)
<1> SUFFICES ASSUME NEW S \in SUBSET Entries, e \in S, Closed(S)
             PROVE  Top \in S
  BY DEF Above
<1> DEFINE B == {Level[x] : x \in S}
<1>1. PICK k \in B : \A i \in B : ~ (<<i, k>> \in Below)
  <2>1. B \subseteq Nat /\ B # {}
    BY TreeAssumption
  <2> HIDE DEF B
  <2> QED BY <2>1, BelowWellFounded, WFMin, Zenon
<1>2. PICK x \in S : k = Level[x]
  BY <1>1
<1>3. CASE x # Top
  <2>1. /\ Parent[x] \in S /\ x \in Entries
        /\ Level[x] = Level[Parent[x]] + 1
    BY <1>3, TreeAssumption DEF Closed
  <2>2. Level[Parent[x]] \in Nat /\ Level[x] \in Nat /\ Level[Parent[x]] \in B
    BY <2>1, TreeAssumption
  <2>3. <<Level[Parent[x]], k>> \in Below
    BY <1>2, <2>1, <2>2 DEF Below
  <2> QED BY <1>1, <2>2, <2>3
<1> QED BY <1>2, <1>3

\* What is in a directory or below is below one of the entries in it.
LEMMA ChildAbove ==
  ASSUME NEW e \in Entries, NEW d \in Entries
  PROVE  Above(d, e) /\ e # d <=> \E c \in Inside(d) : Above(c, e)
<1>1. ASSUME NEW c \in Inside(d), Above(c, e) PROVE Above(d, e) /\ e # d
  <2>1. c \in Entries /\ c # Top /\ Parent[c] = d
    BY DEF Inside
  <2>2. Above(d, c) /\ Level[c] = Level[d] + 1
    BY <2>1, AboveParent, TreeAssumption
  <2>3. Above(d, e)
    BY <1>1, <2>2, AboveAbove
  <2>4. e # d
    <3> SUFFICES ASSUME e = d PROVE FALSE
      OBVIOUS
    <3>1. c = d
      BY <1>1, <2>1, <2>2, AboveLevel, TreeAssumption
    <3> QED BY <2>2, <3>1, TreeAssumption
  <2> QED BY <2>3, <2>4
<1>2. ASSUME Above(d, e), e # d, \A c \in Inside(d) : ~Above(c, e)
      PROVE  FALSE
  <2> DEFINE S == {x \in Entries : Above(x, e)} \ {d}
  <2>1. ASSUME NEW x \in S, x # Top PROVE Parent[x] \in S
    <3>1. /\ x \in Entries /\ Parent[x] \in Entries /\ Above(x, e)
          /\ Above(Parent[x], x)
      BY <2>1, AboveParent, TreeAssumption
    <3>2. Above(Parent[x], e)
      BY <3>1, AboveAbove
    <3>3. Parent[x] # d
      BY <1>2, <2>1, <3>1 DEF Inside
    <3> QED BY <3>1, <3>2, <3>3
  <2>2. S \in SUBSET Entries /\ e \in S /\ Closed(S)
    BY <1>2, <2>1, AboveItself DEF Closed
  <2>3. d \in S
    <3> HIDE DEF S
    <3> QED BY <1>2, <2>2 DEF Above
  <2> QED BY <2>3
<1> QED BY <1>1, <1>2

LEMMA NothingBelowFiles ==
  ASSUME NEW e \in Entries, NEW n \in Entries, n \notin Dirs, Above(n, e)
  PROVE  n = e
<1>1. Closed(Dirs \cup {e}) /\ Dirs \cup {e} \in SUBSET Entries
  BY TreeAssumption DEF Closed
<1> QED BY <1>1 DEF Above
-----------------------------------------------------------------------------
(* Doubled is what it is defined to be. *)

DoublesUpto(f, n) ==
  /\ f \in [0..n -> Nat] /\ f[0] = 1
  /\ \A k \in 0..n : k # n => f[k + 1] = 2 * f[k]

LEMMA DoublingStarts ==
  ASSUME NEW n \in Nat PROVE \E f : DoublesUpto(f, n)
<1> DEFINE T == {k \in Nat : \E f : DoublesUpto(f, k)}
<1>1. 0 \in T
  <2>1. DoublesUpto([k \in 0..0 |-> 1], 0)
    BY DEF DoublesUpto
  <2> QED BY <2>1
<1>2. ASSUME NEW k \in Nat, k \in T PROVE k + 1 \in T
  <2>1. PICK f : DoublesUpto(f, k)
    BY <1>2
  <2> DEFINE g == [i \in 0..k+1 |-> IF i = k + 1 THEN 2 * f[k] ELSE f[i]]
  <2>2. g \in [0..k+1 -> Nat] /\ g[0] = 1
    BY <2>1 DEF DoublesUpto
  <2>3. ASSUME NEW i \in 0..k+1, i # k + 1 PROVE g[i + 1] = 2 * g[i]
    <3>1. i \in 0..k /\ i + 1 \in 0..k+1 /\ g[i] = f[i]
      BY <2>3
    <3>2. CASE i = k
      BY <3>1, <3>2
    <3>3. CASE i # k
      <4>1. f[i + 1] = 2 * f[i] /\ i + 1 # k + 1
        BY <2>1, <3>1, <3>3 DEF DoublesUpto
      <4> QED BY <3>1, <4>1
    <3> QED BY <3>2, <3>3
  <2>4. DoublesUpto(g, k + 1)
    <3> HIDE DEF g
    <3> QED BY <2>2, <2>3 DEF DoublesUpto
  <2> QED BY <2>4
<1>3. Nat \subseteq T
  <2> HIDE DEF T
  <2> QED BY <1>1, <1>2, Induction
<1> QED BY <1>3

LEMMA DoublingIsOne ==
  ASSUME NEW n \in Nat, NEW f, DoublesUpto(f, n),
         NEW m \in Nat, NEW g, DoublesUpto(g, m), NEW k \in Nat, k <= n, k <= m
  PROVE  f[k] = g[k]
<1> DEFINE Same == {i \in Nat : i <= n /\ i <= m => f[i] = g[i]}
<1>1. 0 \in Same
  BY DEF DoublesUpto
<1>2. ASSUME NEW i \in Nat, i \in Same PROVE i + 1 \in Same
  <2> SUFFICES ASSUME i + 1 <= n, i + 1 <= m PROVE f[i + 1] = g[i + 1]
    OBVIOUS
  <2>1. i \in 0..n /\ i # n /\ i \in 0..m /\ i # m
    OBVIOUS
  <2>2. f[i + 1] = 2 * f[i] /\ g[i + 1] = 2 * g[i]
    BY <2>1 DEF DoublesUpto
  <2> QED BY <1>2, <2>1, <2>2
<1>3. Nat \subseteq Same
  <2> HIDE DEF Same
  <2> QED BY <1>1, <1>2, Induction
<1> QED BY <1>3

Start(n) == CHOOSE f : DoublesUpto(f, n)
DoublesDef(D) == D = [k \in Nat |-> IF k = 0 THEN 1 ELSE 2 * D[k - 1]]

LEMMA DoublingExists == \E D : DoublesDef(D)
<1> DEFINE D == [n \in Nat |-> Start(n)[n]]
<1>1. ASSUME NEW n \in Nat PROVE DoublesUpto(Start(n), n)
  BY DoublingStarts DEF Start
<1>2. ASSUME NEW k \in Nat PROVE D[k] = IF k = 0 THEN 1 ELSE 2 * D[k - 1]
  <2>1. CASE k = 0
    BY <1>1, <2>1 DEF DoublesUpto
  <2>2. CASE k # 0
    <3>1. k - 1 \in Nat /\ k - 1 \in 0..k /\ k - 1 # k /\ (k - 1) + 1 = k
      BY <2>2
    <3>2. Start(k)[k] = 2 * Start(k)[k - 1]
      BY <1>1, <3>1 DEF DoublesUpto
    <3>3. Start(k)[k - 1] = Start(k - 1)[k - 1]
      BY <1>1, <3>1, DoublingIsOne
    <3> QED BY <2>2, <3>1, <3>2, <3>3
  <2> QED BY <2>1, <2>2
<1>3. D = [k \in Nat |-> D[k]]
  OBVIOUS
<1>4. DoublesDef(D)
  <2> HIDE DEF D
  <2> QED BY <1>2, <1>3 DEF DoublesDef
<1> QED BY <1>4

LEMMA DoubledDoubles ==
  /\ Doubled \in [Nat -> Nat] /\ Doubled[0] = 1
  /\ \A k \in Nat : Doubled[k + 1] = 2 * Doubled[k]
<1>1. DoublesDef(Doubled)
  BY DoublingExists DEF Doubled, DoublesDef
<1>2. Doubled = [k \in Nat |-> IF k = 0 THEN 1 ELSE 2 * Doubled[k - 1]]
  BY <1>1 DEF DoublesDef
<1>3. Doubled[0] = 1
  BY <1>2
<1>4. ASSUME NEW k \in Nat PROVE Doubled[k + 1] = 2 * Doubled[k]
  <2>1. k + 1 \in Nat /\ k + 1 # 0 /\ (k + 1) - 1 = k
    OBVIOUS
  <2> QED BY <1>2, <2>1
<1>5. ASSUME NEW k \in Nat PROVE Doubled[k] \in Nat
  <2> DEFINE R == {n \in Nat : Doubled[n] \in Nat}
  <2>1. 0 \in R
    BY <1>3
  <2>2. \A n \in Nat : n \in R => n + 1 \in R
    BY <1>4
  <2>3. Nat \subseteq R
    <3> HIDE DEF R
    <3> QED BY <2>1, <2>2, Induction
  <2> QED BY <2>3
<1> QED BY <1>2, <1>3, <1>4, <1>5
-----------------------------------------------------------------------------
(* What a call owes: how often each entry is printed, and each directory   *)
(* opened, on behalf of it if no opendir fails.                            *)

\* A call of isFile for n prints e so often.
Ways(n, e) == IF Above(n, e) THEN Doubled[Level[e] - Level[n]] ELSE 0

LEMMA WaysType ==
  ASSUME NEW e \in Entries, NEW n PROVE Ways(n, e) \in Nat
<1>1. CASE Above(n, e)
  <2>1. Level[n] <= Level[e] /\ Level[n] \in Nat /\ Level[e] \in Nat
    BY <1>1, AboveLevel, AboveType, TreeAssumption
  <2>2. Level[e] - Level[n] \in Nat
    BY <2>1
  <2> QED BY <1>1, <2>2, DoubledDoubles DEF Ways
<1>2. CASE ~Above(n, e)
  BY <1>2 DEF Ways
<1> QED BY <1>1, <1>2

LEMMA WaysToItself ==
  ASSUME NEW e \in Entries PROVE Ways(e, e) = 1
<1>1. Level[e] - Level[e] = 0
  BY TreeAssumption
<1> QED BY <1>1, AboveItself, DoubledDoubles DEF Ways

LEMMA WaysFromTop ==
  ASSUME NEW e \in Entries PROVE Ways(Top, e) = Times(e)
<1>1. Level[e] - Level[Top] = Level[e]
  BY TreeAssumption
<1> QED BY <1>1, TopAbove DEF Ways, Times

\* isFile is called twice for each entry of a directory.
LEMMA WaysDouble ==
  ASSUME NEW e \in Entries, NEW d \in Entries, NEW c \in Inside(d),
         Above(c, e)
  PROVE  Ways(d, e) = Ways(c, e) + Ways(c, e)
<1>1. c \in Entries /\ c # Top /\ Parent[c] = d
  BY DEF Inside
<1>2. Above(d, e)
  BY ChildAbove
<1>3. Level[c] = Level[d] + 1 /\ Level[c] <= Level[e]
  BY <1>1, AboveLevel, TreeAssumption
<1>4. Level[c] \in Nat /\ Level[d] \in Nat /\ Level[e] \in Nat
  BY <1>1, TreeAssumption
<1>5. /\ Level[e] - Level[c] \in Nat
      /\ Level[e] - Level[d] = (Level[e] - Level[c]) + 1
  BY <1>3, <1>4
<1>6. Doubled[Level[e] - Level[d]] = 2 * Doubled[Level[e] - Level[c]]
  BY <1>5, DoubledDoubles
<1>7. Doubled[Level[e] - Level[c]] \in Nat
  BY <1>5, DoubledDoubles
<1> QED BY <1>2, <1>6, <1>7 DEF Ways

LEMMA WaysOfFile ==
  ASSUME NEW e \in Entries, NEW n \in Entries, n \notin Dirs, n # e
  PROVE  Ways(n, e) = 0
  BY NothingBelowFiles DEF Ways

\* What read_dir has still to go through.
Rest(f, e) == IF \E c \in f.rest : Above(c, e) THEN Ways(f.name, e) ELSE 0

\* Who is owed what: each entry that it is printed, each directory that it is
\* opened.
Keys == (Entries \X {"printed"}) \cup (Dirs \X {"opened"})
PrintOf(n) == <<n, "printed">>
OpenOf(n) == <<n, "opened">>

Debt(f, k) ==
  CASE f.at = "stat" -> Ways(f.name, k[1])
    [] f.at = "print" -> IF k = PrintOf(f.name) THEN 1 ELSE 0
    [] f.at = "opendir" -> IF k = PrintOf(f.name) THEN 0 ELSE Ways(f.name, k[1])
    [] f.at = "next" -> Rest(f, k[1])
    [] f.at = "again" -> Rest(f, k[1]) + Ways(f.entry, k[1])

Frames == [at : {"stat", "print", "opendir", "next", "again"},
           name : Entries, rest : SUBSET Entries, entry : Entries]

LEMMA KeyEntry == ASSUME NEW k \in Keys PROVE k[1] \in Entries
  BY TreeAssumption DEF Keys

LEMMA DebtType ==
  ASSUME NEW f \in Frames, NEW k \in Keys PROVE Debt(f, k) \in Nat
<1>1. k[1] \in Entries
  BY KeyEntry
<1>2. Rest(f, k[1]) \in Nat
  BY <1>1, WaysType DEF Rest
<1>3. Ways(f.name, k[1]) \in Nat /\ Ways(f.entry, k[1]) \in Nat
  BY <1>1, WaysType
<1>4. f.at \in {"stat", "print", "opendir", "next", "again"}
  BY DEF Frames
<1> QED BY <1>2, <1>3, <1>4 DEF Debt

\* isFile goes through a directory before it prints it.
LEMMA DebtOfDir ==
  ASSUME NEW d \in Entries, NEW k \in Keys,
         NEW f \in Frames, f.at = "print", f.name = d
  PROVE  /\ d \in Dirs =>
              Ways(d, k[1]) = Debt(Call("opendir", d), k) + Debt(f, k)
         /\ d \notin Dirs => Ways(d, k[1]) = Debt(f, k)
<1>1. k[1] \in Entries /\ Ways(d, k[1]) \in Nat /\ Ways(d, d) = 1
  BY KeyEntry, WaysType, WaysToItself
<1>2. Debt(f, k) = IF k = PrintOf(d) THEN 1 ELSE 0
  BY DEF Debt
<1>3. Debt(Call("opendir", d), k)
        = IF k = PrintOf(d) THEN 0 ELSE Ways(d, k[1])
  BY DEF Debt, Call
<1>4. k = PrintOf(d) => k[1] = d
  BY DEF PrintOf
<1>5. ASSUME d \notin Dirs, k # PrintOf(d) PROVE Ways(d, k[1]) = 0
  <2>1. k[1] # d
    BY <1>5 DEF Keys, PrintOf
  <2> QED BY <1>1, <1>5, <2>1, WaysOfFile
<1>6. CASE k = PrintOf(d)
  BY <1>1, <1>2, <1>3, <1>4, <1>6
<1>7. CASE k # PrintOf(d)
  BY <1>1, <1>2, <1>3, <1>5, <1>7
<1> QED BY <1>6, <1>7

\* read_dir comes to what is below the directory.
LEMMA DebtOpened ==
  ASSUME NEW d \in Entries, NEW k \in Keys,
         NEW f, f.at = "opendir", f.name = d,
         NEW h, h.at = "next", h.name = d, h.rest = Inside(d)
  PROVE  Debt(f, k) = Debt(h, k) + (IF k = OpenOf(d) THEN 1 ELSE 0)
<1>1. k[1] \in Entries /\ Ways(d, k[1]) \in Nat /\ Ways(d, d) = 1
  BY KeyEntry, WaysType, WaysToItself
<1>2. Debt(f, k) = IF k = PrintOf(d) THEN 0 ELSE Ways(d, k[1])
  BY DEF Debt
<1>3. Debt(h, k) = Rest(h, k[1])
  BY DEF Debt
<1>4. Rest(h, k[1]) = IF k[1] # d THEN Ways(d, k[1]) ELSE 0
  BY <1>1, ChildAbove DEF Rest, Ways
<1>5. k[1] = d => (k = PrintOf(d) \/ k = OpenOf(d)) /\ PrintOf(d) # OpenOf(d)
  BY DEF Keys, PrintOf, OpenOf
<1>6. k = PrintOf(d) \/ k = OpenOf(d) => k[1] = d
  BY DEF PrintOf, OpenOf
<1> QED BY <1>1, <1>2, <1>3, <1>4, <1>5, <1>6

\* One entry of the directory: readdir gives c, and f goes on as h.
TakesEntry(f, c, h) ==
  /\ f.at = "next" /\ f.rest \subseteq Inside(f.name) /\ c \in f.rest
  /\ h.at = "again" /\ h.name = f.name /\ h.entry = c /\ h.rest = f.rest \ {c}

LEMMA DebtOfEntry ==
  ASSUME NEW k \in Keys, NEW f \in Frames, NEW c, NEW h, TakesEntry(f, c, h)
  PROVE  Debt(f, k) = Debt(Call("stat", c), k) + Debt(h, k)
<1> DEFINE e == k[1]
           d == f.name
<1>0. /\ d \in Entries /\ f.at = "next" /\ f.rest \subseteq Inside(d)
      /\ c \in Inside(d) /\ c \in f.rest
      /\ h.at = "again" /\ h.name = d /\ h.entry = c /\ h.rest = f.rest \ {c}
  BY DEF TakesEntry, Frames
<1>1. e \in Entries /\ Ways(d, e) \in Nat /\ Ways(c, e) \in Nat
  BY KeyEntry, WaysType
<1>2. Debt(f, k) = Rest(f, e) /\ Debt(h, k) = Rest(h, e) + Ways(c, e)
  BY <1>0 DEF Debt
<1>3. Debt(Call("stat", c), k) = Ways(c, e)
  BY DEF Debt, Call
<1>4. Rest(f, e) \in Nat /\ Rest(h, e) \in Nat
  BY <1>0, <1>1 DEF Rest
<1> HIDE DEF e, d
<1>5. CASE Above(c, e)
  <2>1. ASSUME NEW b \in f.rest \ {c} PROVE ~Above(b, e)
    <3>1. Level[b] = Level[c]
      BY <1>0, TreeAssumption DEF Inside
    <3> QED BY <1>1, <1>5, <3>1, AboveOnce
  <2>2. Rest(h, e) = 0
    BY <1>0, <2>1 DEF Rest
  <2>3. Rest(f, e) = Ways(d, e)
    BY <1>0, <1>5 DEF Rest, d
  <2>4. Ways(d, e) = Ways(c, e) + Ways(c, e)
    BY <1>0, <1>1, <1>5, WaysDouble
  <2> QED BY <1>1, <1>2, <1>3, <2>2, <2>3, <2>4
<1>6. CASE ~Above(c, e)
  <2>1. Ways(c, e) = 0
    BY <1>6 DEF Ways
  <2>2. Rest(h, e) = Rest(f, e)
    BY <1>0, <1>6 DEF Rest, d
  <2> QED BY <1>1, <1>2, <1>3, <1>4, <2>1, <2>2
<1> QED BY <1>5, <1>6
-----------------------------------------------------------------------------
(* What all calls under way owe together. *)

Debts == [Keys -> Nat]
With(f, due) == [k \in Keys |-> Debt(f, k) + due[k]]

\* D[i] is what the i-th call and those below it owe.
Totals(D, cs) ==
  /\ D \in Seq(Debts) /\ Len(D) = Len(cs) + 1
  /\ \A k \in Keys : D[Len(D)][k] = 0
  /\ \A i \in 1..Len(cs) : D[i] = With(cs[i], D[i + 1])

Due(cs, due) == \E D : Totals(D, cs) /\ due = D[1]

LEMMA WithType ==
  ASSUME NEW f \in Frames, NEW due \in Debts PROVE With(f, due) \in Debts
<1>1. \A k \in Keys : Debt(f, k) \in Nat
  BY DebtType
<1> QED BY <1>1 DEF With, Debts

LEMMA DueOfNone ==
  ASSUME NEW due, Due(<<>>, due)
  PROVE  due \in Debts /\ \A k \in Keys : due[k] = 0
<1>1. PICK D : Totals(D, <<>>) /\ due = D[1]
  BY DEF Due
<1>2. Len(D) = 1 /\ D \in Seq(Debts)
  BY <1>1 DEF Totals
<1> QED BY <1>1, <1>2 DEF Totals

LEMMA NoneDue == Due(<<>>, [k \in Keys |-> 0])
<1> DEFINE D == <<[k \in Keys |-> 0]>>
<1>1. D \in Seq(Debts) /\ Len(D) = 1 /\ D[1] = [k \in Keys |-> 0]
  BY DEF Debts
<1>2. Totals(D, <<>>)
  <2> HIDE DEF D
  <2> QED BY <1>1 DEF Totals
<1> QED BY <1>1, <1>2 DEF Due

LEMMA DueOfCaller ==
  ASSUME NEW cs \in Seq(Frames), cs # <<>>, NEW due, Due(cs, due)
  PROVE  /\ due \in Debts
         /\ \E rest \in Debts :
              Due(Tail(cs), rest) /\ due = With(Head(cs), rest)
<1>1. PICK D : Totals(D, cs) /\ due = D[1]
  BY DEF Due
<1>2. /\ D \in Seq(Debts) /\ Len(D) = Len(cs) + 1 /\ Len(cs) \in Nat \ {0}
      /\ Head(cs) = cs[1] /\ Len(Tail(cs)) = Len(cs) - 1
      /\ \A i \in 1..Len(cs)-1 : Tail(cs)[i] = cs[i + 1]
  BY <1>1 DEF Totals
<1>3. /\ Tail(D) \in Seq(Debts) /\ Len(Tail(D)) = Len(cs)
      /\ \A i \in 1..Len(cs) : Tail(D)[i] = D[i + 1]
      /\ D[1] \in Debts /\ D[2] \in Debts
  BY <1>2
<1>4. D[1] = With(cs[1], D[2]) /\ Tail(D)[1] = D[2]
  BY <1>1, <1>2, <1>3 DEF Totals
<1>5. Totals(Tail(D), Tail(cs))
  <2>1. ASSUME NEW k \in Keys PROVE Tail(D)[Len(Tail(D))][k] = 0
    BY <1>1, <1>2, <1>3 DEF Totals
  <2>2. ASSUME NEW i \in 1..Len(Tail(cs))
        PROVE  Tail(D)[i] = With(Tail(cs)[i], Tail(D)[i + 1])
    <3>1. i \in 1..Len(cs) /\ i + 1 \in 1..Len(cs)
      BY <1>2
    <3>2. D[i + 1] = With(cs[i + 1], D[(i + 1) + 1])
      BY <1>1, <3>1 DEF Totals
    <3> QED BY <1>2, <1>3, <3>1, <3>2
  <2> QED BY <1>2, <1>3, <2>1, <2>2 DEF Totals
<1>6. Due(Tail(cs), D[2])
  BY <1>4, <1>5 DEF Due
<1> QED BY <1>1, <1>2, <1>3, <1>4, <1>6

LEMMA DueOfCall ==
  ASSUME NEW cs \in Seq(Frames), NEW f \in Frames, NEW due \in Debts,
         Due(cs, due)
  PROVE  Due(<<f>> \o cs, With(f, due)) /\ With(f, due) \in Debts
<1>1. PICK D : Totals(D, cs) /\ due = D[1]
  BY DEF Due
<1> DEFINE E == <<With(f, due)>> \o D
           fs == <<f>> \o cs
<1>2. With(f, due) \in Debts
  BY WithType
<1>3. D \in Seq(Debts) /\ Len(D) = Len(cs) + 1 /\ Len(cs) \in Nat
  BY <1>1 DEF Totals
<1>4. /\ E \in Seq(Debts) /\ Len(E) = Len(cs) + 2 /\ E[1] = With(f, due)
      /\ \A i \in 1..Len(cs)+1 : E[i + 1] = D[i]
  BY <1>2, <1>3
<1>5. /\ Len(fs) = Len(cs) + 1 /\ fs[1] = f
      /\ \A i \in 1..Len(cs) : fs[i + 1] = cs[i]
  BY <1>3
<1> HIDE DEF E, fs
<1>6. ASSUME NEW k \in Keys PROVE E[Len(E)][k] = 0
  BY <1>1, <1>3, <1>4 DEF Totals
<1>7. ASSUME NEW i \in 1..Len(fs) PROVE E[i] = With(fs[i], E[i + 1])
  <2>1. CASE i = 1
    BY <1>1, <1>3, <1>4, <1>5, <2>1
  <2>2. CASE i # 1
    <3>1. i - 1 \in 1..Len(cs) /\ (i - 1) + 1 = i
      BY <1>3, <1>5, <2>2
    <3>2. D[i - 1] = With(cs[i - 1], D[(i - 1) + 1])
      BY <1>1, <3>1 DEF Totals
    <3>3. E[i] = D[i - 1] /\ fs[i] = cs[i - 1] /\ E[i + 1] = D[i]
      BY <1>3, <1>4, <1>5, <3>1
    <3> QED BY <3>1, <3>2, <3>3
  <2> QED BY <2>1, <2>2
<1>8. Totals(E, fs)
  BY <1>3, <1>4, <1>5, <1>6, <1>7 DEF Totals
<1>9. Due(fs, With(f, due))
  BY <1>4, <1>8 DEF Due
<1> QED BY <1>2, <1>9 DEF fs
-----------------------------------------------------------------------------
(***************************************************************************)
(* The inductive invariant: what was printed and what the calls under way  *)
(* owe add up to what each entry gets in all, or to less once an opendir   *)
(* has failed; and the same of how often a directory was opened, which the *)
(* program only counts in streams left open.                               *)
(***************************************************************************)
CallOK(f) ==
  /\ f.at \in {"opendir", "next", "again"} => f.name \in Dirs
  /\ f.at \in {"next", "again"} => f.rest \subseteq Inside(f.name)

GoodFrames == {f \in Frames : CallOK(f)}

Paid(g, k) == IF k[2] = "printed" THEN printed[k[1]] ELSE g[k[1]]

Balance(g, due) ==
  \A k \in Keys : /\ Paid(g, k) + due[k] <= Times(k[1])
                  /\ ~failed => Paid(g, k) + due[k] = Times(k[1])

\* g is how often each directory was opened.
OpenedInAll(g) ==
  /\ g \in [Dirs -> Nat]
  /\ \E F : Sums(F, g, SUBSET Dirs) /\ opened = F[Dirs]

AddsUp == \E g, due : /\ Due(calls, due) /\ OpenedInAll(g) /\ Balance(g, due)

CallsOK == calls \in Seq(GoodFrames)

ListingInv == DirTypeOK /\ CallsOK /\ AddsUp

LEMMA DirsFinite == IsFiniteSet(Dirs)
  BY FS_Subset, TreeAssumption

LEMMA GoodIsFrame == GoodFrames \subseteq Frames
  BY DEF GoodFrames

LEMMA PaidType ==
  ASSUME NEW k \in Keys, NEW g \in [Dirs -> Nat],
         printed \in [Entries -> Nat]
  PROVE  Paid(g, k) \in Nat
  BY DEF Keys, Paid

LEMMA InitListing == DirInit => ListingInv
<1> SUFFICES ASSUME DirInit PROVE ListingInv
  OBVIOUS
<1> DEFINE f == Call("stat", Top)
           g == [d \in Dirs |-> 0]
           none == [k \in Keys |-> 0]
<1>1. f \in GoodFrames /\ f \in Frames
  BY TreeAssumption DEF Call, GoodFrames, Frames, CallOK
<1>2. /\ calls = <<f>> \o <<>>
      /\ calls \in Seq(GoodFrames) /\ calls \in Seq(Frames)
  BY <1>1 DEF DirInit
<1>3. DirTypeOK
  BY <1>2 DEF DirInit, DirTypeOK, Frames
<1>4. none \in Debts /\ Due(<<>>, none)
  BY NoneDue DEF Debts
<1>5. Due(calls, With(f, none))
  <2> HIDE DEF f, none
  <2>1. <<>> \in Seq(Frames)
    OBVIOUS
  <2>2. Due(<<f>> \o <<>>, With(f, none))
    BY <1>1, <1>4, <2>1, DueOfCall
  <2> QED BY <1>2, <2>2
<1>6. g \in [Dirs -> Nat] /\ \A d \in Dirs : g[d] = 0
  OBVIOUS
<1>7. OpenedInAll(g)
  <2> HIDE DEF g
  <2>1. PICK F \in [SUBSET Dirs -> Nat] : Sums(F, g, SUBSET Dirs)
    BY <1>6, DirsFinite, SumsExist
  <2>2. F[Dirs] = 0
    BY <1>6, <2>1, DirsFinite, SumOfZeros
  <2> QED BY <1>6, <2>1, <2>2 DEF OpenedInAll, DirInit
<1>8. ASSUME NEW k \in Keys
      PROVE  Paid(g, k) = 0 /\ With(f, none)[k] = Times(k[1])
             /\ Times(k[1]) \in Nat
  <2>1. k[1] \in Entries
    BY KeyEntry
  <2>2. Debt(f, k) = Times(k[1]) /\ Times(k[1]) \in Nat
    BY <2>1, WaysFromTop, WaysType DEF Debt, Call
  <2>3. Paid(g, k) = 0
    BY DEF Paid, Keys, DirInit
  <2> QED BY <2>2, <2>3 DEF With
<1>9. Balance(g, With(f, none))
  <2> HIDE DEF f, none, g
  <2> QED BY <1>8 DEF Balance
<1> HIDE DEF f, none, g
<1> QED BY <1>2, <1>3, <1>5, <1>7, <1>9 DEF ListingInv, CallsOK, AddsUp

-----------------------------------------------------------------------------
(* The steps. *)

\* What is known of the innermost call and of those below it.
LEMMA Innermost ==
  ASSUME ListingInv, calls # <<>>
  PROVE  /\ Frame \in GoodFrames /\ Frame \in Frames
         /\ Tail(calls) \in Seq(GoodFrames) /\ Tail(calls) \in Seq(Frames)
<1>1. Frame \in GoodFrames /\ Tail(calls) \in Seq(GoodFrames)
  BY DEF ListingInv, CallsOK, Frame
<1> QED BY <1>1, GoodIsFrame

\* What was owed is owed by other calls now.
LEMMA OwedStays ==
  ASSUME ListingInv, NEW g, NEW due, OpenedInAll(g), Balance(g, due),
         UNCHANGED <<opened, failed, printed>>,
         NEW after, Due(calls', after), \A k \in Keys : after[k] = due[k]
  PROVE  AddsUp'
<1>1. Balance(g, after)'
  BY DEF Balance, Paid
<1>2. OpenedInAll(g)'
  BY DEF OpenedInAll
<1> QED BY <1>1, <1>2 DEF AddsUp

\* The calls from one action to the next, with what they owe.
LEMMA ReplacedByOne ==
  ASSUME ListingInv, calls # <<>>, NEW h \in GoodFrames,
         calls' = <<h>> \o Tail(calls), NEW rest \in Debts,
         Due(Tail(calls), rest)
  PROVE  /\ CallsOK' /\ Due(calls', With(h, rest))
         /\ calls' \in Seq(Frames)
<1>1. h \in Frames /\ Tail(calls) \in Seq(Frames)
  BY Innermost, GoodIsFrame
<1>2. Due(calls', With(h, rest))
  BY <1>1, DueOfCall
<1>3. calls' \in Seq(GoodFrames) /\ calls' \in Seq(Frames)
  BY <1>1, Innermost
<1> QED BY <1>2, <1>3 DEF CallsOK

LEMMA TwoInFront ==
  ASSUME NEW S, NEW f \in S, NEW h \in S, NEW cs \in Seq(S)
  PROVE  /\ <<f, h>> \o cs = <<f>> \o (<<h>> \o cs)
         /\ <<h>> \o cs \in Seq(S) /\ <<f, h>> \o cs \in Seq(S)
<1> DEFINE l == <<f, h>> \o cs
           r == <<f>> \o (<<h>> \o cs)
<1>1. /\ l \in Seq(S) /\ r \in Seq(S) /\ <<h>> \o cs \in Seq(S)
      /\ Len(l) = Len(cs) + 2 /\ Len(r) = Len(cs) + 2 /\ Len(cs) \in Nat
  OBVIOUS
<1>2. ASSUME NEW i \in 1..Len(cs)+2 PROVE l[i] = r[i]
  BY <1>1
<1>3. l = r
  <2>1. l = [i \in 1..Len(cs)+2 |-> l[i]] /\ r = [i \in 1..Len(cs)+2 |-> r[i]]
    BY <1>1
  <2> HIDE DEF l, r
  <2> QED BY <1>2, <2>1
<1> QED BY <1>1, <1>3

LEMMA ReplacedByTwo ==
  ASSUME ListingInv, calls # <<>>, NEW f \in GoodFrames, NEW h \in GoodFrames,
         calls' = <<f, h>> \o Tail(calls), NEW rest \in Debts,
         Due(Tail(calls), rest)
  PROVE  /\ CallsOK' /\ Due(calls', With(f, With(h, rest)))
         /\ calls' \in Seq(Frames)
<1> DEFINE cs == <<h>> \o Tail(calls)
<1>1. f \in Frames /\ h \in Frames /\ Tail(calls) \in Seq(Frames)
  BY Innermost, GoodIsFrame
<1>2. Due(cs, With(h, rest)) /\ With(h, rest) \in Debts
  BY <1>1, DueOfCall
<1>3. cs \in Seq(Frames) /\ calls' = <<f>> \o cs
  BY <1>1, TwoInFront
<1>4. Due(calls', With(f, With(h, rest)))
  <2> HIDE DEF cs
  <2> QED BY <1>1, <1>2, <1>3, DueOfCall
<1>5. calls' \in Seq(GoodFrames) /\ calls' \in Seq(Frames)
  BY <1>1, Innermost, TwoInFront
<1> QED BY <1>4, <1>5 DEF CallsOK

LEMMA Owed ==
  ASSUME ListingInv, calls # <<>>
  PROVE  \E g, due : \E rest \in Debts :
           /\ Due(calls, due) /\ OpenedInAll(g) /\ Balance(g, due)
           /\ Due(Tail(calls), rest)
           /\ due = With(Frame, rest)
           /\ due \in Debts
<1>1. PICK g, due : Due(calls, due) /\ OpenedInAll(g) /\ Balance(g, due)
  BY DEF ListingInv, AddsUp
<1>2. calls \in Seq(Frames)
  BY GoodIsFrame DEF ListingInv, CallsOK
<1>3. /\ due \in Debts
      /\ \E rest \in Debts :
           Due(Tail(calls), rest) /\ due = With(Head(calls), rest)
  BY <1>1, <1>2, DueOfCaller
<1> QED BY <1>1, <1>3 DEF Frame

LEMMA StatKeepsListing == ListingInv /\ Stat => ListingInv'
<1> SUFFICES ASSUME ListingInv, Stat PROVE ListingInv'
  OBVIOUS
<1> DEFINE d == Frame.name
<1> PICK f : f = [Frame EXCEPT !.at = "print"]
  OBVIOUS
<1> PICK c : c = Call("opendir", d)
  OBVIOUS
<1>1. calls # <<>> /\ Frame.at = "stat" /\ UNCHANGED <<opened, failed, printed>>
  BY DEF Stat, Running, Frame
<1>2. Frame \in Frames /\ d \in Entries /\ Tail(calls) \in Seq(GoodFrames)
  BY <1>1, Innermost DEF Frames
<1>3. f \in GoodFrames /\ f \in Frames /\ f.at = "print" /\ f.name = d
  BY <1>2 DEF GoodFrames, Frames, CallOK
<1>4. PICK g, due : \E rest \in Debts :
           /\ Due(calls, due) /\ OpenedInAll(g) /\ Balance(g, due)
           /\ Due(Tail(calls), rest)
           /\ due = With(Frame, rest)
  BY <1>1, Owed
<1>5. PICK rest \in Debts : Due(Tail(calls), rest) /\ due = With(Frame, rest)
  BY <1>4
<1>6. \A k \in Keys : Debt(Frame, k) = Ways(d, k[1])
  BY <1>1 DEF Debt
<1>7. CASE d \in Dirs
  <2>1. c \in GoodFrames /\ c \in Frames
    BY <1>2, <1>7, TreeAssumption DEF Call, GoodFrames, Frames, CallOK
  <2>2. calls' = <<c>> \o (<<f>> \o Tail(calls))
    BY <1>7 DEF Stat, GoesOn
  <2>3. calls' = <<c, f>> \o Tail(calls)
    <3>1. \A x, y \in GoodFrames : \A cs \in Seq(GoodFrames) :
             <<x, y>> \o cs = <<x>> \o (<<y>> \o cs)
      BY TwoInFront
    <3>2. <<c, f>> \o Tail(calls) = <<c>> \o (<<f>> \o Tail(calls))
      BY <1>2, <1>3, <2>1, <3>1, Zenon
    <3> QED BY <2>2, <3>2
  <2>4. /\ CallsOK' /\ Due(calls', With(c, With(f, rest)))
        /\ calls' \in Seq(Frames)
    <3> QED BY <1>1, <1>3, <1>5, <2>1, <2>3, ReplacedByTwo
  <2>5. ASSUME NEW k \in Keys PROVE With(c, With(f, rest))[k] = due[k]
    <3>1. Ways(d, k[1]) = Debt(c, k) + Debt(f, k)
      BY <1>2, <1>3, <1>7, DebtOfDir
    <3>2. Debt(c, k) \in Nat /\ Debt(f, k) \in Nat /\ rest[k] \in Nat
      BY <1>3, <2>1, DebtType DEF Debts
    <3> QED BY <1>5, <1>6, <3>1, <3>2 DEF With
  <2>6. AddsUp'
    <3> QED BY <1>1, <1>4, <2>4, <2>5, OwedStays
  <2>7. DirTypeOK'
    BY <1>1, <2>4 DEF ListingInv, DirTypeOK, Frames
  <2> QED BY <2>4, <2>6, <2>7 DEF ListingInv
<1>8. CASE d \notin Dirs
  <2>1. calls' = <<f>> \o Tail(calls)
    BY <1>8 DEF Stat, GoesOn
  <2>2. CallsOK' /\ Due(calls', With(f, rest)) /\ calls' \in Seq(Frames)
    <3> QED BY <1>1, <1>3, <1>5, <2>1, ReplacedByOne
  <2>3. ASSUME NEW k \in Keys PROVE With(f, rest)[k] = due[k]
    <3>1. Ways(d, k[1]) = Debt(f, k)
      BY <1>2, <1>3, <1>8, DebtOfDir
    <3> QED BY <1>5, <1>6, <3>1 DEF With
  <2>4. AddsUp'
    <3> QED BY <1>1, <1>4, <2>2, <2>3, OwedStays
  <2>5. DirTypeOK'
    BY <1>1, <2>2 DEF ListingInv, DirTypeOK, Frames
  <2> QED BY <2>2, <2>4, <2>5 DEF ListingInv
<1> QED BY <1>7, <1>8

LEMMA PrintKeepsListing == ListingInv /\ PrintEntry => ListingInv'
<1> SUFFICES ASSUME ListingInv, PrintEntry PROVE ListingInv'
  OBVIOUS
<1> DEFINE n == Frame.name
<1>1. /\ calls # <<>> /\ Frame.at = "print" /\ UNCHANGED <<opened, failed>>
      /\ calls' = Tail(calls) /\ printed' = [printed EXCEPT ![n] = @ + 1]
  BY DEF PrintEntry, Running, Frame, Returns
<1>2. /\ Frame \in Frames /\ n \in Entries
      /\ Tail(calls) \in Seq(GoodFrames) /\ Tail(calls) \in Seq(Frames)
  BY <1>1, Innermost DEF Frames
<1>3. PICK g, due : \E rest \in Debts :
           /\ Due(calls, due) /\ OpenedInAll(g) /\ Balance(g, due)
           /\ Due(Tail(calls), rest)
           /\ due = With(Frame, rest)
  BY <1>1, Owed
<1>4. PICK rest \in Debts : Due(Tail(calls), rest) /\ due = With(Frame, rest)
  BY <1>3
<1>5. ASSUME NEW k \in Keys
      PROVE  Paid(g, k)' + rest[k] = Paid(g, k) + due[k]
  <2>1. due[k] = (IF k = PrintOf(n) THEN 1 ELSE 0) + rest[k] /\ rest[k] \in Nat
    BY <1>1, <1>4 DEF With, Debt, Debts
  <2>2. printed \in [Entries -> Nat] /\ g \in [Dirs -> Nat]
    BY <1>3 DEF ListingInv, DirTypeOK, OpenedInAll
  <2>3. Paid(g, k) \in Nat
    BY <2>2, PaidType
  <2>4. Paid(g, k)' = Paid(g, k) + (IF k = PrintOf(n) THEN 1 ELSE 0)
    BY <1>1, <1>2, <2>2, <2>3 DEF Paid, Keys, PrintOf
  <2> QED BY <2>1, <2>3, <2>4
<1>6. Balance(g, rest)'
  BY <1>1, <1>3, <1>5 DEF Balance
<1>7. OpenedInAll(g)'
  BY <1>1, <1>3 DEF OpenedInAll
<1>8. AddsUp'
  BY <1>1, <1>4, <1>6, <1>7 DEF AddsUp
<1>9. DirTypeOK'
  BY <1>1, <1>2 DEF ListingInv, DirTypeOK, Frames
<1> QED BY <1>1, <1>2, <1>8, <1>9 DEF ListingInv, CallsOK

LEMMA OpenedOnceMore ==
  ASSUME NEW g, OpenedInAll(g), NEW d \in Dirs, opened' = opened + 1,
         NEW h \in [Dirs -> Nat], OneTermGrows(g, h, Dirs, d, 1)
  PROVE  OpenedInAll(h)'
<1>1. g \in [Dirs -> Nat] /\ IsFiniteSet(Dirs) /\ 1 \in Nat
  BY DirsFinite DEF OpenedInAll
<1>2. PICK F : Sums(F, g, SUBSET Dirs) /\ opened = F[Dirs]
  BY DEF OpenedInAll
<1>3. PICK G \in [SUBSET Dirs -> Nat] : Sums(G, h, SUBSET Dirs)
  BY <1>1, SumsExist
<1>4. G[Dirs] = F[Dirs] + 1
  BY <1>1, <1>2, <1>3, SumsDiffer
<1>5. opened' = G[Dirs]
  BY <1>2, <1>4
<1> QED BY <1>3, <1>5 DEF OpenedInAll

LEMMA OpenKeepsListing ==
  ASSUME ListingInv, OpenDir, calls' # Tail(calls) \/ opened' # opened
  PROVE  ListingInv'
<1> PICK d : d = Frame.name
  OBVIOUS
<1> PICK h : h = [Frame EXCEPT !.at = "next", !.rest = Inside(d)]
  OBVIOUS
<1>1. /\ calls # <<>> /\ Frame.at = "opendir" /\ UNCHANGED <<failed, printed>>
      /\ opened' = opened + 1 /\ calls' = <<h>> \o Tail(calls)
  BY DEF OpenDir, Running, Frame, Returns
<1>2. /\ Frame \in Frames /\ d \in Entries /\ d \in Dirs
      /\ Tail(calls) \in Seq(GoodFrames)
  BY <1>1, Innermost DEF Frames, GoodFrames, CallOK
<1>3. /\ h \in GoodFrames /\ h.at = "next" /\ h.name = d
      /\ h.rest = Inside(d)
  BY <1>2 DEF GoodFrames, Frames, CallOK, Inside
<1>4. PICK g, due : \E rest \in Debts :
           /\ Due(calls, due) /\ OpenedInAll(g) /\ Balance(g, due)
           /\ Due(Tail(calls), rest)
           /\ due = With(Frame, rest)
  BY <1>1, Owed
<1>5. PICK rest \in Debts : Due(Tail(calls), rest) /\ due = With(Frame, rest)
  BY <1>4
<1>6. CallsOK' /\ Due(calls', With(h, rest)) /\ calls' \in Seq(Frames)
  <2> QED BY <1>1, <1>3, <1>5, ReplacedByOne
<1> PICK g2 : g2 = [g EXCEPT ![d] = g[d] + 1]
  OBVIOUS
<1>7. /\ g \in [Dirs -> Nat] /\ g2 \in [Dirs -> Nat]
      /\ OneTermGrows(g, g2, Dirs, d, 1)
  BY <1>2, <1>4 DEF OpenedInAll, OneTermGrows
<1>8. ASSUME NEW k \in Keys
      PROVE  Paid(g2, k)' + With(h, rest)[k] = Paid(g, k) + due[k]
  <2>1. Debt(Frame, k) = Debt(h, k) + (IF k = OpenOf(d) THEN 1 ELSE 0)
    <3> QED BY <1>1, <1>2, <1>3, DebtOpened
  <2>2. Debt(h, k) \in Nat /\ rest[k] \in Nat
    <3> QED BY <1>3, DebtType, GoodIsFrame DEF Debts
  <2>3. printed \in [Entries -> Nat] /\ Paid(g, k) \in Nat
    BY <1>7, PaidType DEF ListingInv, DirTypeOK
  <2>4. Paid(g2, k)' = Paid(g, k) + (IF k = OpenOf(d) THEN 1 ELSE 0)
    BY <1>1, <1>2, <1>7, <2>3 DEF Paid, Keys, OpenOf
  <2>5. due[k] = Debt(Frame, k) + rest[k]
    BY <1>5 DEF With
  <2> QED BY <2>1, <2>2, <2>3, <2>4, <2>5 DEF With
<1>9. Balance(g2, With(h, rest))'
  BY <1>1, <1>4, <1>8 DEF Balance
<1>10. OpenedInAll(g2)'
  BY <1>1, <1>2, <1>4, <1>7, OpenedOnceMore
<1>11. AddsUp'
  <2> QED BY <1>6, <1>9, <1>10 DEF AddsUp
<1>12. DirTypeOK'
  BY <1>1, <1>6 DEF ListingInv, DirTypeOK, Frames
<1> QED BY <1>6, <1>11, <1>12 DEF ListingInv

\* An opendir that fails: what the call owed is never paid.
LEMMA FailKeepsListing ==
  ASSUME ListingInv, OpenDir, ~(calls' # Tail(calls) \/ opened' # opened)
  PROVE  ListingInv'
<1>1. /\ calls # <<>> /\ UNCHANGED <<opened, printed>> /\ calls' = Tail(calls)
      /\ failed' = TRUE /\ opened \in Nat
  <2>1. opened \in Nat
    BY DEF ListingInv, DirTypeOK
  <2>2. opened # opened + 1
    BY <2>1
  <2> QED BY <2>1, <2>2 DEF OpenDir, Running
<1>2. /\ Frame \in Frames
      /\ Tail(calls) \in Seq(GoodFrames) /\ Tail(calls) \in Seq(Frames)
  BY <1>1, Innermost
<1>3. PICK g, due : \E rest \in Debts :
           /\ Due(calls, due) /\ OpenedInAll(g) /\ Balance(g, due)
           /\ Due(Tail(calls), rest)
           /\ due = With(Frame, rest)
  BY <1>1, Owed
<1>4. PICK rest \in Debts : Due(Tail(calls), rest) /\ due = With(Frame, rest)
  BY <1>3
<1>5. ASSUME NEW k \in Keys
      PROVE  Paid(g, k)' + rest[k] <= Times(k[1])
  <2>1. Paid(g, k)' = Paid(g, k)
    BY <1>1 DEF Paid
  <2>2. Paid(g, k) \in Nat
    BY <1>3, PaidType DEF ListingInv, DirTypeOK, OpenedInAll
  <2>3. rest[k] \in Nat /\ Debt(Frame, k) \in Nat
    BY <1>2, DebtType DEF Debts
  <2>4. Paid(g, k) + (Debt(Frame, k) + rest[k]) <= Times(k[1])
    BY <1>3, <1>4 DEF Balance, With
  <2>5. Times(k[1]) \in Nat
    BY WaysFromTop, WaysType, KeyEntry
  <2> QED BY <2>1, <2>2, <2>3, <2>4, <2>5
<1>6. Balance(g, rest)'
  BY <1>1, <1>5 DEF Balance
<1>7. OpenedInAll(g)'
  BY <1>1, <1>3 DEF OpenedInAll
<1>8. AddsUp'
  BY <1>1, <1>4, <1>6, <1>7 DEF AddsUp
<1>9. DirTypeOK'
  BY <1>1, <1>2 DEF ListingInv, DirTypeOK, Frames
<1> QED BY <1>1, <1>2, <1>8, <1>9 DEF ListingInv, CallsOK

LEMMA NextKeepsListing == ListingInv /\ NextEntry => ListingInv'
<1> SUFFICES ASSUME ListingInv, NextEntry PROVE ListingInv'
  OBVIOUS
<1>1. /\ calls # <<>> /\ Frame.at = "next"
      /\ UNCHANGED <<opened, failed, printed>>
  BY DEF NextEntry, Running, Frame
<1>2. PICK e \in Frame.rest :
        calls' = <<Call("stat", e),
                   [Frame EXCEPT !.at = "again", !.rest = @ \ {e},
                                 !.entry = e]>> \o Tail(calls)
  BY DEF NextEntry, AfterEntry
<1> PICK d : d = Frame.name
  OBVIOUS
<1> PICK h : h = [Frame EXCEPT !.at = "again", !.rest = Frame.rest \ {e},
                               !.entry = e]
  OBVIOUS
<1> PICK c : c = Call("stat", e)
  OBVIOUS
<1>3. /\ Frame \in Frames /\ Frame \in GoodFrames /\ d \in Entries
      /\ Frame.name = d /\ e \in Entries
      /\ Frame.rest \subseteq Inside(d)
  BY <1>1, Innermost DEF Frames, GoodFrames, CallOK
<1>4. /\ h \in GoodFrames /\ h.at = "again" /\ h.name = d
      /\ h.rest = Frame.rest \ {e} /\ h.entry = e
  BY <1>1, <1>3 DEF GoodFrames, Frames, CallOK, Inside
<1>5. c \in GoodFrames
  BY <1>3 DEF Call, GoodFrames, Frames, CallOK
<1>6. calls' = <<c, h>> \o Tail(calls)
  BY <1>2
<1>7. PICK g, due : \E rest \in Debts :
           /\ Due(calls, due) /\ OpenedInAll(g) /\ Balance(g, due)
           /\ Due(Tail(calls), rest)
           /\ due = With(Frame, rest)
  BY <1>1, Owed
<1>8. PICK rest \in Debts : Due(Tail(calls), rest) /\ due = With(Frame, rest)
  BY <1>7
<1>9. CallsOK' /\ Due(calls', With(c, With(h, rest))) /\ calls' \in Seq(Frames)
  BY <1>1, <1>4, <1>5, <1>6, <1>8, ReplacedByTwo
<1>10. ASSUME NEW k \in Keys PROVE With(c, With(h, rest))[k] = due[k]
  <2>1. Debt(Frame, k) = Debt(Call("stat", e), k) + Debt(h, k)
    <3>1. TakesEntry(Frame, e, h)
      BY <1>1, <1>3, <1>4 DEF TakesEntry
    <3> QED BY <1>3, <3>1, DebtOfEntry
  <2>2. Debt(c, k) \in Nat /\ Debt(h, k) \in Nat /\ rest[k] \in Nat
    BY <1>4, <1>5, DebtType, GoodIsFrame DEF Debts
  <2>3. Debt(Frame, k) = Debt(c, k) + Debt(h, k)
    BY <2>1
  <2> QED BY <1>8, <2>2, <2>3 DEF With
<1>11. AddsUp'
  BY <1>1, <1>7, <1>9, <1>10, OwedStays
<1>12. DirTypeOK'
  BY <1>1, <1>9 DEF ListingInv, DirTypeOK, Frames
<1> QED BY <1>9, <1>11, <1>12 DEF ListingInv

LEMMA FuncKeepsListing == ListingInv /\ CallFunc => ListingInv'
<1> SUFFICES ASSUME ListingInv, CallFunc PROVE ListingInv'
  OBVIOUS
<1> PICK h : h = [Frame EXCEPT !.at = "next"]
  OBVIOUS
<1> PICK c : c = Call("stat", Frame.entry)
  OBVIOUS
<1>1. /\ calls # <<>> /\ Frame.at = "again"
      /\ UNCHANGED <<opened, failed, printed>>
      /\ calls' = <<c>> \o (<<h>> \o Tail(calls))
  BY DEF CallFunc, Running, Frame, GoesOn
<1>2. /\ Frame \in Frames /\ Frame \in GoodFrames /\ Frame.entry \in Entries
      /\ Tail(calls) \in Seq(GoodFrames)
  BY <1>1, Innermost DEF Frames
<1>3. /\ h \in GoodFrames /\ h.at = "next" /\ h.name = Frame.name
      /\ h.rest = Frame.rest
  BY <1>1, <1>2 DEF GoodFrames, Frames, CallOK
<1>4. c \in GoodFrames /\ c.at = "stat" /\ c.name = Frame.entry
  BY <1>2 DEF Call, GoodFrames, Frames, CallOK
<1>5. calls' = <<c, h>> \o Tail(calls)
  <2>1. \A x, y \in GoodFrames : \A cs \in Seq(GoodFrames) :
          <<x, y>> \o cs = <<x>> \o (<<y>> \o cs)
    BY TwoInFront
  <2>2. <<c, h>> \o Tail(calls) = <<c>> \o (<<h>> \o Tail(calls))
    BY <1>2, <1>3, <1>4, <2>1, Zenon
  <2> QED BY <1>1, <2>2
<1>6. PICK g, due : \E rest \in Debts :
           /\ Due(calls, due) /\ OpenedInAll(g) /\ Balance(g, due)
           /\ Due(Tail(calls), rest)
           /\ due = With(Frame, rest)
  BY <1>1, Owed
<1>7. PICK rest \in Debts : Due(Tail(calls), rest) /\ due = With(Frame, rest)
  BY <1>6
<1>8. CallsOK' /\ Due(calls', With(c, With(h, rest))) /\ calls' \in Seq(Frames)
  BY <1>1, <1>3, <1>4, <1>5, <1>7, ReplacedByTwo
<1>9. ASSUME NEW k \in Keys PROVE With(c, With(h, rest))[k] = due[k]
  <2>1. /\ Debt(Frame, k) = Rest(Frame, k[1]) + Ways(Frame.entry, k[1])
        /\ Debt(c, k) = Ways(Frame.entry, k[1])
        /\ Debt(h, k) = Rest(h, k[1])
    BY <1>1, <1>3, <1>4 DEF Debt
  <2>2. Rest(h, k[1]) = Rest(Frame, k[1])
    BY <1>3 DEF Rest
  <2>3. Debt(c, k) \in Nat /\ Debt(h, k) \in Nat /\ rest[k] \in Nat
    BY <1>3, <1>4, DebtType, GoodIsFrame DEF Debts
  <2> QED BY <1>7, <2>1, <2>2, <2>3 DEF With
<1>10. AddsUp'
  BY <1>1, <1>6, <1>8, <1>9, OwedStays
<1>11. DirTypeOK'
  BY <1>1, <1>8 DEF ListingInv, DirTypeOK, Frames
<1> QED BY <1>8, <1>10, <1>11 DEF ListingInv

LEMMA EndKeepsListing == ListingInv /\ NoMoreEntries => ListingInv'
<1> SUFFICES ASSUME ListingInv, NoMoreEntries PROVE ListingInv'
  OBVIOUS
<1>1. /\ calls # <<>> /\ Frame.at = "next" /\ Frame.rest = {}
      /\ UNCHANGED <<opened, failed, printed>> /\ calls' = Tail(calls)
  BY DEF NoMoreEntries, Running, Frame, Returns
<1>2. Tail(calls) \in Seq(GoodFrames) /\ Tail(calls) \in Seq(Frames)
  BY <1>1, Innermost
<1>3. PICK g, due : \E rest \in Debts :
           /\ Due(calls, due) /\ OpenedInAll(g) /\ Balance(g, due)
           /\ Due(Tail(calls), rest)
           /\ due = With(Frame, rest)
  BY <1>1, Owed
<1>4. PICK rest \in Debts : Due(Tail(calls), rest) /\ due = With(Frame, rest)
  BY <1>3
<1>5. ASSUME NEW k \in Keys PROVE rest[k] = due[k]
  <2>1. Debt(Frame, k) = 0
    BY <1>1 DEF Debt, Rest
  <2>2. rest[k] \in Nat
    BY DEF Debts
  <2> QED BY <1>4, <2>1, <2>2 DEF With
<1>6. AddsUp'
  BY <1>1, <1>3, <1>4, <1>5, OwedStays
<1>7. DirTypeOK'
  BY <1>1, <1>2 DEF ListingInv, DirTypeOK, Frames
<1> QED BY <1>1, <1>2, <1>6, <1>7 DEF ListingInv, CallsOK

LEMMA StutterKeepsListing == ListingInv /\ UNCHANGED dirVars => ListingInv'
<1> SUFFICES ASSUME ListingInv, UNCHANGED dirVars PROVE ListingInv'
  OBVIOUS
<1>1. UNCHANGED <<calls, opened, failed, printed>>
  BY DEF dirVars
<1>2. PICK g, due : Due(calls, due) /\ OpenedInAll(g) /\ Balance(g, due)
  BY DEF ListingInv, AddsUp
<1>3. Due(calls', due)
  BY <1>1, <1>2
<1>4. AddsUp'
  BY <1>1, <1>2, <1>3, OwedStays
<1>5. DirTypeOK' /\ CallsOK'
  BY <1>1 DEF ListingInv, DirTypeOK, CallsOK
<1> QED BY <1>4, <1>5 DEF ListingInv

LEMMA SpecListingInv == DirSpec => []ListingInv
<1>1. ListingInv /\ DirNext => ListingInv'
  BY StatKeepsListing, PrintKeepsListing, OpenKeepsListing, FailKeepsListing,
     NextKeepsListing, FuncKeepsListing, EndKeepsListing DEF DirNext
<1>2. ListingInv /\ [DirNext]_dirVars => ListingInv'
  BY <1>1, StutterKeepsListing
<1> QED BY InitListing, <1>2, PTL DEF DirSpec

-----------------------------------------------------------------------------
(* The end of the listing. *)

\* EachLevelDoubles counts with MapThenSumSet.
LEMMA TimesSum ==
  ASSUME NEW g \in [Dirs -> Nat], \A d \in Dirs : g[d] = Times(d)
  PROVE  \E F : Sums(F, g, SUBSET Dirs) /\ MapThenSumSet(Times, Dirs) = F[Dirs]
<1> DEFINE Is(H) ==
      H = [s \in SUBSET Dirs |->
             IF s = {} THEN 0 ELSE Times(Some(s)) + H[s \ {Some(s)}]]
           F == CHOOSE H : Is(H)
<1>1. \A s \in SUBSET Dirs : s # {} => g[Some(s)] = Times(Some(s))
  BY DEF Some
<1>2. ASSUME NEW H PROVE Is(H) <=> Sums(H, g, SUBSET Dirs)
  BY <1>1 DEF Sums
<1>3. \E H : Is(H)
  <2> HIDE DEF Is
  <2> QED BY <1>2, SumsExist, DirsFinite
<1>4. Is(F)
  BY <1>3
<1>5. Sums(F, g, SUBSET Dirs)
  <2> HIDE DEF Is, F
  <2> QED BY <1>2, <1>4
<1>6. MapThenSumSet(Times, Dirs) = F[Dirs]
  BY DEF MapThenSumSet, MapThenFoldSet, Some
<1> HIDE DEF F
<1> QED BY <1>5, <1>6

\* myls.cpp 23-43, 59-64: whatever the tree is, and in whatever order readdir
\* gives its entries, one k levels below the top is printed 2^k times, a stream
\* is left open for each time a directory was gone through, and nothing is
\* printed more often for an opendir that fails.
THEOREM EveryLevelDoubles == DirSpec => []EachLevelDoubles
<1>1. ListingInv => EachLevelDoubles
  <2> SUFFICES ASSUME ListingInv, calls = <<>>
               PROVE  /\ \A e \in Entries : printed[e] <= Times(e)
                      /\ ~failed =>
                           /\ \A e \in Entries : printed[e] = Times(e)
                           /\ opened = MapThenSumSet(Times, Dirs)
    BY DEF EachLevelDoubles, ListingInv
  <2>1. PICK g, due : Due(calls, due) /\ OpenedInAll(g) /\ Balance(g, due)
    BY DEF ListingInv, AddsUp
  <2>2. \A k \in Keys : due[k] = 0
    BY <2>1, DueOfNone
  <2>3. printed \in [Entries -> Nat] /\ g \in [Dirs -> Nat]
    BY <2>1 DEF ListingInv, DirTypeOK, OpenedInAll
  <2>4. ASSUME NEW e \in Entries
        PROVE  /\ printed[e] <= Times(e)
               /\ ~failed => printed[e] = Times(e)
    <3>1. PrintOf(e) \in Keys /\ Paid(g, PrintOf(e)) = printed[e]
      BY DEF Keys, PrintOf, Paid
    <3>2. PrintOf(e)[1] = e /\ due[PrintOf(e)] = 0 /\ printed[e] \in Nat
      BY <2>2, <2>3, <3>1 DEF PrintOf
    <3> QED BY <2>1, <3>1, <3>2 DEF Balance
  <2>5. ASSUME ~failed, NEW d \in Dirs PROVE g[d] = Times(d)
    <3>1. OpenOf(d) \in Keys /\ Paid(g, OpenOf(d)) = g[d]
      BY DEF Keys, OpenOf, Paid
    <3>2. OpenOf(d)[1] = d /\ due[OpenOf(d)] = 0 /\ g[d] \in Nat
      BY <2>2, <2>3, <3>1 DEF OpenOf
    <3> QED BY <2>1, <2>5, <3>1, <3>2 DEF Balance
  <2>6. ASSUME ~failed PROVE opened = MapThenSumSet(Times, Dirs)
    <3>1. PICK F : Sums(F, g, SUBSET Dirs) /\ opened = F[Dirs]
      BY <2>1 DEF OpenedInAll
    <3>2. \A d \in Dirs : g[d] = Times(d)
      BY <2>5, <2>6
    <3>3. PICK G : /\ Sums(G, g, SUBSET Dirs)
                   /\ MapThenSumSet(Times, Dirs) = G[Dirs]
      BY <2>3, <3>2, TimesSum
    <3>4. F[Dirs] = G[Dirs]
      BY <2>3, <3>1, <3>3, DirsFinite, SumIsOne
    <3> QED BY <3>1, <3>3, <3>4
  <2> QED BY <2>4, <2>6
<1> QED BY <1>1, SpecListingInv, PTL
=============================================================================
