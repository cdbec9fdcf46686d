------------------------- MODULE SubsetRouterProofs -------------------------
(***************************************************************************)
(* Proofs about the subset router, for any tags, destinations and number   *)
(* of bindings.  The trie keeps each binding at the node its sorted tags   *)
(* spell; a search has found what the nodes keep that it has visited, and  *)
(* has left to visit the nodes below the items of its search space, each   *)
(* below one of them only.                                                 *)
(***************************************************************************)
EXTENDS SubsetRouter, FiniteSetTheorems, WellFoundedInduction, TLAPS

USE SubsetRouterAssumption

-----------------------------------------------------------------------------
(* Sorting.                                                                *)

\* A set of numbers that is not empty has a least one.
LEMMA LeastExists ==
  ASSUME NEW S \in SUBSET Nat, S # {}
  PROVE  \E m \in S : \A n \in S : m <= n
<1>1. \E m \in S : \A n \in S : ~ (<<n, m>> \in OpToRel(<, Nat))
  BY WFMin, NatLessThanWellFounded
<1>2. \A m, n \in S : <<n, m>> \in OpToRel(<, Nat) <=> n < m
  BY DEF OpToRel
<1>3. \E m \in S : \A n \in S : ~ (n < m)
  BY <1>1, <1>2, Zenon
<1> QED BY <1>3

\* f lists the numbers in S from the least to the greatest.
Lists(f, S) ==
  /\ f \in [1..Cardinality(S) -> S]
  /\ \A i, j \in 1..Cardinality(S) : i < j => f[i] < f[j]

\* Every finite set of numbers can be listed: a smallest one that could not would
\* still not be when its least number is taken from it.
LEMMA ListExists ==
  ASSUME NEW S \in SUBSET Nat, IsFiniteSet(S)
  PROVE  \E f : Lists(f, S)
<1> DEFINE Unlisted == {T \in SUBSET S : ~ \E f : Lists(f, T)}
<1> SUFFICES ASSUME S \in Unlisted PROVE FALSE
  OBVIOUS
<1>1. PICK T \in Unlisted :
        \A U \in Unlisted : ~(<<U, T>> \in StrictSubsetOrdering(S))
  <2>1. IsWellFoundedOn(StrictSubsetOrdering(S), FiniteSubsetsOf(S))
    BY FS_StrictSubsetOrderingWellFounded
  <2>2. FiniteSubsetsOf(S) = SUBSET S
    BY FS_FiniteSubsetsOfFinite
  <2>3. Unlisted # {} /\ Unlisted \subseteq SUBSET S
    OBVIOUS
  <2> HIDE DEF Unlisted
  <2>4. IsWellFoundedOn(StrictSubsetOrdering(S), SUBSET S)
    BY <2>1, <2>2
  <2> QED BY <2>3, <2>4, WFMin
<1>2. T \in SUBSET S /\ T \in SUBSET Nat /\ IsFiniteSet(T)
  BY FS_Subset
<1>3. T # {}
  <2> SUFFICES ASSUME T = {} PROVE \E f : Lists(f, T)
    OBVIOUS
  <2>1. Cardinality(T) = 0
    BY FS_EmptySet
  <2>2. Lists([i \in 1..0 |-> i], T)
    BY <2>1 DEF Lists
  <2> QED BY <2>2
<1>4. PICK m \in T : \A n \in T : m <= n
  BY <1>2, <1>3, LeastExists
<1> DEFINE U == T \ {m}
<1>5. IsFiniteSet(U) /\ Cardinality(T) \in Nat /\ Cardinality(U) = Cardinality(T) - 1
  BY <1>2, FS_RemoveElement, FS_CardinalityType
<1>6. Cardinality(U) \in Nat
  BY <1>5, FS_CardinalityType
<1>7. PICK g : Lists(g, U)
  <2>1. U \in SUBSET S /\ U \subseteq T /\ U # T
    BY <1>2
  <2>2. <<U, T>> \in StrictSubsetOrdering(S)
    BY <1>2, <2>1 DEF StrictSubsetOrdering
  <2>3. U \notin Unlisted
    BY <1>1, <2>2, Zenon
  <2> QED BY <2>1, <2>3
<1> DEFINE f == [i \in 1..Cardinality(T) |-> IF i = 1 THEN m ELSE g[i - 1]]
<1>8. Lists(f, T)
  <2>1. ASSUME NEW i \in 1..Cardinality(T), i # 1
        PROVE  i - 1 \in 1..Cardinality(U) /\ g[i - 1] \in U
    <3>1. i - 1 \in 1..Cardinality(U)
      BY <1>5, <1>6, <2>1
    <3> HIDE DEF U
    <3> QED BY <1>7, <3>1 DEF Lists
  <2>2. f \in [1..Cardinality(T) -> T]
    BY <2>1
  <2>3. ASSUME NEW i \in 1..Cardinality(T), NEW j \in 1..Cardinality(T), i < j
        PROVE  f[i] < f[j]
    <3>1. j # 1 /\ f[j] = g[j - 1] /\ f[j] \in U
      BY <1>5, <2>1, <2>3
    <3>2. CASE i = 1
      <4>1. f[i] = m /\ f[j] \in T /\ f[j] # m
        BY <2>3, <3>1, <3>2
      <4>2. m \in Nat /\ f[j] \in Nat /\ m <= f[j]
        BY <1>2, <1>4, <4>1
      <4> QED BY <4>1, <4>2
    <3>3. CASE i # 1
      <4>1. i - 1 \in 1..Cardinality(U) /\ j - 1 \in 1..Cardinality(U) /\ i - 1 < j - 1
        BY <1>5, <2>1, <2>3, <3>1, <3>3
      <4>2. g[i - 1] < g[j - 1]
        BY <1>7, <4>1 DEF Lists
      <4> QED BY <3>1, <3>3, <4>2
    <3> QED BY <3>2, <3>3
  <2> HIDE DEF f
  <2> QED BY <2>2, <2>3 DEF Lists
<1> QED BY <1>8

\* What Ascending gives: every number of the set, once, in order.
LEMMA AscendingLists ==
  ASSUME NEW S \in SUBSET Nat, IsFiniteSet(S)
  PROVE  /\ Cardinality(S) \in Nat
         /\ Ascending(S) \in [1..Cardinality(S) -> S]
         /\ \A i, j \in 1..Cardinality(S) : i < j => Ascending(S)[i] < Ascending(S)[j]
         /\ \A n \in S : \E i \in 1..Cardinality(S) : Ascending(S)[i] = n
<1> DEFINE n == Cardinality(S)
           asc == Ascending(S)
<1>1. n \in Nat
  BY FS_CardinalityType
<1>2. asc \in [1..n -> S] /\ \A i, j \in DOMAIN asc : i < j => asc[i] < asc[j]
  <2>1. PICK f : Lists(f, S)
    BY ListExists
  <2>2. f \in [1..n -> S] /\ \A i, j \in DOMAIN f : i < j => f[i] < f[j]
    BY <2>1 DEF Lists
  <2> QED BY <2>2 DEF Ascending
<1>3. DOMAIN asc = 1..n
  BY <1>2
<1> HIDE DEF asc
<1>4. \A k \in S : \E i \in 1..n : asc[i] = k
  <2>1. asc \in Injection(1..n, S)
    <3>1. ASSUME NEW i \in 1..n, NEW j \in 1..n, asc[i] = asc[j] PROVE i = j
      <4>1. asc[i] \in Nat /\ asc[j] \in Nat
        BY <1>2
      <4> QED BY <1>1, <1>2, <1>3, <3>1, <4>1
    <3>2. \A i, j \in 1..n : asc[i] = asc[j] => i = j
      BY <3>1
    <3> QED BY <1>2, <3>2 DEF Injection, IsInjective
  <2> DEFINE R == {asc[i] : i \in 1..n}
  <2>2. asc \in Bijection(1..n, R)
    BY <1>2, <2>1 DEF Injection, Surjection, Bijection
  <2>3. IsFiniteSet(1..n) /\ Cardinality(1..n) = n
    BY <1>1, FS_Interval
  <2>4. Cardinality(R) = n
    BY <2>2, <2>3, FS_Bijection DEF ExistsBijection
  <2>5. R \in SUBSET S
    BY <1>2
  <2>6. R = S
    BY <2>4, <2>5, FS_Subset
  <2> QED BY <2>6
<1> QED BY <1>1, <1>2, <1>3, <1>4 DEF asc

-----------------------------------------------------------------------------
(* Paths.                                                                  *)

Entries == TagKeys \X TagValues

\* The paths a trie may have: entries with keys that increase.
Paths == {p \in Seq(Entries) : \A i, j \in 1..Len(p) : i < j => p[i][1] < p[j][1]}

\* linearizeTags gives the entries of the map, each once and sorted by key.
LEMMA LinearizeSorts ==
  ASSUME NEW b \in Tags
  PROVE  /\ LinearizeTags(b) \in Paths
         /\ Len(LinearizeTags(b)) = Cardinality(DOMAIN b)
         /\ \A i \in 1..Len(LinearizeTags(b)) :
              \E k \in DOMAIN b : LinearizeTags(b)[i] = <<k, b[k]>>
         /\ \A k \in DOMAIN b :
              \E i \in 1..Len(LinearizeTags(b)) : LinearizeTags(b)[i] = <<k, b[k]>>
<1> DEFINE K   == DOMAIN b
           n   == Cardinality(K)
           asc == Ascending(K)
           lin == LinearizeTags(b)
<1>1. K \in SUBSET TagKeys /\ IsFiniteSet(K) /\ b \in [K -> TagValues]
  BY DEF Tags
<1>2. K \in SUBSET Nat
  BY <1>1
<1>3. /\ n \in Nat /\ asc \in [1..n -> K]
      /\ \A i, j \in 1..n : i < j => asc[i] < asc[j]
      /\ \A k \in K : \E i \in 1..n : asc[i] = k
  BY <1>1, <1>2, AscendingLists
<1>4. lin = [i \in 1..n |-> <<asc[i], b[asc[i]]>>]
  <2>1. DOMAIN asc = 1..n
    BY <1>3
  <2>2. lin = [i \in DOMAIN asc |-> <<asc[i], b[asc[i]]>>]
    BY Zenon DEF LinearizeTags
  <2> QED BY <2>1, <2>2, Zenon
<1> HIDE DEF asc, lin, n
<1>5. \A i \in 1..n : asc[i] \in K /\ lin[i] = <<asc[i], b[asc[i]]>> /\ lin[i] \in Entries
  BY <1>1, <1>3, <1>4 DEF Entries
<1>6. lin \in [1..n -> Entries]
  BY <1>4, <1>5
<1>7. lin \in Seq(Entries) /\ Len(lin) = n
  BY <1>3, <1>6
<1>8. \A i, j \in 1..n : i < j => lin[i][1] < lin[j][1]
  BY <1>3, <1>5
<1>9. lin \in Paths
  BY <1>7, <1>8 DEF Paths
<1>10. \A i \in 1..n : \E k \in K : lin[i] = <<k, b[k]>>
  BY <1>5
<1>11. \A k \in K : \E i \in 1..n : lin[i] = <<k, b[k]>>
  BY <1>3, <1>5
<1> QED BY <1>7, <1>9, <1>10, <1>11 DEF lin, n

\* The path of a map spells the map.
LEMMA SpelledBack ==
  ASSUME NEW b \in Tags
  PROVE  Spelled(LinearizeTags(b)) = b
<1> DEFINE lin == LinearizeTags(b)
           E   == {lin[i] : i \in DOMAIN lin}
<1>1. /\ \A i \in 1..Len(lin) : \E k \in DOMAIN b : lin[i] = <<k, b[k]>>
      /\ \A k \in DOMAIN b : \E i \in 1..Len(lin) : lin[i] = <<k, b[k]>>
      /\ lin \in Seq(Entries)
  BY LinearizeSorts DEF Paths
<1>2. DOMAIN lin = 1..Len(lin)
  BY <1>1
<1> HIDE DEF lin
<1>3. {lin[i][1] : i \in DOMAIN lin} = DOMAIN b
  <2>1. \A i \in 1..Len(lin) : lin[i][1] \in DOMAIN b
    BY <1>1
  <2>2. \A k \in DOMAIN b : \E i \in 1..Len(lin) : lin[i][1] = k
    BY <1>1
  <2> QED BY <1>2, <2>1, <2>2
<1>4. E = {<<k, b[k]>> : k \in DOMAIN b}
  <2>1. ASSUME NEW e \in E PROVE \E k \in DOMAIN b : e = <<k, b[k]>>
    <3>1. PICK i \in 1..Len(lin) : e = lin[i]
      BY <1>2, Zenon
    <3> QED BY <1>1, <3>1, Zenon
  <2>2. \A k \in DOMAIN b : <<k, b[k]>> \in E
    BY <1>1, <1>2
  <2> QED BY <2>1, <2>2
<1>5. \A k \in DOMAIN b : (CHOOSE e \in E : e[1] = k)[2] = b[k]
  <2> SUFFICES ASSUME NEW k \in DOMAIN b PROVE (CHOOSE e \in E : e[1] = k)[2] = b[k]
    OBVIOUS
  <2>1. <<k, b[k]>> \in E /\ <<k, b[k]>>[1] = k
    BY <1>4
  <2>2. \A e \in E : e[1] = k => e[2] = b[k]
    BY <1>4
  <2> HIDE DEF E
  <2> DEFINE c == CHOOSE e \in E : e[1] = k
  <2>3. c \in E /\ c[1] = k
    BY <2>1, Zenon
  <2> QED BY <2>2, <2>3
<1>6. Spelled(lin) = [k \in DOMAIN b |-> (CHOOSE e \in E : e[1] = k)[2]]
  BY <1>3, Zenon DEF Spelled
<1>7. b = [k \in DOMAIN b |-> b[k]]
  BY DEF Tags
<1> HIDE DEF E
<1> QED BY <1>5, <1>6, <1>7, Zenon DEF lin

-----------------------------------------------------------------------------
(* Counting.                                                               *)

\* How often d is in the sequence s.
Times(s, d) == Cardinality({i \in DOMAIN s : s[i] = d})

\* A destination is in two sequences put together as often as in both.
LEMMA TimesJoined ==
  ASSUME NEW D, NEW s \in Seq(D), NEW t \in Seq(D), NEW d
  PROVE  Times(s \o t, d) = Times(s, d) + Times(t, d)
<1> DEFINE m == Len(s)
           n == Len(t)
           A == {i \in DOMAIN s : s[i] = d}
           B == {i \in DOMAIN t : t[i] = d}
           C == {i \in DOMAIN (s \o t) : (s \o t)[i] = d}
           M == {i \in C : i > m}
<1>1. m \in Nat /\ n \in Nat /\ DOMAIN s = 1..m /\ DOMAIN t = 1..n
  OBVIOUS
<1>2. /\ DOMAIN (s \o t) = 1..(m + n)
      /\ \A i \in 1..m : (s \o t)[i] = s[i]
      /\ \A i \in 1..n : (s \o t)[m + i] = t[i]
  OBVIOUS
<1>3. IsFiniteSet(A) /\ IsFiniteSet(B)
  <2>1. IsFiniteSet(1..m) /\ IsFiniteSet(1..n)
    BY <1>1, FS_Interval
  <2>2. A \in SUBSET (1..m) /\ B \in SUBSET (1..n)
    BY <1>1
  <2> QED BY <2>1, <2>2, FS_Subset
<1>4. IsFiniteSet(M) /\ Cardinality(M) = Cardinality(B)
  <2> DEFINE g == [i \in B |-> m + i]
  <2>1. \A i \in B : m + i \in M
    BY <1>1, <1>2
  <2>2. \A i \in M : i - m \in B /\ i = m + (i - m)
    BY <1>1, <1>2
  <2>3. \A i, j \in B : g[i] = g[j] => i = j
    BY <1>1
  <2>4. g \in [B -> M]
    BY <2>1
  <2>5. \A i \in M : \E j \in B : g[j] = i
    BY <2>2
  <2> HIDE DEF g, B, M
  <2>6. g \in Bijection(B, M)
    BY <2>3, <2>4, <2>5 DEF Bijection, Injection, Surjection, IsInjective
  <2> QED BY <1>3, <2>6, FS_Bijection DEF ExistsBijection
<1>5. A \cup M = C /\ A \cap M = {}
  BY <1>1, <1>2
<1>6. Times(s \o t, d) = Cardinality(C) /\ Times(s, d) = Cardinality(A)
        /\ Times(t, d) = Cardinality(B)
  BY DEF Times
<1> HIDE DEF A, B, C, M
<1>7. Cardinality(A \cup M) = Cardinality(A) + Cardinality(M) - Cardinality(A \cap M)
  BY <1>3, <1>4, FS_Union
<1>8. Cardinality({}) = 0 /\ Cardinality(A) \in Nat /\ Cardinality(M) \in Nat
  BY <1>3, <1>4, FS_EmptySet, FS_CardinalityType
<1>9. Cardinality(C) = Cardinality(A) + Cardinality(M) - Cardinality({})
  BY <1>5, <1>7, Zenon
<1>10. Cardinality(C) = Cardinality(A) + Cardinality(M)
  BY <1>8, <1>9
<1> QED BY <1>4, <1>6, <1>10, Zenon

\* Nothing is in the empty sequence.
LEMMA TimesNone ==
  ASSUME NEW d
  PROVE  Times(<<>>, d) = 0
<1>1. {i \in DOMAIN <<>> : <<>>[i] = d} = {}
  OBVIOUS
<1> QED BY <1>1, FS_EmptySet DEF Times

\* s holds the destinations of the bindings J of B, each as often as it has one.
Holds(B, s, J) ==
  \A d \in Destinations : Times(s, d) = Cardinality({j \in J : B[j].dest = d})

\* Nothing holds no bindings.
LEMMA HoldsNone ==
  ASSUME NEW B
  PROVE  Holds(B, <<>>, {})
<1>1. ASSUME NEW d PROVE Times(<<>>, d) = Cardinality({j \in {} : B[j].dest = d})
  <2>1. {j \in {} : B[j].dest = d} = {}
    OBVIOUS
  <2>2. Cardinality({j \in {} : B[j].dest = d}) = 0
    BY <2>1, FS_EmptySet
  <2> QED BY <2>2, TimesNone
<1> QED BY <1>1 DEF Holds

\* One destination holds its one binding.
LEMMA HoldsOne ==
  ASSUME NEW B, NEW n
  PROVE  Holds(B, <<B[n].dest>>, {n})
<1> SUFFICES ASSUME NEW d
             PROVE  Times(<<B[n].dest>>, d) = Cardinality({j \in {n} : B[j].dest = d})
  BY DEF Holds
<1> DEFINE P == {i \in DOMAIN <<B[n].dest>> : <<B[n].dest>>[i] = d}
           Q == {j \in {n} : B[j].dest = d}
<1>1. CASE B[n].dest = d
  <2>1. P = {1} /\ Q = {n}
    BY <1>1
  <2>2. Cardinality({1}) = 1 /\ Cardinality({n}) = 1
    BY FS_Singleton
  <2> QED BY <2>1, <2>2 DEF Times
<1>2. CASE B[n].dest # d
  <2>1. P = {} /\ Q = {}
    BY <1>2
  <2> QED BY <2>1 DEF Times
<1> QED BY <1>1, <1>2

\* Sequences put together hold what each holds, when no binding is in both.
LEMMA HoldsJoined ==
  ASSUME NEW B, NEW s \in Seq(Destinations), NEW t \in Seq(Destinations),
         NEW J, NEW K, IsFiniteSet(J), IsFiniteSet(K), J \cap K = {},
         Holds(B, s, J), Holds(B, t, K)
  PROVE  Holds(B, s \o t, J \cup K)
<1> SUFFICES ASSUME NEW d \in Destinations
             PROVE  Times(s \o t, d) = Cardinality({j \in J \cup K : B[j].dest = d})
  BY DEF Holds
<1> DEFINE P == {j \in J : B[j].dest = d}
           Q == {j \in K : B[j].dest = d}
           R == {j \in J \cup K : B[j].dest = d}
<1>1. P \cup Q = R /\ P \cap Q = {}
  OBVIOUS
<1>2. P \in SUBSET J /\ Q \in SUBSET K
  OBVIOUS
<1>3. Times(s, d) = Cardinality(P) /\ Times(t, d) = Cardinality(Q)
  BY DEF Holds
<1> HIDE DEF P, Q, R
<1>4. IsFiniteSet(P) /\ IsFiniteSet(Q)
  BY <1>2, FS_Subset
<1>5. Cardinality(P \cup Q) = Cardinality(P) + Cardinality(Q) - Cardinality(P \cap Q)
  BY <1>4, FS_Union
<1>6. Cardinality({}) = 0 /\ Cardinality(P) \in Nat /\ Cardinality(Q) \in Nat
  BY <1>4, FS_EmptySet, FS_CardinalityType
<1>7. Cardinality(R) = Cardinality(P) + Cardinality(Q) - Cardinality({})
  BY <1>1, <1>5, Zenon
<1>8. Cardinality(R) = Cardinality(P) + Cardinality(Q)
  BY <1>6, <1>7
<1>9. Times(s \o t, d) = Times(s, d) + Times(t, d)
  BY TimesJoined
<1> QED BY <1>3, <1>8, <1>9, Zenon DEF R

\* Only the destinations of the bindings in J matter.
LEMMA HoldsStill ==
  ASSUME NEW B, NEW C, NEW s, NEW J, Holds(B, s, J), \A j \in J : C[j].dest = B[j].dest
  PROVE  Holds(C, s, J)
<1> SUFFICES ASSUME NEW d \in Destinations
             PROVE  Times(s, d) = Cardinality({j \in J : C[j].dest = d})
  BY DEF Holds
<1>1. {j \in J : C[j].dest = d} = {j \in J : B[j].dest = d}
  OBVIOUS
<1> QED BY <1>1 DEF Holds

-----------------------------------------------------------------------------
(* The trie.                                                               *)

\* The bindings of B that are kept at the node p.
Kept(B, p) == {j \in DOMAIN B : LinearizeTags(B[j].tags) = p}

Binding == [dest : Destinations, tags : Tags]

\* Every node has a path, and the nodes above it are there; every binding has a
\* node, and every node keeps the destinations of its bindings.
TrieOK ==
  /\ DOMAIN subscribers \subseteq Paths
  /\ <<>> \in DOMAIN subscribers
  /\ \A p \in DOMAIN subscribers : subscribers[p] \in Seq(Destinations)
  /\ \A p \in DOMAIN subscribers : \A n \in 0..Len(p) : SubSeq(p, 1, n) \in DOMAIN subscribers
  /\ bound \in Seq(Binding)
  /\ \A j \in DOMAIN bound : LinearizeTags(bound[j].tags) \in DOMAIN subscribers
  /\ \A p \in DOMAIN subscribers : Holds(bound, subscribers[p], Kept(bound, p))

\* The bindings are finite in number.
LEMMA BindingsFinite ==
  ASSUME NEW B \in Seq(Binding), NEW J \in SUBSET DOMAIN B
  PROVE  IsFiniteSet(J)
<1>1. DOMAIN B = 1..Len(B) /\ Len(B) \in Nat
  OBVIOUS
<1>2. IsFiniteSet(1..Len(B))
  BY <1>1, FS_Interval
<1> QED BY <1>1, <1>2, FS_Subset

\* The beginnings of a path are paths, and so are theirs.
LEMMA BeginningsArePaths ==
  ASSUME NEW p \in Paths, NEW n \in 0..Len(p)
  PROVE  /\ SubSeq(p, 1, n) \in Paths
         /\ Len(SubSeq(p, 1, n)) = n
         /\ \A m \in 0..n : SubSeq(SubSeq(p, 1, n), 1, m) = SubSeq(p, 1, m)
<1>1. p \in Seq(Entries) /\ Len(p) \in Nat
  BY DEF Paths
<1>2. /\ SubSeq(p, 1, n) \in Seq(Entries) /\ Len(SubSeq(p, 1, n)) = n
      /\ \A i \in 1..n : SubSeq(p, 1, n)[i] = p[i]
  BY <1>1
<1>3. SubSeq(p, 1, n) \in Paths
  <2> DEFINE q == SubSeq(p, 1, n)
  <2>1. \A i, j \in 1..Len(p) : i < j => p[i][1] < p[j][1]
    BY DEF Paths
  <2>2. q \in Seq(Entries) /\ Len(q) = n /\ \A i \in 1..n : i \in 1..Len(p) /\ q[i] = p[i]
    BY <1>1, <1>2
  <2> HIDE DEF q
  <2>3. \A i, j \in 1..Len(q) : i < j => q[i][1] < q[j][1]
    BY <2>1, <2>2
  <2>4. q \in Paths
    BY <2>2, <2>3 DEF Paths
  <2> QED BY <2>4 DEF q
<1>4. ASSUME NEW m \in 0..n
      PROVE  SubSeq(SubSeq(p, 1, n), 1, m) = SubSeq(p, 1, m)
  <2> DEFINE q == SubSeq(p, 1, n)
             u == SubSeq(q, 1, m)
             v == SubSeq(p, 1, m)
  <2>1. q \in Seq(Entries) /\ Len(q) = n /\ \A i \in 1..n : q[i] = p[i]
    BY <1>2
  <2> HIDE DEF q
  <2>2. u \in Seq(Entries) /\ Len(u) = m /\ \A i \in 1..m : u[i] = q[i]
    BY <2>1
  <2>3. v \in Seq(Entries) /\ Len(v) = m /\ \A i \in 1..m : v[i] = p[i]
    BY <1>1
  <2> HIDE DEF u, v
  <2>4. \A i \in 1..m : u[i] = v[i]
    BY <2>1, <2>2, <2>3
  <2>5. u = v
    BY <2>2, <2>3, <2>4
  <2> QED BY <2>5 DEF u, v, q
<1> QED BY <1>2, <1>3, <1>4

\* A binding that is added is kept at its node, and at no other.
LEMMA AddBindKeepsTrie ==
  ASSUME TrieOK, NEW dest \in Destinations, NEW b \in Tags, AddBind(dest, b)
  PROVE  TrieOK'
<1> DEFINE leaf   == LinearizeTags(b)
           known  == DOMAIN subscribers
           new    == Len(bound) + 1
           old(p) == IF p \in known THEN subscribers[p] ELSE <<>>
           ext(p) == IF p = leaf THEN <<dest>> ELSE <<>>
<1>1. leaf \in Paths /\ leaf \in Seq(Entries) /\ Len(leaf) = Cardinality(DOMAIN b)
        /\ Len(leaf) \in Nat
  BY LinearizeSorts DEF Paths
<1>2. Path(b) = {SubSeq(leaf, 1, n) : n \in 0..Len(leaf)}
  BY <1>1 DEF Path
<1>3. leaf \in Path(b)
  <2>1. SubSeq(leaf, 1, Len(leaf)) = leaf
    BY <1>1
  <2> HIDE DEF leaf
  <2> QED BY <1>1, <1>2, <2>1
<1>4. ASSUME NEW p \in Path(b)
      PROVE  p \in Paths /\ \A m \in 0..Len(p) : SubSeq(p, 1, m) \in Path(b)
  <2>1. PICK n \in 0..Len(leaf) : p = SubSeq(leaf, 1, n)
    BY <1>2
  <2> HIDE DEF leaf
  <2>2. p \in Paths /\ Len(p) = n /\ \A m \in 0..n : SubSeq(p, 1, m) = SubSeq(leaf, 1, m)
    BY <1>1, <2>1, BeginningsArePaths
  <2>3. \A m \in 0..n : m \in 0..Len(leaf)
    BY <1>1
  <2> QED BY <1>2, <2>2, <2>3
<1>5. /\ bound' = Append(bound, [dest |-> dest, tags |-> b])
      /\ subscribers' = [p \in known \cup Path(b) |-> old(p) \o ext(p)]
  BY DEF AddBind
<1>6. /\ bound \in Seq(Binding) /\ Len(bound) \in Nat /\ DOMAIN bound = 1..Len(bound)
      /\ bound' \in Seq(Binding) /\ DOMAIN bound' = 1..new
      /\ \A j \in 1..Len(bound) : bound'[j] = bound[j]
      /\ bound'[new] = [dest |-> dest, tags |-> b]
  <2>1. [dest |-> dest, tags |-> b] \in Binding
    BY DEF Binding
  <2> QED BY <1>5, <2>1 DEF TrieOK
<1>7. DOMAIN subscribers' = known \cup Path(b)
  BY <1>5
<1> HIDE DEF leaf, known, new
<1>8. /\ DOMAIN subscribers' \subseteq Paths
      /\ <<>> \in DOMAIN subscribers'
      /\ \A p \in DOMAIN subscribers' : \A n \in 0..Len(p) :
           SubSeq(p, 1, n) \in DOMAIN subscribers'
  BY <1>4, <1>7 DEF TrieOK, known
<1>9. \A j \in DOMAIN bound' : LinearizeTags(bound'[j].tags) \in DOMAIN subscribers'
  <2> SUFFICES ASSUME NEW j \in 1..new
               PROVE  LinearizeTags(bound'[j].tags) \in DOMAIN subscribers'
    BY <1>6
  <2>1. CASE j = new
    BY <1>3, <1>6, <1>7, <2>1 DEF leaf
  <2>2. CASE j # new
    <3>1. j \in 1..Len(bound)
      BY <1>6, <2>2 DEF new
    <3> QED BY <1>6, <1>7, <3>1 DEF TrieOK, known
  <2> QED BY <2>1, <2>2
<1>10. ASSUME NEW p \in DOMAIN subscribers'
       PROVE  /\ subscribers'[p] \in Seq(Destinations)
              /\ Holds(bound', subscribers'[p], Kept(bound', p))
  <2> DEFINE J == Kept(bound, p)
             K == IF p = leaf THEN {new} ELSE {}
  <2>1. subscribers'[p] = old(p) \o ext(p)
    BY <1>5, <1>7
  <2>2. old(p) \in Seq(Destinations) /\ Holds(bound, old(p), J)
    <3>1. CASE p \in known
      BY <3>1 DEF TrieOK, known
    <3>2. CASE p \notin known
      <4>1. J = {}
        BY <3>2 DEF TrieOK, known, Kept
      <4> QED BY <3>2, <4>1, HoldsNone
    <3> QED BY <3>1, <3>2
  <2>3. J \subseteq 1..Len(bound) /\ IsFiniteSet(J)
    BY <1>6, BindingsFinite DEF Kept
  <2>4. Holds(bound', old(p), J)
    <3> HIDE DEF J
    <3>1. \A j \in J : bound'[j].dest = bound[j].dest
      BY <1>6, <2>3
    <3> QED BY <2>2, <3>1, HoldsStill
  <2>5. ext(p) \in Seq(Destinations) /\ Holds(bound', ext(p), K) /\ IsFiniteSet(K)
    <3>1. CASE p = leaf
      <4>1. bound'[new].dest = dest
        BY <1>6
      <4>2. Holds(bound', <<bound'[new].dest>>, {new})
        BY HoldsOne
      <4>3. Holds(bound', <<dest>>, {new})
        BY <4>1, <4>2, Zenon
      <4> QED BY <3>1, <4>3, FS_Singleton
    <3>2. CASE p # leaf
      BY <3>2, HoldsNone, FS_EmptySet
    <3> QED BY <3>1, <3>2
  <2>6. Kept(bound', p) = J \cup K /\ J \cap K = {}
    <3>1. new \notin 1..Len(bound) /\ 1..new = 1..Len(bound) \cup {new}
      BY <1>6 DEF new
    <3>2. LinearizeTags(bound'[new].tags) = leaf
      BY <1>6 DEF leaf
    <3>3. \A j \in 1..Len(bound) :
            LinearizeTags(bound'[j].tags) = LinearizeTags(bound[j].tags)
      BY <1>6
    <3>4. J = {j \in 1..Len(bound) : LinearizeTags(bound'[j].tags) = p}
      BY <1>6, <3>3 DEF Kept
    <3>5. Kept(bound', p) = {j \in 1..new : LinearizeTags(bound'[j].tags) = p}
      BY <1>6 DEF Kept
    <3> QED BY <3>1, <3>2, <3>4, <3>5
  <2>7. Holds(bound', old(p) \o ext(p), J \cup K)
    <3> HIDE DEF J, K, old, ext
    <3> QED BY <2>2, <2>3, <2>4, <2>5, <2>6, HoldsJoined
  <2>8. old(p) \o ext(p) \in Seq(Destinations)
    <3> HIDE DEF old, ext
    <3> QED BY <2>2, <2>5
  <2> HIDE DEF old, ext, J, K
  <2> QED BY <2>1, <2>6, <2>7, <2>8
<1> QED BY <1>6, <1>8, <1>9, <1>10 DEF TrieOK

-----------------------------------------------------------------------------
(* The search.                                                             *)

\* The entries of a path.
Has(p) == {p[i] : i \in 1..Len(p)}

Items == [node : DOMAIN subscribers, check : Paths]

\* The nodes that an item of the search space leads to: its own, and those below
\* it whose further entries are among the tags left to match.
Covered(item) ==
  {q \in DOMAIN subscribers :
     /\ Len(item.node) <= Len(q)
     /\ \A i \in 1..Len(item.node) : q[i] = item.node[i]
     /\ \A i \in (Len(item.node) + 1)..Len(q) : q[i] \in Has(item.check)}

\* What is left after an entry of a path is a path, of the entries with greater keys.
LEMMA AfterIsPath ==
  ASSUME NEW p \in Paths, NEW i \in 1..Len(p)
  PROVE  /\ After(p, i) \in Paths
         /\ Has(After(p, i)) = {p[j] : j \in (i + 1)..Len(p)}
<1> DEFINE a == After(p, i)
<1>1. p \in Seq(Entries) /\ Len(p) \in Nat /\ \A m, n \in 1..Len(p) : m < n => p[m][1] < p[n][1]
  BY DEF Paths
<1>2. /\ a \in Seq(Entries) /\ Len(a) = Len(p) - i
      /\ \A m \in 1..(Len(p) - i) : a[m] = p[i + m]
  BY <1>1 DEF After
<1> HIDE DEF a
<1>3. \A m \in 1..(Len(p) - i) : i + m \in (i + 1)..Len(p) /\ i + m \in 1..Len(p)
  BY <1>1
<1>4. \A j \in (i + 1)..Len(p) : j - i \in 1..(Len(p) - i) /\ i + (j - i) = j
  BY <1>1
<1>5. a \in Paths
  <2>1. ASSUME NEW m \in 1..Len(a), NEW n \in 1..Len(a), m < n
        PROVE  a[m][1] < a[n][1]
    <3>1. i + m < i + n /\ i + m \in 1..Len(p) /\ i + n \in 1..Len(p)
      BY <1>1, <1>2, <1>3, <2>1
    <3>2. p[i + m][1] < p[i + n][1]
      BY <1>1, <3>1
    <3>3. a[m] = p[i + m] /\ a[n] = p[i + n]
      BY <1>2
    <3> QED BY <3>2, <3>3, Zenon
  <2> QED BY <1>2, <2>1 DEF Paths
<1>6. Has(a) = {p[j] : j \in (i + 1)..Len(p)}
  <2>1. ASSUME NEW e \in Has(a) PROVE e \in {p[j] : j \in (i + 1)..Len(p)}
    BY <1>2, <1>3 DEF Has
  <2>2. ASSUME NEW j \in (i + 1)..Len(p) PROVE p[j] \in Has(a)
    <3>1. j - i \in 1..Len(a) /\ a[j - i] = p[j]
      BY <1>2, <1>4
    <3> QED BY <3>1 DEF Has
  <2> QED BY <2>1, <2>2
<1> QED BY <1>5, <1>6 DEF a

\* In a path an entry is found once, and those with greater keys come after it.
LEMMA KeysTellPlaces ==
  ASSUME NEW p \in Paths, NEW i \in 1..Len(p), NEW j \in 1..Len(p)
  PROVE  /\ p[i] = p[j] => i = j
         /\ p[i][1] < p[j][1] => i < j
<1>1. p \in Seq(Entries) /\ Len(p) \in Nat /\ \A m, n \in 1..Len(p) : m < n => p[m][1] < p[n][1]
  BY DEF Paths
<1>2. p[i] \in Entries /\ p[j] \in Entries
  BY <1>1
<1>3. p[i][1] \in Nat /\ p[j][1] \in Nat
  BY <1>2 DEF Entries
<1>4. i < j => p[i][1] < p[j][1]
  BY <1>1
<1>5. j < i => p[j][1] < p[i][1]
  BY <1>1
<1>6. i \in Nat /\ j \in Nat
  BY <1>1
<1>7. ASSUME p[i] = p[j] PROVE i = j
  <2>1. p[i][1] = p[j][1]
    BY <1>7
  <2> QED BY <2>1, <1>3, <1>4, <1>5, <1>6
<1>8. ASSUME p[i][1] < p[j][1] PROVE i < j
  BY <1>3, <1>5, <1>6, <1>8
<1> QED BY <1>7, <1>8

\* The item for the subnode at the entry i.
SubItem(item, i) ==
  [node |-> Append(item.node, item.check[i]), check |-> After(item.check, i)]

\* The subnode at the entry i covers what its node covers along that entry.
LEMMA BranchCovers ==
  ASSUME TrieOK, NEW item \in Items, NEW i \in 1..Len(item.check),
         NEW sub, sub = SubItem(item, i), sub.node \in DOMAIN subscribers
  PROVE  /\ sub \in Items
         /\ \A q : q \in Covered(sub) <=> /\ q \in Covered(item)
                                          /\ Len(q) > Len(item.node)
                                          /\ q[Len(item.node) + 1] = item.check[i]
<1> DEFINE p == item.node
           c == item.check
           L == Len(item.node)
<1>0. sub = [node |-> Append(item.node, item.check[i]), check |-> After(item.check, i)]
  BY DEF SubItem
<1>1. p \in Paths /\ c \in Paths /\ p \in DOMAIN subscribers
  BY DEF Items, TrieOK
<1>2. p \in Seq(Entries) /\ c \in Seq(Entries) /\ L \in Nat /\ Len(c) \in Nat /\ c[i] \in Entries
  BY <1>1 DEF Paths
<1>3. /\ Len(sub.node) = L + 1
      /\ \A m \in 1..L : sub.node[m] = p[m]
      /\ sub.node[L + 1] = c[i]
  BY <1>0, <1>2
<1>4. sub.check \in Paths /\ Has(sub.check) = {c[j] : j \in (i + 1)..Len(c)}
  BY <1>0, <1>1, AfterIsPath
<1>5. sub \in Items
  BY <1>0, <1>4 DEF Items
<1> HIDE DEF p, c, L
<1>6. ASSUME NEW q \in Covered(sub)
      PROVE  q \in Covered(item) /\ Len(q) > L /\ q[L + 1] = c[i]
  <2>1. /\ q \in DOMAIN subscribers /\ L + 1 <= Len(q)
        /\ \A m \in 1..(L + 1) : q[m] = sub.node[m]
        /\ \A m \in (L + 2)..Len(q) : q[m] \in Has(sub.check)
    BY <1>2, <1>3 DEF Covered
  <2>2. Len(q) \in Nat
    BY <2>1 DEF TrieOK, Paths
  <2>3. q[L + 1] = c[i] /\ Len(q) > L /\ L <= Len(q)
    BY <1>2, <1>3, <2>1, <2>2
  <2>4. \A m \in 1..L : q[m] = p[m]
    BY <1>2, <1>3, <2>1
  <2>5. ASSUME NEW m \in (L + 1)..Len(q) PROVE q[m] \in Has(c)
    <3>1. CASE m = L + 1
      BY <2>3, <3>1 DEF Has, c
    <3>2. CASE m # L + 1
      <4>1. m \in (L + 2)..Len(q)
        BY <1>2, <2>2, <3>2
      <4>2. PICK j \in (i + 1)..Len(c) : q[m] = c[j]
        BY <1>4, <2>1, <4>1
      <4>3. j \in 1..Len(c)
        BY <1>2 DEF c
      <4> QED BY <4>2, <4>3 DEF Has
    <3> QED BY <3>1, <3>2
  <2> QED BY <2>1, <2>3, <2>4, <2>5 DEF Covered, p, c, L
<1>7. ASSUME NEW q \in Covered(item), Len(q) > L, q[L + 1] = c[i]
      PROVE  q \in Covered(sub)
  <2>1. /\ q \in DOMAIN subscribers
        /\ \A m \in 1..L : q[m] = p[m]
        /\ \A m \in (L + 1)..Len(q) : q[m] \in Has(c)
    BY DEF Covered, p, c, L
  <2>2. q \in Paths /\ Len(q) \in Nat /\ \A m, n \in 1..Len(q) : m < n => q[m][1] < q[n][1]
    BY <2>1 DEF TrieOK, Paths
  <2>3. L + 1 <= Len(q) /\ \A m \in 1..(L + 1) : q[m] = sub.node[m]
    BY <1>2, <1>3, <1>7, <2>1, <2>2
  <2>4. ASSUME NEW m \in (L + 2)..Len(q) PROVE q[m] \in Has(sub.check)
    <3>1. m \in (L + 1)..Len(q) /\ m \in 1..Len(q) /\ L + 1 \in 1..Len(q) /\ L + 1 < m
      BY <1>2, <2>2
    <3>2. PICK j \in 1..Len(c) : q[m] = c[j]
      BY <2>1, <3>1 DEF Has
    <3>3. c[i][1] < c[j][1]
      BY <1>7, <2>2, <3>1, <3>2
    <3>4. i < j
      BY <1>1, <3>3, KeysTellPlaces DEF c
    <3>5. j \in (i + 1)..Len(c)
      BY <1>2, <3>4 DEF c
    <3> QED BY <1>4, <3>2, <3>5
  <2> QED BY <1>3, <1>2, <2>1, <2>3, <2>4 DEF Covered
<1>8. \A q : q \in Covered(sub) <=> q \in Covered(item) /\ Len(q) > L /\ q[L + 1] = c[i]
  BY <1>6, <1>7
<1> QED BY <1>5, <1>8 DEF p, c, L

\* The subnodes that a visit adds cover what the visited item covers except its own
\* node, each node below one of them only.
LEMMA OnwardCovers ==
  ASSUME TrieOK, NEW item \in Items
  PROVE  /\ Onward(item) \in Seq(Items)
         /\ \A j \in 1..Len(Onward(item)) :
              Covered(Onward(item)[j]) \subseteq Covered(item) \ {item.node}
         /\ \A j, k \in 1..Len(Onward(item)) :
              j # k => Covered(Onward(item)[j]) \cap Covered(Onward(item)[k]) = {}
         /\ \A q \in Covered(item) \ {item.node} :
              \E j \in 1..Len(Onward(item)) : q \in Covered(Onward(item)[j])
<1> DEFINE p       == item.node
           c       == item.check
           L       == Len(item.node)
           next(i) == Append(item.node, item.check[i])
           hits    == {i \in DOMAIN item.check : next(i) \in DOMAIN subscribers}
           order   == Ascending(hits)
           on      == Onward(item)
           n       == Cardinality(hits)
<1>1. p \in Paths /\ c \in Paths /\ p \in DOMAIN subscribers
  BY DEF Items, TrieOK
<1>2. p \in Seq(Entries) /\ c \in Seq(Entries) /\ L \in Nat /\ Len(c) \in Nat
        /\ DOMAIN c = 1..Len(c)
  BY <1>1 DEF Paths
<1>3. hits \in SUBSET (1..Len(c)) /\ hits \in SUBSET Nat
  BY <1>2
<1>4. IsFiniteSet(hits)
  <2>1. IsFiniteSet(1..Len(c))
    BY <1>2, FS_Interval
  <2> QED BY <1>3, <2>1, FS_Subset
<1>5. n \in Nat /\ order \in [1..n -> hits] /\ (\A m \in hits : \E j \in 1..n : order[j] = m)
        /\ (\A j, k \in 1..n : j < k => order[j] < order[k])
  <2> HIDE DEF hits
  <2> QED BY <1>3, <1>4, AscendingLists
<1>6. on = [j \in 1..n |-> SubItem(item, order[j])]
  <2>1. on = [j \in DOMAIN order |-> SubItem(item, order[j])]
    BY Zenon DEF Onward, SubItem
  <2>2. DOMAIN order = 1..n
    BY <1>5
  <2> QED BY <2>1, <2>2, Zenon
<1>7. ASSUME NEW j \in 1..n
      PROVE  order[j] \in hits /\ order[j] \in 1..Len(c) /\ on[j] = SubItem(item, order[j])
               /\ SubItem(item, order[j]).node \in DOMAIN subscribers
  <2>1. order[j] \in hits
    BY <1>5
  <2>2. on[j] = SubItem(item, order[j])
    BY <1>6
  <2>3. SubItem(item, order[j]).node = next(order[j])
    BY DEF SubItem
  <2>4. next(order[j]) \in DOMAIN subscribers
    BY <2>1
  <2> QED BY <1>3, <2>1, <2>2, <2>3, <2>4
<1>8. ASSUME NEW j \in 1..n
      PROVE  /\ on[j] \in Items
             /\ \A q : q \in Covered(on[j]) <=> /\ q \in Covered(item)
                                                /\ Len(q) > L
                                                /\ q[L + 1] = c[order[j]]
  <2>1. PICK i \in 1..Len(item.check) : i = order[j]
    BY <1>7
  <2>2. PICK x : x = on[j]
    OBVIOUS
  <2>3. x = SubItem(item, i) /\ x.node \in DOMAIN subscribers
    <3> HIDE DEF hits, order, on, n
    <3> QED BY <1>7, <2>1, <2>2
  <2>4. /\ x \in Items
        /\ \A q : q \in Covered(x) <=> /\ q \in Covered(item)
                                       /\ Len(q) > Len(item.node)
                                       /\ q[Len(item.node) + 1] = item.check[i]
    BY <2>3, BranchCovers, Zenon
  <2> HIDE DEF hits, order, on, n
  <2> QED BY <2>1, <2>2, <2>4
<1> HIDE DEF on, order, hits, n
<1>9. on \in Seq(Items) /\ Len(on) = n
  <2>1. on \in [1..n -> Items]
    BY <1>6, <1>8
  <2> QED BY <1>5, <2>1
<1>10. ASSUME NEW j \in 1..n PROVE Covered(on[j]) \subseteq Covered(item) \ {p}
  BY <1>2, <1>8
<1>11. ASSUME NEW j \in 1..n, NEW k \in 1..n, j # k
       PROVE  Covered(on[j]) \cap Covered(on[k]) = {}
  <2>1. order[j] # order[k]
    <3>1. order[j] \in Nat /\ order[k] \in Nat
      BY <1>3, <1>7
    <3>2. j < k \/ k < j
      BY <1>5, <1>11
    <3> QED BY <1>5, <3>1, <3>2
  <2>2. c[order[j]] # c[order[k]]
    <3> HIDE DEF c
    <3> QED BY <1>1, <1>7, <2>1, KeysTellPlaces
  <2> QED BY <1>8, <2>2
<1>12. ASSUME NEW q \in Covered(item) \ {p}
       PROVE  \E j \in 1..n : q \in Covered(on[j])
  <2>1. /\ q \in DOMAIN subscribers /\ L <= Len(q) /\ q # p
        /\ \A m \in 1..L : q[m] = p[m]
        /\ \A m \in (L + 1)..Len(q) : q[m] \in Has(c)
    BY DEF Covered
  <2>2. q \in Paths /\ q \in Seq(Entries) /\ Len(q) \in Nat
    BY <2>1 DEF TrieOK, Paths
  <2>3. Len(q) > L
    <3> SUFFICES ASSUME Len(q) = L PROVE q = p
      BY <1>2, <2>1, <2>2
    <3> QED BY <1>2, <2>1, <2>2
  <2>4. PICK i \in 1..Len(c) : q[L + 1] = c[i]
    <3>1. L + 1 \in (L + 1)..Len(q)
      BY <1>2, <2>2, <2>3
    <3>2. q[L + 1] \in Has(c)
      BY <2>1, <3>1
    <3> QED BY <3>2 DEF Has
  <2>5. next(i) = SubSeq(q, 1, L + 1)
    <3> DEFINE u == next(i)
               v == SubSeq(q, 1, L + 1)
    <3>1. c[i] \in Entries
      BY <1>2
    <3>2. u \in Seq(Entries) /\ Len(u) = L + 1 /\ u[L + 1] = c[i] /\ \A m \in 1..L : u[m] = p[m]
      BY <1>2, <3>1
    <3>3. v \in Seq(Entries) /\ Len(v) = L + 1 /\ \A m \in 1..(L + 1) : v[m] = q[m]
      BY <1>2, <2>2, <2>3
    <3> HIDE DEF u, v
    <3>4. \A m \in 1..(L + 1) : u[m] = v[m]
      <4>1. ASSUME NEW m \in 1..(L + 1) PROVE u[m] = v[m]
        <5>1. m \in 1..L \/ m = L + 1
          BY <1>2
        <5> QED BY <2>1, <2>4, <3>2, <3>3, <5>1
      <4> QED BY <4>1
    <3>5. u = v
      BY <1>2, <3>2, <3>3, <3>4
    <3> QED BY <3>5 DEF u, v
  <2>6. next(i) \in DOMAIN subscribers
    <3>1. L + 1 \in 0..Len(q)
      BY <1>2, <2>2, <2>3
    <3>2. SubSeq(q, 1, L + 1) \in DOMAIN subscribers
      BY <2>1, <3>1 DEF TrieOK
    <3> HIDE DEF next
    <3> QED BY <2>5, <3>2
  <2>7. i \in hits
    BY <1>2, <2>6 DEF hits
  <2>8. PICK j \in 1..n : order[j] = i
    BY <1>5, <2>7
  <2> QED BY <1>8, <2>3, <2>4, <2>8
<1> QED BY <1>9, <1>10, <1>11, <1>12 DEF on

\* The nodes whose entries are all among the tags t.
Fit(t) == {q \in DOMAIN subscribers : \A i \in 1..Len(q) : q[i] \in Has(LinearizeTags(t))}

\* The nodes that a search space leads to.
Left(s) == {q \in DOMAIN subscribers : \E m \in 1..Len(s) : q \in Covered(s[m])}

\* The bindings whose node is in S.
At(S) == {j \in DOMAIN bound : LinearizeTags(bound[j].tags) \in S}

\* A search for t with s to visit has found f: the bindings of the nodes that fit
\* and are not left, each once; every node left fits, and is left once.
Sound(s, f, t) ==
  /\ t \in Tags
  /\ s \in Seq(Items)
  /\ f \in Seq(Destinations)
  /\ \A m \in 1..Len(s) : Covered(s[m]) \subseteq Fit(t)
  /\ \A m, n \in 1..Len(s) : m # n => Covered(s[m]) \cap Covered(s[n]) = {}
  /\ Holds(bound, f, At(Fit(t) \ Left(s)))

\* At the root nothing is found, and every node that fits is left.
LEMMA RouteIsSound ==
  ASSUME TrieOK, NEW t \in Tags
  PROVE  Sound(<<[node |-> <<>>, check |-> LinearizeTags(t)]>>, <<>>, t)
<1> DEFINE item == [node |-> <<>>, check |-> LinearizeTags(t)]
           s    == <<item>>
<1>1. item \in Items /\ item.node = <<>> /\ item.check = LinearizeTags(t)
  BY LinearizeSorts DEF Items, TrieOK
<1> HIDE DEF item
<1>2. s \in Seq(Items) /\ Len(s) = 1 /\ s[1] = item
  BY <1>1
<1>3. Covered(item) = Fit(t)
  <2>1. Len(item.node) = 0
    BY <1>1
  <2>2. \A q : 1..Len(item.node) = {} /\ (Len(item.node) + 1)..Len(q) = 1..Len(q)
    BY <2>1
  <2>3. \A q \in DOMAIN subscribers : Len(item.node) <= Len(q)
    BY <2>1 DEF TrieOK, Paths
  <2> QED BY <1>1, <2>2, <2>3 DEF Covered, Fit
<1> HIDE DEF s
<1>4. Left(s) = Fit(t)
  <2>1. \A q : (\E m \in 1..Len(s) : q \in Covered(s[m])) <=> q \in Covered(item)
    BY <1>2
  <2> QED BY <1>3, <2>1 DEF Left, Fit
<1>5. At(Fit(t) \ Left(s)) = {}
  BY <1>4 DEF At
<1>6. Holds(bound, <<>>, At(Fit(t) \ Left(s)))
  BY <1>5, HoldsNone
<1>7. \A m \in 1..Len(s) : Covered(s[m]) \subseteq Fit(t)
  BY <1>2, <1>3
<1>8. \A m, n \in 1..Len(s) : m # n => Covered(s[m]) \cap Covered(s[n]) = {}
  BY <1>2
<1>9. <<>> \in Seq(Destinations)
  OBVIOUS
<1> QED BY <1>2, <1>6, <1>7, <1>8, <1>9 DEF Sound, s, item

\* A visit takes the bindings of one node, which is then no longer left.
LEMMA VisitIsSound ==
  ASSUME TrieOK, NEW s, NEW f, NEW t, Sound(s, f, t), s # <<>>
  PROVE  Sound(Tail(s) \o Onward(Head(s)), f \o subscribers[Head(s).node], t)
<1> DEFINE head == Head(s)
           on   == Onward(Head(s))
           L    == Len(s)
           r    == Tail(s) \o on
           kept == subscribers[head.node]
<1>1. /\ s \in Seq(Items) /\ t \in Tags /\ f \in Seq(Destinations)
      /\ \A m \in 1..L : Covered(s[m]) \subseteq Fit(t)
      /\ \A m, n \in 1..L : m # n => Covered(s[m]) \cap Covered(s[n]) = {}
      /\ Holds(bound, f, At(Fit(t) \ Left(s)))
  BY DEF Sound
<1>2. L \in Nat /\ L >= 1 /\ head = s[1] /\ head \in Items /\ 1 \in 1..L
  BY <1>1
<1>3. Tail(s) \in Seq(Items) /\ Len(Tail(s)) = L - 1 /\ \A m \in 1..(L - 1) : Tail(s)[m] = s[m + 1]
  BY <1>1, <1>2
<1>4. /\ on \in Seq(Items) /\ Len(on) \in Nat
      /\ \A j \in 1..Len(on) : Covered(on[j]) \subseteq Covered(head) \ {head.node}
      /\ \A j, k \in 1..Len(on) : j # k => Covered(on[j]) \cap Covered(on[k]) = {}
      /\ \A q \in Covered(head) \ {head.node} : \E j \in 1..Len(on) : q \in Covered(on[j])
  <2> HIDE DEF head
  <2>1. /\ Onward(head) \in Seq(Items)
        /\ \A j \in 1..Len(Onward(head)) :
             Covered(Onward(head)[j]) \subseteq Covered(head) \ {head.node}
        /\ \A j, k \in 1..Len(Onward(head)) :
             j # k => Covered(Onward(head)[j]) \cap Covered(Onward(head)[k]) = {}
        /\ \A q \in Covered(head) \ {head.node} :
             \E j \in 1..Len(Onward(head)) : q \in Covered(Onward(head)[j])
    BY <1>2, OnwardCovers, Zenon
  <2>2. Len(Onward(head)) \in Nat
    BY <2>1
  <2>3. on = Onward(head)
    BY DEF head
  <2> HIDE DEF on
  <2> QED BY <2>1, <2>2, <2>3, Zenon
<1> HIDE DEF on, head
<1>5. /\ r \in Seq(Items) /\ Len(r) = (L - 1) + Len(on)
      /\ \A m \in 1..(L - 1) : r[m] = Tail(s)[m]
      /\ \A j \in 1..Len(on) : r[(L - 1) + j] = on[j]
  BY <1>2, <1>3, <1>4
<1> HIDE DEF r
<1>6. ASSUME NEW m \in 1..Len(r)
      PROVE  \/ m + 1 \in 2..L /\ r[m] = s[m + 1]
             \/ m - (L - 1) \in 1..Len(on) /\ r[m] = on[m - (L - 1)]
  <2>1. CASE m <= L - 1
    <3>1. m \in 1..(L - 1) /\ m + 1 \in 2..L
      BY <1>2, <2>1
    <3> QED BY <1>3, <1>5, <3>1
  <2>2. CASE ~ (m <= L - 1)
    <3>1. m - (L - 1) \in 1..Len(on) /\ m = (L - 1) + (m - (L - 1))
      BY <1>2, <1>4, <1>5, <2>2
    <3> QED BY <1>5, <3>1
  <2> QED BY <2>1, <2>2
<1>7. \A m \in 2..L : m \in 1..L /\ m # 1
  BY <1>2
<1>8. head.node \in Covered(head) /\ head.node \in DOMAIN subscribers
  <2>1. head.node \in DOMAIN subscribers
    BY <1>2 DEF Items
  <2>2. Len(head.node) \in Nat
    BY <2>1 DEF TrieOK, Paths
  <2> QED BY <2>1, <2>2 DEF Covered
<1>9. ASSUME NEW m \in 1..Len(r)
      PROVE  Covered(r[m]) \subseteq Fit(t)
  <2>1. CASE m + 1 \in 2..L /\ r[m] = s[m + 1]
    BY <1>1, <1>7, <2>1
  <2>2. CASE m - (L - 1) \in 1..Len(on) /\ r[m] = on[m - (L - 1)]
    BY <1>1, <1>2, <1>4, <2>2
  <2> QED BY <1>6, <2>1, <2>2
<1>10. ASSUME NEW m \in 2..L, NEW j \in 1..Len(on)
       PROVE  Covered(s[m]) \cap Covered(on[j]) = {}
  <2>1. Covered(s[m]) \cap Covered(s[1]) = {}
    BY <1>1, <1>2, <1>7
  <2>2. Covered(on[j]) \subseteq Covered(s[1])
    BY <1>2, <1>4
  <2> QED BY <2>1, <2>2
<1>11. ASSUME NEW m \in 1..Len(r), NEW n \in 1..Len(r), m # n
       PROVE  Covered(r[m]) \cap Covered(r[n]) = {}
  <2>1. CASE (m + 1 \in 2..L /\ r[m] = s[m + 1]) /\ (n + 1 \in 2..L /\ r[n] = s[n + 1])
    <3>1. m + 1 # n + 1
      BY <1>11
    <3> QED BY <1>1, <1>7, <2>1, <3>1
  <2>2. CASE (m + 1 \in 2..L /\ r[m] = s[m + 1])
             /\ (n - (L - 1) \in 1..Len(on) /\ r[n] = on[n - (L - 1)])
    BY <1>10, <2>2
  <2>3. CASE (m - (L - 1) \in 1..Len(on) /\ r[m] = on[m - (L - 1)])
             /\ (n + 1 \in 2..L /\ r[n] = s[n + 1])
    BY <1>10, <2>3
  <2>4. CASE (m - (L - 1) \in 1..Len(on) /\ r[m] = on[m - (L - 1)])
             /\ (n - (L - 1) \in 1..Len(on) /\ r[n] = on[n - (L - 1)])
    <3>1. m - (L - 1) # n - (L - 1)
      BY <1>2, <1>11
    <3> QED BY <1>4, <2>4, <3>1
  <2> QED BY <1>6, <2>1, <2>2, <2>3, <2>4
<1>12. Left(r) = Left(s) \ {head.node}
  <2>1. ASSUME NEW q \in Left(r) PROVE q \in Left(s) \ {head.node}
    <3>1. PICK m \in 1..Len(r) : q \in Covered(r[m])
      BY DEF Left
    <3>2. q \in DOMAIN subscribers
      BY DEF Left
    <3>3. CASE m + 1 \in 2..L /\ r[m] = s[m + 1]
      <4>1. Covered(s[m + 1]) \cap Covered(s[1]) = {}
        BY <1>1, <1>2, <1>7, <3>3
      <4>2. q # head.node
        BY <1>2, <1>8, <3>1, <3>3, <4>1
      <4> QED BY <1>7, <3>1, <3>2, <3>3, <4>2 DEF Left
    <3>4. CASE m - (L - 1) \in 1..Len(on) /\ r[m] = on[m - (L - 1)]
      <4>1. q \in Covered(s[1]) \ {head.node}
        BY <1>2, <1>4, <3>1, <3>4
      <4> QED BY <1>2, <3>2, <4>1 DEF Left
    <3> QED BY <1>6, <3>3, <3>4
  <2>2. ASSUME NEW q \in Left(s), q # head.node PROVE q \in Left(r)
    <3>1. PICK m \in 1..L : q \in Covered(s[m])
      BY DEF Left
    <3>2. q \in DOMAIN subscribers
      BY DEF Left
    <3>3. CASE m = 1
      <4>1. PICK j \in 1..Len(on) : q \in Covered(on[j])
        BY <1>2, <1>4, <2>2, <3>1, <3>3
      <4>2. (L - 1) + j \in 1..Len(r) /\ r[(L - 1) + j] = on[j]
        BY <1>2, <1>4, <1>5
      <4> QED BY <3>2, <4>1, <4>2 DEF Left
    <3>4. CASE m # 1
      <4>1. m - 1 \in 1..(L - 1) /\ (m - 1) + 1 = m /\ m - 1 \in 1..Len(r)
        BY <1>2, <1>4, <1>5, <3>4
      <4>2. r[m - 1] = s[m]
        BY <1>3, <1>5, <4>1
      <4> QED BY <3>1, <3>2, <4>1, <4>2 DEF Left
    <3> QED BY <3>3, <3>4
  <2> QED BY <2>1, <2>2
<1>13. /\ kept \in Seq(Destinations)
       /\ Holds(bound, kept, Kept(bound, head.node))
  BY <1>8 DEF TrieOK
<1>14. head.node \in Fit(t) /\ head.node \in Left(s)
  <2>1. head.node \in Covered(s[1])
    BY <1>2, <1>8
  <2> QED BY <1>1, <1>2, <1>8, <2>1 DEF Left
<1>15. /\ At(Fit(t) \ Left(r)) = At(Fit(t) \ Left(s)) \cup Kept(bound, head.node)
       /\ At(Fit(t) \ Left(s)) \cap Kept(bound, head.node) = {}
  <2>1. Fit(t) \ Left(r) = (Fit(t) \ Left(s)) \cup {head.node}
    BY <1>12, <1>14
  <2>2. head.node \notin Fit(t) \ Left(s)
    BY <1>14
  <2> QED BY <2>1, <2>2 DEF At, Kept
<1>16. IsFiniteSet(At(Fit(t) \ Left(s))) /\ IsFiniteSet(Kept(bound, head.node))
  <2>1. bound \in Seq(Binding)
    BY DEF TrieOK
  <2>2. At(Fit(t) \ Left(s)) \in SUBSET DOMAIN bound /\ Kept(bound, head.node) \in SUBSET DOMAIN bound
    BY DEF At, Kept
  <2> QED BY <2>1, <2>2, BindingsFinite
<1> HIDE DEF kept
<1>17. Holds(bound, f \o kept, At(Fit(t) \ Left(r)))
  <2>1. Holds(bound, f \o kept, At(Fit(t) \ Left(s)) \cup Kept(bound, head.node))
    BY <1>1, <1>13, <1>15, <1>16, HoldsJoined
  <2> QED BY <1>15, <2>1
<1>18. f \o kept \in Seq(Destinations)
  BY <1>1, <1>13
<1>19. Sound(r, f \o kept, t)
  BY <1>1, <1>5, <1>9, <1>11, <1>17, <1>18 DEF Sound
<1> QED BY <1>19 DEF r, kept, head, on

-----------------------------------------------------------------------------
(* The invariant, and what follows from it.                                *)

SearchOK ==
  /\ at \in {"idle", "searching", "done"}
  /\ at = "searching" => Sound(search, found, tags)
  /\ at = "done" => /\ tags \in Tags
                    /\ found \in Seq(Destinations)
                    /\ Holds(bound, found, At(Fit(tags)))

TrieInv == TrieOK /\ SearchOK

\* The invariant holds of the empty trie.
LEMMA TrieInit ==
  ASSUME TInit
  PROVE  TrieInv
<1>1. DOMAIN subscribers = {<<>>} /\ subscribers[<<>>] = <<>> /\ bound = <<>> /\ at = "idle"
  BY DEF TInit
<1>2. <<>> \in Paths /\ Len(<<>>) = 0
  BY DEF Paths
<1>3. \A n \in 0..0 : SubSeq(<<>>, 1, n) = <<>>
  OBVIOUS
<1>4. Kept(bound, <<>>) = {}
  BY <1>1 DEF Kept
<1>5. Holds(bound, <<>>, Kept(bound, <<>>))
  BY <1>4, HoldsNone
<1>6. bound \in Seq(Binding) /\ DOMAIN bound = {}
  BY <1>1
<1>7. TrieOK
  <2>1. \A p \in DOMAIN subscribers : p = <<>>
    BY <1>1
  <2>2. <<>> \in Seq(Destinations)
    OBVIOUS
  <2>3. \A p \in DOMAIN subscribers : subscribers[p] \in Seq(Destinations)
    BY <1>1, <2>1, <2>2, Zenon
  <2>4. ASSUME NEW p \in DOMAIN subscribers, NEW n \in 0..Len(p)
        PROVE  SubSeq(p, 1, n) \in DOMAIN subscribers
    <3>1. p = <<>> /\ n \in 0..0
      BY <1>2, <2>1, Zenon
    <3> QED BY <1>1, <1>3, <3>1
  <2>5. \A p \in DOMAIN subscribers : Holds(bound, subscribers[p], Kept(bound, p))
    BY <1>1, <1>5, <2>1, Zenon
  <2> QED BY <1>1, <1>2, <1>6, <2>3, <2>4, <2>5 DEF TrieOK
<1> QED BY <1>1, <1>7 DEF TrieInv, SearchOK

\* Each step keeps the invariant.
LEMMA TrieNext ==
  ASSUME TrieInv, [TNext]_tvars
  PROVE  TrieInv'
<1>1. TrieOK /\ SearchOK
  BY DEF TrieInv
<1>2. ASSUME NEW d \in Destinations, NEW b \in Tags, AddBind(d, b)
      PROVE  TrieInv'
  <2>1. at' = "idle"
    BY <1>2 DEF AddBind
  <2> QED BY <1>1, <1>2, <2>1, AddBindKeepsTrie DEF TrieInv, SearchOK
<1>3. ASSUME UNCHANGED <<subscribers, bound>>
      PROVE  TrieOK'
  BY <1>1, <1>3 DEF TrieOK, Kept
<1>4. ASSUME NEW s, NEW f, NEW t, Sound(s, f, t), UNCHANGED <<subscribers, bound>>,
             search' = s, found' = f, tags' = t
      PROVE  Sound(search, found, tags)'
  <2>1. Items' = Items
    BY <1>4 DEF Items
  <2>2. \A m : (Covered(search[m]))' = Covered(s[m])
    BY <1>4 DEF Covered
  <2>3. (Fit(tags))' = Fit(t)
    BY <1>4 DEF Fit
  <2>4. (Left(search))' = Left(s)
    BY <1>4 DEF Left, Covered
  <2>5. (At(Fit(tags) \ Left(search)))' = At(Fit(t) \ Left(s))
    BY <1>4, <2>3, <2>4 DEF At
  <2>6. (tags \in Tags /\ search \in Seq(Items) /\ found \in Seq(Destinations))'
    BY <1>4, <2>1 DEF Sound
  <2>7. (\A m \in 1..Len(search) : Covered(search[m]) \subseteq Fit(tags))'
    BY <1>4, <2>2, <2>3 DEF Sound
  <2>8. (\A m, n \in 1..Len(search) :
           m # n => Covered(search[m]) \cap Covered(search[n]) = {})'
    BY <1>4, <2>2 DEF Sound
  <2>9. (Holds(bound, found, At(Fit(tags) \ Left(search))))'
    BY <1>4, <2>5 DEF Sound
  <2> QED BY <2>6, <2>7, <2>8, <2>9 DEF Sound
<1>5. ASSUME NEW t \in Tags, Route(t)
      PROVE  TrieInv'
  <2>1. Sound(<<[node |-> <<>>, check |-> LinearizeTags(t)]>>, <<>>, t)
    BY <1>1, RouteIsSound
  <2>2. /\ UNCHANGED <<subscribers, bound>> /\ at' = "searching"
        /\ tags' = t /\ found' = <<>>
        /\ search' = <<[node |-> <<>>, check |-> LinearizeTags(t)]>>
    BY <1>5 DEF Route
  <2>3. Sound(search, found, tags)'
    BY <1>4, <2>1, <2>2
  <2> QED BY <1>3, <2>2, <2>3 DEF TrieInv, SearchOK
<1>6. ASSUME Visit
      PROVE  TrieInv'
  <2>1. Sound(search, found, tags) /\ search # <<>>
    BY <1>1, <1>6 DEF SearchOK, Visit
  <2>2. Sound(Tail(search) \o Onward(Head(search)),
              found \o subscribers[Head(search).node], tags)
    BY <1>1, <2>1, VisitIsSound
  <2>3. /\ UNCHANGED <<subscribers, bound>> /\ at' = "searching"
        /\ tags' = tags /\ found' = found \o subscribers[Head(search).node]
        /\ search' = Tail(search) \o Onward(Head(search))
    BY <1>6 DEF Visit
  <2>4. Sound(search, found, tags)'
    BY <1>4, <2>2, <2>3
  <2> QED BY <1>3, <2>3, <2>4 DEF TrieInv, SearchOK
<1>7. ASSUME Return
      PROVE  TrieInv'
  <2>1. Sound(search, found, tags) /\ search = <<>>
    BY <1>1, <1>7 DEF SearchOK, Return
  <2>2. UNCHANGED <<subscribers, bound, tags, found>> /\ at' = "done"
    BY <1>7 DEF Return
  <2>3. Left(search) = {}
    BY <2>1 DEF Left
  <2>4. Fit(tags) \ Left(search) = Fit(tags)
    BY <2>3
  <2>5. tags \in Tags /\ found \in Seq(Destinations) /\ Holds(bound, found, At(Fit(tags)))
    BY <2>1, <2>4 DEF Sound
  <2>6. At(Fit(tags))' = At(Fit(tags))
    BY <2>2 DEF At, Fit
  <2> QED BY <1>3, <2>2, <2>5, <2>6 DEF TrieInv, SearchOK
<1>8. ASSUME Used
      PROVE  TrieInv'
  <2>1. UNCHANGED <<subscribers, bound>> /\ at' = "idle"
    BY <1>8 DEF Used
  <2> QED BY <1>3, <2>1 DEF TrieInv, SearchOK
<1>9. ASSUME UNCHANGED tvars
      PROVE  TrieInv'
  <2>1. UNCHANGED <<subscribers, bound, tags, search, found, at>>
    BY <1>9 DEF tvars
  <2>2. at = "searching" => Sound(search, found, tags)'
    BY <1>1, <1>4, <2>1 DEF SearchOK
  <2>3. At(Fit(tags))' = At(Fit(tags))
    BY <2>1 DEF At, Fit
  <2> QED BY <1>1, <1>3, <2>1, <2>2, <2>3 DEF TrieInv, SearchOK
<1> QED BY <1>2, <1>5, <1>6, <1>7, <1>8, <1>9 DEF TNext

\* A binding's node fits the tags exactly when the tags include it.
LEMMA FitsIncluded ==
  ASSUME NEW b \in Tags, NEW t \in Tags, LinearizeTags(b) \in DOMAIN subscribers
  PROVE  LinearizeTags(b) \in Fit(t) <=> Included(b, t)
<1> DEFINE p == LinearizeTags(b)
           e == LinearizeTags(t)
<1>1. /\ \A i \in 1..Len(p) : \E k \in DOMAIN b : p[i] = <<k, b[k]>>
      /\ \A k \in DOMAIN b : \E i \in 1..Len(p) : p[i] = <<k, b[k]>>
  BY LinearizeSorts
<1>2. /\ \A i \in 1..Len(e) : \E k \in DOMAIN t : e[i] = <<k, t[k]>>
      /\ \A k \in DOMAIN t : \E i \in 1..Len(e) : e[i] = <<k, t[k]>>
  BY LinearizeSorts
<1>3. p \in Fit(t) <=> \A i \in 1..Len(p) : p[i] \in Has(e)
  BY DEF Fit
<1> HIDE DEF p, e
<1>4. \A k, v : <<k, v>> \in Has(e) <=> k \in DOMAIN t /\ v = t[k]
  BY <1>2 DEF Has
<1>5. (\A i \in 1..Len(p) : p[i] \in Has(e)) <=> \A k \in DOMAIN b : <<k, b[k]>> \in Has(e)
  BY <1>1
<1> QED BY <1>3, <1>4, <1>5 DEF Included, p

\* The search finds each destination as often as it has a binding that the tags
\* include (subset_router.go:35-60), for any keys, values, destinations and bindings.
THEOREM SubsetsAreFound == TSpec => []RoutesToSubsets
<1>1. TInit => TrieInv
  BY TrieInit
<1>2. TrieInv /\ [TNext]_tvars => TrieInv'
  BY TrieNext
<1>3. ASSUME TrieInv PROVE RoutesToSubsets
  <2> SUFFICES ASSUME at = "done", NEW d \in Destinations
               PROVE  Times(found, d)
                        = Cardinality({i \in DOMAIN bound :
                            bound[i].dest = d /\ Included(bound[i].tags, tags)})
    BY DEF RoutesToSubsets, Times
  <2>1. Holds(bound, found, At(Fit(tags))) /\ tags \in Tags
    BY <1>3 DEF TrieInv, SearchOK
  <2>2. Times(found, d) = Cardinality({j \in At(Fit(tags)) : bound[j].dest = d})
    BY <2>1 DEF Holds
  <2>3. ASSUME NEW j \in DOMAIN bound
        PROVE  j \in At(Fit(tags)) <=> Included(bound[j].tags, tags)
    <3>1. bound \in Seq(Binding) /\ LinearizeTags(bound[j].tags) \in DOMAIN subscribers
      BY <1>3 DEF TrieInv, TrieOK
    <3>2. bound[j].tags \in Tags
      <4>1. bound[j] \in Binding
        BY <3>1
      <4> QED BY <4>1 DEF Binding
    <3> QED BY <2>1, <3>1, <3>2, FitsIncluded DEF At
  <2>4. {j \in At(Fit(tags)) : bound[j].dest = d}
          = {i \in DOMAIN bound : bound[i].dest = d /\ Included(bound[i].tags, tags)}
    BY <2>3 DEF At
  <2> QED BY <2>2, <2>4
<1> QED BY <1>1, <1>2, <1>3, PTL DEF TSpec

\* The bindings listed for the cluster are those of local destinations, no more and
\* no fewer (subset_router.go:62-83).
THEOREM LocalBindingsAreListed == TSpec => []ListsLocalBindings
<1>1. TInit => TrieInv
  BY TrieInit
<1>2. TrieInv /\ [TNext]_tvars => TrieInv'
  BY TrieNext
<1>3. ASSUME TrieInv PROVE ListsLocalBindings
  <2> DEFINE listed == {Spelled(p) : p \in {q \in DOMAIN subscribers : LocalAt(q)}}
             local  == {bound[i].tags : i \in {j \in DOMAIN bound : bound[j].dest \in Local}}
  <2>1. TrieOK
    BY <1>3 DEF TrieInv
  <2>2. \A j \in DOMAIN bound : /\ bound[j].tags \in Tags /\ bound[j].dest \in Destinations
                                /\ LinearizeTags(bound[j].tags) \in DOMAIN subscribers
                                /\ Spelled(LinearizeTags(bound[j].tags)) = bound[j].tags
    <3>1. \A j \in DOMAIN bound : bound[j].tags \in Tags /\ bound[j].dest \in Destinations
      <4>1. bound \in Seq(Binding)
        BY <2>1 DEF TrieOK
      <4>2. \A j \in DOMAIN bound : bound[j] \in Binding
        BY <4>1
      <4> QED BY <4>2 DEF Binding
    <3> QED BY <2>1, <3>1, SpelledBack DEF TrieOK
  <2>3. ASSUME NEW p \in DOMAIN subscribers, NEW d \in Destinations
        PROVE  (\E i \in DOMAIN subscribers[p] : subscribers[p][i] = d)
                 <=> \E j \in Kept(bound, p) : bound[j].dest = d
    <3> DEFINE P == {i \in DOMAIN subscribers[p] : subscribers[p][i] = d}
               Q == {j \in Kept(bound, p) : bound[j].dest = d}
    <3>1. Cardinality(P) = Cardinality(Q)
      BY <2>1 DEF TrieOK, Holds, Times
    <3>2. IsFiniteSet(P)
      <4>1. subscribers[p] \in Seq(Destinations)
        BY <2>1 DEF TrieOK
      <4>2. DOMAIN subscribers[p] = 1..Len(subscribers[p]) /\ Len(subscribers[p]) \in Nat
        BY <4>1
      <4>3. IsFiniteSet(1..Len(subscribers[p]))
        BY <4>2, FS_Interval
      <4> QED BY <4>2, <4>3, FS_Subset
    <3>3. IsFiniteSet(Q)
      <4>1. Q \in SUBSET DOMAIN bound /\ bound \in Seq(Binding)
        BY <2>1 DEF Kept, TrieOK
      <4> QED BY <4>1, BindingsFinite
    <3>4. P = {} <=> Q = {}
      <4> HIDE DEF P, Q
      <4> QED BY <3>1, <3>2, <3>3, FS_EmptySet
    <3> QED BY <3>4
  <2>4. ASSUME NEW p \in DOMAIN subscribers, LocalAt(p)
        PROVE  Spelled(p) \in local
    <3>1. PICK i \in DOMAIN subscribers[p] : subscribers[p][i] \in Local
      BY <2>4 DEF LocalAt
    <3>2. PICK j \in Kept(bound, p) : bound[j].dest = subscribers[p][i]
      BY <2>3, <3>1 DEF Destinations
    <3>3. j \in DOMAIN bound /\ LinearizeTags(bound[j].tags) = p
      BY DEF Kept
    <3> QED BY <2>2, <3>1, <3>2, <3>3
  <2>5. ASSUME NEW j \in DOMAIN bound, bound[j].dest \in Local
        PROVE  bound[j].tags \in listed
    <3> DEFINE p == LinearizeTags(bound[j].tags)
    <3>1. p \in DOMAIN subscribers /\ Spelled(p) = bound[j].tags /\ j \in Kept(bound, p)
      BY <2>2 DEF Kept
    <3> HIDE DEF p
    <3>2. PICK i \in DOMAIN subscribers[p] : subscribers[p][i] = bound[j].dest
      BY <2>2, <2>3, <3>1
    <3>3. LocalAt(p)
      BY <2>5, <3>2 DEF LocalAt
    <3> QED BY <3>1, <3>3
  <2>6. listed = local
    BY <2>4, <2>5
  <2> QED BY <2>6 DEF ListsLocalBindings, ListLocalBinding
<1> QED BY <1>1, <1>2, <1>3, PTL DEF TSpec
=============================================================================
