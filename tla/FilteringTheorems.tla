---------------------------- MODULE FilteringTheorems ----------------------------
(***************************************************************************)
(* What stays of a list: the elements that were not taken out, in the      *)
(* order they had, each as often as it was there.  The proofs of the       *)
(* browser modules cite these facts.                                       *)
(***************************************************************************)
EXTENDS Filtering, Functions, FiniteSetTheorems, TLAPS

LEMMA PlacesFinite ==
    ASSUME NEW S, NEW s \in Seq(S), NEW X
    PROVE  /\ Places(s, X) \subseteq 1..Len(s)
           /\ IsFiniteSet(Places(s, X))
           /\ Cardinality(Places(s, X)) \in Nat
           /\ Cardinality(Places(s, X)) <= Len(s)
<1>1. Places(s, X) \subseteq 1..Len(s)
    BY DEF Places
<1>2. IsFiniteSet(1..Len(s)) /\ Cardinality(1..Len(s)) = Len(s)
    <2>1. Len(s) \in Nat
        OBVIOUS
    <2> QED  BY <2>1, FS_Interval
<1> QED  BY <1>1, <1>2, FS_Subset, FS_CardinalityType

\* The ranks of the places L are the numbers up to their number, and grow with them.
LEMMA RankGrows ==
    ASSUME NEW L \in SUBSET Nat, IsFiniteSet(L), NEW i \in L, NEW j \in L, i < j
    PROVE  Cardinality(UpTo(L, i)) < Cardinality(UpTo(L, j))
<1>1. UpTo(L, i) \subseteq UpTo(L, j) /\ j \in UpTo(L, j) /\ j \notin UpTo(L, i)
    <2>1. i \in Nat /\ j \in Nat /\ \A k \in L : k \in Nat
        OBVIOUS
    <2>2. \A k \in L : k <= i => k <= j
        BY <2>1
    <2>3. ~(j <= i) /\ j <= j
        BY <2>1
    <2>4. \A k : k \in UpTo(L, i) <=> k \in L /\ k <= i
        BY DEF UpTo
    <2>5. \A k : k \in UpTo(L, j) <=> k \in L /\ k <= j
        BY DEF UpTo
    <2> QED  BY <2>2, <2>3, <2>4, <2>5
<1>2. UpTo(L, j) \subseteq L
    BY DEF UpTo
<1>3. IsFiniteSet(UpTo(L, j))
    BY <1>2, FS_Subset
<1>4. /\ Cardinality(UpTo(L, i)) <= Cardinality(UpTo(L, j))
      /\ Cardinality(UpTo(L, i)) # Cardinality(UpTo(L, j))
      /\ IsFiniteSet(UpTo(L, i))
    <2>1. UpTo(L, i) \in SUBSET UpTo(L, j) /\ UpTo(L, i) # UpTo(L, j)
        BY <1>1
    <2> QED  BY <1>3, <2>1, FS_Subset
<1>5. Cardinality(UpTo(L, i)) \in Nat /\ Cardinality(UpTo(L, j)) \in Nat
    BY <1>3, <1>4, FS_CardinalityType
<1> QED  BY <1>4, <1>5

LEMMA RankInjective ==
    ASSUME NEW L \in SUBSET Nat, IsFiniteSet(L), NEW i \in L, NEW j \in L,
           Cardinality(UpTo(L, i)) = Cardinality(UpTo(L, j))
    PROVE  i = j
<1>1. i \in Nat /\ j \in Nat
    OBVIOUS
<1>2. UpTo(L, i) \subseteq L /\ UpTo(L, j) \subseteq L
    BY DEF UpTo
<1>3. Cardinality(UpTo(L, i)) \in Nat /\ Cardinality(UpTo(L, j)) \in Nat
    BY <1>2, FS_Subset, FS_CardinalityType
<1>4. ~(i < j)
    BY <1>3, RankGrows
<1>5. ~(j < i)
    BY <1>3, RankGrows
<1> QED  BY <1>1, <1>4, <1>5

LEMMA EveryRank ==
    ASSUME NEW L \in SUBSET Nat, IsFiniteSet(L)
    PROVE  /\ \A i \in L : Cardinality(UpTo(L, i)) \in 1..Cardinality(L)
           /\ \A n \in 1..Cardinality(L) : \E i \in L : Cardinality(UpTo(L, i)) = n
<1> DEFINE rank == [i \in L |-> Cardinality(UpTo(L, i))]
<1>1. ASSUME NEW i \in L
      PROVE  Cardinality(UpTo(L, i)) \in 1..Cardinality(L)
    <2>1. UpTo(L, i) \subseteq L /\ i \in UpTo(L, i)
        BY DEF UpTo
    <2>2. /\ IsFiniteSet(UpTo(L, i)) /\ Cardinality(UpTo(L, i)) <= Cardinality(L)
        BY <2>1, FS_Subset
    <2>3. Cardinality(UpTo(L, i)) # 0
        BY <2>1, <2>2, FS_EmptySet
    <2> QED  BY <2>2, <2>3, FS_CardinalityType
<1>2. rank \in Injection(L, 1..Cardinality(L))
    <2>1. rank \in [L -> 1..Cardinality(L)]
        BY <1>1
    <2>2. \A i, j \in L : rank[i] = rank[j] => i = j
        BY RankInjective
    <2> QED  BY <2>1, <2>2 DEF Injection, IsInjective
<1>3. Cardinality(L) \in Nat
    BY FS_CardinalityType
<1>4. IsFiniteSet(1..Cardinality(L)) /\ Cardinality(1..Cardinality(L)) = Cardinality(L)
    BY <1>3, FS_Interval
<1>5. rank \in Surjection(L, 1..Cardinality(L))
    BY <1>2, <1>4, FS_Injection
<1> QED  BY <1>1, <1>5 DEF Surjection

LEMMA NthIsPlace ==
    ASSUME NEW L \in SUBSET Nat, IsFiniteSet(L), NEW n \in 1..Cardinality(L)
    PROVE  Nth(L, n) \in L /\ Cardinality(UpTo(L, Nth(L, n))) = n
BY EveryRank DEF Nth

LEMMA NthInjective ==
    ASSUME NEW L \in SUBSET Nat, IsFiniteSet(L),
           NEW m \in 1..Cardinality(L), NEW n \in 1..Cardinality(L), Nth(L, m) = Nth(L, n)
    PROVE  m = n
<1>1. Cardinality(UpTo(L, Nth(L, m))) = m
    BY NthIsPlace
<1>2. Cardinality(UpTo(L, Nth(L, n))) = n
    BY NthIsPlace
<1> QED  BY <1>1, <1>2

LEMMA NthOnto ==
    ASSUME NEW L \in SUBSET Nat, IsFiniteSet(L), NEW i \in L
    PROVE  \E n \in 1..Cardinality(L) : Nth(L, n) = i
<1> DEFINE n == Cardinality(UpTo(L, i))
<1>1. n \in 1..Cardinality(L)
    BY EveryRank
<1>2. Nth(L, n) \in L /\ Cardinality(UpTo(L, Nth(L, n))) = n
    BY <1>1, NthIsPlace
<1>3. Nth(L, n) = i
    <2>1. \A j \in L : Cardinality(UpTo(L, j)) = Cardinality(UpTo(L, i)) => j = i
        BY RankInjective
    <2> QED  BY <1>2, <2>1
<1> QED  BY <1>1, <1>3

--------------------------------------------------------------------------------

\* What stays is a list of the elements that were not taken out: all of them, and no
\* others; none twice that was there once; and it is no longer than it was.
THEOREM WithoutCorrect ==
    ASSUME NEW S, NEW s \in Seq(S), NEW X
    PROVE  /\ Without(s, X) \in Seq(S)
           /\ Len(Without(s, X)) <= Len(s)
           /\ \A n \in DOMAIN Without(s, X) :
                \E i \in DOMAIN s : s[i] \notin X /\ Without(s, X)[n] = s[i]
           /\ \A i \in DOMAIN s : s[i] \notin X =>
                \E n \in DOMAIN Without(s, X) : Without(s, X)[n] = s[i]
           /\ (\A i, j \in DOMAIN s : s[i] = s[j] => i = j)
                => \A m, n \in DOMAIN Without(s, X) : Without(s, X)[m] = Without(s, X)[n] => m = n
<1> DEFINE L == Places(s, X)
           w == Without(s, X)
<1>1. /\ L \in SUBSET Nat /\ L \subseteq DOMAIN s /\ IsFiniteSet(L)
      /\ Cardinality(L) \in Nat /\ Cardinality(L) <= Len(s)
    BY PlacesFinite
<1>2. w = [n \in 1..Cardinality(L) |-> s[Nth(L, n)]]
    BY DEF Without
<1>3. \A i \in DOMAIN s : i \in L <=> s[i] \notin X
    BY DEF Places
<1> HIDE DEF L, w
<1>4. \A n \in 1..Cardinality(L) : Nth(L, n) \in L
    BY <1>1, NthIsPlace
<1>5. w \in Seq(S) /\ Len(w) = Cardinality(L)
    <2>1. \A n \in 1..Cardinality(L) : s[Nth(L, n)] \in S
        <3>1. \A i \in DOMAIN s : s[i] \in S
            OBVIOUS
        <3> QED  BY <1>1, <1>4, <3>1
    <2>2. w \in [1..Cardinality(L) -> S]
        BY <1>2, <2>1
    <2> QED  BY <1>1, <2>2
<1>6. DOMAIN w = 1..Cardinality(L)
    BY <1>2
<1>7. \A n \in DOMAIN w : \E i \in DOMAIN s : s[i] \notin X /\ w[n] = s[i]
    BY <1>1, <1>2, <1>3, <1>4, <1>6
<1>8. ASSUME NEW i \in DOMAIN s, s[i] \notin X
      PROVE  \E n \in DOMAIN w : w[n] = s[i]
    <2>1. PICK n \in 1..Cardinality(L) : Nth(L, n) = i
        BY <1>1, <1>3, <1>8, NthOnto
    <2> QED  BY <1>2, <1>6, <2>1
<1>9. ASSUME \A i, j \in DOMAIN s : s[i] = s[j] => i = j,
             NEW m \in DOMAIN w, NEW n \in DOMAIN w, w[m] = w[n]
      PROVE  m = n
    <2>1. s[Nth(L, m)] = s[Nth(L, n)]
        BY <1>2, <1>6, <1>9
    <2>2. Nth(L, m) = Nth(L, n)
        BY <1>1, <1>4, <1>6, <1>9, <2>1
    <2> QED  BY <1>1, <1>6, <2>2, NthInjective
<1> QED  BY <1>1, <1>5, <1>7, <1>8, <1>9 DEF w

\* The same, for the set of the elements.
THEOREM WithoutRange ==
    ASSUME NEW S, NEW s \in Seq(S), NEW X
    PROVE  /\ Range(Without(s, X)) = Range(s) \ X
           /\ IsInjective(s) => IsInjective(Without(s, X))
<1> DEFINE w == Without(s, X)
<1>1. /\ \A n \in DOMAIN w : \E i \in DOMAIN s : s[i] \notin X /\ w[n] = s[i]
      /\ \A i \in DOMAIN s : s[i] \notin X => \E n \in DOMAIN w : w[n] = s[i]
      /\ (\A i, j \in DOMAIN s : s[i] = s[j] => i = j)
           => \A m, n \in DOMAIN w : w[m] = w[n] => m = n
    BY WithoutCorrect
<1> HIDE DEF w
<1>2. Range(w) = Range(s) \ X
    BY <1>1 DEF Range
<1>3. IsInjective(s) => IsInjective(w)
    BY <1>1 DEF IsInjective
<1> QED  BY <1>2, <1>3 DEF w

\* A new element comes last.
LEMMA AppendRange ==
    ASSUME NEW S, NEW s \in Seq(S), NEW e
    PROVE  /\ Range(Append(s, e)) = Range(s) \cup {e}
           /\ IsInjective(s) /\ e \notin Range(s) => IsInjective(Append(s, e))
<1>1. Append(s, e) \in Seq(S \cup {e}) /\ Len(Append(s, e)) = Len(s) + 1
    OBVIOUS
<1>2. \A i \in 1..Len(s) + 1 : Append(s, e)[i] = IF i = Len(s) + 1 THEN e ELSE s[i]
    OBVIOUS
<1>3. DOMAIN s = 1..Len(s) /\ DOMAIN Append(s, e) = 1..Len(s) + 1 /\ Len(s) \in Nat
    OBVIOUS
<1> QED  BY <1>2, <1>3 DEF Range, IsInjective

\* A set of numbers that has an upper bound has a greatest one: the one of the last rank.
LEMMA HasGreatest ==
    ASSUME NEW n \in Nat, NEW L \in SUBSET (0..n), L # {}
    PROVE  \E i \in L : \A j \in L : i >= j
<1>1. IsFiniteSet(0..n)
    BY FS_Interval
<1>2. L \in SUBSET Nat /\ IsFiniteSet(L)
    <2>1. IsFiniteSet(L)
        BY <1>1, FS_Subset
    <2>2. \A i \in L : i \in Nat
        OBVIOUS
    <2> QED  BY <2>1, <2>2
<1>3. Cardinality(L) \in Nat /\ Cardinality(L) # 0
    BY <1>2, FS_CardinalityType, FS_EmptySet
<1>4. PICK i \in L : Cardinality(UpTo(L, i)) = Cardinality(L)
    BY <1>2, <1>3, EveryRank
<1>5. UpTo(L, i) \in SUBSET L
    BY DEF UpTo
<1>6. UpTo(L, i) = L
    BY <1>2, <1>4, <1>5, FS_Subset
<1>7. \A j \in L : j <= i
    BY <1>6 DEF UpTo
<1> QED  BY <1>2, <1>7
==================================================================================
