------------------------------ MODULE SetFacts ------------------------------
(* First-order facts about naturals, finite sets and finite lists that the *)
(* proofs of the components cite.                                          *)
EXTENDS FiniteSetsExt, Sequences, Lists, FiniteSetTheorems, TLAPS

\* Every nonempty set of naturals has a least element.  Otherwise the numbers
\* below all of S would be closed under successor, and on those up to some
\* s \in S the successor would be an injection that misses 0.
LEMMA LeastNat ==
  ASSUME NEW S \in SUBSET Nat, S # {}
  PROVE  \E m \in S : \A x \in S : m <= x
<1> SUFFICES ASSUME \A m \in S : \E x \in S : x < m
             PROVE  FALSE
  OBVIOUS
<1>1. PICK s \in S : TRUE
  OBVIOUS
<1> DEFINE F == {n \in 0 .. s : \A x \in S : n < x}
           succ == [n \in F |-> n + 1]
<1>2. IsFiniteSet(F)
  BY <1>1, FS_Interval, FS_Subset, 0 \in Int, s \in Int
<1>3. 0 \in F
  <2>1. 0 \notin S
    OBVIOUS
  <2> QED
    BY <2>1, <1>1
<1>4. ASSUME NEW n \in F
      PROVE  n + 1 \in F
  <2>1. n < s /\ n \in Nat
    BY <1>1
  <2>2. ASSUME NEW x \in S
        PROVE  n + 1 < x
    <3>1. PICK y \in S : y < x
      OBVIOUS
    <3>2. n < y /\ y \in Nat /\ x \in Nat
      BY <1>4
    <3> QED
      BY <3>1, <3>2, <2>1
  <2> QED
    BY <2>1, <2>2, <1>1
<1>5. succ \in Injection(F, F)
  <2>1. F \subseteq Nat
    OBVIOUS
  <2>2. succ \in [F -> F]
    BY <1>4
  <2>3. \A m, n \in F : succ[m] = m + 1 /\ succ[n] = n + 1 /\ (m + 1 = n + 1 => m = n)
    BY <2>1
  <2> HIDE DEF F, succ
  <2> QED
    BY <2>2, <2>3 DEF Injection, IsInjective
<1>6. succ \in Surjection(F, F)
  BY <1>2, <1>5, FS_Injection
<1>7. \E n \in F : n + 1 = 0
  BY <1>3, <1>6 DEF Surjection
<1> QED
  BY <1>7

\* Max of a nonempty finite set of naturals is its greatest element.  Otherwise
\* "the next larger element" would be an injection of the set into itself that
\* misses its least element.
LEMMA MaxNat ==
  ASSUME NEW S \in SUBSET Nat, S # {}, IsFiniteSet(S)
  PROVE  Max(S) \in S /\ \A x \in S : x <= Max(S)
<1>1. \E g \in S : \A x \in S : x <= g
  <2> SUFFICES ASSUME \A g \in S : \E x \in S : g < x
               PROVE  FALSE
    OBVIOUS
  <2> DEFINE Next(x) == CHOOSE y \in S : x < y /\ \A z \in S : x < z => y <= z
             next == [x \in S |-> Next(x)]
  <2>1. ASSUME NEW x \in S
        PROVE  Next(x) \in S /\ x < Next(x) /\ \A z \in S : x < z => Next(x) <= z
    <3> DEFINE above == {z \in S : x < z}
    <3>1. above \in SUBSET Nat /\ above # {}
      OBVIOUS
    <3>2. PICK y \in above : \A z \in above : y <= z
      BY <3>1, LeastNat
    <3>3. y \in S /\ x < y /\ \A z \in S : x < z => y <= z
      BY <3>2
    <3> QED
      BY <3>3
  <2>2. next \in Injection(S, S)
    <3>1. next \in [S -> S]
      BY <2>1
    <3> HIDE DEF Next
    <3>2. ASSUME NEW a \in S, NEW b \in S, Next(a) = Next(b)
          PROVE  a = b
      <4>1. a < b => Next(a) <= b
        BY <2>1
      <4>2. b < a => Next(b) <= a
        BY <2>1
      <4>3. a < Next(a) /\ b < Next(b) /\ Next(a) \in S /\ Next(b) \in S
        BY <2>1
      <4>4. PICK u \in Nat, v \in Nat : u = Next(a) /\ v = Next(b)
        BY <4>3
      <4>5. ~(a < b)
        BY <3>2, <4>1, <4>3, <4>4
      <4>6. ~(b < a)
        BY <3>2, <4>2, <4>3, <4>4
      <4> QED
        BY <4>5, <4>6
    <3> QED
      BY <3>1, <3>2 DEF Injection, IsInjective
  <2>3. next \in Surjection(S, S)
    BY <2>2, FS_Injection
  <2>4. PICK m \in S : \A x \in S : m <= x
    BY LeastNat
  <2>5. PICK x \in S : Next(x) = m
    <3> HIDE DEF Next
    <3> QED
      BY <2>3 DEF Surjection
  <2> QED
    BY <2>1, <2>4, <2>5
<1> QED
  BY <1>1 DEF Max

\* The elements of a list form a finite set, and so do those of its prefixes.
LEMMA FiniteRange ==
  ASSUME NEW T, NEW list \in Seq(T), NEW n \in 0 .. Len(list)
  PROVE  IsFiniteSet({list[i] : i \in 1 .. n})
<1> DEFINE prefix == [i \in 1 .. n |-> list[i]]
           image == {list[i] : i \in 1 .. n}
<1>1. prefix \in Surjection(1 .. n, image)
  BY DEF Surjection
<1>2. IsFiniteSet(1 .. n)
  BY FS_Interval
<1> QED
  BY <1>1, <1>2, FS_Surjection

\* Every element of a list has a first position.
LEMMA FirstPosition ==
  ASSUME NEW T, NEW list \in Seq(T), NEW k \in DOMAIN list
  PROVE  \E i \in DOMAIN list :
           list[i] = list[k] /\ \A j \in DOMAIN list : list[j] = list[k] => i <= j
<1> DEFINE at == {i \in DOMAIN list : list[i] = list[k]}
<1>1. at \in SUBSET Nat /\ at # {}
  OBVIOUS
<1>2. PICK i \in at : \A j \in at : i <= j
  BY <1>1, LeastNat
<1> QED
  BY <1>2

-----------------------------------------------------------------------------
(* Sorted lists *)

StrictOrder(S, R) ==
  /\ \A x \in S : <<x, x>> \notin R
  /\ \A x, y, z \in S : <<x, y>> \in R /\ <<y, z>> \in R => <<x, z>> \in R
  /\ \A x, y \in S : x = y \/ <<x, y>> \in R \/ <<y, x>> \in R

\* The rank in a strict total order is below the size of the set, and grows.
LEMMA RankGrows ==
  ASSUME NEW S, IsFiniteSet(S), NEW R, StrictOrder(S, R)
  PROVE  /\ \A x \in S : Rank(S, R, x) \in 0..Cardinality(S) - 1
         /\ \A x, y \in S : <<x, y>> \in R => Rank(S, R, x) < Rank(S, R, y)
<1> DEFINE below(x) == {y \in S : <<y, x>> \in R}
<1>1. Cardinality(S) \in Nat
  BY FS_CardinalityType
<1>2. ASSUME NEW x \in S
      PROVE  IsFiniteSet(below(x)) /\ Rank(S, R, x) \in 0..Cardinality(S) - 1
  <2>1. below(x) \subseteq S \ {x} /\ IsFiniteSet(S \ {x}) /\ Cardinality(S \ {x}) = Cardinality(S) - 1
    BY FS_RemoveElement DEF StrictOrder
  <2>2. Rank(S, R, x) = Cardinality(below(x))
    BY DEF Rank
  <2> HIDE DEF below
  <2>3. IsFiniteSet(below(x)) /\ Cardinality(below(x)) \in Nat
        /\ Cardinality(below(x)) <= Cardinality(S) - 1
    BY <2>1, FS_Subset, FS_CardinalityType
  <2> QED
    BY <2>2, <2>3, <1>1
<1>3. ASSUME NEW x \in S, NEW y \in S, <<x, y>> \in R
      PROVE  Rank(S, R, x) < Rank(S, R, y)
  <2>1. below(x) \cup {x} \subseteq below(y) /\ x \notin below(x)
    BY <1>3 DEF StrictOrder
  <2>2. IsFiniteSet(below(x)) /\ IsFiniteSet(below(y))
    BY <1>2
  <2>3. Rank(S, R, x) = Cardinality(below(x)) /\ Rank(S, R, y) = Cardinality(below(y))
    BY DEF Rank
  <2> HIDE DEF below
  <2>4. IsFiniteSet(below(x) \cup {x})
        /\ Cardinality(below(x) \cup {x}) = Cardinality(below(x)) + 1
    BY <2>1, <2>2, FS_AddElement
  <2>5. Cardinality(below(x)) + 1 <= Cardinality(below(y))
        /\ Cardinality(below(x)) \in Nat /\ Cardinality(below(y)) \in Nat
    BY <2>1, <2>2, <2>4, FS_Subset, FS_CardinalityType
  <2> QED
    BY <2>3, <2>5
<1> QED
  BY <1>2, <1>3

\* Every rank is some element's: as an injection of the set into the numbers below
\* its size, the rank is a surjection.
LEMMA RankTaken ==
  ASSUME NEW S, IsFiniteSet(S), NEW R, StrictOrder(S, R), NEW n \in 0..Cardinality(S) - 1
  PROVE  \E x \in S : Rank(S, R, x) = n
<1> DEFINE rank == [x \in S |-> Rank(S, R, x)]
<1>1. Cardinality(S) \in Nat
  BY FS_CardinalityType
<1>2. \A x \in S : Rank(S, R, x) \in 0..Cardinality(S) - 1
  BY RankGrows
<1>3. ASSUME NEW x \in S, NEW y \in S, Rank(S, R, x) = Rank(S, R, y)
      PROVE  x = y
  <2>1. Rank(S, R, x) \in Nat /\ Rank(S, R, y) \in Nat
    BY <1>1, <1>2
  <2>2. <<x, y>> \notin R /\ <<y, x>> \notin R
    BY <2>1, <1>3, RankGrows
  <2> QED
    BY <2>2 DEF StrictOrder
<1>4. rank \in Injection(S, 0..Cardinality(S) - 1)
  BY <1>2, <1>3 DEF Injection, IsInjective
<1>5. IsFiniteSet(0..Cardinality(S) - 1) /\ Cardinality(0..Cardinality(S) - 1) = Cardinality(S)
  BY <1>1, FS_Interval
<1>6. rank \in Surjection(S, 0..Cardinality(S) - 1)
  BY <1>4, <1>5, FS_Injection
<1> QED
  BY <1>6 DEF Surjection

\* The elements of a finite set listed by rank are all its elements, each once and in
\* order.
LEMMA RankedList ==
  ASSUME NEW S, IsFiniteSet(S), NEW R, StrictOrder(S, R)
  PROVE  LET list == Ranked(S, R)
         IN /\ list \in Seq(S) /\ Len(list) = Cardinality(S) /\ Cardinality(S) \in Nat
            /\ \A i, j \in 1..Len(list) : i < j <=> <<list[i], list[j]>> \in R
            /\ \A x \in S : \E i \in 1..Len(list) : list[i] = x
<1> DEFINE list == Ranked(S, R)
           N == Cardinality(S)
<1>1. N \in Nat
  BY FS_CardinalityType
<1>2. list = [n \in 1..N |-> CHOOSE x \in S : Rank(S, R, x) = n - 1]
  BY DEF Ranked
<1> HIDE DEF list
<1>3. ASSUME NEW n \in 1..N
      PROVE  list[n] \in S /\ Rank(S, R, list[n]) = n - 1
  <2>1. n - 1 \in 0..N - 1
    BY <1>1
  <2>2. \E x \in S : Rank(S, R, x) = n - 1
    BY <2>1, RankTaken
  <2> QED
    BY <2>2, <1>2
<1>4. list \in Seq(S) /\ Len(list) = N
  <2>1. DOMAIN list = 1..N /\ list = [n \in 1..N |-> list[n]]
    BY <1>2
  <2>2. list \in [1..N -> S]
    BY <2>1, <1>3
  <2> QED
    BY <1>1, <2>2
<1>5. ASSUME NEW i \in 1..N, NEW j \in 1..N
       PROVE  i < j <=> <<list[i], list[j]>> \in R
  <2>1. list[i] \in S /\ list[j] \in S /\ Rank(S, R, list[i]) = i - 1 /\ Rank(S, R, list[j]) = j - 1
    BY <1>3
  <2>2. <<list[i], list[j]>> \in R => Rank(S, R, list[i]) < Rank(S, R, list[j])
    BY <2>1, RankGrows
  <2>3. <<list[j], list[i]>> \in R => Rank(S, R, list[j]) < Rank(S, R, list[i])
    BY <2>1, RankGrows
  <2>4. list[i] = list[j] \/ <<list[i], list[j]>> \in R \/ <<list[j], list[i]>> \in R
    BY <2>1 DEF StrictOrder
  <2>5. list[i] = list[j] => i = j
    BY <2>1, <1>1
  <2> QED
    BY <2>1, <2>2, <2>3, <2>4, <2>5, <1>1
<1>6. ASSUME NEW x \in S
       PROVE  \E i \in 1..N : list[i] = x
  <2>1. PICK i \in Int : i = Rank(S, R, x) + 1 /\ i \in 1..N
    BY <1>1, RankGrows
  <2>2. Rank(S, R, list[i]) = Rank(S, R, x) /\ list[i] \in S /\ Rank(S, R, x) \in Int
    BY <2>1, <1>3, RankGrows
  <2>3. <<x, list[i]>> \notin R /\ <<list[i], x>> \notin R
    BY <2>2, RankGrows
  <2> QED
    BY <2>1, <2>2, <2>3 DEF StrictOrder
<1> QED
  BY <1>1, <1>4, <1>5, <1>6 DEF list

\* Ascending lists a finite set of naturals from its least to its greatest element.
LEMMA AscendingList ==
  ASSUME NEW S \in SUBSET Nat, IsFiniteSet(S)
  PROVE  LET list == Ascending(S)
         IN /\ list \in Seq(S) /\ Len(list) = Cardinality(S) /\ Cardinality(S) \in Nat
            /\ \A i, j \in 1..Len(list) : i < j <=> list[i] < list[j]
            /\ \A x \in S : \E i \in 1..Len(list) : list[i] = x
<1> DEFINE R == {p \in S \X S : p[1] < p[2]}
           list == Ranked(S, R)
<1>1. \A x, y \in S : <<x, y>> \in R <=> x < y
  OBVIOUS
<1>2. list = Ascending(S)
  BY DEF Ascending
<1> HIDE DEF R
<1>3. StrictOrder(S, R)
  BY <1>1 DEF StrictOrder
<1>4. /\ list \in Seq(S) /\ Len(list) = Cardinality(S) /\ Cardinality(S) \in Nat
      /\ \A i, j \in 1..Len(list) : i < j <=> <<list[i], list[j]>> \in R
      /\ \A x \in S : \E i \in 1..Len(list) : list[i] = x
  BY <1>3, RankedList
<1> HIDE DEF list
<1>5. \A i, j \in 1..Len(list) : list[i] \in S /\ list[j] \in S
  BY <1>4
<1>6. \A i, j \in 1..Len(list) : i < j <=> list[i] < list[j]
  BY <1>1, <1>4, <1>5
<1> QED
  BY <1>2, <1>4, <1>6

\* There is one ascending list of a set.
LEMMA OneAscendingList ==
  ASSUME NEW S \in SUBSET Nat, IsFiniteSet(S), NEW s \in Seq(S),
         \A i, j \in 1..Len(s) : i < j => s[i] < s[j],
         \A x \in S : \E i \in 1..Len(s) : s[i] = x
  PROVE  s = Ascending(S)
<1> DEFINE list == Ascending(S)
           bad == {k \in 1..Len(s) : k > Len(list) \/ s[k] # list[k]}
<1>1. /\ list \in Seq(S)
      /\ \A i, j \in 1..Len(list) : i < j <=> list[i] < list[j]
      /\ \A x \in S : \E i \in 1..Len(list) : list[i] = x
  BY AscendingList
<1> HIDE DEF list
<1>2. Len(s) \in Nat /\ Len(list) \in Nat
  BY <1>1
<1>3. (\A i \in 1..Len(s) : s[i] \in S /\ s[i] \in Nat)
      /\ (\A i \in 1..Len(list) : list[i] \in S /\ list[i] \in Nat)
  <2>1. (\A i \in 1..Len(s) : s[i] \in S) /\ (\A i \in 1..Len(list) : list[i] \in S)
    BY <1>1
  <2>2. \A x \in S : x \in Nat
    OBVIOUS
  <2> QED
    BY <2>1, <2>2
<1>4. ASSUME bad # {}
      PROVE  FALSE
  <2>1. bad \in SUBSET Nat
    BY <1>2
  <2>2. PICK k \in bad : \A j \in bad : k <= j
    BY <2>1, <1>4, LeastNat
  <2>3. k \in 1..Len(s)
    OBVIOUS
  <2>4. ASSUME NEW j \in 1..k - 1
        PROVE  j \in 1..Len(s) /\ j \in 1..Len(list) /\ s[j] = list[j] /\ j < k
    <3>1. j \in 1..Len(s) /\ j < k /\ j \notin bad
      BY <2>2, <2>3, <1>2
    <3> QED
      BY <3>1, <1>2
  <2>5. PICK m \in 1..Len(list) : list[m] = s[k]
    BY <2>3, <1>1, <1>3
  <2>6. m >= k
    <3>1. CASE m \in 1..k - 1
      <4>1. s[m] = s[k] /\ s[m] < s[k] /\ s[m] \in Nat
        BY <3>1, <2>3, <2>4, <2>5, <1>3
      <4> QED
        BY <4>1
    <3> QED
      BY <3>1, <2>3, <2>5, <1>2
  <2>7. k \in 1..Len(list)
    BY <2>3, <2>5, <2>6, <1>2
  <2>8. PICK n \in 1..Len(s) : s[n] = list[k]
    BY <2>7, <1>3
  <2>9. n >= k
    <3>1. CASE n \in 1..k - 1
      <4>1. list[n] = list[k] /\ list[n] < list[k] /\ list[n] \in Nat
        BY <3>1, <2>4, <2>7, <2>8, <1>1, <1>3
      <4> QED
        BY <4>1
    <3> QED
      BY <3>1, <2>3, <2>8, <1>2
  <2>10. k = m \/ list[k] < list[m]
    BY <2>5, <2>6, <2>7, <1>1, <1>2
  <2>11. k = n \/ s[k] < s[n]
    BY <2>3, <2>8, <2>9, <1>2
  <2>12. s[k] \in Nat /\ list[k] \in Nat
    BY <2>3, <2>7, <1>3
  <2>13. s[k] = list[k]
    BY <2>5, <2>8, <2>10, <2>11, <2>12
  <2> QED
    BY <2>2, <2>7, <2>13
<1>5. \A k \in 1..Len(s) : k <= Len(list) /\ s[k] = list[k]
  BY <1>2, <1>4
<1>6. Len(s) = Len(list)
  <2>1. CASE Len(s) < Len(list)
    <3>1. Len(s) + 1 \in 1..Len(list)
      BY <2>1, <1>2
    <3>2. PICK n \in 1..Len(s) : s[n] = list[Len(s) + 1]
      BY <3>1, <1>3
    <3>3. n \in 1..Len(list) /\ list[n] = list[Len(s) + 1] /\ n < Len(s) + 1
      BY <3>2, <1>2, <1>5
    <3>4. list[n] < list[Len(s) + 1] /\ list[n] \in Nat
      BY <3>1, <3>3, <1>1, <1>3
    <3> QED
      BY <3>3, <3>4
  <2>2. Len(s) <= Len(list)
    BY <1>2, <1>5
  <2> QED
    BY <2>1, <2>2, <1>2
<1>7. s = list
  BY <1>1, <1>5, <1>6
<1> QED
  BY <1>7 DEF list

\* The places in a list where an element of S stands, in order.
PlacesOf(s, S) == Ascending({i \in DOMAIN s : s[i] \in S})

\* Only keeps the elements of S, no others, in the order of the list.
LEMMA OnlyList ==
  ASSUME NEW T, NEW s \in Seq(T), NEW S
  PROVE  LET at == PlacesOf(s, S)
         IN /\ Only(s, S) \in Seq(T)
            /\ at \in [1..Len(Only(s, S)) -> 1..Len(s)]
            /\ \A n \in 1..Len(Only(s, S)) : Only(s, S)[n] = s[at[n]] /\ s[at[n]] \in S
            /\ \A m, n \in 1..Len(Only(s, S)) : m < n <=> at[m] < at[n]
            /\ \A i \in 1..Len(s) : s[i] \in S => \E n \in 1..Len(Only(s, S)) : at[n] = i
<1> DEFINE P == {i \in DOMAIN s : s[i] \in S}
           list == Ascending(P)
<1>1. P \subseteq 1..Len(s) /\ IsFiniteSet(1..Len(s)) /\ P \in SUBSET Nat
  BY FS_Interval
<1>2. IsFiniteSet(P)
  BY <1>1, FS_Subset
<1>3. /\ list \in Seq(P)
      /\ \A i, j \in 1..Len(list) : i < j <=> list[i] < list[j]
      /\ \A x \in P : \E i \in 1..Len(list) : list[i] = x
  BY <1>1, <1>2, AscendingList
<1>4. Only(s, S) = [n \in DOMAIN list |-> s[list[n]]]
  BY DEF Only
<1> HIDE DEF list
<1>5. DOMAIN list = 1..Len(list) /\ Len(list) \in Nat /\ list \in [1..Len(list) -> P]
  BY <1>3
<1>6. /\ Only(s, S) \in Seq(T) /\ Len(Only(s, S)) = Len(list)
      /\ \A n \in 1..Len(list) : Only(s, S)[n] = s[list[n]] /\ s[list[n]] \in S
  BY <1>4, <1>5
<1>7. list \in [1..Len(Only(s, S)) -> 1..Len(s)]
  BY <1>5, <1>6, <1>1
<1>8. \A i \in 1..Len(s) : s[i] \in S => \E n \in 1..Len(list) : list[n] = i
  BY <1>3
<1>9. list = PlacesOf(s, S)
  BY DEF list, PlacesOf
<1> HIDE DEF P
<1> QED
  BY <1>3, <1>6, <1>7, <1>8, <1>9

-----------------------------------------------------------------------------
(* Recursive functions and sums *)

\* A step and a start define a sequence of values.
Iterates(D, d, N, step) ==
  \E f \in [0..N -> D] : f[0] = d /\ \A i \in 1..N : f[i] = step[<<f[i - 1], i>>]

\* A function defined by a first value and a step exists.
LEMMA Recursion ==
  ASSUME NEW D, NEW d \in D, NEW N \in Nat, NEW g \in [D \X (1..N) -> D]
  PROVE  Iterates(D, d, N, g)
<1> DEFINE Upto(n) == {f \in [0..n -> D] : f[0] = d /\ \A i \in 1..n : f[i] = g[<<f[i - 1], i>>]}
           bad == {n \in 0..N : Upto(n) = {}}
<1>1. ASSUME bad # {}
      PROVE  FALSE
  <2>1. bad \in SUBSET Nat
    OBVIOUS
  <2>2. PICK m \in bad : \A n \in bad : m <= n
    BY <1>1, <2>1, LeastNat
  <2>3. m # 0
    <3>1. [i \in 0..0 |-> d] \in Upto(0)
      OBVIOUS
    <3> QED
      BY <3>1
  <2>4. m - 1 \in 0..N /\ m \in 1..N
    BY <2>3
  <2>5. PICK f \in Upto(m - 1) : TRUE
    BY <2>2, <2>4
  <2> DEFINE e == [i \in 0..m |-> IF i < m THEN f[i] ELSE g[<<f[m - 1], m>>]]
  <2>6. e \in [0..m -> D] /\ e[0] = d
    BY <2>4, <2>5
  <2>7. ASSUME NEW i \in 1..m
        PROVE  e[i] = g[<<e[i - 1], i>>]
    <3>1. e[i - 1] = f[i - 1]
      BY <2>4
    <3>2. CASE i < m
      <4>1. i \in 1..m - 1 /\ e[i] = f[i]
        BY <3>2, <2>4
      <4>2. f[i] = g[<<f[i - 1], i>>]
        BY <4>1, <2>5
      <4> QED
        BY <4>1, <4>2, <3>1
    <3>3. CASE i = m
      <4>1. e[m] = g[<<f[m - 1], m>>]
        BY <2>4
      <4> QED
        BY <3>3, <3>1, <4>1
    <3> QED
      BY <3>2, <3>3, <2>4
  <2>8. e \in Upto(m)
    BY <2>6, <2>7
  <2> QED
    BY <2>2, <2>8
<1>2. N \notin bad
  BY <1>1
<1>3. PICK f \in Upto(N) : TRUE
  BY <1>2
<1> QED
  BY <1>3 DEF Iterates

\* Sums are added up from the left.
LEMMA TotalSteps ==
  ASSUME NEW s \in Seq(Nat)
  PROVE  \E f \in [0..Len(s) -> Nat] :
           Total(s) = f[Len(s)] /\ f[0] = 0 /\ \A k \in 1..Len(s) : f[k] = f[k - 1] + s[k]
<1> DEFINE N == Len(s)
           g == [p \in Nat \X (1..N) |-> p[1] + s[p[2]]]
           Steps(f) == f = [k \in 0..N |-> IF k = 0 THEN 0 ELSE f[k - 1] + s[k]]
           sum == CHOOSE f : Steps(f)
<1>1. N \in Nat /\ g \in [Nat \X (1..N) -> Nat]
  OBVIOUS
<1>2. PICK f \in [0..N -> Nat] : f[0] = 0 /\ \A k \in 1..N : f[k] = g[<<f[k - 1], k>>]
  <2>1. 0 \in Nat
    OBVIOUS
  <2> HIDE DEF g, N
  <2>2. Iterates(Nat, 0, N, g)
    BY <1>1, <2>1, Recursion
  <2> QED
    BY <2>2 DEF Iterates
<1>3. ASSUME NEW k \in 1..N
      PROVE  f[k] = f[k - 1] + s[k]
  <2>1. f[k - 1] \in Nat /\ s[k] \in Nat
    BY <1>1
  <2>2. <<f[k - 1], k>> \in Nat \X (1..N)
    BY <2>1
  <2>3. g[<<f[k - 1], k>>] = f[k - 1] + s[k]
    BY <2>2
  <2> QED
    BY <1>2, <2>3
<1>4. Steps(f)
  BY <1>1, <1>2, <1>3
<1>5. Steps(sum)
  BY <1>4
<1>6. Total(s) = sum[N]
  BY DEF Total
<1> HIDE DEF sum
<1>7. DOMAIN sum = 0..N /\ sum[0] = 0 /\ \A k \in 1..N : sum[k] = sum[k - 1] + s[k]
  BY <1>1, <1>5
<1>8. ASSUME {k \in 0..N : sum[k] \notin Nat} # {}
      PROVE  FALSE
  <2>1. PICK k \in 0..N : sum[k] \notin Nat /\ \A j \in 0..N : sum[j] \notin Nat => k <= j
    <3> DEFINE odd == {k \in 0..N : sum[k] \notin Nat}
    <3>1. odd \in SUBSET Nat
      OBVIOUS
    <3>2. PICK k \in odd : \A j \in odd : k <= j
      BY <3>1, <1>8, LeastNat
    <3> QED
      BY <3>2
  <2>2. k # 0 /\ k - 1 \in 0..N /\ sum[k - 1] \in Nat /\ k \in 1..N
    BY <2>1, <1>7, <1>1
  <2> QED
    BY <2>1, <2>2, <1>7
<1>9. sum \in [0..N -> Nat]
  <2>1. sum = [k \in 0..N |-> sum[k]]
    BY <1>5, <1>7
  <2> QED
    BY <2>1, <1>8
<1> QED
  BY <1>6, <1>7, <1>9

\* The sum of nothing is zero, and one more number adds itself.
LEMMA TotalEmpty == Total(<<>>) = 0
<1>1. <<>> \in Seq(Nat) /\ Len(<<>>) = 0
  OBVIOUS
<1> QED
  BY <1>1, TotalSteps

\* The total of natural numbers is one.
LEMMA TotalNat ==
  ASSUME NEW s \in Seq(Nat)
  PROVE  Total(s) \in Nat /\ \A k \in 1..Len(s) : s[k] <= Total(s)
<1>1. PICK f \in [0..Len(s) -> Nat] :
        Total(s) = f[Len(s)] /\ f[0] = 0 /\ \A k \in 1..Len(s) : f[k] = f[k - 1] + s[k]
  BY TotalSteps
<1>2. Len(s) \in Nat /\ \A k \in 1..Len(s) : s[k] \in Nat
  OBVIOUS
<1>3. ASSUME NEW k \in 1..Len(s), f[Len(s)] < s[k]
      PROVE  FALSE
  <2> DEFINE low == {j \in k..Len(s) : f[j] < s[k]}
  <2>1. low \in SUBSET Nat /\ low # {}
    BY <1>2, <1>3
  <2>2. PICK j \in low : \A i \in low : j <= i
    BY <2>1, LeastNat
  <2>3. j \in 1..Len(s) /\ f[j] = f[j - 1] + s[j] /\ f[j] < s[k]
    BY <2>2, <1>1, <1>2
  <2>4. f[j - 1] \in Nat /\ s[j] \in Nat /\ f[j] \in Nat
    <3>1. j - 1 \in 0..Len(s) /\ j \in 0..Len(s)
      BY <2>3, <1>2
    <3> QED
      BY <3>1, <2>3, <1>2, <1>1
  <2>5. j # k
    BY <2>3, <2>4
  <2>6. j - 1 \in low
    BY <2>2, <2>3, <2>4, <2>5
  <2> QED
    BY <2>2, <2>6
<1> QED
  BY <1>1, <1>2, <1>3

\* One more number adds to the total.
LEMMA TotalAppend ==
  ASSUME NEW s \in Seq(Nat), NEW x \in Nat
  PROVE  Total(Append(s, x)) = Total(s) + x
<1> DEFINE t == Append(s, x)
           N == Len(s)
<1>1. t \in Seq(Nat) /\ Len(t) = N + 1 /\ t[N + 1] = x /\ N \in Nat /\ \A k \in 1..N : t[k] = s[k]
  OBVIOUS
<1>2. PICK f \in [0..N -> Nat] :
        Total(s) = f[N] /\ f[0] = 0 /\ \A k \in 1..N : f[k] = f[k - 1] + s[k]
  BY TotalSteps
<1> HIDE DEF t
<1>3. PICK e \in [0..N + 1 -> Nat] :
        Total(t) = e[N + 1] /\ e[0] = 0 /\ \A k \in 1..N + 1 : e[k] = e[k - 1] + t[k]
  BY <1>1, TotalSteps
<1>4. ASSUME {k \in 0..N : e[k] # f[k]} # {}
      PROVE  FALSE
  <2> DEFINE apart == {k \in 0..N : e[k] # f[k]}
  <2>1. apart \in SUBSET Nat
    OBVIOUS
  <2>2. PICK k \in apart : \A j \in apart : k <= j
    BY <2>1, <1>4, LeastNat
  <2>3. k \in 1..N /\ k \in 1..N + 1 /\ k - 1 \in 0..N /\ k - 1 \notin apart
    <3>1. k # 0
      BY <2>2, <1>2, <1>3
    <3> HIDE DEF apart
    <3>2. k \in 0..N
      BY <2>2 DEF apart
    <3>3. k \in 1..N /\ k \in 1..N + 1 /\ k - 1 \in 0..N
      BY <3>1, <3>2, <1>1
    <3>4. k - 1 \notin apart
      BY <3>3, <2>2, <1>1
    <3> QED
      BY <3>3, <3>4
  <2>4. e[k] = e[k - 1] + t[k] /\ f[k] = f[k - 1] + s[k] /\ t[k] = s[k] /\ e[k - 1] = f[k - 1]
    BY <2>3, <1>1, <1>2, <1>3
  <2> QED
    BY <2>2, <2>4
<1>5. N \in 0..N /\ N + 1 \in 1..N + 1 /\ (N + 1) - 1 = N
  BY <1>1
<1>6. e[N + 1] = e[N] + t[N + 1] /\ e[N] = f[N]
  BY <1>3, <1>4, <1>5
<1> QED
  BY <1>1, <1>2, <1>3, <1>6 DEF t
=============================================================================
