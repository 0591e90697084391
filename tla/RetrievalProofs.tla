-------------------------- MODULE RetrievalProofs --------------------------
(* Theorems about Retrieval for every set of readers and queries, every TopK *)
(* and Alpha, over every ingestion.                                          *)
EXTENDS Retrieval, IngestionProofs, SetFacts

-----------------------------------------------------------------------------
(* Lists of chunks *)

\* The first n elements of a list.
LEMMA FirstOf ==
  ASSUME NEW T, NEW s \in Seq(T), NEW n \in Nat
  PROVE  /\ First(s, n) \in Seq(T)
         /\ Len(First(s, n)) = IF Len(s) < n THEN Len(s) ELSE n
         /\ \A i \in 1..Len(First(s, n)) : First(s, n)[i] = s[i]
         /\ Elements(First(s, n)) \subseteq Elements(s)
         /\ NoRepeat(s) => NoRepeat(First(s, n))
<1>1. /\ First(s, n) \in Seq(T)
      /\ Len(First(s, n)) = IF Len(s) < n THEN Len(s) ELSE n
      /\ \A i \in 1..Len(First(s, n)) : First(s, n)[i] = s[i]
  BY DEF First
<1>2. DOMAIN First(s, n) = 1..Len(First(s, n)) /\ DOMAIN First(s, n) \subseteq DOMAIN s
  BY <1>1
<1> QED
  BY <1>1, <1>2 DEF Elements, NoRepeat

\* The elements of a list that are in a set, in their order.
LEMMA OnlyOf ==
  ASSUME NEW T, NEW s \in Seq(T), NEW S
  PROVE  /\ Only(s, S) \in Seq(T)
         /\ Elements(Only(s, S)) = Elements(s) \cap S
         /\ NoRepeat(s) => NoRepeat(Only(s, S))
<1> DEFINE o == Only(s, S)
           at == PlacesOf(s, S)
<1>2. /\ o \in Seq(T) /\ at \in [1..Len(o) -> 1..Len(s)]
      /\ \A n \in 1..Len(o) : o[n] = s[at[n]] /\ s[at[n]] \in S
      /\ \A m, n \in 1..Len(o) : m < n <=> at[m] < at[n]
      /\ \A i \in 1..Len(s) : s[i] \in S => \E n \in 1..Len(o) : at[n] = i
  BY OnlyList
<1> HIDE DEF at
<1> HIDE DEF o
<1>3. DOMAIN o = 1..Len(o) /\ DOMAIN s = 1..Len(s) /\ Len(o) \in Nat
  BY <1>2
<1>4. Elements(o) = Elements(s) \cap S
  <2>1. Elements(o) \subseteq Elements(s) \cap S
    BY <1>2, <1>3 DEF Elements
  <2>2. Elements(s) \cap S \subseteq Elements(o)
    BY <1>2, <1>3 DEF Elements
  <2> QED
    BY <2>1, <2>2
<1>5. ASSUME NoRepeat(s), NEW m \in 1..Len(o), NEW n \in 1..Len(o), o[m] = o[n]
      PROVE  m = n
  <2>1. at[m] = at[n]
    BY <1>2, <1>3, <1>5 DEF NoRepeat
  <2>2. at[m] \in Nat /\ at[n] \in Nat
    BY <1>2, <1>3
  <2>3. ~(m < n) /\ ~(n < m)
    BY <1>2, <2>1, <2>2
  <2> QED
    BY <2>3
<1> QED
  BY <1>2, <1>3, <1>4, <1>5 DEF o, NoRepeat

\* The rank in a list without repetition is the position.
LEMMA RankOf ==
  ASSUME NEW T, NEW s \in Seq(T), NoRepeat(s)
  PROVE  /\ \A c : RankIn(s, c) \in 0..Len(s) /\ (RankIn(s, c) # 0 <=> c \in Elements(s))
         /\ \A i \in 1..Len(s) : RankIn(s, s[i]) = i
         /\ \A c \in Elements(s) : s[RankIn(s, c)] = c
<1>1. DOMAIN s = 1..Len(s) /\ Len(s) \in Nat
  OBVIOUS
<1>2. ASSUME NEW i \in 1..Len(s)
      PROVE  RankIn(s, s[i]) = i
  BY <1>1 DEF RankIn, Elements, NoRepeat
<1>3. ASSUME NEW c \in Elements(s)
      PROVE  RankIn(s, c) \in 1..Len(s) /\ s[RankIn(s, c)] = c
  <2>1. PICK i \in 1..Len(s) : s[i] = c
    BY <1>1 DEF Elements
  <2> QED
    BY <2>1, <1>2
<1>4. ASSUME NEW c, c \notin Elements(s)
      PROVE  RankIn(s, c) = 0
  BY <1>4 DEF RankIn
<1> QED
  BY <1>1, <1>2, <1>3, <1>4

\* A list without repetition is as long as the set of its elements.
LEMMA Distinct ==
  ASSUME NEW T, NEW s \in Seq(T), NoRepeat(s)
  PROVE  Cardinality(Elements(s)) = Len(s) /\ IsFiniteSet(Elements(s))
<1>1. s \in [1..Len(s) -> Elements(s)] /\ Len(s) \in Nat /\ DOMAIN s = 1..Len(s)
  BY DEF Elements
<1>2. s \in Injection(1..Len(s), Elements(s)) /\ s \in Surjection(1..Len(s), Elements(s))
  BY <1>1 DEF Injection, IsInjective, Surjection, NoRepeat, Elements
<1>3. IsFiniteSet(1..Len(s)) /\ Cardinality(1..Len(s)) = Len(s)
  <2>1. Len(s) \in Int /\ 1 \in Int
    BY <1>1
  <2>2. /\ IsFiniteSet(1..Len(s))
        /\ Cardinality(1..Len(s)) = IF 1 > Len(s) THEN 0 ELSE Len(s) - 1 + 1
    BY <2>1, FS_Interval
  <2> QED
    BY <1>1, <2>2
<1> QED
  BY <1>2, <1>3, FS_Surjection

\* A list has finitely many elements.
LEMMA FiniteElements ==
  ASSUME NEW T, NEW s \in Seq(T)
  PROVE  IsFiniteSet(Elements(s))
<1>1. Elements(s) = {s[i] : i \in 1..Len(s)} /\ Len(s) \in 0..Len(s)
  BY DEF Elements
<1> QED
  BY <1>1, FiniteRange

-----------------------------------------------------------------------------
(* Fusion *)

\* Products with one positive factor compare as the others do.
LEMMA Cancel ==
  ASSUME NEW x \in Nat, NEW y \in Nat, NEW d \in Nat \ {0}
  PROVE  (x * d > y * d => x > y) /\ (x * d >= y * d => x >= y) /\ (x > y => x * d > y * d)
OBVIOUS

\* Fractions are compared by their cross products.
LEMMA Fractions ==
  ASSUME NEW a \in Nat, NEW b \in Nat \ {0}, NEW c \in Nat, NEW d \in Nat \ {0},
         NEW e \in Nat, NEW f \in Nat \ {0}, a * d >= c * b, c * f >= e * d
  PROVE  /\ a * f >= e * b
         /\ a * d > c * b \/ c * f > e * d => a * f > e * b
<1>1. /\ a * d \in Nat /\ c * b \in Nat /\ c * f \in Nat /\ e * d \in Nat
      /\ a * f \in Nat /\ e * b \in Nat
  OBVIOUS
<1>2. (a * f) * d = (a * d) * f /\ (c * b) * f = (c * f) * b /\ (e * d) * b = (e * b) * d
  OBVIOUS
<1>3. (a * d) * f >= (c * b) * f /\ (c * f) * b >= (e * d) * b
  OBVIOUS
<1>4. (a * d > c * b => (a * d) * f > (c * b) * f) /\ (c * f > e * d => (c * f) * b > (e * d) * b)
  BY <1>1, Cancel
<1>5. /\ (a * d) * f \in Nat /\ (c * b) * f \in Nat /\ (c * f) * b \in Nat
      /\ (e * d) * b \in Nat /\ (a * f) * d \in Nat /\ (e * b) * d \in Nat
  OBVIOUS
<1>6. /\ (a * f) * d >= (e * b) * d
      /\ a * d > c * b \/ c * f > e * d => (a * f) * d > (e * b) * d
  BY <1>2, <1>3, <1>4, <1>5
<1> QED
  BY <1>1, <1>6, Cancel

\* Only keeps the order of a list without repetition.
LEMMA OnlyOrder ==
  ASSUME NEW T, NEW s \in Seq(T), NoRepeat(s), NEW S,
         NEW a \in Elements(s) \cap S, NEW b \in Elements(s) \cap S,
         RankIn(s, a) < RankIn(s, b)
  PROVE  RankIn(Only(s, S), a) < RankIn(Only(s, S), b)
<1> DEFINE o == Only(s, S)
           at == PlacesOf(s, S)
<1>1. /\ o \in Seq(T) /\ at \in [1..Len(o) -> 1..Len(s)]
      /\ \A n \in 1..Len(o) : o[n] = s[at[n]]
      /\ \A m, n \in 1..Len(o) : m < n <=> at[m] < at[n]
  BY OnlyList
<1>2. NoRepeat(o) /\ Elements(o) = Elements(s) \cap S
  BY OnlyOf
<1> HIDE DEF o, at
<1>3. PICK m \in 1..Len(o), n \in 1..Len(o) : m = RankIn(o, a) /\ n = RankIn(o, b) /\ o[m] = a /\ o[n] = b
  <2>1. RankIn(o, a) \in 1..Len(o) /\ RankIn(o, b) \in 1..Len(o) /\ o[RankIn(o, a)] = a /\ o[RankIn(o, b)] = b
    BY <1>1, <1>2, RankOf
  <2> QED
    BY <2>1
<1>4. RankIn(s, a) = at[m] /\ RankIn(s, b) = at[n]
  <2>1. at[m] \in 1..Len(s) /\ at[n] \in 1..Len(s) /\ s[at[m]] = a /\ s[at[n]] = b
    BY <1>1, <1>3
  <2> QED
    BY <2>1, RankOf
<1> QED
  BY <1>1, <1>3, <1>4 DEF o

\* The order in which chunks are scored: those of v, then those only in k.
LEMMA ScoredOf ==
  ASSUME NEW T, NEW v \in Seq(T), NEW k \in Seq(T), NoRepeat(v), NoRepeat(k)
  PROVE  LET o == Scored(v, k)
         IN /\ o \in Seq(T) /\ NoRepeat(o) /\ Elements(o) = Elements(v) \cup Elements(k)
            /\ \A a \in Elements(v) : RankIn(o, a) = RankIn(v, a)
            /\ \A a \in Elements(v), b \in Elements(k) \ Elements(v) : RankIn(o, a) < RankIn(o, b)
            /\ \A a, b \in Elements(k) \ Elements(v) :
                 RankIn(k, a) < RankIn(k, b) => RankIn(o, a) < RankIn(o, b)
<1> DEFINE w == Only(k, Elements(k) \ Elements(v))
           o == v \o w
<1>1. w \in Seq(T) /\ NoRepeat(w) /\ Elements(w) = Elements(k) \ Elements(v)
  BY OnlyOf
<1>2. ASSUME NEW a \in Elements(k) \ Elements(v), NEW b \in Elements(k) \ Elements(v),
             RankIn(k, a) < RankIn(k, b)
      PROVE  RankIn(w, a) < RankIn(w, b)
  BY <1>2, OnlyOrder
<1>3. o = Scored(v, k)
  BY DEF Scored
<1> HIDE DEF w
<1>4. /\ o \in Seq(T) /\ Len(o) = Len(v) + Len(w) /\ DOMAIN o = 1..Len(o)
      /\ \A i \in 1..Len(v) : o[i] = v[i]
      /\ \A i \in 1..Len(w) : o[Len(v) + i] = w[i]
      /\ Len(v) \in Nat /\ Len(w) \in Nat /\ DOMAIN v = 1..Len(v) /\ DOMAIN w = 1..Len(w)
  BY <1>1
<1>5. \A i \in 1..Len(o) : i \in 1..Len(v) \/ \E j \in 1..Len(w) : i = Len(v) + j
  <2> TAKE i \in 1..Len(o)
  <2>1. i \notin 1..Len(v) => i - Len(v) \in 1..Len(w) /\ i = Len(v) + (i - Len(v))
    BY <1>4
  <2> QED
    BY <2>1
<1> HIDE DEF o
<1>6. \A i \in 1..Len(v) : v[i] \in Elements(v)
  BY <1>4 DEF Elements
<1>7. \A i \in 1..Len(w) : w[i] \in Elements(k) /\ w[i] \notin Elements(v)
  BY <1>1, <1>4 DEF Elements
<1>8. NoRepeat(o)
  <2> SUFFICES ASSUME NEW i \in 1..Len(o), NEW j \in 1..Len(o), o[i] = o[j]
               PROVE  i = j
    BY <1>4 DEF NoRepeat
  <2>1. CASE i \in 1..Len(v) /\ j \in 1..Len(v)
    <3>1. v[i] = v[j]
      BY <2>1, <1>4
    <3> QED
      BY <3>1, <2>1, <1>4 DEF NoRepeat
  <2>2. ASSUME NEW m \in 1..Len(w), NEW n \in 1..Len(w), i = Len(v) + m, j = Len(v) + n
        PROVE  i = j
    <3>1. w[m] = w[n]
      BY <2>2, <1>4
    <3> QED
      BY <3>1, <2>2, <1>1, <1>4 DEF NoRepeat
  <2>3. \A m \in 1..Len(v), n \in 1..Len(w) : o[m] # o[Len(v) + n]
    BY <1>4, <1>6, <1>7
  <2> QED
    BY <2>1, <2>2, <2>3, <1>5
<1>9. Elements(o) = Elements(v) \cup Elements(k)
  <2>1. ASSUME NEW i \in 1..Len(o)
        PROVE  o[i] \in Elements(v) \cup Elements(w)
    <3>1. \A j \in 1..Len(w) : w[j] \in Elements(w)
      BY <1>4 DEF Elements
    <3> QED
      BY <3>1, <1>4, <1>5, <1>6
  <2>2. Elements(v) \subseteq Elements(o)
    BY <1>4 DEF Elements
  <2>3. Elements(w) \subseteq Elements(o)
    <3>1. \A i \in 1..Len(w) : Len(v) + i \in 1..Len(o)
      BY <1>4
    <3> QED
      BY <3>1, <1>4 DEF Elements
  <2> QED
    <3>1. Elements(o) \subseteq Elements(v) \cup Elements(w)
      <4>1. \A c \in Elements(o) : \E i \in 1..Len(o) : c = o[i]
        BY <1>4 DEF Elements
      <4> QED
        BY <4>1, <2>1
    <3> QED
      BY <3>1, <2>2, <2>3, <1>1
<1>10. ASSUME NEW a \in Elements(v)
       PROVE  RankIn(o, a) = RankIn(v, a) /\ RankIn(v, a) \in 1..Len(v)
  <2>1. RankIn(v, a) \in 1..Len(v) /\ v[RankIn(v, a)] = a
    BY RankOf
  <2>2. RankIn(v, a) \in 1..Len(o) /\ o[RankIn(v, a)] = a
    BY <2>1, <1>4
  <2> QED
    BY <2>1, <2>2, <1>4, <1>8, RankOf
<1>11. ASSUME NEW b \in Elements(k) \ Elements(v)
       PROVE  RankIn(o, b) = Len(v) + RankIn(w, b) /\ RankIn(w, b) \in 1..Len(w)
  <2>1. RankIn(w, b) \in 1..Len(w) /\ w[RankIn(w, b)] = b
    BY <1>1, RankOf
  <2>2. Len(v) + RankIn(w, b) \in 1..Len(o) /\ o[Len(v) + RankIn(w, b)] = b
    BY <2>1, <1>4
  <2>3. RankIn(o, o[Len(v) + RankIn(w, b)]) = Len(v) + RankIn(w, b)
    BY <2>2, <1>4, <1>8, RankOf
  <2> QED
    BY <2>1, <2>2, <2>3
<1>12. \A a \in Elements(v), b \in Elements(k) \ Elements(v) : RankIn(o, a) < RankIn(o, b)
  BY <1>4, <1>10, <1>11
<1>13. \A a, b \in Elements(k) \ Elements(v) :
         RankIn(k, a) < RankIn(k, b) => RankIn(o, a) < RankIn(o, b)
  BY <1>2, <1>4, <1>11
<1> QED
  BY <1>3, <1>4, <1>8, <1>9, <1>10, <1>12, <1>13

\* Chunks are sorted by a strict total order: by score, then as they were scored.
LEMMA FusionOrder ==
  ASSUME Alpha \in 0..100, NEW T, NEW v \in Seq(T), NEW k \in Seq(T), NoRepeat(v), NoRepeat(k)
  PROVE  LET all == Elements(v) \cup Elements(k)
         IN StrictOrder(all, {p \in all \X all : Beats(v, k, p[1], p[2])})
<1> DEFINE all == Elements(v) \cup Elements(k)
           order == {p \in all \X all : Beats(v, k, p[1], p[2])}
           num(c) == Score(v, k, c).num
           den(c) == Score(v, k, c).den
           place(c) == RankIn(Scored(v, k), c)
<1>1. ASSUME NEW c
      PROVE  num(c) \in Nat /\ den(c) \in Nat \ {0}
  <2> DEFINE rv == RankIn(v, c)
             rk == RankIn(k, c)
             wv == IF rv = 0 THEN 0 ELSE Alpha
             wk == IF rk = 0 THEN 0 ELSE 100 - Alpha
  <2>1. num(c) = wv * (RrfK + rk) + wk * (RrfK + rv) /\ den(c) = (RrfK + rv) * (RrfK + rk)
    BY DEF Score
  <2>2. rv \in Nat /\ rk \in Nat
    BY RankOf
  <2>3. wv \in Nat /\ wk \in Nat
    OBVIOUS
  <2>4. PICK x \in Nat \ {0}, y \in Nat \ {0} : x = RrfK + rv /\ y = RrfK + rk
    BY <2>2 DEF RrfK
  <2> HIDE DEF num, den, rv, rk, wv, wk
  <2>5. wv * y + wk * x \in Nat /\ x * y \in Nat \ {0}
    BY <2>3
  <2> QED
    BY <2>1, <2>4, <2>5
<1>2. /\ \A c \in all : place(c) \in Nat
      /\ \A b, c \in all : place(b) = place(c) => b = c
  <2>1. Scored(v, k) \in Seq(T) /\ NoRepeat(Scored(v, k)) /\ Elements(Scored(v, k)) = all
    BY ScoredOf
  <2>2. \A c \in all : place(c) \in 1..Len(Scored(v, k)) /\ Scored(v, k)[place(c)] = c
    BY <2>1, RankOf
  <2> QED
    BY <2>2
<1>3. \A b, c \in all : <<b, c>> \in order <=>
        \/ num(b) * den(c) > num(c) * den(b)
        \/ num(b) * den(c) = num(c) * den(b) /\ place(b) < place(c)
  BY DEF Beats
<1> HIDE DEF all, order, num, den, place
<1>4. ASSUME NEW b \in all
      PROVE  <<b, b>> \notin order
  <2>1. num(b) * den(b) \in Nat
    BY <1>1
  <2> QED
    BY <2>1, <1>2, <1>3
<1>5. ASSUME NEW b \in all, NEW c \in all
      PROVE  b = c \/ <<b, c>> \in order \/ <<c, b>> \in order
  <2>1. num(b) * den(c) \in Nat /\ num(c) * den(b) \in Nat
    BY <1>1
  <2>2. place(b) \in Nat /\ place(c) \in Nat /\ (place(b) = place(c) => b = c)
    BY <1>2
  <2> QED
    BY <2>1, <2>2, <1>3
<1>6. ASSUME NEW b \in all, NEW c \in all, NEW d \in all, <<b, c>> \in order, <<c, d>> \in order
      PROVE  <<b, d>> \in order
  <2>1. /\ num(b) \in Nat /\ num(c) \in Nat /\ num(d) \in Nat
        /\ den(b) \in Nat \ {0} /\ den(c) \in Nat \ {0} /\ den(d) \in Nat \ {0}
    BY <1>1
  <2>2. /\ num(b) * den(c) \in Nat /\ num(c) * den(b) \in Nat /\ num(c) * den(d) \in Nat
        /\ num(d) * den(c) \in Nat /\ num(b) * den(d) \in Nat /\ num(d) * den(b) \in Nat
    BY <2>1
  <2>3. num(b) * den(c) >= num(c) * den(b) /\ num(c) * den(d) >= num(d) * den(c)
    BY <2>2, <1>3, <1>6
  <2>4. /\ num(b) * den(d) >= num(d) * den(b)
        /\ num(b) * den(c) > num(c) * den(b) \/ num(c) * den(d) > num(d) * den(c)
           => num(b) * den(d) > num(d) * den(b)
    BY <2>1, <2>3, Fractions
  <2>5. CASE num(b) * den(d) > num(d) * den(b)
    BY <2>5, <1>3
  <2>6. CASE ~(num(b) * den(d) > num(d) * den(b))
    <3>1. num(b) * den(d) = num(d) * den(b)
      BY <2>2, <2>4, <2>6
    <3>2. place(b) < place(c) /\ place(c) < place(d)
      BY <2>2, <2>4, <2>6, <1>3, <1>6
    <3> QED
      BY <3>1, <3>2, <1>2, <1>3
  <2> QED
    BY <2>5, <2>6
<1> QED
  BY <1>4, <1>5, <1>6 DEF StrictOrder, all, order

\* Fusion returns every chunk of a channel once, unless the limit cuts it off, and never
\* one before another that beats it.
LEMMA FusionOf ==
  ASSUME Alpha \in 0..100, TopK \in Nat,
         NEW T, NEW v \in Seq(T), NEW k \in Seq(T), NoRepeat(v), NoRepeat(k)
  PROVE  LET all == Elements(v) \cup Elements(k)
             f == Fusion(v, k)
         IN /\ f \in Seq(T) /\ NoRepeat(f) /\ Elements(f) \subseteq all
            /\ Len(f) = TopK \/ all \subseteq Elements(f)
            /\ \A a \in all, j \in 1..Len(f) :
                 Beats(v, k, a, f[j]) => \E i \in 1..Len(f) : i < j /\ f[i] = a
<1> DEFINE all == Elements(v) \cup Elements(k)
           order == {p \in all \X all : Beats(v, k, p[1], p[2])}
           list == Ranked(all, order)
           f == First(list, TopK)
<1>1. f = Fusion(v, k)
  BY DEF Fusion
<1>2. IsFiniteSet(all)
  BY FiniteElements, FS_Union
<1>3. StrictOrder(all, order)
  BY FusionOrder
<1>4. \A a, b \in all : <<a, b>> \in order <=> Beats(v, k, a, b)
  OBVIOUS
<1>5. all \subseteq T
  BY DEF Elements
<1> HIDE DEF all, order
<1>6. /\ list \in Seq(all)
      /\ \A i, j \in 1..Len(list) : i < j <=> <<list[i], list[j]>> \in order
      /\ \A x \in all : \E i \in 1..Len(list) : list[i] = x
  BY <1>2, <1>3, RankedList
<1> HIDE DEF list
<1>12. DOMAIN list = 1..Len(list) /\ Len(list) \in Nat /\ \A i \in 1..Len(list) : list[i] \in all
  BY <1>6
<1>7. NoRepeat(list)
  <2>1. ASSUME NEW i \in 1..Len(list), NEW j \in 1..Len(list), list[i] = list[j]
        PROVE  i = j
    <3>1. <<list[i], list[i]>> \notin order
      BY <1>3, <1>12 DEF StrictOrder
    <3>2. ~(i < j) /\ ~(j < i)
      BY <3>1, <2>1, <1>6
    <3> QED
      BY <3>2
  <2> QED
    BY <2>1, <1>12 DEF NoRepeat
<1>8. /\ f \in Seq(all) /\ NoRepeat(f)
      /\ Len(f) = IF Len(list) < TopK THEN Len(list) ELSE TopK
      /\ \A i \in 1..Len(f) : f[i] = list[i]
  BY <1>6, <1>7, FirstOf
<1> HIDE DEF f
<1>9. Elements(f) \subseteq all /\ f \in Seq(T)
  <2>1. \A i \in DOMAIN f : f[i] \in all
    BY <1>8
  <2> QED
    BY <2>1, <1>5, <1>8 DEF Elements
<1>10. Len(f) # TopK => all \subseteq Elements(f)
  <2>1. DOMAIN f = 1..Len(f)
    BY <1>8
  <2>2. Len(f) # TopK => Len(f) = Len(list)
    BY <1>8
  <2> QED
    BY <2>1, <2>2, <1>6, <1>8 DEF Elements
<1>11. ASSUME NEW a \in all, NEW j \in 1..Len(f), Beats(v, k, a, f[j])
       PROVE  \E i \in 1..Len(f) : i < j /\ f[i] = a
  <2>1. PICK i \in 1..Len(list) : list[i] = a
    BY <1>6
  <2>2. j \in 1..Len(list) /\ f[j] = list[j] /\ f[j] \in all
    BY <1>12, <1>8
  <2>3. <<list[i], list[j]>> \in order
    BY <2>1, <2>2, <1>4, <1>11
  <2>4. i < j
    BY <2>2, <2>3, <1>6
  <2> QED
    BY <2>1, <2>2, <2>4, <1>8
<1> QED
  BY <1>1, <1>8, <1>9, <1>10, <1>11 DEF all

\* A chunk ahead in a channel is worth no less there; one that is in it, or in front of
\* one that is not.
LEMMA Worth ==
  ASSUME NEW w \in Nat, NEW T, NEW s \in Seq(T), NoRepeat(s), NEW a, NEW b,
         Ahead(s, a, b) \/ (a \notin Elements(s) /\ b \notin Elements(s))
  PROVE  (IF RankIn(s, a) = 0 THEN 0 ELSE w) * (RrfK + RankIn(s, b))
           >= (IF RankIn(s, b) = 0 THEN 0 ELSE w) * (RrfK + RankIn(s, a))
<1>1. PICK x \in Nat, y \in Nat : x = RankIn(s, a) /\ y = RankIn(s, b)
  BY RankOf
<1>2. (x # 0 /\ (y = 0 \/ x < y)) \/ (x = 0 /\ y = 0)
  BY <1>1, RankOf DEF Ahead
<1>3. w * (RrfK + y) >= 0 /\ 0 * (RrfK + x) = 0 /\ 0 * (RrfK + y) = 0
  BY DEF RrfK
<1>4. x < y => w * (RrfK + y) >= w * (RrfK + x)
  BY DEF RrfK
<1> QED
  BY <1>1, <1>2, <1>3, <1>4

\* Sums of fractions are compared summand by summand.
LEMMA Summands ==
  ASSUME NEW wa \in Nat, NEW xa \in Nat, NEW wb \in Nat, NEW xb \in Nat,
         NEW A \in Nat \ {0}, NEW B \in Nat \ {0}, NEW C \in Nat \ {0}, NEW D \in Nat \ {0},
         wa * C >= wb * A, xa * D >= xb * B
  PROVE  (wa * B + xa * A) * (C * D) >= (wb * D + xb * C) * (A * B)
<1>1. (wa * B + xa * A) * (C * D) = (wa * C) * (B * D) + (xa * D) * (A * C)
  OBVIOUS
<1>2. (wb * D + xb * C) * (A * B) = (wb * A) * (B * D) + (xb * B) * (A * C)
  OBVIOUS
<1>3. B * D \in Nat /\ A * C \in Nat /\ wa * C \in Nat /\ wb * A \in Nat /\ xa * D \in Nat /\ xb * B \in Nat
  OBVIOUS
<1>4. \A p, q, r \in Nat : p >= q => p * r >= q * r
  OBVIOUS
<1>5. (wa * C) * (B * D) >= (wb * A) * (B * D) /\ (xa * D) * (A * C) >= (xb * B) * (A * C)
  BY <1>3, <1>4
<1>6. /\ (wa * C) * (B * D) \in Nat /\ (wb * A) * (B * D) \in Nat
      /\ (xa * D) * (A * C) \in Nat /\ (xb * B) * (A * C) \in Nat
  BY <1>3
<1> QED
  BY <1>1, <1>2, <1>5, <1>6

\* A chunk that no channel puts behind another one, and some channel ahead, beats it.
LEMMA AheadBeats ==
  ASSUME Alpha \in 0..100, NEW T, NEW v \in Seq(T), NEW k \in Seq(T), NoRepeat(v), NoRepeat(k),
         NEW a \in Elements(v) \cup Elements(k), NEW b \in Elements(v) \cup Elements(k),
         Ahead(v, a, b) \/ Ahead(k, a, b), ~Ahead(v, b, a), ~Ahead(k, b, a)
  PROVE  Beats(v, k, a, b)
<1> DEFINE o == Scored(v, k)
           weight(c) == IF RankIn(v, c) = 0 THEN 0 ELSE Alpha
           other(c) == IF RankIn(k, c) = 0 THEN 0 ELSE 100 - Alpha
           V(c) == RrfK + RankIn(v, c)
           K(c) == RrfK + RankIn(k, c)
<1>0. a # b
  BY RankOf DEF Ahead
<1>1. Ahead(v, a, b) \/ (a \notin Elements(v) /\ b \notin Elements(v))
  <2>1. RankIn(v, a) \in Nat /\ RankIn(v, b) \in Nat
    BY RankOf
  <2>2. RankIn(v, a) = RankIn(v, b) /\ RankIn(v, a) # 0 => a = b
    BY RankOf
  <2> QED
    BY <2>1, <2>2, <1>0, RankOf DEF Ahead
<1>2. Ahead(k, a, b) \/ (a \notin Elements(k) /\ b \notin Elements(k))
  <2>1. RankIn(k, a) \in Nat /\ RankIn(k, b) \in Nat
    BY RankOf
  <2>2. RankIn(k, a) = RankIn(k, b) /\ RankIn(k, a) # 0 => a = b
    BY RankOf
  <2> QED
    BY <2>1, <2>2, <1>0, RankOf DEF Ahead
<1>3. /\ weight(a) * V(b) >= weight(b) * V(a)
      /\ other(a) * K(b) >= other(b) * K(a)
  <2>1. Alpha \in Nat /\ 100 - Alpha \in Nat
    OBVIOUS
  <2>2. weight(a) * V(b) >= weight(b) * V(a)
    BY <2>1, <1>1, Worth
  <2>3. other(a) * K(b) >= other(b) * K(a)
    BY <2>1, <1>2, Worth
  <2> QED
    BY <2>2, <2>3
<1>4. /\ weight(a) \in Nat /\ weight(b) \in Nat /\ other(a) \in Nat /\ other(b) \in Nat
      /\ V(a) \in Nat \ {0} /\ V(b) \in Nat \ {0} /\ K(a) \in Nat \ {0} /\ K(b) \in Nat \ {0}
  <2>1. RankIn(v, a) \in Nat /\ RankIn(v, b) \in Nat /\ RankIn(k, a) \in Nat /\ RankIn(k, b) \in Nat
    BY RankOf
  <2> QED
    BY <2>1 DEF RrfK
<1>5. RankIn(o, a) < RankIn(o, b)
  <2>1. CASE Ahead(v, a, b)
    <3>1. a \in Elements(v) /\ (b \in Elements(v) => RankIn(v, a) < RankIn(v, b))
      BY <2>1, RankOf DEF Ahead
    <3> QED
      BY <3>1, ScoredOf
  <2>2. CASE ~Ahead(v, a, b)
    <3>1. a \in Elements(k) \ Elements(v) /\ b \in Elements(k) \ Elements(v)
      BY <2>2, <1>1
    <3>2. RankIn(k, a) < RankIn(k, b)
      BY <2>2, <3>1, RankOf DEF Ahead
    <3> QED
      BY <3>1, <3>2, ScoredOf
  <2> QED
    BY <2>1, <2>2
<1>6. /\ Score(v, k, a).num = weight(a) * K(a) + other(a) * V(a)
      /\ Score(v, k, a).den = V(a) * K(a)
      /\ Score(v, k, b).num = weight(b) * K(b) + other(b) * V(b)
      /\ Score(v, k, b).den = V(b) * K(b)
  BY DEF Score
<1> HIDE DEF weight, other, V, K
<1>7. (weight(a) * K(a) + other(a) * V(a)) * (V(b) * K(b))
        >= (weight(b) * K(b) + other(b) * V(b)) * (V(a) * K(a))
  BY <1>3, <1>4, Summands
<1>8. Score(v, k, a).num * Score(v, k, b).den >= Score(v, k, b).num * Score(v, k, a).den
  BY <1>6, <1>7
<1>9. /\ Score(v, k, a).num * Score(v, k, b).den \in Nat
      /\ Score(v, k, b).num * Score(v, k, a).den \in Nat
  <2>1. \A p, q \in Nat : p * q \in Nat /\ p + q \in Nat
    OBVIOUS
  <2>3. /\ weight(a) * K(a) \in Nat /\ other(a) * V(a) \in Nat /\ V(a) * K(a) \in Nat
        /\ weight(b) * K(b) \in Nat /\ other(b) * V(b) \in Nat /\ V(b) * K(b) \in Nat
    BY <2>1, <1>4
  <2>2. /\ Score(v, k, a).num \in Nat /\ Score(v, k, a).den \in Nat
        /\ Score(v, k, b).num \in Nat /\ Score(v, k, b).den \in Nat
    BY <2>1, <2>3, <1>6
  <2> QED
    BY <2>1, <2>2
<1> QED
  BY <1>5, <1>8, <1>9 DEF Beats

\* Fusion respects both rankings.
LEMMA FusionRespects ==
  ASSUME Alpha \in 0..100, TopK \in Nat, NEW T, NEW v \in Seq(T), NEW k \in Seq(T),
         NoRepeat(v), NoRepeat(k)
  PROVE  RespectsBoth(v, k, Fusion(v, k))
<1> DEFINE all == Elements(v) \cup Elements(k)
           f == Fusion(v, k)
<1>1. /\ f \in Seq(T) /\ NoRepeat(f) /\ Elements(f) \subseteq all
      /\ \A a \in all, j \in 1..Len(f) :
           Beats(v, k, a, f[j]) => \E i \in 1..Len(f) : i < j /\ f[i] = a
  BY FusionOf
<1> HIDE DEF f
<1> SUFFICES ASSUME NEW a \in all, NEW b \in Elements(f),
                    Ahead(v, a, b) \/ Ahead(k, a, b), ~Ahead(v, b, a), ~Ahead(k, b, a)
             PROVE  Ahead(f, a, b)
  BY DEF RespectsBoth, f
<1>2. Beats(v, k, a, b)
  BY <1>1, AheadBeats
<1>3. PICK j \in 1..Len(f) : f[j] = b
  BY <1>1 DEF Elements
<1>4. PICK i \in 1..Len(f) : i < j /\ f[i] = a
  BY <1>1, <1>2, <1>3
<1>5. RankIn(f, a) = i /\ RankIn(f, b) = j
  BY <1>1, <1>3, <1>4, RankOf
<1> QED
  BY <1>4, <1>5 DEF Ahead

-----------------------------------------------------------------------------
(* The channels *)

\* There are finitely many chunks.
LEMMA ChunksFinite == IsFiniteSet(Chunks)
BY StoreAssumption, FS_Product DEF StoreAssumption, Chunks

\* The limits are positive, the weight is a percentage.
LEMMA LimitTyped == ChannelLimit \in Nat \ {0} /\ TopK \in Nat \ {0} /\ Alpha \in 0..100
BY RetrievalAssumption DEF RetrievalAssumption, ChannelLimit

\* A query ranks chunks without repetition, and every lexical match.
LEMMA QueryTyped ==
  ASSUME NEW q \in Queries
  PROVE  /\ q.nearest \in Seq(Chunks) /\ q.lexical \in Seq(Chunks)
         /\ NoRepeat(q.nearest) /\ NoRepeat(q.lexical)
         /\ {c \in Chunks : c[2] \in q.some \cup q.every} \subseteq Elements(q.lexical)
         /\ q.scope \subseteq Docs
BY RetrievalAssumption DEF RetrievalAssumption

\* The empty list has nothing and repeats nothing.
LEMMA NothingListed == <<>> \in Seq(Chunks) /\ Elements(<<>>) = {} /\ NoRepeat(<<>>)
BY DEF Elements, NoRepeat

\* What the vector channel returns of the store: the matrix that serves a search with
\* filters is not the cached one.
LEMMA VectorOf ==
  ASSUME NEW q \in Queries, NEW S
  PROVE  LET s == Only(First(Only(q.nearest, S), ChannelLimit), VectorHits(q.scope))
         IN s \in Seq(Chunks) /\ NoRepeat(s) /\ Elements(s) \subseteq Admitted(q, Indexed)
<1> DEFINE near == Only(q.nearest, S)
           first == First(near, ChannelLimit)
           s == Only(first, VectorHits(q.scope))
<1>1. near \in Seq(Chunks) /\ NoRepeat(near)
  BY QueryTyped, OnlyOf
<1> HIDE DEF near
<1>2. first \in Seq(Chunks) /\ NoRepeat(first)
  BY <1>1, FirstOf, LimitTyped
<1> HIDE DEF first
<1>3. s \in Seq(Chunks) /\ NoRepeat(s) /\ Elements(s) \subseteq VectorHits(q.scope)
  BY <1>2, OnlyOf
<1>4. VectorHits(q.scope) \subseteq Admitted(q, Indexed)
  <2>1. VectorHits(q.scope) \subseteq Indexed
    BY DEF VectorHits, PgVectorHits, SqliteVectorHits
  <2>2. ASSUME NEW c \in VectorHits(q.scope)
        PROVE  c[1] \in q.scope
    <3>1. CASE backend = "pgvector"
      BY <2>2, <3>1 DEF VectorHits, PgVectorHits
    <3>2. CASE backend # "pgvector"
      <4>1. c \in Chunks /\ Loaded(q.scope)[c] # Absent
        BY <2>2, <3>2 DEF VectorHits, SqliteVectorHits, Rows
      <4>2. CASE Cached(q.scope)
        BY <4>1, <4>2 DEF Cached, Unfiltered, Chunks
      <4>3. CASE ~Cached(q.scope)
        BY <4>1, <4>3 DEF Loaded
      <4> QED
        BY <4>2, <4>3
    <3> QED
      BY <3>1, <3>2
  <2> QED
    BY <2>1, <2>2 DEF Admitted
<1> QED
  BY <1>3, <1>4 DEF near, first

\* The keyword channel sees admitted chunks with the words the backend asks for, and every
\* such chunk whose document is whole: its full-text row is there.
Hits(q) == KeywordHits(q.some, q.every, q.scope)
LEMMA HitsOf ==
  ASSUME NEW q
  PROVE  /\ Hits(q) \subseteq {c \in Admitted(q, Indexed) : c[2] \in Asked(q)}
         /\ FullTextAgrees => {c \in Admitted(q, Whole) : c[2] \in Asked(q)} \subseteq Hits(q)
<1>1. \A cs, texts : Matching(cs, texts, q.scope) = {c \in Admitted(q, cs) : c[2] \in texts}
  BY DEF Matching, Admitted
<1>2. FullTextAgrees /\ backend = "sqlite" => Whole \subseteq fts \cap Indexed
  BY DEF FullTextAgrees, Whole
<1>3. Whole \subseteq Indexed
  BY DEF Whole
<1> QED
  BY <1>1, <1>2, <1>3 DEF Hits, KeywordHits, PgKeywordHits, SqliteKeywordHits, Asked, Admitted

\* What the keyword channel returns: all hits, unless the limit cuts.
LEMMA LexicalOf ==
  ASSUME NEW r \in Readers, query[r] \in Queries, NEW s \in Lexical(r)
  PROVE  LET hits == Hits(query[r])
         IN /\ s \in Seq(Chunks) /\ NoRepeat(s) /\ Elements(s) \subseteq hits
            /\ Len(s) = ChannelLimit \/ hits \subseteq Elements(s)
<1> DEFINE hits == Hits(query[r])
           n == Cardinality(hits)
<1>1. hits \subseteq {c \in Chunks : c[2] \in query[r].some \cup query[r].every}
  BY HitsOf DEF Asked, Admitted, Indexed, Rows
<1>2. IsFiniteSet(hits) /\ n \in Nat
  <2> HIDE DEF hits
  <2> QED
    BY <1>1, ChunksFinite, FS_Subset, FS_CardinalityType
<1>3. PICK t : /\ s = First(t, ChannelLimit)
               /\ \/ t \in [1..n -> hits] /\ Elements(t) = hits
                  \/ t = Only(query[r].lexical, hits)
  BY DEF Lexical, Hits
<1> HIDE DEF hits
<1>4. t \in Seq(Chunks) /\ NoRepeat(t) /\ Elements(t) = hits
  <2>1. CASE t \in [1..n -> hits] /\ Elements(t) = hits
    <3>1. t \in Seq(Chunks) /\ DOMAIN t = 1..n
      BY <2>1, <1>1, <1>2
    <3>2. t \in Surjection(1..n, hits)
      BY <2>1, <3>1 DEF Surjection, Elements
    <3>3. IsFiniteSet(1..n) /\ Cardinality(1..n) = n
      <4>1. 1 \in Int /\ n \in Int
        BY <1>2
      <4>2. IsFiniteSet(1..n) /\ Cardinality(1..n) = IF 1 > n THEN 0 ELSE n - 1 + 1
        BY <4>1, FS_Interval
      <4> QED
        BY <1>2, <4>2
    <3>4. t \in Injection(1..n, hits)
      BY <3>2, <3>3, FS_Surjection
    <3> QED
      BY <2>1, <3>1, <3>4 DEF Injection, IsInjective, NoRepeat
  <2>2. CASE t = Only(query[r].lexical, hits)
    <3>1. t \in Seq(Chunks) /\ NoRepeat(t) /\ Elements(t) = Elements(query[r].lexical) \cap hits
      BY <2>2, QueryTyped, OnlyOf
    <3>2. hits \subseteq Elements(query[r].lexical)
      BY <1>1, QueryTyped
    <3> QED
      BY <3>1, <3>2
  <2> QED
    BY <1>3, <2>1, <2>2
<1>5. /\ s \in Seq(Chunks) /\ NoRepeat(s) /\ Elements(s) \subseteq Elements(t)
      /\ Len(s) = (IF Len(t) < ChannelLimit THEN Len(t) ELSE ChannelLimit)
      /\ \A i \in 1..Len(s) : s[i] = t[i]
  BY <1>3, <1>4, FirstOf, LimitTyped
<1>6. Len(s) = Len(t) => Elements(t) \subseteq Elements(s)
  <2>1. DOMAIN s = 1..Len(s) /\ DOMAIN t = 1..Len(t)
    BY <1>4, <1>5
  <2> QED
    BY <2>1, <1>5 DEF Elements
<1> QED
  BY <1>4, <1>5, <1>6, LimitTyped DEF hits

\* A search returns what its channels found, once, and every keyword match unless the
\* limit cuts it off.
LEMMA CombineOf ==
  ASSUME NEW q, NEW v \in Seq(Chunks), NEW k \in Seq(Chunks), NoRepeat(v), NoRepeat(k)
  PROVE  LET c == Combine(q, v, k)
         IN /\ c \in Seq(Chunks) /\ NoRepeat(c)
            /\ Elements(c) \subseteq Elements(v) \cup Elements(k)
            /\ Len(c) = TopK \/ Elements(k) \subseteq Elements(c)
            /\ v # <<>> /\ k # <<>> => c = Fusion(v, k)
<1>1. CASE k = <<>>
  <2> DEFINE near == Only(v, q.near)
  <2>1. near \in Seq(Chunks) /\ NoRepeat(near) /\ Elements(near) \subseteq Elements(v)
    BY OnlyOf
  <2> HIDE DEF near
  <2>2. /\ First(near, TopK) \in Seq(Chunks) /\ NoRepeat(First(near, TopK))
        /\ Elements(First(near, TopK)) \subseteq Elements(v)
    BY <2>1, FirstOf, LimitTyped
  <2>3. Combine(q, v, k) = First(near, TopK)
    BY <1>1 DEF Combine, near
  <2> QED
    BY <1>1, <2>2, <2>3, NothingListed
<1>2. CASE k # <<>> /\ v = <<>>
  <2>1. Combine(q, v, k) = First(k, TopK)
    BY <1>2 DEF Combine
  <2>2. /\ First(k, TopK) \in Seq(Chunks) /\ NoRepeat(First(k, TopK))
        /\ Elements(First(k, TopK)) \subseteq Elements(k)
        /\ Len(First(k, TopK)) = (IF Len(k) < TopK THEN Len(k) ELSE TopK)
        /\ \A i \in 1..Len(First(k, TopK)) : First(k, TopK)[i] = k[i]
    BY FirstOf, LimitTyped
  <2>3. Len(First(k, TopK)) = Len(k) => Elements(k) \subseteq Elements(First(k, TopK))
    <3>1. DOMAIN First(k, TopK) = 1..Len(First(k, TopK)) /\ DOMAIN k = 1..Len(k)
      BY <2>2
    <3> QED
      BY <3>1, <2>2 DEF Elements
  <2> QED
    BY <1>2, <2>1, <2>2, <2>3
<1>3. CASE k # <<>> /\ v # <<>>
  <2>1. Combine(q, v, k) = Fusion(v, k)
    BY <1>3 DEF Combine
  <2> QED
    BY <2>1, FusionOf, LimitTyped
<1> QED
  BY <1>1, <1>2, <1>3

-----------------------------------------------------------------------------
(* Searches while documents are ingested *)

SearchTypeOK ==
  /\ stage \in [Readers -> {"idle", "vector", "keyword", "done", "failed"}]
  /\ query \in [Readers -> Queries \cup {AnyQuery}]
  /\ byVector \in [Readers -> Seq(Chunks)] /\ byKeyword \in [Readers -> Seq(Chunks)]
  /\ passages \in [Readers -> Seq(Chunks)] /\ lexicalOk \in [Readers -> BOOLEAN]
  /\ stable \in [Readers -> SUBSET Chunks] /\ seen \in [Readers -> SUBSET Chunks]

\* A search in progress runs in a process that is up; what it has found was indexed
\* since it began.
SearchFits(r) ==
  Reading(r) =>
    /\ server = "up" /\ query[r] \in Queries
    /\ stable[r] \subseteq Whole /\ Indexed \subseteq seen[r]
    /\ Elements(byVector[r]) \subseteq Admitted(query[r], seen[r]) /\ NoRepeat(byVector[r])
    /\ byKeyword[r] = <<>> /\ ~lexicalOk[r]

SearchInv == SearchTypeOK /\ \A r \in Readers : SearchFits(r)

\* Without searches the records are consistent.
LEMMA SearchInit == NoSearch /\ Init => SearchInv
BY NothingListed DEF NoSearch, SearchInv, SearchTypeOK, SearchFits, Reading, Admitted

\* A service that is up stays up until it goes down.
LEMMA StaysUp ==
  ASSUME Next, server = "up"
  PROVE  server' \in {"up", "down"}
BY DEF Next, Start, Crash, Search, Request, Step, Unparsable, Skip, Read, Delete, DeleteFails,
       StoreFails, Row, Index, IndexFails, NextDocument, Abort

\* A step of the ingestion keeps the records of every search.
LEMMA MeanwhileKeeps ==
  ASSUME SearchInv, Next, Meanwhile
  PROVE  SearchInv'
<1>1. CASE server' = "down" /\ server # "down"
  <2>1. SearchesDie
    BY <1>1 DEF Meanwhile
  <2> QED
    BY <2>1, NothingListed DEF SearchesDie, SearchInv, SearchTypeOK, SearchFits, Reading
<1>2. CASE ~(server' = "down" /\ server # "down")
  <2>1. /\ UNCHANGED search
        /\ stable' = [r \in Readers |-> IF Reading(r) THEN stable[r] \cap Whole' ELSE stable[r]]
        /\ seen' = [r \in Readers |-> IF Reading(r) THEN seen[r] \cup Indexed' ELSE seen[r]]
    BY <1>2 DEF Meanwhile
  <2>2. Indexed' \subseteq Chunks
    BY DEF Indexed, Rows, Chunks
  <2>3. SearchTypeOK'
    <3>1. stable' \in [Readers -> SUBSET Chunks]
      BY <2>1 DEF SearchInv, SearchTypeOK
    <3>2. seen' \in [Readers -> SUBSET Chunks]
      BY <2>1, <2>2 DEF SearchInv, SearchTypeOK
    <3> QED
      BY <2>1, <3>1, <3>2 DEF SearchInv, SearchTypeOK, search, Chunks
  <2>4. ASSUME NEW r \in Readers, Reading(r)'
        PROVE  /\ server' = "up" /\ query'[r] \in Queries
               /\ stable'[r] \subseteq Whole' /\ Indexed' \subseteq seen'[r]
               /\ Elements(byVector'[r]) \subseteq Admitted(query'[r], seen'[r])
               /\ NoRepeat(byVector'[r])
               /\ byKeyword'[r] = <<>> /\ ~lexicalOk'[r]
    <3>1. /\ Reading(r) /\ query' = query /\ byVector' = byVector /\ byKeyword' = byKeyword
          /\ lexicalOk' = lexicalOk
      BY <2>1, <2>4 DEF search, Reading
    <3>2. SearchFits(r)
      BY DEF SearchInv
    <3>3. server' = "up"
      BY <3>1, <3>2, <1>2, StaysUp DEF SearchFits
    <3>4. stable'[r] = stable[r] \cap Whole' /\ seen'[r] = seen[r] \cup Indexed'
      BY <2>1, <3>1
    <3> QED
      BY <3>1, <3>2, <3>3, <3>4 DEF SearchFits, Admitted
  <2> QED
    BY <2>3, <2>4 DEF SearchInv, SearchFits, Admitted
<1> QED
  BY <1>1, <1>2

\* A search leaves the tables as they are.
LEMMA SearchReads ==
  ASSUME NEW ds, VectorSearch(ds)
  PROVE  UNCHANGED <<backend, tables>>
BY DEF VectorSearch, LoadMatrix, store

\* A step of one search in unchanged tables keeps the others.
LEMMA OthersFit ==
  ASSUME SearchInv, UNCHANGED <<vectors, server, damaged>>, NEW r \in Readers,
         \A u \in Readers \ {r} :
           /\ stage'[u] = stage[u] /\ query'[u] = query[u] /\ byVector'[u] = byVector[u]
           /\ byKeyword'[u] = byKeyword[u] /\ lexicalOk'[u] = lexicalOk[u]
           /\ stable'[u] = stable[u] /\ seen'[u] = seen[u]
  PROVE  \A u \in Readers \ {r} : SearchFits(u)'
<1>1. Indexed' = Indexed /\ Whole' = Whole
  BY DEF Whole, Indexed, Rows
<1> SUFFICES ASSUME NEW u \in Readers \ {r}
             PROVE  SearchFits(u)'
  OBVIOUS
<1>2. SearchFits(u)
  BY DEF SearchInv
<1> QED
  BY <1>1, <1>2 DEF SearchFits, Reading, Admitted

\* A new question starts a record.
LEMMA AskKeeps ==
  ASSUME SearchInv, NEW r \in Readers, NEW q \in Queries, Ask(r, q)
  PROVE  SearchInv'
<1>1. UNCHANGED <<vectors, server, damaged>> /\ Indexed' = Indexed /\ Whole' = Whole
  BY DEF Ask, vars, store, tables, Whole, Indexed, Rows
<1>2. Whole \subseteq Chunks /\ Indexed \subseteq Chunks
  BY DEF Whole, Indexed, Rows
<1>3. SearchTypeOK'
  BY <1>2, NothingListed DEF Ask, SearchInv, SearchTypeOK
<1>4. \A u \in Readers \ {r} : SearchFits(u)'
  BY <1>1, OthersFit DEF Ask, SearchInv, SearchTypeOK
<1>5. SearchFits(r)'
  BY <1>1, NothingListed DEF Ask, SearchInv, SearchTypeOK, SearchFits
<1> QED
  BY <1>3, <1>4, <1>5 DEF SearchInv

\* A question without words starts none.
LEMMA AskBlankKeeps ==
  ASSUME SearchInv, NEW r \in Readers, AskBlank(r)
  PROVE  SearchInv'
<1>1. UNCHANGED <<vectors, server, damaged>>
  BY DEF AskBlank, vars, store, tables
<1>2. SearchTypeOK'
  BY NothingListed DEF AskBlank, SearchInv, SearchTypeOK, history
<1>3. \A u \in Readers \ {r} : SearchFits(u)'
  BY <1>1, OthersFit DEF AskBlank, SearchInv, SearchTypeOK, history
<1>4. SearchFits(r)'
  BY DEF AskBlank, SearchInv, SearchTypeOK, SearchFits, Reading
<1> QED
  BY <1>2, <1>3, <1>4 DEF SearchInv

\* The vector channel keeps the records.
LEMMA VectorKeeps ==
  ASSUME SearchInv, NEW r \in Readers, VectorChannel(r)
  PROVE  SearchInv'
<1>1. UNCHANGED <<vectors, server, damaged>> /\ Indexed' = Indexed /\ Whole' = Whole
  BY SearchReads DEF VectorChannel, vars, store, tables, Whole, Indexed, Rows
<1>2. stage[r] = "vector" /\ Reading(r) /\ SearchFits(r)
  BY DEF VectorChannel, SearchInv, Reading
<1>3. PICK found \in Seq(Chunks) :
        /\ byVector' = [byVector EXCEPT ![r] = found]
        /\ NoRepeat(found) /\ Elements(found) \subseteq Admitted(query[r], seen[r])
  <2>1. CASE byVector' = byVector
    <3>1. byVector' = [byVector EXCEPT ![r] = byVector[r]] /\ byVector[r] \in Seq(Chunks)
      BY <2>1 DEF SearchInv, SearchTypeOK
    <3> QED
      BY <3>1, <1>2 DEF SearchFits
  <2>2. CASE byVector' # byVector
    <3> DEFINE found == Only(First(Only(query[r].nearest, Rows(Loaded(query[r].scope))), ChannelLimit),
                             VectorHits(query[r].scope))
    <3>1. byVector' = [byVector EXCEPT ![r] = found]
      BY <2>2 DEF VectorChannel
    <3>2. found \in Seq(Chunks) /\ NoRepeat(found) /\ Elements(found) \subseteq Admitted(query[r], Indexed)
      BY <1>2, VectorOf DEF SearchFits
    <3> HIDE DEF found
    <3> QED
      BY <3>1, <3>2, <1>2 DEF SearchFits, Admitted
  <2> QED
    BY <2>1, <2>2
<1>4. SearchTypeOK'
  BY <1>3 DEF VectorChannel, SearchInv, SearchTypeOK, history
<1>5. \A u \in Readers \ {r} : SearchFits(u)'
  BY <1>1, <1>3, OthersFit DEF VectorChannel, SearchInv, SearchTypeOK, history
<1>6. SearchFits(r)'
  BY <1>1, <1>2, <1>3 DEF VectorChannel, SearchInv, SearchTypeOK, SearchFits, history
<1> QED
  BY <1>4, <1>5, <1>6 DEF SearchInv

\* What the keyword channel found, and what it means if it answered.
LEMMA KeywordFinds ==
  ASSUME SearchInv, NEW r \in Readers, KeywordChannel(r)
  PROVE  /\ byKeyword'[r] \in Seq(Chunks) /\ NoRepeat(byKeyword'[r])
         /\ byKeyword' = [byKeyword EXCEPT ![r] = byKeyword'[r]]
         /\ Elements(byKeyword'[r]) \subseteq Admitted(query[r], Indexed)
         /\ lexicalOk'[r] => \/ Len(byKeyword'[r]) = ChannelLimit
                             \/ Hits(query[r]) \subseteq Elements(byKeyword'[r])
         /\ lexicalOk' \in [Readers -> BOOLEAN]
         /\ \A u \in Readers \ {r} : lexicalOk'[u] = lexicalOk[u]
<1>1. Reading(r) /\ SearchFits(r) /\ SearchTypeOK
  BY DEF KeywordChannel, SearchInv, Reading
<1>2. CASE UNCHANGED <<byKeyword, lexicalOk>>
  <2>1. byKeyword[r] = <<>> /\ ~lexicalOk[r]
    BY <1>1 DEF SearchFits
  <2> QED
    BY <1>1, <1>2, <2>1, NothingListed DEF SearchTypeOK
<1>3. ASSUME NEW s \in Lexical(r), byKeyword' = [byKeyword EXCEPT ![r] = s],
             lexicalOk' = [lexicalOk EXCEPT ![r] = TRUE]
      PROVE  /\ byKeyword'[r] = s
             /\ byKeyword' = [byKeyword EXCEPT ![r] = byKeyword'[r]]
             /\ lexicalOk' \in [Readers -> BOOLEAN]
             /\ \A u \in Readers \ {r} : lexicalOk'[u] = lexicalOk[u]
  BY <1>1, <1>3 DEF SearchTypeOK
<1>4. ASSUME NEW s \in Lexical(r)
      PROVE  /\ s \in Seq(Chunks) /\ NoRepeat(s) /\ Elements(s) \subseteq Admitted(query[r], Indexed)
             /\ Len(s) = ChannelLimit \/ Hits(query[r]) \subseteq Elements(s)
  BY <1>1, LexicalOf, HitsOf DEF SearchFits
<1> QED
  BY <1>2, <1>3, <1>4 DEF KeywordChannel

\* The keyword channel keeps the records.
LEMMA KeywordKeeps ==
  ASSUME SearchInv, NEW r \in Readers, KeywordChannel(r)
  PROVE  SearchInv'
<1>1. UNCHANGED <<vectors, server, damaged>>
  BY DEF KeywordChannel, vars, store, tables
<1>2. Reading(r) /\ SearchFits(r) /\ SearchTypeOK
  BY DEF KeywordChannel, SearchInv, Reading
<1>3. /\ byKeyword'[r] \in Seq(Chunks) /\ NoRepeat(byKeyword'[r])
      /\ byKeyword' = [byKeyword EXCEPT ![r] = byKeyword'[r]]
      /\ lexicalOk' \in [Readers -> BOOLEAN]
      /\ \A u \in Readers \ {r} : lexicalOk'[u] = lexicalOk[u]
  BY KeywordFinds
<1>4. Combine(query[r], byVector[r], byKeyword'[r]) \in Seq(Chunks)
  BY <1>2, <1>3, CombineOf DEF SearchTypeOK, SearchFits
<1>5. passages' = [passages EXCEPT ![r] = Combine(query[r], byVector[r], byKeyword'[r])]
  BY DEF KeywordChannel
<1>6. SearchTypeOK'
  BY <1>2, <1>3, <1>4, <1>5, NothingListed DEF KeywordChannel, SearchTypeOK
<1>7. \A u \in Readers \ {r} : byKeyword'[u] = byKeyword[u]
  BY <1>2, <1>3 DEF SearchTypeOK
<1>8. \A u \in Readers \ {r} : SearchFits(u)'
  BY <1>1, <1>2, <1>3, <1>7, OthersFit DEF KeywordChannel, SearchTypeOK
<1>9. SearchFits(r)'
  BY <1>2 DEF KeywordChannel, SearchTypeOK, SearchFits, Reading
<1> QED
  BY <1>6, <1>8, <1>9 DEF SearchInv

\* Every step of retrieval is a step of ingestion, or leaves its variables alone.
LEMMA IngestionSteps ==
  ASSUME SearchInv, [RetrievalNext]_allVars
  PROVE  [Next]_vars
<1>1. ASSUME NEW r \in Readers, VectorChannel(r) PROVE Search \/ UNCHANGED vars
  <2>1. server = "up"
    BY <1>1 DEF VectorChannel, SearchInv, SearchFits, Reading
  <2>2. query[r].scope # Docs /\ VectorSearch(query[r].scope) => UNCHANGED store
    BY DEF VectorSearch, LoadMatrix, Unfiltered, store
  <2> QED
    BY <1>1, <2>1, <2>2 DEF VectorChannel, Search, vars
<1> QED
  BY <1>1 DEF RetrievalNext, Next, Ask, AskBlank, KeywordChannel, allVars

\* Every step keeps the records of the searches.
LEMMA SearchKept ==
  ASSUME SearchInv, [RetrievalNext]_allVars
  PROVE  SearchInv'
<1>1. CASE UNCHANGED allVars
  <2>1. /\ UNCHANGED <<search, history, server, damaged, vectors>>
        /\ Indexed' = Indexed /\ Whole' = Whole
    BY <1>1 DEF allVars, vars, store, tables, Whole, Indexed, Rows
  <2>2. SearchTypeOK'
    BY <2>1 DEF search, history, SearchInv, SearchTypeOK, Chunks
  <2>3. ASSUME NEW r \in Readers PROVE SearchFits(r)'
    BY <2>1 DEF search, history, SearchInv, SearchFits, Reading
  <2> QED
    BY <2>2, <2>3 DEF SearchInv
<1> QED
  BY <1>1, MeanwhileKeeps, AskKeeps, AskBlankKeeps, VectorKeeps, KeywordKeeps DEF RetrievalNext

\* Searching does not disturb ingestion: it behaves as if no one searched.
THEOREM SearchesAreReads == RetrievalSpec => Spec /\ []SearchInv
<1>1. Init /\ NoSearch => SearchInv
  BY SearchInit
<1>2. ASSUME SearchInv, [RetrievalNext]_allVars PROVE SearchInv' /\ [Next]_vars
  BY <1>2, SearchKept, IngestionSteps
<1> QED
  BY <1>1, <1>2, PTL DEF RetrievalSpec, Spec

\* Only the keyword channel ends a search with an answer.
LEMMA AnswerIsKeyword ==
  ASSUME SearchInv, [RetrievalNext]_allVars, NEW r \in Readers, Answers(r)
  PROVE  KeywordChannel(r)
<1>1. stage \in [Readers -> {"idle", "vector", "keyword", "done", "failed"}]
      /\ stage[r] = "keyword" /\ stage'[r] = "done"
  BY DEF Answers, SearchInv, SearchTypeOK
<1>2. ~UNCHANGED allVars
  BY <1>1 DEF allVars, search
<1>3. ~(Next /\ Meanwhile)
  BY <1>1 DEF Meanwhile, SearchesDie, search
<1>4. ASSUME NEW u \in Readers, (\E q \in Queries : Ask(u, q)) \/ AskBlank(u) \/ VectorChannel(u)
      PROVE  FALSE
  BY <1>1, <1>4 DEF Ask, AskBlank, VectorChannel
<1>5. ASSUME NEW u \in Readers, KeywordChannel(u) PROVE u = r
  BY <1>1, <1>5 DEF KeywordChannel
<1> QED
  BY <1>2, <1>3, <1>4, <1>5 DEF RetrievalNext

\* What an answer is made of.
LEMMA Answered ==
  ASSUME SearchInv, [RetrievalNext]_allVars, NEW r \in Readers, Answers(r)
  PROVE  LET v == byVector[r]
             k == byKeyword'[r]
             found == Admitted(query[r], seen[r])
         IN /\ v \in Seq(Chunks) /\ NoRepeat(v) /\ Elements(v) \subseteq found
            /\ k \in Seq(Chunks) /\ NoRepeat(k) /\ Elements(k) \subseteq found
            /\ passages'[r] = Combine(query[r], v, k)
<1>1. KeywordChannel(r)
  BY AnswerIsKeyword
<1>2. SearchFits(r) /\ Reading(r) /\ SearchTypeOK
  BY DEF Answers, SearchInv, Reading
<1>3. /\ byKeyword'[r] \in Seq(Chunks) /\ NoRepeat(byKeyword'[r])
      /\ Elements(byKeyword'[r]) \subseteq Admitted(query[r], Indexed)
  BY <1>1, KeywordFinds
<1>4. passages'[r] = Combine(query[r], byVector[r], byKeyword'[r])
  BY <1>1, <1>2 DEF KeywordChannel, SearchTypeOK
<1> QED
  BY <1>2, <1>3, <1>4 DEF SearchFits, SearchTypeOK, Admitted

\* No search returns a passage twice, one its filters do not admit, or one that was not
\* indexed at some moment of it.
THEOREM SearchesFindTheStore == RetrievalSpec => FoundInStore
<1>1. ASSUME SearchInv, [RetrievalNext]_allVars, NEW r \in Readers, Answers(r)
      PROVE  /\ Elements(passages'[r]) \subseteq Admitted(query[r], seen[r])
             /\ Cardinality(Elements(passages'[r])) = Len(passages'[r])
  <2> DEFINE v == byVector[r]
             k == byKeyword'[r]
             c == Combine(query[r], v, k)
  <2>1. /\ v \in Seq(Chunks) /\ NoRepeat(v) /\ Elements(v) \subseteq Admitted(query[r], seen[r])
        /\ k \in Seq(Chunks) /\ NoRepeat(k) /\ Elements(k) \subseteq Admitted(query[r], seen[r])
        /\ passages'[r] = c
    BY <1>1, Answered
  <2> HIDE DEF v, k
  <2>2. c \in Seq(Chunks) /\ NoRepeat(c) /\ Elements(c) \subseteq Elements(v) \cup Elements(k)
    BY <2>1, CombineOf
  <2> HIDE DEF c
  <2> QED
    BY <2>1, <2>2, Distinct
<1>2. ASSUME SearchInv, [RetrievalNext]_allVars
      PROVE  [\A r \in Readers : Answers(r) =>
                /\ Elements(passages'[r]) \subseteq Admitted(query[r], seen[r])
                /\ Cardinality(Elements(passages'[r])) = Len(passages'[r])]_allVars
  BY <1>1, <1>2
<1> QED
  BY <1>2, SearchesAreReads, PTL DEF RetrievalSpec, FoundInStore

\* A keyword match of the backend, admitted by the filters and indexed throughout the
\* search, is found whenever that channel answers.
THEOREM StableMatchesAreFound == RetrievalSpec => StableFound
<1>1. ASSUME SearchInv, IInv, [RetrievalNext]_allVars, NEW r \in Readers, Answers(r), lexicalOk'[r]
      PROVE  \/ {c \in Admitted(query[r], stable[r]) : c[2] \in Asked(query[r])}
                  \subseteq Elements(passages'[r])
             \/ Len(byKeyword'[r]) = ChannelLimit \/ Len(passages'[r]) = TopK
  <2>1. KeywordChannel(r)
    BY <1>1, AnswerIsKeyword
  <2>2. stable[r] \subseteq Whole
    BY <1>1 DEF Answers, SearchInv, SearchFits, Reading
  <2>3. {c \in Admitted(query[r], Whole) : c[2] \in Asked(query[r])} \subseteq Hits(query[r])
    BY <1>1, HitsOf DEF IInv, StoreInv
  <2>4. \/ Len(byKeyword'[r]) = ChannelLimit
        \/ Hits(query[r]) \subseteq Elements(byKeyword'[r])
    BY <1>1, <2>1, KeywordFinds
  <2>5. Len(passages'[r]) = TopK \/ Elements(byKeyword'[r]) \subseteq Elements(passages'[r])
    BY <1>1, Answered, CombineOf
  <2> QED
    BY <2>2, <2>3, <2>4, <2>5 DEF Admitted
<1>2. ASSUME SearchInv, IInv, [RetrievalNext]_allVars
      PROVE  [\A r \in Readers : Answers(r) /\ lexicalOk'[r] =>
                \/ {c \in Admitted(query[r], stable[r]) : c[2] \in Asked(query[r])}
                     \subseteq Elements(passages'[r])
                \/ Len(byKeyword'[r]) = ChannelLimit \/ Len(passages'[r]) = TopK]_allVars
  BY <1>1, <1>2
<1> QED
  BY <1>2, SearchesAreReads, Invariance, PTL DEF RetrievalSpec, StableFound

\* Fused passages respect the rankings of both channels.
THEOREM FusionRespectsRanks == RetrievalSpec => FusedByRank
<1>1. ASSUME SearchInv, [RetrievalNext]_allVars, NEW r \in Readers, Answers(r),
             byVector[r] # <<>>, byKeyword'[r] # <<>>
      PROVE  RespectsBoth(byVector[r], byKeyword'[r], passages'[r])
  <2> DEFINE v == byVector[r]
             k == byKeyword'[r]
  <2>1. /\ v \in Seq(Chunks) /\ NoRepeat(v) /\ k \in Seq(Chunks) /\ NoRepeat(k)
        /\ passages'[r] = Combine(query[r], v, k) /\ v # <<>> /\ k # <<>>
    BY <1>1, Answered
  <2> HIDE DEF v, k
  <2>2. passages'[r] = Fusion(v, k)
    BY <2>1, CombineOf
  <2>3. RespectsBoth(v, k, Fusion(v, k))
    BY <2>1, FusionRespects, LimitTyped
  <2> QED
    BY <2>2, <2>3 DEF v, k
<1>2. ASSUME SearchInv, [RetrievalNext]_allVars
      PROVE  [\A r \in Readers : Answers(r) /\ byVector[r] # <<>> /\ byKeyword'[r] # <<>> =>
                RespectsBoth(byVector[r], byKeyword'[r], passages'[r])]_allVars
  BY <1>1, <1>2
<1> QED
  BY <1>2, SearchesAreReads, PTL DEF RetrievalSpec, FusedByRank

\* Re-ingestion replaces whole versions also while searches are in progress.
THEOREM SearchedKnowledgeBase ==
  ASSUME RequestsApart
  PROVE  RetrievalSpec => Replaces
<1>1. Spec => Replaces
  BY ImplementsKnowledgeBase
<1> QED
  BY <1>1, SearchesAreReads, PTL
=============================================================================
