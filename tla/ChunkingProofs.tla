--------------------------- MODULE ChunkingProofs ---------------------------
(* Theorems about Chunking, for every document and every chunk size.       *)
EXTENDS Chunking, SetFacts

-----------------------------------------------------------------------------
(* Weights *)

\* Any number of characters counts as at least one token.
LEMMA TokensPositive ==
  ASSUME NEW c \in Nat
  PROVE  Tokens(c) \in Nat \ {0}
  BY DEF Tokens, CharsPerToken

\* A piece has characters.
LEMMA CharsPositive ==
  ASSUME NEW p \in Piece
  PROVE  Chars(p) \in Nat \ {0}
  BY DEF Piece, Chars

\* A piece has tokens.
LEMMA TokensOfPiece ==
  ASSUME NEW p \in Piece
  PROVE  Tokens(Chars(p)) \in Nat \ {0}
  BY CharsPositive, TokensPositive

\* n characters within the budget are few tokens.
LEMMA TokensWithin ==
  ASSUME NEW m \in Nat \ {0}, NEW n \in 1..m * CharsPerToken
  PROVE  Tokens(n) <= m
  BY DEF Tokens, CharsPerToken

\* The weight of pieces is a natural number.
LEMMA WeightNat ==
  ASSUME NEW s \in Seq(Piece)
  PROVE  WeightOf(s) \in Nat
<1> DEFINE t == [k \in 1..Len(s) |-> Tokens(Chars(s[k]))]
<1>1. t \in Seq(Nat)
  <2>1. \A k \in 1..Len(s) : Tokens(Chars(s[k])) \in Nat
    BY TokensOfPiece
  <2> QED
    BY <2>1
<1> QED
  BY <1>1, TotalNat DEF WeightOf

\* No pieces weigh nothing.
LEMMA WeightEmpty == WeightOf(<<>>) = 0
<1>1. [k \in 1..Len(<<>>) |-> Tokens(Chars(<<>>[k]))] = <<>>
  OBVIOUS
<1> QED
  BY <1>1, TotalEmpty DEF WeightOf

\* One more piece adds its tokens.
LEMMA WeightAppend ==
  ASSUME NEW s \in Seq(Piece), NEW p \in Piece
  PROVE  WeightOf(Append(s, p)) = WeightOf(s) + Tokens(Chars(p))
<1> DEFINE t == [k \in 1..Len(s) |-> Tokens(Chars(s[k]))]
           e == Append(s, p)
           x == Tokens(Chars(p))
<1>1. t \in Seq(Nat) /\ Len(t) = Len(s) /\ x \in Nat
  <2>1. \A k \in 1..Len(s) : Tokens(Chars(s[k])) \in Nat
    BY TokensOfPiece
  <2> QED
    BY <2>1, TokensOfPiece
<1>2. Len(e) = Len(s) + 1 /\ e[Len(s) + 1] = p /\ \A k \in 1..Len(s) : e[k] = s[k]
  OBVIOUS
<1>3. [k \in 1..Len(e) |-> Tokens(Chars(e[k]))] = Append(t, x)
  <2> DEFINE w == [k \in 1..Len(e) |-> Tokens(Chars(e[k]))]
             v == Append(t, x)
  <2>1. w \in Seq(Nat) /\ Len(w) = Len(s) + 1 /\ v \in Seq(Nat) /\ Len(v) = Len(s) + 1
    <3>1. e \in Seq(Piece)
      OBVIOUS
    <3>2. \A k \in 1..Len(e) : Tokens(Chars(e[k])) \in Nat
      BY <3>1, TokensOfPiece
    <3> QED
      BY <3>2, <1>1, <1>2
  <2>2. ASSUME NEW k \in 1..Len(s) + 1
        PROVE  w[k] = v[k]
    <3>1. CASE k = Len(s) + 1
      BY <3>1, <1>1, <1>2
    <3>2. CASE k \in 1..Len(s)
      BY <3>2, <1>1, <1>2
    <3> QED
      BY <3>1, <3>2
  <2> HIDE DEF w, v
  <2> QED
    BY <2>1, <2>2
<1> HIDE DEF t, x, e
<1>4. WeightOf(e) = Total(Append(t, x)) /\ WeightOf(s) = Total(t)
  BY <1>3 DEF WeightOf, t
<1> QED
  BY <1>1, <1>4, TotalAppend DEF e, x

\* What the weight of a list depends on.
LEMMA WeightSame ==
  ASSUME NEW s, NEW t, Len(s) = Len(t), \A k \in 1..Len(s) : Chars(s[k]) = Chars(t[k])
  PROVE  WeightOf(s) = WeightOf(t)
<1>1. [k \in 1..Len(s) |-> Tokens(Chars(s[k]))] = [k \in 1..Len(t) |-> Tokens(Chars(t[k]))]
  OBVIOUS
<1> QED
  BY <1>1 DEF WeightOf

\* A piece alone weighs its tokens.
LEMMA WeightOne ==
  ASSUME NEW p \in Piece
  PROVE  WeightOf(<<p>>) = Tokens(Chars(p))
<1>1. <<p>> = Append(<<>>, p) /\ <<>> \in Seq(Piece)
  OBVIOUS
<1>2. WeightOf(<<p>>) = 0 + Tokens(Chars(p))
  BY <1>1, WeightAppend, WeightEmpty
<1> QED
  BY <1>2, TokensOfPiece

-----------------------------------------------------------------------------
(* Text, paragraphs and sentences *)

InputOK == Lines \in Seq(Line) /\ size \in [max : Nat, overlap : Nat]

\* Lines have characters and a level.
LEMMA LineType ==
  ASSUME InputOK
  PROVE  Len(Lines) \in Nat /\ \A i \in 1..Len(Lines) : Lines[i].chars \in Nat /\ Lines[i].level \in 0..6
<1> DEFINE L == Line
<1>1. \A l \in L : l.chars \in Nat /\ l.level \in 0..6
  BY DEF Line
<1>2. Lines \in Seq(L)
  BY DEF InputOK
<1> HIDE DEF L
<1> QED
  BY <1>1, <1>2

\* The lines with text between two lines are finitely many.
LEMMA FilledLines ==
  ASSUME NEW a \in Nat, NEW b \in Nat
  PROVE  /\ IsFiniteSet(Filled(a, b)) /\ Filled(a, b) \in SUBSET Nat
         /\ \A i \in Filled(a, b) : a <= i /\ i <= b /\ Lines[i].chars > 0
<1>1. Filled(a, b) \subseteq a..b
  BY DEF Filled
<1>2. a \in Int /\ b \in Int
  OBVIOUS
<1>3. IsFiniteSet(a..b)
  BY <1>2, FS_Interval
<1> QED
  BY <1>1, <1>3, FS_Subset DEF Filled

\* The first line with text begins the first paragraph.
LEMMA FirstFilled ==
  ASSUME NEW a \in Nat, NEW b \in Nat, Filled(a, b) # {}
  PROVE  \E f \in Paragraphs(a, b) : f \in Filled(a, b) /\ \A i \in Filled(a, b) : f <= i
<1>1. PICK f \in Filled(a, b) : \A i \in Filled(a, b) : f <= i
  BY FilledLines, LeastNat
<1>2. Filled(a, f - 1) = {}
  <2>1. ASSUME NEW i \in Filled(a, f - 1)
        PROVE  FALSE
    <3>1. i \in a..f - 1 /\ Lines[i].chars > 0 /\ f \in a..b
      BY <1>1, <2>1 DEF Filled
    <3>2. i \in Filled(a, b) /\ i < f
      BY <3>1 DEF Filled
    <3> QED
      BY <1>1, <3>1, <3>2
  <2> QED
    BY <2>1
<1> QED
  BY <1>1, <1>2 DEF Paragraphs

\* The characters of the text between two lines.
LEMMA TextNat ==
  ASSUME InputOK, NEW a \in Nat \ {0}, NEW b \in Nat, b <= Len(Lines)
  PROVE  TextChars(a, b) \in Nat /\ (Filled(a, b) # {} => TextChars(a, b) >= 1)
<1>1. CASE Filled(a, b) = {}
  BY <1>1 DEF TextChars
<1>2. CASE Filled(a, b) # {}
  <2> DEFINE s == [n \in 1..b - a + 1 |-> Lines[a + n - 1].chars]
             filled == Cardinality(Filled(a, b))
             blocks == Cardinality(Paragraphs(a, b))
  <2>1. PICK f \in Paragraphs(a, b) : f \in Filled(a, b)
    BY <1>2, FirstFilled
  <2>2. f \in a..b /\ Lines[f].chars > 0
    BY <2>1 DEF Filled
  <2>3. s \in Seq(Nat) /\ Len(s) = b - a + 1
    <3>1. \A n \in 1..b - a + 1 : Lines[a + n - 1].chars \in Nat
      <4>1. \A n \in 1..b - a + 1 : a + n - 1 \in 1..Len(Lines)
        BY LineType
      <4> QED
        BY <4>1, LineType
    <3>2. b - a + 1 \in Nat
      BY <2>2
    <3> QED
      BY <3>1, <3>2
  <2>4. s[f - a + 1] >= 1 /\ f - a + 1 \in 1..Len(s)
    <3>1. f - a + 1 \in 1..b - a + 1 /\ a + (f - a + 1) - 1 = f
      BY <2>2
    <3>2. s[f - a + 1] = Lines[f].chars
      BY <3>1
    <3>3. Lines[f].chars \in Nat
      <4>1. f \in 1..Len(Lines)
        BY <2>2, LineType
      <4> QED
        BY <4>1, LineType
    <3> QED
      BY <2>2, <2>3, <3>1, <3>2, <3>3
  <2>5. Total(s) \in Nat /\ Total(s) >= 1
    <3> HIDE DEF s
    <3>1. Total(s) \in Nat /\ s[f - a + 1] <= Total(s) /\ s[f - a + 1] \in Nat
      BY <2>3, <2>4, TotalNat
    <3> QED
      BY <2>4, <3>1
  <2>6. filled \in Nat /\ filled >= 1
    <3>1. IsFiniteSet(Filled(a, b))
      BY FilledLines
    <3> QED
      BY <3>1, <1>2, FS_CardinalityType, FS_EmptySet
  <2>7. blocks \in Nat /\ blocks >= 1
    <3>1. Paragraphs(a, b) \subseteq Filled(a, b) /\ Paragraphs(a, b) # {}
      BY <2>1 DEF Paragraphs
    <3>2. IsFiniteSet(Paragraphs(a, b))
      BY <3>1, FilledLines, FS_Subset
    <3> QED
      BY <3>1, <3>2, FS_CardinalityType, FS_EmptySet
  <2>8. TextChars(a, b) = Total(s) + filled - 1 + blocks - 1
    BY <1>2 DEF TextChars
  <2> HIDE DEF s, filled, blocks
  <2> QED
    BY <2>5, <2>6, <2>7, <2>8
<1> QED
  BY <1>1, <1>2

-----------------------------------------------------------------------------
(* Units *)

\* A unit: all the text of some lines of a..b, not yet in a chunk.
IsUnit(u, a, b) ==
  /\ u \in Piece /\ u = Unit(u.from, u.to)
  /\ a <= u.from /\ u.to <= b /\ u.from \in Nat \ {0} /\ u.to \in Nat
  /\ Lines[u.from].chars > 0

\* Units that follow upon each other up to line b.
Consecutive(us, b) ==
  /\ \A k \in 1..Len(us) : us[k].to = IF k = Len(us) THEN b ELSE us[k + 1].from - 1
  /\ \A j, k \in 1..Len(us) : j < k => us[j].to < us[k].from

\* The unit of some lines with text is a piece.
LEMMA UnitOfLines ==
  ASSUME InputOK, NEW a \in Nat \ {0}, NEW b \in Nat, a <= b, b <= Len(Lines),
         Filled(a, b) # {}
  PROVE  Unit(a, b) \in Piece
  BY TextNat DEF Unit, Piece

\* Text cut before some lines is cut into units, each with text and none left out.
LEMMA CutUnits ==
  ASSUME InputOK, NEW a \in Nat \ {0}, NEW b \in Nat, a <= b, b <= Len(Lines),
         NEW starts \in SUBSET Filled(a, b), starts # {}
  PROVE  LET us == CutAt(starts, a, b)
         IN /\ us \in Seq(Piece) /\ us # <<>>
            /\ \A k \in 1..Len(us) : IsUnit(us[k], a, b)
            /\ Consecutive(us, b)
            /\ \A i \in starts : us[1].from <= i
<1> DEFINE us == CutAt(starts, a, b)
           s == Ascending(starts)
           N == Len(s)
           To(k) == IF k = N THEN b ELSE s[k + 1] - 1
<1>1. starts \in SUBSET Nat /\ IsFiniteSet(starts) /\ \A i \in starts : i \in a..b /\ Lines[i].chars > 0
  <2>1. \A i \in starts : i \in a..b /\ Lines[i].chars > 0
    BY DEF Filled
  <2> QED
    BY <2>1, FilledLines, FS_Subset
<1>2. /\ s \in Seq(starts) /\ N \in Nat
      /\ \A i, j \in 1..N : i < j <=> s[i] < s[j]
      /\ \A x \in starts : \E i \in 1..N : s[i] = x
  BY <1>1, AscendingList
<1>3. us = [k \in 1..N |-> Unit(s[k], To(k))]
  BY DEF CutAt
<1> HIDE DEF s, us
<1>4. \A k \in 1..N : s[k] \in starts /\ s[k] \in a..b /\ s[k] \in Nat /\ Lines[s[k]].chars > 0
  <2>1. \A k \in 1..N : s[k] \in starts
    BY <1>2
  <2> QED
    BY <2>1, <1>1
<1>5. ASSUME NEW k \in 1..N
      PROVE  /\ To(k) \in Nat /\ s[k] <= To(k) /\ To(k) <= b
             /\ \A j \in 1..N : k < j => To(k) < s[j]
  <2>1. CASE k = N
    BY <2>1, <1>4, <1>2
  <2>2. CASE k # N
    <3>1. k + 1 \in 1..N /\ k < k + 1
      BY <2>2, <1>2
    <3>2. s[k] < s[k + 1] /\ s[k + 1] \in a..b
      BY <3>1, <1>2, <1>4
    <3>3. ASSUME NEW j \in 1..N, k < j
          PROVE  s[k + 1] <= s[j]
      <4>1. k + 1 = j \/ k + 1 < j
        BY <3>3, <1>2
      <4>2. k + 1 < j => s[k + 1] < s[j]
        BY <3>1, <1>2
      <4>3. s[k + 1] \in Nat /\ s[j] \in Nat
        BY <3>1, <1>4
      <4> QED
        BY <4>1, <4>2, <4>3
    <3>4. \A j \in 1..N : s[j] \in Nat
      BY <1>4
    <3>5. To(k) = s[k + 1] - 1
      BY <2>2
    <3> HIDE DEF To
    <3> QED
      BY <3>2, <3>3, <3>4, <3>5, <1>4
  <2> QED
    BY <2>1, <2>2
<1>6. ASSUME NEW k \in 1..N
      PROVE  IsUnit(us[k], a, b) /\ us[k].from = s[k] /\ us[k].to = To(k)
  <2>1. us[k] = Unit(s[k], To(k))
    BY <1>3
  <2>2. us[k].from = s[k] /\ us[k].to = To(k)
    BY <2>1 DEF Unit
  <2>3. s[k] \in Nat \ {0} /\ To(k) \in Nat /\ s[k] <= To(k) /\ To(k) <= b /\ a <= s[k]
    <3>1. s[k] \in a..b
      BY <1>4
    <3>2. To(k) \in Nat /\ s[k] <= To(k) /\ To(k) <= b
      BY <1>5
    <3> HIDE DEF To
    <3> QED
      BY <3>1, <3>2
  <2> HIDE DEF To
  <2>4. s[k] \in Filled(s[k], To(k))
    BY <2>3, <1>4 DEF Filled
  <2>5. Unit(s[k], To(k)) \in Piece
    BY <2>3, <2>4, UnitOfLines
  <2> QED
    BY <2>1, <2>2, <2>3, <2>5, <1>4 DEF IsUnit
<1>7. us \in Seq(Piece) /\ Len(us) = N
  <2>1. \A k \in 1..N : us[k] \in Piece
    BY <1>6 DEF IsUnit
  <2>2. DOMAIN us = 1..N
    BY <1>3
  <2>3. us = [k \in 1..N |-> us[k]]
    BY <1>3
  <2>4. N \in Nat
    BY <1>2
  <2> HIDE DEF N
  <2>5. us \in Seq(Piece)
    BY <2>1, <2>2, <2>3, <2>4
  <2> QED
    BY <2>2, <2>4, <2>5
<1>8. N # 0
  BY <1>2
<1>9. Consecutive(us, b)
  <2>1. ASSUME NEW k \in 1..N
        PROVE  us[k].to = IF k = N THEN b ELSE us[k + 1].from - 1
    <3>1. k # N => k + 1 \in 1..N
      BY <1>2
    <3>2. k # N => us[k + 1].from = s[k + 1]
      BY <3>1, <1>6
    <3> QED
      BY <1>6, <3>2
  <2>2. ASSUME NEW j \in 1..N, NEW k \in 1..N, j < k
        PROVE  us[j].to < us[k].from
    BY <2>2, <1>5, <1>6
  <2> QED
    BY <2>1, <2>2, <1>7 DEF Consecutive
<1>10. ASSUME NEW i \in starts
       PROVE  us[1].from <= i
  <2>1. PICK k \in 1..N : s[k] = i
    BY <1>2
  <2>2. 1 \in 1..N /\ (1 = k \/ 1 < k)
    <3>1. N \in Nat
      BY <1>2
    <3> QED
      BY <3>1, <1>8
  <2>3. s[1] <= s[k]
    <3>1. 1 < k => s[1] < s[k]
      BY <2>2, <1>2
    <3>2. s[1] \in Nat /\ s[k] \in Nat
      BY <2>2, <1>4
    <3> QED
      BY <3>1, <3>2, <2>2
  <2> QED
    BY <2>1, <2>2, <2>3, <1>6
<1> QED
  BY <1>6, <1>7, <1>8, <1>9, <1>10 DEF us

\* The text of a page, as the packer gets it.
LEMMA PageUnits ==
  ASSUME InputOK, NEW p, p.from \in Nat \ {0}, p.to \in Nat, p.from <= p.to, p.to <= Len(Lines),
         Filled(p.from, p.to) # {}
  PROVE  LET us == UnitsOf(p)
         IN /\ us \in Seq(Piece) /\ us # <<>>
            /\ \A k \in 1..Len(us) : IsUnit(us[k], p.from, p.to)
            /\ Consecutive(us, p.to)
            /\ \A i \in Filled(p.from, p.to) : us[1].from <= i
<1> DEFINE paragraphs == Paragraphs(p.from, p.to)
           upto(q) == {i \in q..p.to : paragraphs \cap (q + 1..i) = {}}
           End(q) == Max(upto(q))
           split == {q \in paragraphs : \/ Cardinality(paragraphs) <= 1
                                        \/ Tokens(TextChars(q, End(q))) > size.max}
           starts == paragraphs \cup UNION {Sentences(q, End(q)) : q \in split}
<1>1. paragraphs \subseteq Filled(p.from, p.to)
  BY DEF Paragraphs
<1>2. ASSUME NEW q \in paragraphs
      PROVE  Sentences(q, End(q)) \subseteq Filled(p.from, p.to)
  <2>1. q \in p.from..p.to /\ q \in Nat
    BY <1>1 DEF Filled
  <2>2. q \in upto(q) /\ upto(q) \subseteq q..p.to /\ upto(q) \in SUBSET Nat
    BY <2>1
  <2>3. IsFiniteSet(upto(q))
    <3>1. q \in Int /\ p.to \in Int
      BY <2>1
    <3>2. IsFiniteSet(q..p.to)
      BY <3>1, FS_Interval
    <3> HIDE DEF upto
    <3> QED
      BY <3>2, <2>2, FS_Subset
  <2>4. End(q) \in upto(q)
    <3> HIDE DEF upto
    <3> QED
      BY <2>2, <2>3, MaxNat
  <2>5. End(q) \in Nat /\ End(q) <= p.to
    <3> HIDE DEF End
    <3> QED
      BY <2>1, <2>2, <2>4
  <2> HIDE DEF End
  <2> QED
    BY <2>1, <2>5 DEF Sentences, Filled
<1>3. starts \in SUBSET Filled(p.from, p.to)
  <2> HIDE DEF End
  <2> QED
    BY <1>1, <1>2
<1>4. PICK f \in paragraphs : f \in Filled(p.from, p.to) /\ \A i \in Filled(p.from, p.to) : f <= i
  BY FirstFilled
<1>5. UnitsOf(p) = CutAt(starts, p.from, p.to)
  BY DEF UnitsOf
<1>6. f \in starts
  BY <1>4
<1> HIDE DEF starts
<1> DEFINE us == CutAt(starts, p.from, p.to)
<1>7. /\ us \in Seq(Piece) /\ us # <<>>
      /\ \A k \in 1..Len(us) : IsUnit(us[k], p.from, p.to)
      /\ Consecutive(us, p.to)
      /\ \A i \in starts : us[1].from <= i
  BY <1>3, <1>6, CutUnits
<1> HIDE DEF us
<1>8. ASSUME NEW i \in Filled(p.from, p.to)
      PROVE  us[1].from <= i
  <2>1. us[1].from <= f /\ f <= i
    BY <1>4, <1>6, <1>7
  <2>2. 1 \in 1..Len(us)
    BY <1>7
  <2>3. us[1].from \in Nat
    BY <2>2, <1>7 DEF IsUnit
  <2>4. f \in Nat /\ i \in Nat
    BY <1>4, FilledLines
  <2> QED
    BY <2>1, <2>3, <2>4
<1> QED
  BY <1>5, <1>7, <1>8 DEF us

-----------------------------------------------------------------------------
(* Hard splits *)

\* The number of windows of w characters that c characters fill.
LEMMA DivisionUp ==
  ASSUME NEW c \in Nat \ {0}, NEW w \in Nat \ {0}
  PROVE  LET n == (c + w - 1) \div w
         IN n \in Nat \ {0} /\ (n - 1) * w < c /\ c <= n * w
  OBVIOUS

\* Windows of w characters follow upon each other.
LEMMA Times ==
  ASSUME NEW w \in Nat, NEW j \in Nat, NEW k \in Nat, j <= k
  PROVE  j * w \in Nat /\ j * w <= k * w /\ (j + 1) * w = j * w + w
  OBVIOUS

\* An oversized unit is split into pieces of at most max tokens that follow upon each
\* other to its end; each is a part of it.
LEMMA HardSplitPieces ==
  ASSUME InputOK, size.max > 0, NEW a, NEW b, NEW u, IsUnit(u, a, b), Tokens(Chars(u)) > size.max
  PROVE  LET ps == HardSplit(u)
         IN /\ ps \in Seq(Piece) /\ ps # <<>>
            /\ \A k \in 1..Len(ps) :
                 /\ ps[k].from = u.from /\ ps[k].to = u.to /\ ps[k].fresh
                 /\ Tokens(Chars(ps[k])) <= size.max /\ Cut(ps[k])
                 /\ ps[k].first = IF k = 1 THEN 1 ELSE ps[k - 1].last + 1
            /\ ps[Len(ps)].last = u.last
            /\ \A j, k \in 1..Len(ps) : j < k => ps[j].last < ps[k].first
<1> DEFINE m == size.max
           w == m * CharsPerToken
           c == u.last
           n == (c + w - 1) \div w
           ps == HardSplit(u)
<1>1. m \in Nat \ {0} /\ w \in Nat \ {0}
  BY DEF InputOK, CharsPerToken
<1>2. u \in Piece /\ u.first = 1 /\ c = TextChars(u.from, u.to) /\ u.fresh /\ c \in Nat \ {0}
  BY DEF IsUnit, Unit, Piece
<1>3. c > w
  <2>1. Chars(u) = c
    BY <1>2 DEF Chars
  <2>2. c \div 4 > m
    BY <2>1, <1>1, <1>2 DEF Tokens, CharsPerToken
  <2> QED
    BY <2>2, <1>1, <1>2 DEF CharsPerToken
<1>4. n \in Nat \ {0} /\ (n - 1) * w < c /\ c <= n * w
  BY <1>1, <1>2, DivisionUp
<1>5. ps = [k \in 1..n |-> [u EXCEPT !.first = (k - 1) * w + 1, !.last = IF k = n THEN @ ELSE k * w]]
  BY DEF HardSplit, SplitInto
<1> HIDE DEF n, w, m, ps, c
<1>6. n >= 2
  <2>1. n * w = (n - 1) * w + w
    BY <1>1, <1>4, Times
  <2>2. n # 1
    BY <1>1, <1>2, <1>3, <1>4
  <2> QED
    BY <2>2, <1>4
<1>7. ASSUME NEW k \in 1..n
      PROVE  /\ (k - 1) * w \in Nat /\ k * w = (k - 1) * w + w /\ k * w \in Nat
             /\ (k - 1) * w <= (n - 1) * w /\ (k # n => k * w < c)
  <2>1. k - 1 \in Nat /\ n - 1 \in Nat /\ k - 1 <= n - 1 /\ k \in Nat /\ (k - 1) + 1 = k
    BY <1>4
  <2>2. (k - 1) * w \in Nat /\ (k - 1) * w <= (n - 1) * w /\ ((k - 1) + 1) * w = (k - 1) * w + w
    BY <2>1, <1>1, Times
  <2>3. k # n => k <= n - 1
    BY <1>4
  <2>4. k # n => k * w <= (n - 1) * w
    BY <2>1, <2>3, <1>1, Times
  <2>5. k * w \in Nat /\ (n - 1) * w \in Nat
    BY <2>1, <1>1, Times
  <2> QED
    BY <2>1, <2>2, <2>4, <2>5, <1>2, <1>4
<1>8. ASSUME NEW k \in 1..n
      PROVE  /\ ps[k] \in Piece /\ ps[k].from = u.from /\ ps[k].to = u.to /\ ps[k].fresh
             /\ ps[k].first = (k - 1) * w + 1 /\ ps[k].last = IF k = n THEN c ELSE k * w
             /\ Chars(ps[k]) \in 1..w /\ Cut(ps[k])
  <2>1. ps[k] = [u EXCEPT !.first = (k - 1) * w + 1, !.last = IF k = n THEN c ELSE k * w]
    BY <1>5 DEF c
  <2>2. /\ ps[k].from = u.from /\ ps[k].to = u.to /\ ps[k].fresh
        /\ ps[k].first = (k - 1) * w + 1 /\ ps[k].last = IF k = n THEN c ELSE k * w
    BY <2>1, <1>2 DEF Piece
  <2>3. ps[k].first <= ps[k].last /\ ps[k].first \in Nat \ {0} /\ ps[k].last \in Nat
    BY <2>2, <1>1, <1>2, <1>4, <1>7
  <2>4. ps[k] \in Piece
    BY <2>1, <2>2, <2>3, <1>2 DEF Piece
  <2>5. Chars(ps[k]) \in 1..w
    <3>1. CASE k = n
      BY <3>1, <2>2, <2>3, <1>1, <1>2, <1>4, <1>7 DEF Chars
    <3>2. CASE k # n
      BY <3>2, <2>2, <2>3, <1>1, <1>7 DEF Chars
    <3> QED
      BY <3>1, <3>2
  <2>6. Cut(ps[k])
    <3>1. CASE k = n
      <4>1. (n - 1) * w >= w
        <5>1. 1 \in Nat /\ n - 1 \in Nat /\ 1 <= n - 1 /\ w \in Nat
          BY <1>1, <1>4, <1>6
        <5>2. 1 * w <= (n - 1) * w
          BY <5>1, Times
        <5> QED
          BY <5>2, <1>1
      <4> QED
        BY <3>1, <4>1, <2>2, <1>1, <1>7 DEF Cut
    <3>2. CASE k # n
      BY <3>2, <2>2, <1>2, <1>7 DEF Cut
    <3> QED
      BY <3>1, <3>2
  <2> QED
    BY <2>2, <2>4, <2>5, <2>6
<1>9. ps \in Seq(Piece) /\ Len(ps) = n /\ ps # <<>>
  <2>1. DOMAIN ps = 1..n /\ ps = [k \in 1..n |-> ps[k]] /\ \A k \in 1..n : ps[k] \in Piece
    BY <1>5, <1>8
  <2> QED
    BY <2>1, <1>4
<1>10. ASSUME NEW k \in 1..n
       PROVE  Tokens(Chars(ps[k])) <= size.max
  BY <1>1, <1>8, TokensWithin DEF w, m
<1>11. ASSUME NEW k \in 1..n
       PROVE  ps[k].first = IF k = 1 THEN 1 ELSE ps[k - 1].last + 1
  <2>1. CASE k = 1
    BY <2>1, <1>1, <1>8
  <2>2. CASE k # 1
    <3>1. k - 1 \in 1..n /\ k - 1 # n
      BY <2>2, <1>4
    <3> QED
      BY <3>1, <2>2, <1>8
  <2> QED
    BY <2>1, <2>2
<1>12. ASSUME NEW j \in 1..n, NEW k \in 1..n, j < k
       PROVE  ps[j].last < ps[k].first
  <2>1. j # n /\ j \in Nat /\ k - 1 \in Nat /\ j <= k - 1
    BY <1>12, <1>4
  <2>2. j * w <= (k - 1) * w
    BY <2>1, <1>1, Times
  <2>3. ps[j].last = j * w /\ ps[k].first = (k - 1) * w + 1
    BY <2>1, <1>8
  <2> QED
    BY <2>2, <2>3, <1>7
<1>13. ps[n].last = u.last
  BY <1>4, <1>8 DEF c
<1> QED
  BY <1>8, <1>9, <1>10, <1>11, <1>12, <1>13 DEF ps

-----------------------------------------------------------------------------
(* Overlap *)

\* carry repeats the end of pieces.
IsTail(carry, pieces) ==
  /\ carry \in Seq(Piece) /\ Len(carry) <= Len(pieces)
  /\ \A n \in 1..Len(carry) :
       LET p == pieces[Len(pieces) - Len(carry) + n]
       IN /\ ~carry[n].fresh
          /\ carry[n].from = p.from /\ carry[n].to = p.to
          /\ carry[n].last = p.last /\ carry[n].first >= p.first

\* The last k pieces of a list.
LEMMA SuffixOf ==
  ASSUME NEW s \in Seq(Piece), NEW k \in 0..Len(s)
  PROVE  /\ Suffix(s, k) \in Seq(Piece) /\ Len(Suffix(s, k)) = k
         /\ \A n \in 1..k : Suffix(s, k)[n] = s[Len(s) - k + n]
<1>1. Len(s) \in Nat /\ Len(s) - k + 1 \in 1..Len(s) + 1
  OBVIOUS
<1>2. Suffix(s, k) = [n \in 1..k |-> s[Len(s) - k + n]]
  BY <1>1 DEF Suffix
<1>3. \A n \in 1..k : s[Len(s) - k + n] \in Piece
  OBVIOUS
<1> QED
  BY <1>2, <1>3

\* Marking pieces as repeated changes nothing else of them.
LEMMA StalePieces ==
  ASSUME NEW s \in Seq(Piece)
  PROVE  /\ Stale(s) \in Seq(Piece) /\ Len(Stale(s)) = Len(s) /\ WeightOf(Stale(s)) = WeightOf(s)
         /\ \A n \in 1..Len(s) :
              /\ ~Stale(s)[n].fresh
              /\ Stale(s)[n].from = s[n].from /\ Stale(s)[n].to = s[n].to
              /\ Stale(s)[n].first = s[n].first /\ Stale(s)[n].last = s[n].last
<1>1. ASSUME NEW q \in Piece
      PROVE  LET e == [q EXCEPT !.fresh = FALSE]
             IN e \in Piece /\ ~e.fresh /\ e.from = q.from /\ e.to = q.to /\ e.first = q.first /\ e.last = q.last
  BY DEF Piece
<1>2. Stale(s) = [n \in 1..Len(s) |-> [s[n] EXCEPT !.fresh = FALSE]] /\ Len(s) \in Nat
  BY DEF Stale
<1>3. ASSUME NEW n \in 1..Len(s)
      PROVE  /\ Stale(s)[n] \in Piece /\ ~Stale(s)[n].fresh
             /\ Stale(s)[n].from = s[n].from /\ Stale(s)[n].to = s[n].to
             /\ Stale(s)[n].first = s[n].first /\ Stale(s)[n].last = s[n].last
  <2>1. s[n] \in Piece /\ Stale(s)[n] = [s[n] EXCEPT !.fresh = FALSE]
    BY <1>2
  <2> QED
    BY <2>1, <1>1
<1>4. Stale(s) \in Seq(Piece) /\ Len(Stale(s)) = Len(s)
  BY <1>2, <1>3
<1>5. \A n \in 1..Len(s) : Chars(Stale(s)[n]) = Chars(s[n])
  BY <1>3 DEF Chars
<1>6. WeightOf(Stale(s)) = WeightOf(s)
  BY <1>4, <1>5, WeightSame
<1> QED
  BY <1>3, <1>4, <1>6

\* The last n characters of a piece.
LEMMA PieceEnd ==
  ASSUME NEW q \in Piece, NEW n \in Nat \ {0}, n <= Chars(q)
  PROVE  LET e == [q EXCEPT !.first = @ + Chars(q) - n]
         IN /\ e \in Piece /\ Chars(e) = n /\ e.first >= q.first
            /\ e.from = q.from /\ e.to = q.to /\ e.last = q.last
<1> DEFINE f == q.first + Chars(q) - n
<1>1. f \in Nat \ {0} /\ f <= q.last /\ f >= q.first /\ q.last - f + 1 = n
  BY DEF Piece, Chars
<1> HIDE DEF f
<1>2. LET e == [q EXCEPT !.first = f]
      IN e \in Piece /\ e.first = f /\ e.from = q.from /\ e.to = q.to /\ e.last = q.last
  BY <1>1 DEF Piece
<1> QED
  BY <1>1, <1>2 DEF f, Chars

\* What is carried over a seam is the end of the chunk, within the budget, and not
\* nothing if there is a budget.
LEMMA Tails ==
  ASSUME InputOK, NEW s \in Seq(Piece), s # <<>>, NEW carry \in TailsForOverlap(s)
  PROVE  /\ IsTail(carry, s) /\ WeightOf(carry) <= size.overlap
         /\ size.overlap > 0 => carry # <<>>
<1> DEFINE v == size.overlap
           fits == {k \in 0..Len(s) : WeightOf(Suffix(s, k)) <= v}
           longest == Max(fits)
           last == Last(s)
           ends == {n \in 1..v * CharsPerToken : n <= Chars(last)}
           End(n) == [last EXCEPT !.first = @ + Chars(last) - n]
<1>1. v \in Nat
  BY DEF InputOK
<1>2. CASE v = 0
  <2>1. carry = <<>>
    BY <1>2 DEF TailsForOverlap
  <2>2. <<>> \in Seq(Piece) /\ Len(<<>>) = 0 /\ Len(s) \in Nat
    OBVIOUS
  <2> QED
    BY <2>1, <2>2, <1>2, WeightEmpty DEF IsTail
<1>3. CASE v # 0 /\ longest > 0
  <2>1. carry = Stale(Suffix(s, longest))
    BY <1>3 DEF TailsForOverlap
  <2>2. longest \in fits
    <3>1. Suffix(s, 0) = <<>>
      BY SuffixOf, 0 \in 0..Len(s)
    <3>2. 0 \in fits
      BY <3>1, <1>1, WeightEmpty
    <3>3. IsFiniteSet(0..Len(s))
      BY FS_Interval, 0 \in Int, Len(s) \in Int
    <3>4. IsFiniteSet(fits) /\ fits \in SUBSET Nat
      BY <3>3, FS_Subset
    <3> HIDE DEF fits
    <3> QED
      BY <3>2, <3>4, MaxNat
  <2>3. longest \in 0..Len(s) /\ WeightOf(Suffix(s, longest)) <= v
    BY <2>2
  <2> HIDE DEF longest
  <2> DEFINE t == Suffix(s, longest)
  <2>4. t \in Seq(Piece) /\ Len(t) = longest /\ \A n \in 1..longest : t[n] = s[Len(s) - longest + n]
    BY <2>3, SuffixOf
  <2> HIDE DEF t
  <2>5. /\ Stale(t) \in Seq(Piece) /\ Len(Stale(t)) = Len(t) /\ WeightOf(Stale(t)) = WeightOf(t)
        /\ \A n \in 1..Len(t) :
             /\ ~Stale(t)[n].fresh
             /\ Stale(t)[n].from = t[n].from /\ Stale(t)[n].to = t[n].to
             /\ Stale(t)[n].first = t[n].first /\ Stale(t)[n].last = t[n].last
    BY <2>4, StalePieces
  <2>6. carry = Stale(t) /\ WeightOf(t) <= v
    BY <2>1, <2>3 DEF t
  <2>7. \A n \in 1..longest : t[n].first \in Nat
    BY <2>4 DEF Piece
  <2>8. IsTail(carry, s)
    BY <2>3, <2>4, <2>5, <2>6, <2>7 DEF IsTail
  <2> QED
    BY <2>3, <2>4, <2>5, <2>6, <2>8, <1>3
<1>4. CASE v # 0 /\ ~(longest > 0)
  <2>1. PICK n \in ends : carry = Stale(<<End(n)>>)
    BY <1>4 DEF TailsForOverlap
  <2>2. last \in Piece /\ last = s[Len(s)] /\ Len(s) \in Nat \ {0}
    BY DEF Last
  <2>3. Chars(last) \in Nat /\ n \in 1..v * CharsPerToken /\ n <= Chars(last) /\ n \in Nat \ {0}
    BY <2>1, <2>2, <1>1, CharsPositive DEF CharsPerToken
  <2>4. /\ End(n) \in Piece /\ Chars(End(n)) = n
        /\ End(n).from = last.from /\ End(n).to = last.to /\ End(n).last = last.last
        /\ End(n).first >= last.first
    <3> HIDE DEF last
    <3> QED
      BY <2>2, <2>3, PieceEnd
  <2> DEFINE e == End(n)
             t == <<e>>
  <2>5. t \in Seq(Piece) /\ Len(t) = 1 /\ t[1] = e
    BY <2>4
  <2> HIDE DEF e, last
  <2>6. WeightOf(t) <= v
    <3>1. WeightOf(t) = Tokens(Chars(e)) /\ Chars(e) = n
      BY <2>4, WeightOne DEF e
    <3> QED
      BY <3>1, <2>3, <1>1, <1>4, TokensWithin
  <2> HIDE DEF t
  <2>7. /\ Stale(t) \in Seq(Piece) /\ Len(Stale(t)) = Len(t) /\ WeightOf(Stale(t)) = WeightOf(t)
        /\ \A k \in 1..Len(t) :
             /\ ~Stale(t)[k].fresh
             /\ Stale(t)[k].from = t[k].from /\ Stale(t)[k].to = t[k].to
             /\ Stale(t)[k].first = t[k].first /\ Stale(t)[k].last = t[k].last
    BY <2>5, StalePieces
  <2>8. carry = Stale(t)
    BY <2>1 DEF t, e
  <2>9. IsTail(carry, s)
    <3>1. Len(s) - 1 + 1 = Len(s)
      BY <2>2
    <3>2. /\ e.from = last.from /\ e.to = last.to /\ e.last = last.last /\ e.first >= last.first
      BY <2>4 DEF e
    <3>3. Len(carry) = 1 /\ carry \in Seq(Piece)
      BY <2>5, <2>7, <2>8
    <3>4. carry[1].from = e.from /\ carry[1].to = e.to /\ carry[1].last = e.last
          /\ carry[1].first = e.first /\ ~carry[1].fresh
      BY <2>5, <2>7, <2>8, 1 \in 1..1
    <3>5. Len(s) - Len(carry) + 1 = Len(s) /\ Len(carry) <= Len(s)
      BY <3>1, <3>3, <2>2
    <3>6. \A k \in 1..Len(carry) : k = 1
      BY <3>3
    <3> QED
      BY <2>2, <3>2, <3>3, <3>4, <3>5, <3>6 DEF IsTail
  <2>10. Len(carry) = 1 /\ WeightOf(carry) <= v
    BY <2>5, <2>6, <2>7, <2>8
  <2>11. carry # <<>>
    <3>1. ASSUME carry = <<>>
          PROVE  Len(carry) = 0
      BY <3>1
    <3> QED
      BY <2>10, <3>1
  <2> QED
    BY <2>9, <2>10, <2>11
<1> QED
  BY <1>2, <1>3, <1>4

-----------------------------------------------------------------------------
(* Code blocks and headings *)

Marks == {NoFence, "backticks", "tildes"}

\* The block a line is in follows from the block of the line before it.
LEMMA BlockSteps ==
  ASSUME InputOK
  PROVE  /\ OpenBlock[0] = NoFence
         /\ \A i \in 1..Len(Lines) :
              LET mark == IF input.format = "markdown" THEN Lines[i].fence ELSE NoFence
              IN OpenBlock[i] = IF mark = NoFence THEN OpenBlock[i - 1]
                                ELSE IF OpenBlock[i - 1] = NoFence THEN mark
                                ELSE IF OpenBlock[i - 1] = mark THEN NoFence ELSE OpenBlock[i - 1]
         /\ \A i \in 0..Len(Lines) : OpenBlock[i] \in Marks
<1> DEFINE N == Len(Lines)
           Mark(i) == IF input.format = "markdown" THEN Lines[i].fence ELSE NoFence
           After(b, i) == IF Mark(i) = NoFence THEN b
                          ELSE IF b = NoFence THEN Mark(i)
                          ELSE IF b = Mark(i) THEN NoFence ELSE b
           step == [q \in Marks \X (1..N) |-> After(q[1], q[2])]
           Solves(f) == f = [i \in 0..N |-> IF i = 0 THEN NoFence ELSE After(f[i - 1], i)]
           block == CHOOSE f : Solves(f)
<1>1. N \in Nat /\ NoFence \in Marks
  BY LineType DEF Marks
<1>2. \A i \in 1..N : Mark(i) \in Marks
  <2> DEFINE L == Line
  <2>1. \A l \in L : l.fence \in Marks
    BY DEF Line, Marks
  <2>2. Lines \in Seq(L)
    BY DEF InputOK
  <2> HIDE DEF L
  <2>3. \A i \in 1..N : Lines[i].fence \in Marks
    BY <2>1, <2>2
  <2> QED
    BY <2>3, <1>1
<1>3. step \in [Marks \X (1..N) -> Marks]
  <2> HIDE DEF Mark
  <2>1. \A b \in Marks, i \in 1..N : After(b, i) \in Marks
    BY <1>1, <1>2
  <2> HIDE DEF After
  <2> QED
    BY <2>1
<1>4. Iterates(Marks, NoFence, N, step)
  <2> HIDE DEF step, N
  <2> QED
    BY <1>1, <1>3, Recursion
<1> HIDE DEF After
<1>5. PICK f \in [0..N -> Marks] : f[0] = NoFence /\ \A i \in 1..N : f[i] = step[<<f[i - 1], i>>]
  BY <1>4 DEF Iterates
<1>6. \A i \in 1..N : f[i] = After(f[i - 1], i)
  <2>1. ASSUME NEW i \in 1..N
        PROVE  step[<<f[i - 1], i>>] = After(f[i - 1], i)
    <3>1. f[i - 1] \in Marks
      BY <1>1
    <3> QED
      BY <3>1
  <2> QED
    BY <2>1, <1>5
<1>7. Solves(f)
  BY <1>1, <1>5, <1>6
<1>8. Solves(block)
  BY <1>7
<1>9. OpenBlock = block
  BY DEF OpenBlock, After
<1> HIDE DEF block
<1>10. block[0] = NoFence /\ \A i \in 1..N : block[i] = After(block[i - 1], i)
  BY <1>1, <1>8
<1>11. ASSUME {i \in 0..N : block[i] \notin Marks} # {}
       PROVE  FALSE
  <2> DEFINE odd == {i \in 0..N : block[i] \notin Marks}
  <2>1. odd \in SUBSET Nat
    OBVIOUS
  <2>2. PICK i \in odd : \A j \in odd : i <= j
    BY <2>1, <1>11, LeastNat
  <2>3. i # 0 /\ i \in 1..N
    BY <1>1, <1>10
  <2>4. i - 1 \in 0..N /\ i - 1 \notin odd
    BY <2>2, <2>3, <1>1
  <2>5. block[i - 1] \in Marks /\ block[i] = After(block[i - 1], i)
    BY <2>3, <2>4, <1>10
  <2>6. After(block[i - 1], i) = step[<<block[i - 1], i>>]
    BY <2>3, <2>5
  <2> HIDE DEF step
  <2>7. step[<<block[i - 1], i>>] \in Marks
    BY <1>3, <2>3, <2>5
  <2> QED
    BY <2>2, <2>5, <2>6, <2>7
<1>12. \A i \in 0..N : block[i] \in Marks
  BY <1>11
<1> QED
  BY <1>9, <1>10, <1>12 DEF After

\* The headings line i is under, those without text included.
Under(i) ==
  {h \in HeadingLines : h <= i /\
     \A k \in HeadingLines : h < k /\ k <= i => Lines[k].level > Lines[h].level}

\* The stack holds them, each at its level.
StackInv(stack, i) ==
  /\ stack \in Seq(0..Len(Lines))
  /\ \A l \in 1..Len(stack) :
       stack[l] # 0 => stack[l] \in Under(i) /\ Lines[stack[l]].level = l
  /\ \A h \in Under(i) : Lines[h].level \in 1..Len(stack) /\ stack[Lines[h].level] = h

\* A heading is a line with a level.
LEMMA HeadingType ==
  ASSUME InputOK, NEW h \in HeadingLines
  PROVE  h \in 1..Len(Lines) /\ h \in Nat \ {0} /\ Lines[h].level \in 1..6
<1>1. h \in 1..Len(Lines) /\ Lines[h].level > 0
  BY DEF HeadingLines
<1>2. Lines[h].level \in 0..6
  BY <1>1, LineType
<1> QED
  BY <1>1, <1>2

\* A section's path is its headings with text, outermost first.
LEMMA PathAbove ==
  ASSUME InputOK, NEW i \in Nat, StackInv(headings, i)
  PROVE  CurrentPath = Above(i) /\ Above(i) \in Seq(Nat)
<1>0. PICK F, T : F = Filled(1, Len(Lines)) /\ T = 0..Len(Lines)
  OBVIOUS
<1> DEFINE S == {h \in Under(i) : Lines[h].chars > 0}
           path == Only(headings, F)
           order == PlacesOf(headings, F)
<1>1. Above(i) = Ascending(S)
  <2>1. S = {h \in HeadingLines : h <= i /\ Lines[h].chars > 0 /\
               \A k \in HeadingLines : h < k /\ k <= i => Lines[k].level > Lines[h].level}
    BY DEF Under
  <2> QED
    BY <2>1 DEF Above
<1>2. Under(i) \subseteq 1..Len(Lines) /\ Len(Lines) \in Nat
  BY HeadingType, LineType DEF Under
<1>3. S \in SUBSET Nat /\ IsFiniteSet(S)
  <2>1. S \subseteq 1..Len(Lines)
    BY <1>2
  <2>2. 1 \in Int /\ Len(Lines) \in Int
    BY <1>2
  <2>3. IsFiniteSet(1..Len(Lines)) /\ 1..Len(Lines) \in SUBSET Nat
    BY <2>2, FS_Interval
  <2> HIDE DEF S
  <2> QED
    BY <2>1, <2>3, FS_Subset
<1>4. /\ path \in Seq(0..Len(Lines))
      /\ order \in [1..Len(path) -> 1..Len(headings)]
      /\ \A n \in 1..Len(path) : path[n] = headings[order[n]] /\ headings[order[n]] \in F
      /\ \A m, n \in 1..Len(path) : m < n <=> order[m] < order[n]
      /\ \A l \in 1..Len(headings) : headings[l] \in F => \E n \in 1..Len(path) : order[n] = l
  <2>1. headings \in Seq(T)
    BY <1>0 DEF StackInv
  <2>2. /\ path \in Seq(T) /\ order \in [1..Len(path) -> 1..Len(headings)]
        /\ \A n \in 1..Len(path) : path[n] = headings[order[n]] /\ headings[order[n]] \in F
        /\ \A m, n \in 1..Len(path) : m < n <=> order[m] < order[n]
        /\ \A l \in 1..Len(headings) : headings[l] \in F => \E n \in 1..Len(path) : order[n] = l
    BY <2>1, OnlyList
  <2> HIDE DEF path, order
  <2> QED
    BY <2>2, <1>0
<1> HIDE DEF path, order
<1>5. \A h \in F : h # 0 /\ Lines[h].chars > 0
  BY <1>0 DEF Filled
<1>6. ASSUME NEW l \in 1..Len(headings), headings[l] \in F
      PROVE  headings[l] \in S /\ Lines[headings[l]].level = l
  BY <1>5, <1>6 DEF StackInv
<1>7. \A n \in 1..Len(path) : path[n] \in S /\ Lines[path[n]].level = order[n]
  BY <1>4, <1>6
<1>8. path \in Seq(S)
  <2>1. path = [n \in 1..Len(path) |-> path[n]] /\ Len(path) \in Nat
    BY <1>4
  <2>2. \A n \in 1..Len(path) : path[n] \in S
    BY <1>7
  <2> HIDE DEF S
  <2> QED
    BY <2>1, <2>2
<1>9. ASSUME NEW h \in S, NEW g \in S, Lines[h].level < Lines[g].level
      PROVE  h < g
  <2>1. /\ h \in HeadingLines /\ g \in HeadingLines /\ h <= i /\ g <= i
        /\ g < h => Lines[h].level > Lines[g].level
    BY DEF Under
  <2>2. h \in Nat /\ g \in Nat /\ Lines[h].level \in Nat /\ Lines[g].level \in Nat
    BY <2>1, HeadingType
  <2> QED
    BY <2>1, <2>2, <1>9
<1>10. ASSUME NEW m \in 1..Len(path), NEW n \in 1..Len(path), m < n
       PROVE  path[m] < path[n]
  <2>1. order[m] < order[n]
    BY <1>4, <1>10
  <2> QED
    BY <2>1, <1>7, <1>9
<1>11. ASSUME NEW h \in S
       PROVE  \E n \in 1..Len(path) : path[n] = h
  <2>1. Lines[h].level \in 1..Len(headings) /\ headings[Lines[h].level] = h
    BY DEF StackInv
  <2>2. h \in F
    BY <1>0, <1>2 DEF Filled
  <2>3. PICK n \in 1..Len(path) : order[n] = Lines[h].level
    BY <2>1, <2>2, <1>4
  <2> QED
    BY <2>1, <2>3, <1>4
<1> HIDE DEF S
<1>12. path = Ascending(S)
  BY <1>3, <1>8, <1>10, <1>11, OneAscendingList
<1>13. path \in Seq(Nat)
  <2>1. \A n \in 1..Len(path) : path[n] \in Nat
    BY <1>3, <1>7
  <2> QED
    BY <2>1, <1>4
<1> QED
  BY <1>0, <1>1, <1>12, <1>13 DEF CurrentPath, path

\* A line that is no heading leaves the stack, a heading replaces what is not above it.
LEMMA StackStays ==
  ASSUME InputOK, NEW stack, NEW i \in Nat, StackInv(stack, i), i + 1 \notin HeadingLines
  PROVE  StackInv(stack, i + 1)
<1>1. Under(i + 1) = Under(i)
  <2>1. \A h \in HeadingLines : h <= i + 1 <=> h <= i
    BY HeadingType
  <2> QED
    BY <2>1 DEF Under
<1> QED
  BY <1>1 DEF StackInv

\* A heading closes those of its level and below and opens itself.
LEMMA StackGrows ==
  ASSUME InputOK, NEW stack, NEW i \in Nat, StackInv(stack, i), i + 1 \in HeadingLines
  PROVE  LET level == Lines[i + 1].level
             next == [l \in 1..level |->
                        IF l = level THEN i + 1 ELSE IF l <= Len(stack) THEN stack[l] ELSE 0]
         IN StackInv(next, i + 1)
<1> DEFINE level == Lines[i + 1].level
           next == [l \in 1..level |->
                      IF l = level THEN i + 1 ELSE IF l <= Len(stack) THEN stack[l] ELSE 0]
<1>1. level \in 1..6 /\ i + 1 \in 1..Len(Lines) /\ Len(Lines) \in Nat /\ Len(stack) \in Nat
  BY HeadingType, LineType DEF StackInv
<1>2. Under(i + 1) = {h \in Under(i) : Lines[h].level < level} \cup {i + 1}
  <2>1. ASSUME NEW h \in HeadingLines
        PROVE  /\ h \in Nat /\ Lines[h].level \in Nat
               /\ h <= i + 1 <=> h <= i \/ h = i + 1
    BY HeadingType
  <2>2. ASSUME NEW h \in Under(i + 1), h # i + 1
        PROVE  h \in Under(i) /\ Lines[h].level < level
    <3>1. h \in HeadingLines /\ h <= i /\ h < i + 1
      BY <2>1, <2>2 DEF Under
    <3>2. level > Lines[h].level
      BY <3>1, <2>2 DEF Under
    <3>3. \A k \in HeadingLines : h < k /\ k <= i => Lines[k].level > Lines[h].level
      BY <2>1, <2>2 DEF Under
    <3> QED
      BY <3>1, <3>2, <3>3, <2>1, <1>1 DEF Under
  <2>3. ASSUME NEW h \in Under(i), Lines[h].level < level
        PROVE  h \in Under(i + 1)
    <3>1. h \in HeadingLines /\ h <= i
      BY DEF Under
    <3>2. ASSUME NEW k \in HeadingLines, h < k, k <= i + 1
          PROVE  Lines[k].level > Lines[h].level
      <4>1. CASE k = i + 1
        BY <4>1, <2>3, <3>1, <2>1, <1>1
      <4>2. CASE k # i + 1
        <5>1. k <= i
          BY <4>2, <3>2, <2>1
        <5> QED
          BY <5>1, <3>2 DEF Under
      <4> QED
        BY <4>1, <4>2
    <3> QED
      BY <3>1, <3>2, <2>1 DEF Under
  <2>4. i + 1 \in Under(i + 1)
    <3>1. \A k \in HeadingLines : ~(i + 1 < k /\ k <= i + 1)
      BY <2>1
    <3> QED
      BY <3>1 DEF Under
  <2> QED
    BY <2>2, <2>3, <2>4
<1>3. \A l \in 1..Len(stack) : stack[l] \in 0..Len(Lines)
  BY DEF StackInv
<1>4. next \in Seq(0..Len(Lines)) /\ Len(next) = level
  <2>1. \A l \in 1..level : next[l] \in 0..Len(Lines)
    BY <1>1, <1>3
  <2>2. DOMAIN next = 1..level /\ next = [l \in 1..level |-> next[l]] /\ level \in Nat
    BY <1>1
  <2> HIDE DEF next, level
  <2> QED
    BY <2>1, <2>2
<1>5. ASSUME NEW l \in 1..level, next[l] # 0
      PROVE  next[l] \in Under(i + 1) /\ Lines[next[l]].level = l
  <2>1. CASE l = level
    BY <2>1, <1>2
  <2>2. CASE l # level
    <3>1. l \in 1..Len(stack) /\ next[l] = stack[l] /\ l < level
      BY <2>2, <1>1, <1>5
    <3>2. stack[l] \in Under(i) /\ Lines[stack[l]].level = l
      BY <3>1, <1>5 DEF StackInv
    <3> QED
      BY <3>1, <3>2, <1>2
  <2> QED
    BY <2>1, <2>2
<1>6. ASSUME NEW h \in Under(i + 1)
      PROVE  Lines[h].level \in 1..level /\ next[Lines[h].level] = h
  <2>1. CASE h = i + 1
    BY <2>1, <1>1
  <2>2. CASE h # i + 1
    <3>1. h \in Under(i) /\ Lines[h].level < level
      BY <2>2, <1>2
    <3>2. Lines[h].level \in 1..Len(stack) /\ stack[Lines[h].level] = h
      BY <3>1 DEF StackInv
    <3> QED
      BY <3>1, <3>2, <1>1
  <2> QED
    BY <2>1, <2>2
<1> HIDE DEF next
<1>7. StackInv(next, i + 1)
  BY <1>4, <1>5, <1>6 DEF StackInv
<1> QED
  BY <1>7 DEF next

-----------------------------------------------------------------------------
(* Parsing *)

PageRec == [from : Nat \ {0}, to : Nat, path : Seq(Nat), number : Nat]

\* A page has text, crosses no border and is cited for what it is.
PageOK(p) ==
  /\ p.from <= p.to /\ p.to <= Len(Lines) /\ Filled(p.from, p.to) # {}
  /\ Borders \cap (p.from + 1..p.to) = {}
  /\ \A i \in p.from..p.to : p.path = Above(i) /\ p.number = PageOf(i)

Between(i, j) == \E h \in Borders : i < h /\ h <= j
PagesOK(ps) ==
  /\ ps \in Seq(PageRec)
  /\ \A k \in 1..Len(ps) : PageOK(ps[k])
  /\ \A j, k \in 1..Len(ps) : j < k => Between(ps[j].to, ps[k].from)
Covers(ps, i) == \E k \in 1..Len(ps) : ps[k].from <= i /\ i <= ps[k].to

ParserType ==
  /\ at \in 1..Len(Lines) + 1 /\ from \in 1..at
  /\ fence \in Marks /\ headings \in Seq(0..Len(Lines)) /\ number \in Nat
  /\ lost \subseteq 1..Len(Lines)

\* Where the parser stands, between two lines.
ScanOK ==
  /\ fence = OpenBlock[at - 1]
  /\ number = 1 + Cardinality(Breaks \cap (1..at - 1))
  /\ Borders \cap (from + 1..at - 1) = {} /\ Breaks \cap (from..at - 1) = {}
  /\ StackInv(headings, at - 1)
  /\ \A k \in 1..Len(pages) : Between(pages[k].to, from)
  /\ \A i \in Filled(1, from - 1) \ (lost \cup Breaks) : Covers(pages, i)
  /\ units = <<>> /\ current = <<>> /\ chunks = <<>>

ParseInv ==
  /\ InputOK /\ ParserType /\ PagesOK(pages)
  /\ stage \in {"parse", "chunk", "done", "failed"}
  /\ stage = "parse" => ScanOK

\* What is read off the document stays as it is.
LEMMA Fixed ==
  ASSUME input' = input
  PROVE  /\ Lines' = Lines /\ OpenBlock' = OpenBlock
         /\ HeadingLines' = HeadingLines /\ Breaks' = Breaks /\ Borders' = Borders
         /\ \A a, b : Filled(a, b)' = Filled(a, b)
         /\ \A i : Above(i)' = Above(i) /\ PageOf(i)' = PageOf(i) /\ Under(i)' = Under(i)
<1>1. Lines' = Lines
  BY DEF Lines
<1>2. OpenBlock' = OpenBlock
  BY <1>1, Zenon DEF OpenBlock
<1>3. HeadingLines' = HeadingLines /\ Breaks' = Breaks
  BY <1>1, <1>2 DEF HeadingLines, Breaks
<1> QED
  BY <1>1, <1>2, <1>3 DEF Borders, Filled, Above, PageOf, Under

\* Headings and page breaks are lines.
LEMMA BorderTypes ==
  ASSUME InputOK
  PROVE  /\ Len(Lines) \in Nat /\ Borders \in SUBSET (1..Len(Lines))
         /\ HeadingLines \in SUBSET (1..Len(Lines)) /\ Breaks \in SUBSET (1..Len(Lines))
         /\ \A i : IsFiniteSet(Breaks \cap (1..i))
<1>1. Len(Lines) \in Nat
  BY LineType
<1>2. /\ HeadingLines \in SUBSET (1..Len(Lines)) /\ Breaks \in SUBSET (1..Len(Lines))
      /\ Borders \in SUBSET (1..Len(Lines))
  BY DEF HeadingLines, Breaks, Borders
<1>3. 1 \in Int /\ Len(Lines) \in Int
  BY <1>1
<1>4. IsFiniteSet(1..Len(Lines))
  BY <1>3, FS_Interval
<1>5. IsFiniteSet(Breaks)
  BY <1>2, <1>4, FS_Subset
<1>6. \A i : Breaks \cap (1..i) \subseteq Breaks
  OBVIOUS
<1>7. \A i : IsFiniteSet(Breaks \cap (1..i))
  BY <1>5, <1>6, FS_Subset
<1> QED
  BY <1>1, <1>2, <1>7

\* A line is what the parser takes it for.
LEMMA LineKinds ==
  ASSUME InputOK, ParserType, ScanOK, at <= Len(Lines)
  PROVE  /\ IsHeading => at \in HeadingLines /\ at \notin Breaks
         /\ ~IsHeading => at \notin HeadingLines
         /\ IsBreak => at \in Breaks /\ at \notin HeadingLines
         /\ ~IsBreak => at \notin Breaks
         /\ IsFence => at \notin Borders
         /\ ~IsFence => OpenBlock[at] = fence
<1>1. at \in 1..Len(Lines)
  BY LineType DEF ParserType
<1>2. fence = OpenBlock[at - 1]
  BY DEF ScanOK
<1>3. IsBreak <=> at \in Breaks
  BY <1>1 DEF IsBreak, Breaks
<1>4. IsHeading <=> at \in HeadingLines
  <2>1. CASE input.format = "html"
    BY <2>1, <1>1 DEF IsHeading, HeadingLines
  <2>2. CASE input.format = "markdown"
    BY <2>2, <1>1, <1>2 DEF IsHeading, IsFence, HeadingLines
  <2>3. CASE input.format # "html" /\ input.format # "markdown"
    BY <2>3, <1>1 DEF IsHeading, HeadingLines
  <2> QED
    BY <2>1, <2>2, <2>3
<1>5. IsFence => ~IsBreak /\ ~IsHeading
  BY DEF IsFence, IsBreak, IsHeading
<1>6. IsBreak => ~IsHeading
  BY DEF IsBreak, IsHeading
<1>7. ~IsFence => OpenBlock[at] = fence
  BY <1>1, <1>2, BlockSteps DEF IsFence
<1> QED
  BY <1>3, <1>4, <1>5, <1>6, <1>7 DEF Borders

\* A page that is flushed is as it should be.
LEMMA PageFlushed ==
  ASSUME InputOK, ParserType, ScanOK, Filled(from, at - 1) # {}
  PROVE  LET p == [from |-> from, to |-> at - 1, path |-> CurrentPath,
                   number |-> IF input.format = "pdf" THEN number ELSE 0]
         IN p \in PageRec /\ PageOK(p)
<1> DEFINE n == IF input.format = "pdf" THEN number ELSE 0
           p == [from |-> from, to |-> at - 1, path |-> CurrentPath, number |-> n]
<1>1. /\ at \in 1..Len(Lines) + 1 /\ from \in 1..at /\ number \in Nat /\ Len(Lines) \in Nat
      /\ at - 1 \in Nat /\ from \in Nat \ {0}
  BY LineType DEF ParserType
<1>2. from <= at - 1
  <2>1. \E i : i \in from..at - 1
    BY DEF Filled
  <2> QED
    BY <2>1, <1>1
<1>3. ASSUME NEW i \in from..at - 1
      PROVE  CurrentPath = Above(i) /\ CurrentPath \in Seq(Nat)
  <2>1. i \in Nat /\ i <= at - 1
    BY <1>1
  <2>2. \A k \in HeadingLines : k \in Nat /\ k \notin from + 1..at - 1
    BY HeadingType DEF ScanOK, Borders
  <2>3. \A k \in HeadingLines : k <= i <=> k <= at - 1
    BY <2>1, <2>2, <1>1
  <2>4. Under(i) = Under(at - 1)
    BY <2>3 DEF Under
  <2>5. StackInv(headings, i)
    BY <2>4 DEF ScanOK, StackInv
  <2> QED
    BY <2>1, <2>5, PathAbove
<1>4. ASSUME NEW i \in from..at - 1
      PROVE  n = PageOf(i)
  <2>1. CASE input.format = "pdf"
    <3>1. \A b \in Breaks : b \in Nat /\ b \notin from..at - 1
      BY BorderTypes DEF ScanOK
    <3>2. Breaks \cap (1..i - 1) = Breaks \cap (1..at - 1)
      BY <3>1, <1>1
    <3>3. n = 1 + Cardinality(Breaks \cap (1..at - 1))
      BY <2>1 DEF ScanOK
    <3>4. PageOf(i) = 1 + Cardinality(Breaks \cap (1..i - 1))
      BY <2>1 DEF PageOf
    <3> QED
      BY <3>2, <3>3, <3>4
  <2>2. CASE input.format # "pdf"
    BY <2>2 DEF PageOf
  <2> QED
    BY <2>1, <2>2
<1>5. n \in Nat
  BY <1>1
<1>6. CurrentPath \in Seq(Nat)
  BY <1>1, <1>2, <1>3
<1> HIDE DEF n
<1>7. p \in PageRec
  BY <1>1, <1>5, <1>6 DEF PageRec
<1>8. Borders \cap (from + 1..at - 1) = {} /\ at - 1 <= Len(Lines)
  BY <1>1 DEF ScanOK
<1>9. PageOK(p)
  BY <1>2, <1>3, <1>4, <1>8 DEF PageOK
<1> QED
  BY <1>7, <1>9 DEF n

\* Flushing keeps the pages in order and covers what was read.
LEMMA FlushKeeps ==
  ASSUME InputOK, ParserType, ScanOK, PagesOK(pages), Flush
  PROVE  /\ PagesOK(pages')
         /\ \A k \in 1..Len(pages') : pages'[k].to <= at - 1
         /\ \A i \in Filled(1, at - 1) \ (lost \cup Breaks) : Covers(pages', i)
<1> DEFINE p == [from |-> from, to |-> at - 1, path |-> CurrentPath,
                 number |-> IF input.format = "pdf" THEN number ELSE 0]
<1>1. at \in Nat /\ from \in Nat /\ from <= at /\ from >= 1
  BY LineType DEF ParserType
<1>2. \A k \in 1..Len(pages) : /\ pages[k] \in PageRec /\ pages[k].to \in Nat
                               /\ pages[k].to < from /\ Between(pages[k].to, from)
  <2>1. \A k \in 1..Len(pages) : pages[k] \in PageRec
    BY DEF PagesOK
  <2>2. \A q \in PageRec : q.to \in Nat
    BY DEF PageRec
  <2>3. \A h \in Borders : h \in Nat
    BY BorderTypes
  <2> QED
    BY <2>1, <2>2, <2>3, <1>1 DEF ScanOK, Between
<1>3. ASSUME NEW i \in Filled(1, at - 1) \ (lost \cup Breaks)
      PROVE  Covers(pages, i) \/ i \in Filled(from, at - 1)
  <2>1. i \in 1..at - 1 /\ Lines[i].chars > 0
    BY DEF Filled
  <2>2. CASE i < from
    <3>1. i \in Filled(1, from - 1)
      BY <2>1, <2>2, <1>1 DEF Filled
    <3> QED
      BY <3>1 DEF ScanOK
  <2>3. CASE ~(i < from)
    BY <2>1, <2>3, <1>1 DEF Filled
  <2> QED
    BY <2>2, <2>3
<1>4. CASE Filled(from, at - 1) = {}
  <2>1. pages' = pages
    BY <1>4 DEF Flush
  <2> QED
    BY <2>1, <1>1, <1>2, <1>3, <1>4
<1>5. CASE Filled(from, at - 1) # {}
  <2>1. pages' = Append(pages, p)
    BY <1>5 DEF Flush
  <2>2. p \in PageRec /\ PageOK(p)
    BY <1>5, PageFlushed
  <2>3. p.from = from /\ p.to = at - 1
    OBVIOUS
  <2> HIDE DEF p
  <2>4. pages \in Seq(PageRec)
    BY DEF PagesOK
  <2>5. /\ pages' \in Seq(PageRec) /\ Len(pages') = Len(pages) + 1 /\ Len(pages) \in Nat
        /\ pages'[Len(pages) + 1] = p /\ \A k \in 1..Len(pages) : pages'[k] = pages[k]
    BY <2>1, <2>2, <2>4
  <2>6. ASSUME NEW k \in 1..Len(pages')
        PROVE  PageOK(pages'[k]) /\ pages'[k].to <= at - 1
    <3>1. CASE k = Len(pages) + 1
      BY <3>1, <2>2, <2>3, <2>5, <1>1
    <3>2. CASE k \in 1..Len(pages)
      BY <3>2, <2>5, <1>1, <1>2 DEF PagesOK
    <3> QED
      BY <3>1, <3>2, <2>5
  <2>7. ASSUME NEW j \in 1..Len(pages'), NEW k \in 1..Len(pages'), j < k
        PROVE  Between(pages'[j].to, pages'[k].from)
    <3>1. j \in 1..Len(pages) /\ pages'[j] = pages[j]
      BY <2>5, <2>7
    <3>2. CASE k = Len(pages) + 1
      BY <3>1, <3>2, <2>3, <2>5, <1>2
    <3>3. CASE k \in 1..Len(pages)
      BY <3>1, <3>3, <2>5, <2>7 DEF PagesOK
    <3> QED
      BY <3>2, <3>3, <2>5
  <2>8. ASSUME NEW i \in Filled(1, at - 1) \ (lost \cup Breaks)
        PROVE  Covers(pages', i)
    <3>1. CASE Covers(pages, i)
      <4>1. PICK k \in 1..Len(pages) : pages[k].from <= i /\ i <= pages[k].to
        BY <3>1 DEF Covers
      <4>2. k \in 1..Len(pages') /\ pages'[k] = pages[k]
        BY <2>5
      <4> QED
        BY <4>1, <4>2 DEF Covers
    <3>2. CASE i \in Filled(from, at - 1)
      <4>1. p.from <= i /\ i <= p.to
        BY <3>2, <2>3 DEF Filled
      <4>2. Len(pages) + 1 \in 1..Len(pages')
        BY <2>5
      <4> QED
        BY <4>1, <4>2, <2>5 DEF Covers
    <3> QED
      BY <3>1, <3>2, <1>3
  <2> QED
    BY <2>5, <2>6, <2>7, <2>8 DEF PagesOK
<1> QED
  BY <1>4, <1>5

\* What another line must leave behind.
LEMMA ScanKeeps ==
  ASSUME ParserType, input' = input, at' = at + 1, packer' = packer, ScanOK,
         fence' = OpenBlock[at],
         number' = 1 + Cardinality(Breaks \cap (1..at)),
         Borders \cap (from' + 1..at) = {}, Breaks \cap (from'..at) = {},
         StackInv(headings', at),
         \A k \in 1..Len(pages') : Between(pages'[k].to, from'),
         \A i \in Filled(1, from' - 1) \ (lost' \cup Breaks) : Covers(pages', i)
  PROVE  ScanOK'
<1>1. at' - 1 = at
  BY DEF ParserType
<1>2. units' = <<>> /\ current' = <<>> /\ chunks' = <<>>
  BY DEF packer, ScanOK
<1>3. /\ Lines' = Lines /\ OpenBlock' = OpenBlock
      /\ HeadingLines' = HeadingLines /\ Breaks' = Breaks /\ Borders' = Borders
      /\ \A a, b : Filled(a, b)' = Filled(a, b)
      /\ \A i : Above(i)' = Above(i) /\ PageOf(i)' = PageOf(i) /\ Under(i)' = Under(i)
  BY Fixed
<1>4. StackInv(headings, at - 1)'
  BY <1>1, <1>3 DEF StackInv
<1>5. \A k \in 1..Len(pages') : Between(pages[k].to, from)'
  BY <1>3 DEF Between
<1> QED
  BY <1>1, <1>2, <1>3, <1>4, <1>5 DEF ScanOK, Covers

\* The invariants mention the input and the size only as given.
LEMMA PagesOKFixed ==
  ASSUME input' = input, NEW ps, PagesOK(ps), pages' = ps
  PROVE  PagesOK(pages)'
<1>1. /\ Lines' = Lines /\ Borders' = Borders
      /\ \A a, b : Filled(a, b)' = Filled(a, b)
      /\ \A i : Above(i)' = Above(i) /\ PageOf(i)' = PageOf(i)
  BY Fixed
<1> QED
  BY <1>1 DEF PagesOK, PageOK, Between

\* The document and the size stay what they were.
LEMMA GivenFixed ==
  ASSUME InputOK, input' = input, size' = size
  PROVE  InputOK'
  BY DEF InputOK, Lines

\* A line that is read without a border.
LEMMA PlainLine ==
  ASSUME InputOK, ParserType, ScanOK, at <= Len(Lines), at \notin Borders
  PROVE  /\ Cardinality(Breaks \cap (1..at)) = Cardinality(Breaks \cap (1..at - 1))
         /\ Borders \cap (from + 1..at) = {} /\ Breaks \cap (from..at) = {}
         /\ StackInv(headings, at)
<1>1. at \in Nat /\ at - 1 \in Nat /\ from \in Nat /\ from <= at /\ at >= 1
  BY LineType DEF ParserType
<1>2. 1..at = (1..at - 1) \cup {at} /\ (from + 1..at) \subseteq (from + 1..at - 1) \cup {at}
      /\ (from..at) \subseteq (from..at - 1) \cup {at}
  BY <1>1
<1>3. at \notin Breaks /\ at \notin HeadingLines
  BY DEF Borders
<1>4. Breaks \cap (1..at) = Breaks \cap (1..at - 1)
  BY <1>2, <1>3
<1>5. Borders \cap (from + 1..at) = {} /\ Breaks \cap (from..at) = {}
  BY <1>2, <1>3 DEF ScanOK
<1>6. (at - 1) + 1 = at
  BY <1>1
<1>7. StackInv(headings, at)
  BY <1>1, <1>3, <1>6, StackStays DEF ScanOK
<1> QED
  BY <1>4, <1>5, <1>7

\* An empty parse satisfies the invariant.
LEMMA ParseInvInit == Init => ParseInv
<1> SUFFICES ASSUME Init
             PROVE  ParseInv
  OBVIOUS
<1>1. /\ input \in Inputs /\ size \in Sizes
      /\ stage = "parse" /\ at = 1 /\ from = 1 /\ fence = NoFence /\ headings = <<>> /\ number = 1
      /\ lost = {} /\ pages = <<>> /\ units = <<>> /\ current = <<>> /\ chunks = <<>>
  BY DEF Init
<1>2. InputOK
  <2> DEFINE S == Seq(Line)
  <2>1. Inputs \subseteq [format : {"markdown", "html", "pdf", "text"}, lines : S]
    BY ChunkingAssumption
  <2> HIDE DEF S
  <2>2. input.lines \in S
    BY <1>1, <2>1
  <2> QED
    BY <1>1, <2>2, ChunkingAssumption DEF InputOK, Lines, S
<1>3. ParserType
  <2>1. <<>> \in Seq(0..Len(Lines))
    OBVIOUS
  <2> QED
    BY <1>1, <1>2, <2>1, LineType DEF ParserType, Marks
<1>4. PagesOK(pages)
  <2>1. <<>> \in Seq(PageRec) /\ Len(<<>>) = 0
    OBVIOUS
  <2> QED
    BY <1>1, <2>1 DEF PagesOK
<1>5. ScanOK
  <2>1. at - 1 = 0 /\ from - 1 = 0 /\ Len(pages) = 0 /\ 1..0 = {}
    BY <1>1
  <2>2. Cardinality(Breaks \cap (1..0)) = 0
    BY <2>1, FS_EmptySet
  <2>3. Filled(1, 0) = {}
    BY DEF Filled
  <2>4. Under(0) = {}
    BY <1>2, HeadingType DEF Under
  <2>5. StackInv(headings, 0)
    <3>1. Len(headings) = 0 /\ headings \in Seq(0..Len(Lines))
      BY <1>1
    <3> QED
      BY <2>4, <3>1 DEF StackInv
  <2>6. Borders \cap (2..0) = {} /\ Breaks \cap (1..0) = {} /\ from + 1 = 2
    BY <1>1
  <2>7. fence = OpenBlock[0]
    BY <1>1, <1>2, BlockSteps
  <2> QED
    BY <1>1, <2>1, <2>2, <2>3, <2>5, <2>6, <2>7 DEF ScanOK
<1> QED
  BY <1>1, <1>2, <1>3, <1>4, <1>5 DEF ParseInv

\* ParseFence keeps the parsing invariant.
LEMMA ParseFenceKeeps ==
  ASSUME ParseInv, ParseFence
  PROVE  ParseInv'
<1>1. /\ InputOK /\ ParserType /\ PagesOK(pages) /\ ScanOK /\ stage = "parse" /\ at <= Len(Lines)
      /\ IsFence /\ input' = input /\ size' = size /\ stage' = stage /\ pages' = pages
      /\ at' = at + 1 /\ from' = from /\ headings' = headings /\ number' = number /\ lost' = lost
      /\ packer' = packer
      /\ fence' = IF fence = NoFence THEN Lines[at].fence
                  ELSE IF fence = Lines[at].fence THEN NoFence ELSE fence
  BY DEF ParseInv, ParseFence, More, packer
<1>2. at \notin Borders
  BY <1>1, LineKinds
<1>3. at \in 1..Len(Lines) /\ Len(Lines) \in Nat
  BY <1>1, LineType DEF ParserType
<1>4. fence' = OpenBlock[at] /\ fence' \in Marks
  <2>1. fence = OpenBlock[at - 1]
    BY <1>1 DEF ScanOK
  <2>2. input.format = "markdown" /\ Lines[at].fence # NoFence
    BY <1>1 DEF IsFence
  <2>3. OpenBlock[at] = IF OpenBlock[at - 1] = NoFence THEN Lines[at].fence
                        ELSE IF OpenBlock[at - 1] = Lines[at].fence THEN NoFence
                        ELSE OpenBlock[at - 1]
    BY <1>1, <1>3, <2>2, BlockSteps
  <2>4. OpenBlock[at] \in Marks
    BY <1>1, <1>3, BlockSteps
  <2> QED
    BY <1>1, <2>1, <2>3, <2>4
<1>5. ScanOK'
  <2>1. /\ \A k \in 1..Len(pages') : Between(pages'[k].to, from')
        /\ \A i \in Filled(1, from' - 1) \ (lost' \cup Breaks) : Covers(pages', i)
        /\ number = 1 + Cardinality(Breaks \cap (1..at - 1))
    BY <1>1 DEF ScanOK
  <2> QED
    BY <1>1, <1>2, <1>4, <2>1, PlainLine, ScanKeeps
<1>6. ParserType'
  BY <1>1, <1>3, <1>4, Fixed DEF ParserType, Marks
<1> QED
  BY <1>1, <1>5, <1>6, PagesOKFixed, GivenFixed DEF ParseInv

\* ParseLine keeps the parsing invariant.
LEMMA ParseLineKeeps ==
  ASSUME ParseInv, ParseLine
  PROVE  ParseInv'
<1>1. /\ InputOK /\ ParserType /\ PagesOK(pages) /\ ScanOK /\ stage = "parse" /\ at <= Len(Lines)
      /\ ~IsFence /\ ~IsHeading /\ ~IsBreak
      /\ input' = input /\ size' = size /\ stage' = stage /\ pages' = pages
      /\ at' = at + 1 /\ from' = from /\ headings' = headings /\ number' = number /\ lost' = lost
      /\ packer' = packer /\ fence' = fence
  BY DEF ParseInv, ParseLine, More, packer
<1>2. at \notin Borders /\ OpenBlock[at] = fence
  BY <1>1, LineKinds DEF Borders
<1>3. at \in 1..Len(Lines) /\ Len(Lines) \in Nat
  BY <1>1, LineType DEF ParserType
<1>4. ScanOK'
  <2>1. /\ \A k \in 1..Len(pages') : Between(pages'[k].to, from')
        /\ \A i \in Filled(1, from' - 1) \ (lost' \cup Breaks) : Covers(pages', i)
        /\ number = 1 + Cardinality(Breaks \cap (1..at - 1))
    BY <1>1 DEF ScanOK
  <2> QED
    BY <1>1, <1>2, <2>1, PlainLine, ScanKeeps
<1>5. ParserType'
  BY <1>1, <1>3, Fixed DEF ParserType, Marks
<1> QED
  BY <1>1, <1>4, <1>5, PagesOKFixed, GivenFixed DEF ParseInv

\* ParseHeading keeps the parsing invariant.
LEMMA ParseHeadingKeeps ==
  ASSUME ParseInv, ParseHeading
  PROVE  ParseInv'
<1>1. /\ InputOK /\ ParserType /\ PagesOK(pages) /\ ScanOK /\ stage = "parse" /\ at <= Len(Lines)
      /\ IsHeading /\ Flush /\ input' = input /\ size' = size /\ stage' = stage
      /\ at' = at + 1 /\ from' = at /\ headings' = Stacked(Lines[at].level, at)
      /\ number' = number /\ lost' = lost /\ packer' = packer /\ fence' = fence
  BY DEF ParseInv, ParseHeading, More, packer
<1>2. /\ at \in 1..Len(Lines) /\ Len(Lines) \in Nat /\ at - 1 \in Nat /\ (at - 1) + 1 = at
      /\ at \in Nat
  BY <1>1, LineType DEF ParserType
<1>3. at \in HeadingLines /\ at \notin Breaks /\ at \in Borders
  BY <1>1, LineKinds DEF Borders
<1>4. fence = OpenBlock[at]
  <2>1. ~IsFence
    BY <1>1, LineKinds, <1>3
  <2> QED
    BY <2>1, <1>1, LineKinds
<1>5. /\ PagesOK(pages')
      /\ \A k \in 1..Len(pages') : pages'[k].to <= at - 1
      /\ \A i \in Filled(1, at - 1) \ (lost \cup Breaks) : Covers(pages', i)
  BY <1>1, FlushKeeps
<1>6. StackInv(headings', at)
  <2>1. StackInv(headings, at - 1)
    BY <1>1 DEF ScanOK
  <2>2. headings' = [l \in 1..Lines[at].level |->
                       IF l = Lines[at].level THEN at
                       ELSE IF l <= Len(headings) THEN headings[l] ELSE 0]
    BY <1>1 DEF Stacked
  <2> QED
    BY <1>1, <1>2, <1>3, <2>1, <2>2, StackGrows
<1>7. Breaks \cap (1..at) = Breaks \cap (1..at - 1)
  <2>1. 1..at = (1..at - 1) \cup {at}
    BY <1>2
  <2> QED
    BY <2>1, <1>3
<1>8. Borders \cap (from' + 1..at) = {} /\ Breaks \cap (from'..at) = {}
  <2>1. from' + 1..at = {} /\ from'..at = {at}
    BY <1>1, <1>2
  <2> QED
    BY <2>1, <1>3
<1>9. \A k \in 1..Len(pages') : Between(pages'[k].to, from')
  <2>1. ASSUME NEW k \in 1..Len(pages')
        PROVE  pages'[k].to < at
    <3>1. \A q \in PageRec : q.to \in Nat
      BY DEF PageRec
    <3>2. pages'[k] \in PageRec
      BY <1>5 DEF PagesOK
    <3>3. pages'[k].to \in Nat /\ pages'[k].to <= at - 1
      BY <1>5, <3>1, <3>2
    <3> QED
      BY <3>3, <1>2
  <2> QED
    BY <2>1, <1>1, <1>2, <1>3 DEF Between
<1>10. number' = 1 + Cardinality(Breaks \cap (1..at))
  BY <1>1, <1>7 DEF ScanOK
<1>11. \A i \in Filled(1, from' - 1) \ (lost' \cup Breaks) : Covers(pages', i)
  BY <1>1, <1>5
<1>12. ScanOK'
  BY <1>1, <1>4, <1>6, <1>8, <1>9, <1>10, <1>11, ScanKeeps
<1>13. ParserType'
  <2>1. headings' \in Seq(0..Len(Lines))
    BY <1>6 DEF StackInv
  <2> QED
    BY <2>1, <1>1, <1>2, Fixed DEF ParserType, Marks
<1>14. PagesOK(pages)'
  BY <1>1, <1>5, PagesOKFixed
<1> QED
  BY <1>1, <1>12, <1>13, <1>14, GivenFixed DEF ParseInv

\* A page ends at a break, with its text or without.
LEMMA PageEnds ==
  ASSUME InputOK, ParserType, ScanOK, PagesOK(pages), (Flush /\ UNCHANGED lost) \/ PageFails
  PROVE  /\ PagesOK(pages') /\ lost' \subseteq 1..Len(Lines)
         /\ \A k \in 1..Len(pages') : pages'[k].to \in Nat /\ pages'[k].to < at
         /\ \A i \in Filled(1, at - 1) \ (lost' \cup Breaks) : Covers(pages', i)
<1>1. at \in 1..Len(Lines) + 1 /\ from \in 1..at /\ Len(Lines) \in Nat /\ lost \subseteq 1..Len(Lines)
  BY LineType DEF ParserType
<1>2. \A q \in PageRec : q.to \in Nat
  BY DEF PageRec
<1>3. CASE Flush /\ UNCHANGED lost
  <2>1. /\ PagesOK(pages')
        /\ \A k \in 1..Len(pages') : pages'[k].to <= at - 1
        /\ \A i \in Filled(1, at - 1) \ (lost \cup Breaks) : Covers(pages', i)
    BY <1>3, FlushKeeps
  <2>2. \A k \in 1..Len(pages') : pages'[k] \in PageRec
    BY <2>1 DEF PagesOK
  <2> QED
    BY <1>1, <1>2, <1>3, <2>1, <2>2
<1>4. CASE PageFails
  <2>1. pages' = pages /\ lost' = lost \cup (from..at - 1)
    BY <1>4 DEF PageFails
  <2>2. ASSUME NEW k \in 1..Len(pages)
        PROVE  pages[k].to \in Nat /\ pages[k].to < at
    <3>1. pages[k] \in PageRec
      BY DEF PagesOK
    <3>2. \A h \in Borders : h \in Nat
      BY BorderTypes
    <3>3. Between(pages[k].to, from)
      BY DEF ScanOK
    <3> QED
      BY <1>1, <1>2, <3>1, <3>2, <3>3 DEF Between
  <2>3. ASSUME NEW i \in Filled(1, at - 1) \ (lost' \cup Breaks)
        PROVE  Covers(pages, i)
    <3>1. i \in 1..at - 1 /\ Lines[i].chars > 0 /\ i \notin from..at - 1 /\ i \notin lost
      BY <2>1 DEF Filled
    <3>2. i \in Filled(1, from - 1) \ (lost \cup Breaks)
      BY <3>1, <1>1 DEF Filled
    <3> QED
      BY <3>2 DEF ScanOK
  <2> QED
    BY <1>1, <2>1, <2>2, <2>3
<1> QED
  BY <1>3, <1>4

\* ParseBreak keeps the parsing invariant.
LEMMA ParseBreakKeeps ==
  ASSUME ParseInv, ParseBreak
  PROVE  ParseInv'
<1>1. /\ InputOK /\ ParserType /\ PagesOK(pages) /\ ScanOK /\ stage = "parse" /\ at <= Len(Lines)
      /\ IsBreak /\ ((Flush /\ UNCHANGED lost) \/ PageFails)
      /\ input' = input /\ size' = size /\ stage' = stage
      /\ at' = at + 1 /\ from' = at + 1 /\ headings' = headings
      /\ number' = number + 1 /\ packer' = packer /\ fence' = fence
  BY DEF ParseInv, ParseBreak, More, packer
<1>2. /\ at \in 1..Len(Lines) /\ Len(Lines) \in Nat /\ at - 1 \in Nat /\ (at - 1) + 1 = at
      /\ at \in Nat /\ number \in Nat
  BY <1>1, LineType DEF ParserType
<1>3. at \notin HeadingLines /\ at \in Breaks /\ at \in Borders
  BY <1>1, LineKinds DEF Borders
<1>4. fence = OpenBlock[at]
  <2>1. ~IsFence
    BY <1>1, LineKinds, <1>3
  <2> QED
    BY <2>1, <1>1, LineKinds
<1>5. /\ PagesOK(pages') /\ lost' \subseteq 1..Len(Lines)
      /\ \A k \in 1..Len(pages') : pages'[k].to \in Nat /\ pages'[k].to < at
      /\ \A i \in Filled(1, at - 1) \ (lost' \cup Breaks) : Covers(pages', i)
  BY <1>1, PageEnds
<1>6. StackInv(headings', at)
  <2>1. StackInv(headings, at - 1)
    BY <1>1 DEF ScanOK
  <2> QED
    BY <1>1, <1>2, <1>3, <2>1, StackStays
<1>7. number' = 1 + Cardinality(Breaks \cap (1..at))
  <2> DEFINE B == Breaks \cap (1..at - 1)
  <2>1. Breaks \cap (1..at) = B \cup {at} /\ at \notin B
    BY <1>2, <1>3
  <2>2. IsFiniteSet(B)
    BY <1>1, BorderTypes
  <2>3. Cardinality(B \cup {at}) = Cardinality(B) + 1 /\ Cardinality(B) \in Nat
    BY <2>1, <2>2, FS_AddElement, FS_CardinalityType
  <2>4. number = 1 + Cardinality(B)
    BY <1>1 DEF ScanOK
  <2>5. Cardinality(Breaks \cap (1..at)) = Cardinality(B) + 1
    BY <2>1, <2>3
  <2> QED
    BY <2>3, <2>4, <2>5, <1>1
<1>8. Borders \cap (from' + 1..at) = {} /\ Breaks \cap (from'..at) = {}
  <2>1. from' + 1..at = {} /\ from'..at = {}
    BY <1>1, <1>2
  <2> QED
    BY <2>1
<1>9. \A k \in 1..Len(pages') : Between(pages'[k].to, from')
  BY <1>1, <1>2, <1>3, <1>5 DEF Between
<1>10. ASSUME NEW i \in Filled(1, from' - 1) \ (lost' \cup Breaks)
       PROVE  Covers(pages', i)
  <2>1. i \in Filled(1, at - 1)
    <3>1. i \in 1..at /\ i # at /\ Lines[i].chars > 0
      BY <1>1, <1>2, <1>3 DEF Filled
    <3> QED
      BY <3>1, <1>2 DEF Filled
  <2> QED
    BY <2>1, <1>5
<1>11. ScanOK'
  BY <1>1, <1>4, <1>6, <1>7, <1>8, <1>9, <1>10, ScanKeeps
<1>12. ParserType'
  BY <1>1, <1>2, <1>5, Fixed DEF ParserType, Marks
<1>13. PagesOK(pages)'
  BY <1>1, <1>5, PagesOKFixed
<1> QED
  BY <1>1, <1>11, <1>12, <1>13, GivenFixed DEF ParseInv

\* EndOfDocument keeps the parsing invariant.
LEMMA EndOfDocumentKeeps ==
  ASSUME ParseInv, EndOfDocument
  PROVE  ParseInv'
<1>1. /\ InputOK /\ ParserType /\ PagesOK(pages) /\ ScanOK /\ stage = "parse"
      /\ ((Flush /\ UNCHANGED lost) \/ PageFails)
      /\ input' = input /\ size' = size /\ stage' \in {"chunk", "failed"}
      /\ at' = at /\ from' = at /\ headings' = headings /\ number' = number /\ fence' = fence
  BY DEF ParseInv, EndOfDocument
<1>2. PagesOK(pages') /\ lost' \subseteq 1..Len(Lines)
  BY <1>1, PageEnds
<1>3. ParserType'
  BY <1>1, <1>2, Fixed, LineType DEF ParserType, Marks
<1> QED
  BY <1>1, <1>2, <1>3, PagesOKFixed, GivenFixed DEF ParseInv

\* The pages of a chunker are taken one after the other.
LEMMA PagesTail ==
  ASSUME PagesOK(pages), pages # <<>>
  PROVE  /\ PagesOK(Tail(pages)) /\ Page = pages[1] /\ PageOK(Page) /\ Page \in PageRec
         /\ \A k \in 1..Len(Tail(pages)) : Between(Page.to, Tail(pages)[k].from)
<1>1. pages \in Seq(PageRec)
  BY DEF PagesOK
<1>2. /\ Tail(pages) \in Seq(PageRec) /\ Len(Tail(pages)) = Len(pages) - 1 /\ Len(pages) \in Nat \ {0}
      /\ \A k \in 1..Len(Tail(pages)) : Tail(pages)[k] = pages[k + 1]
      /\ Page = pages[1] /\ Page \in PageRec
  BY <1>1 DEF Page
<1>3. \A k \in 1..Len(Tail(pages)) : k + 1 \in 1..Len(pages) /\ 1 < k + 1
  BY <1>2
<1>4. 1 \in 1..Len(pages)
  BY <1>2
<1>5. \A k \in 1..Len(Tail(pages)) : PageOK(Tail(pages)[k]) /\ Between(Page.to, Tail(pages)[k].from)
  BY <1>2, <1>3, <1>4 DEF PagesOK
<1>6. ASSUME NEW j \in 1..Len(Tail(pages)), NEW k \in 1..Len(Tail(pages)), j < k
      PROVE  Between(Tail(pages)[j].to, Tail(pages)[k].from)
  <2>1. j + 1 < k + 1
    BY <1>6, <1>2
  <2> QED
    BY <2>1, <1>2, <1>3 DEF PagesOK
<1> QED
  BY <1>2, <1>4, <1>5, <1>6 DEF PagesOK

\* Everything but parsing leaves the parser alone.
LEMMA ChunkingKeeps ==
  ASSUME ParseInv, input' = input, size' = size, parser' = parser,
         stage' \in {"chunk", "done", "failed"},
         pages' = pages \/ (pages # <<>> /\ pages' = Tail(pages))
  PROVE  ParseInv'
<1>1. InputOK /\ ParserType /\ PagesOK(pages)
  BY DEF ParseInv
<1>2. PagesOK(pages')
  BY <1>1, PagesTail
<1>3. ParserType'
  BY <1>1, Fixed DEF ParserType, parser, Marks
<1> QED
  BY <1>1, <1>2, <1>3, PagesOKFixed, GivenFixed DEF ParseInv

\* ParserError keeps the parsing invariant.
LEMMA ParserErrorKeeps ==
  ASSUME ParseInv, ParserError
  PROVE  ParseInv'
<1>1. /\ input' = input /\ size' = size /\ parser' = parser /\ stage' = "failed" /\ pages' = pages
  BY DEF ParserError
<1> QED
  BY <1>1, ChunkingKeeps

-----------------------------------------------------------------------------
(* Packing *)

ChunkRec == [pieces : Seq(Piece) \ {<<>>}, path : Seq(Nat), number : Nat]

Within(ps, a, b) == \A n \in 1..Len(ps) : a <= ps[n].from /\ ps[n].to <= b
Light(ps) ==
  \/ WeightOf(ps) <= size.max
  \/ WeightOf(Front(ps)) <= size.overlap /\ Tokens(Chars(Last(ps))) <= size.max

\* A chunk is of a size, and cited for what it is.
ChunkOK(c) ==
  /\ c \in ChunkRec /\ Light(c.pieces)
  /\ \A n \in 1..Len(c.pieces) : \A i \in c.pieces[n].from..c.pieces[n].to :
       c.path = Above(i) /\ c.number = PageOf(i)
ChunksOK(cs) == cs \in Seq(ChunkRec) /\ \A k \in 1..Len(cs) : ChunkOK(cs[k])

\* The first line that is not yet packed.
FrontierOf(us, cur, ps) ==
  IF us # <<>> THEN us[1].from
  ELSE IF cur # <<>> THEN ps[1].to + 1
  ELSE IF ps # <<>> THEN ps[1].from ELSE Len(Lines) + 1

\* The units to come are those of a part of the page; the next chunk ends before them.
UnitsOK(us, p) ==
  us \in Seq(Piece) /\ (\A k \in 1..Len(us) : IsUnit(us[k], p.from, p.to)) /\ Consecutive(us, p.to)
CurrentOK(cur, p, f) ==
  /\ cur \in Seq(Piece) /\ Within(cur, p.from, p.to) /\ Light(cur)
  /\ IsUnit(Last(cur), p.from, p.to) /\ Last(cur).to < f
PackOK(us, cur, ps, st) ==
  /\ us # <<>> => UnitsOK(us, ps[1])
  /\ cur # <<>> => CurrentOK(cur, ps[1], FrontierOf(us, cur, ps))
  /\ us # <<>> \/ cur # <<>> => st = "chunk" /\ ps # <<>>
  /\ st = "chunk" /\ ps # <<>> => ValidSize
  /\ st = "done" => ps = <<>>

PackInv == PackOK(units, current, pages, stage) /\ ChunksOK(chunks)

\* The invariant, in a state with the same input and size.
LEMMA GivenPack ==
  ASSUME input' = input, size' = size, PackOK(units', current', pages', stage'), ChunksOK(chunks')
  PROVE  PackInv'
<1>1. /\ Lines' = Lines /\ \A i : Above(i)' = Above(i) /\ PageOf(i)' = PageOf(i)
      /\ \A a, b : Filled(a, b)' = Filled(a, b)
  BY Fixed
<1>2. \A a, b : Paragraphs(a, b)' = Paragraphs(a, b)
  BY <1>1 DEF Paragraphs
<1>3. \A a, b : TextChars(a, b)' = TextChars(a, b)
  BY <1>1, <1>2 DEF TextChars
<1>4. \A a, b : Unit(a, b)' = Unit(a, b)
  BY <1>3 DEF Unit
<1>5. \A u, a, b : IsUnit(u, a, b)' = IsUnit(u, a, b)
  BY <1>1, <1>4 DEF IsUnit
<1>6. \A s : Light(s)' = Light(s)
  BY DEF Light
<1>7. \A c : ChunkOK(c)' = ChunkOK(c)
  BY <1>1, <1>6 DEF ChunkOK
<1>8. ChunksOK(chunks)'
  BY <1>7 DEF ChunksOK
<1>9. ValidSize' = ValidSize
  BY DEF ValidSize
<1>10. FrontierOf(units, current, pages)' = FrontierOf(units', current', pages')
  BY <1>1 DEF FrontierOf
<1>11. PackOK(units, current, pages, stage)'
  BY <1>5, <1>6, <1>9, <1>10 DEF PackOK, UnitsOK, CurrentOK
<1> QED
  BY <1>8, <1>11 DEF PackInv

\* Pieces of one page that keep the ceiling make a sound chunk.
LEMMA ChunkOfPage ==
  ASSUME NEW p \in PageRec, PageOK(p), NEW s \in Seq(Piece) \ {<<>>}, Within(s, p.from, p.to), Light(s)
  PROVE  ChunkOK([pieces |-> s, path |-> p.path, number |-> p.number])
<1> DEFINE c == [pieces |-> s, path |-> p.path, number |-> p.number]
<1>1. c \in ChunkRec /\ c.pieces = s /\ c.path = p.path /\ c.number = p.number
  <2>1. \A q \in PageRec : q.path \in Seq(Nat) /\ q.number \in Nat
    BY DEF PageRec
  <2> DEFINE P == Seq(Piece) \ {<<>>}
             T == Seq(Nat)
  <2>2. p.path \in T /\ p.number \in Nat /\ s \in P
    BY <2>1
  <2> HIDE DEF P, T
  <2>3. c \in [pieces : P, path : T, number : Nat]
    BY <2>2
  <2> QED
    BY <2>3 DEF ChunkRec, P, T
<1>2. ASSUME NEW n \in 1..Len(s), NEW i \in s[n].from..s[n].to
      PROVE  p.path = Above(i) /\ p.number = PageOf(i)
  <2>1. s[n] \in Piece
    OBVIOUS
  <2>2. s[n].from \in Nat /\ s[n].to \in Nat
    BY <2>1 DEF Piece
  <2>3. \A q \in PageRec : q.from \in Nat /\ q.to \in Nat
    BY DEF PageRec
  <2>4. i \in p.from..p.to
    BY <2>2, <2>3 DEF Within
  <2> QED
    BY <2>4 DEF PageOK
<1> HIDE DEF c
<1> QED
  BY <1>1, <1>2 DEF ChunkOK, c

\* Sound chunks behind sound chunks are sound.
LEMMA ChunksConcat ==
  ASSUME NEW s, NEW t, ChunksOK(s), ChunksOK(t)
  PROVE  ChunksOK(s \o t)
<1>1. s \in Seq(ChunkRec) /\ t \in Seq(ChunkRec)
  BY DEF ChunksOK
<1> DEFINE C == ChunkRec
           r == s \o t
<1> HIDE DEF C
<1>2. r \in Seq(C) /\ Len(r) = Len(s) + Len(t) /\ Len(s) \in Nat /\ Len(t) \in Nat
  BY <1>1 DEF C
<1>3. ASSUME NEW k \in 1..Len(r)
      PROVE  ChunkOK(r[k])
  <2>1. CASE k <= Len(s)
    <3>1. k \in 1..Len(s) /\ r[k] = s[k]
      BY <2>1, <1>1, <1>2 DEF C
    <3> QED
      BY <3>1 DEF ChunksOK
  <2>2. CASE k > Len(s)
    <3>1. k - Len(s) \in 1..Len(t) /\ r[k] = t[k - Len(s)]
      BY <2>2, <1>1, <1>2 DEF C
    <3> QED
      BY <3>1 DEF ChunksOK
  <2> QED
    BY <2>1, <2>2, <1>2
<1> QED
  BY <1>2, <1>3 DEF ChunksOK, C

\* A sound chunk behind sound chunks is sound.
LEMMA ChunksAppend ==
  ASSUME NEW s, NEW c, ChunksOK(s), ChunkOK(c)
  PROVE  ChunksOK(Append(s, c))
<1>1. s \in Seq(ChunkRec) /\ c \in ChunkRec
  BY DEF ChunksOK, ChunkOK
<1> DEFINE C == ChunkRec
           r == Append(s, c)
<1> HIDE DEF C
<1>2. r \in Seq(C) /\ Len(r) = Len(s) + 1 /\ Len(s) \in Nat
  BY <1>1 DEF C
<1>3. ASSUME NEW k \in 1..Len(r)
      PROVE  ChunkOK(r[k])
  <2>1. CASE k <= Len(s)
    <3>1. k \in 1..Len(s) /\ r[k] = s[k]
      BY <2>1, <1>1, <1>2 DEF C
    <3> QED
      BY <3>1 DEF ChunksOK
  <2>2. CASE k = Len(s) + 1
    <3>1. r[k] = c
      BY <2>2, <1>1, <1>2 DEF C
    <3> QED
      BY <3>1
  <2> QED
    BY <2>1, <2>2, <1>2
<1> QED
  BY <1>2, <1>3 DEF ChunksOK, C

\* The page in work: where it lies, and what of it is packed.
LEMMA PageFacts ==
  ASSUME ParseInv, PackInv, stage = "chunk", pages # <<>>
  PROVE  /\ InputOK /\ Len(Lines) \in Nat /\ size.max \in Nat \ {0} /\ size.overlap \in Nat
         /\ Page = pages[1] /\ Page \in PageRec /\ PageOK(Page) /\ PagesOK(pages)
         /\ Page.from \in Nat \ {0} /\ Page.to \in Nat
         /\ Page.from <= Page.to /\ Page.to <= Len(Lines) /\ Filled(Page.from, Page.to) # {}
<1>1. InputOK /\ PagesOK(pages) /\ ValidSize
  BY DEF ParseInv, PackInv, PackOK
<1>2. Page = pages[1] /\ PageOK(Page) /\ Page \in PageRec
  BY <1>1, PagesTail
<1>3. \A q \in PageRec : q.from \in Nat \ {0} /\ q.to \in Nat
  BY DEF PageRec
<1>4. size.max \in Nat \ {0} /\ size.overlap \in Nat
  BY <1>1 DEF InputOK, ValidSize
<1> QED
  BY <1>1, <1>2, <1>3, <1>4, LineType DEF PageOK

\* The units are taken one after the other.
LEMMA UnitsTail ==
  ASSUME NEW us, NEW p, UnitsOK(us, p), us # <<>>, p.to \in Nat
  PROVE  /\ UnitsOK(Tail(us), p) /\ Head(us) = us[1] /\ IsUnit(us[1], p.from, p.to)
         /\ us[1] \in Piece /\ us[1].to <= p.to
         /\ Tail(us) # <<>> => Tail(us)[1] \in Piece /\ us[1].to < Tail(us)[1].from
<1> DEFINE t == Tail(us)
           n == Len(t)
           P == Piece
<1>1. us \in Seq(P)
  BY DEF UnitsOK
<1> HIDE DEF P
<1>2. t \in Seq(P) /\ n = Len(us) - 1 /\ Len(us) \in Nat \ {0} /\ Head(us) = us[1]
  BY <1>1
<1>3. \A k \in 1..n : t[k] = us[k + 1]
  BY <1>1, <1>2
<1>4. n \in Nat /\ Len(us) = n + 1 /\ (t # <<>> => n > 0) /\ \A k \in 1..n : t[k] \in P
  BY <1>2
<1> HIDE DEF t, n
<1>5. \A k \in 1..n : k + 1 \in 1..n + 1 /\ 1 < k + 1
  BY <1>4
<1>6. 1 \in 1..n + 1
  BY <1>4
<1>7. /\ \A k \in 1..n + 1 : us[k].to = IF k = n + 1 THEN p.to ELSE us[k + 1].from - 1
      /\ \A j, k \in 1..n + 1 : j < k => us[j].to < us[k].from
      /\ \A k \in 1..n + 1 : IsUnit(us[k], p.from, p.to)
  BY <1>4 DEF UnitsOK, Consecutive
<1>8. \A k \in 1..n : IsUnit(t[k], p.from, p.to)
  BY <1>3, <1>5, <1>7
<1>9. ASSUME NEW j \in 1..n, NEW k \in 1..n, j < k
      PROVE  t[j].to < t[k].from
  <2>1. j + 1 < k + 1
    BY <1>9, <1>4
  <2> QED
    BY <2>1, <1>3, <1>5, <1>7
<1>10. ASSUME NEW k \in 1..n
       PROVE  t[k].to = IF k = n THEN p.to ELSE t[k + 1].from - 1
  <2>1. us[k + 1].to = IF k + 1 = n + 1 THEN p.to ELSE us[(k + 1) + 1].from - 1
    BY <1>5, <1>7
  <2>2. CASE k = n
    BY <2>1, <2>2, <1>3
  <2>3. CASE k # n
    <3>1. k + 1 \in 1..n /\ k + 1 # n + 1
      BY <2>3, <1>4
    <3>2. t[k] = us[k + 1] /\ t[k + 1] = us[(k + 1) + 1]
      BY <3>1, <1>3
    <3> QED
      BY <3>1, <3>2, <2>1, <2>3
  <2> QED
    BY <2>2, <2>3
<1>11. UnitsOK(t, p)
  <2>1. Len(t) = n /\ t \in Seq(Piece)
    BY <1>2 DEF P, n
  <2> QED
    BY <2>1, <1>8, <1>9, <1>10 DEF UnitsOK, Consecutive
<1>12. us[1] \in Piece /\ us[1].to <= p.to /\ IsUnit(us[1], p.from, p.to)
  BY <1>6, <1>7 DEF IsUnit
<1>13. ASSUME t # <<>>
       PROVE  t[1] \in Piece /\ us[1].to < t[1].from
  <2>1. 1 \in 1..n /\ 2 \in 1..n + 1
    BY <1>4, <1>13
  <2>2. t[1] = us[1 + 1]
    BY <2>1, <1>3
  <2>3. us[1].to < us[1 + 1].from
    BY <2>1, <1>6, <1>7
  <2>4. t[1] \in Piece
    BY <2>1, <1>4 DEF P
  <2> QED
    BY <2>2, <2>3, <2>4
<1> QED
  BY <1>2, <1>11, <1>12, <1>13 DEF t

\* A unit ends before what comes after it.
LEMMA UnitBefore ==
  ASSUME NEW us, NEW cur, cur # <<>>, NEW ps, UnitsOK(us, ps[1]), us # <<>>, ps[1].to \in Nat
  PROVE  us[1].to < FrontierOf(Tail(us), cur, ps)
<1>1. us[1] \in Piece /\ us[1].to <= ps[1].to
      /\ (Tail(us) # <<>> => us[1].to < Tail(us)[1].from)
  BY UnitsTail
<1>2. us[1].to \in Nat
  BY <1>1 DEF Piece
<1> QED
  BY <1>1, <1>2 DEF FrontierOf

\* A list of pieces with one more behind it.
LEMMA AppendFacts ==
  ASSUME NEW s \in Seq(Piece), NEW u \in Piece
  PROVE  LET r == Append(s, u)
         IN /\ r \in Seq(Piece) \ {<<>>} /\ Len(r) = Len(s) + 1 /\ Len(s) \in Nat
            /\ Front(r) = s /\ Last(r) = u
            /\ \A k \in 1..Len(s) : r[k] = s[k] /\ r[k] \in Piece
            /\ r[Len(s) + 1] = u
<1> DEFINE r == Append(s, u)
           P == Piece
<1> HIDE DEF P
<1>1. /\ s \in Seq(P) /\ u \in P
  BY DEF P
<1>2. /\ r \in Seq(P) /\ Len(r) = Len(s) + 1 /\ Len(s) \in Nat
      /\ \A k \in 1..Len(s) : r[k] = s[k] /\ r[k] \in P
      /\ r[Len(s) + 1] = u
  BY <1>1
<1>3. r # <<>>
  BY <1>2
<1>4. Last(r) = u
  BY <1>2 DEF Last
<1>5. Front(r) = s
  <2>1. Len(r) - 1 = Len(s)
    BY <1>2
  <2>2. Front(r) = [k \in 1..Len(s) |-> r[k]]
    BY <2>1, <1>2 DEF Front
  <2>3. s = [k \in 1..Len(s) |-> s[k]]
    BY <1>1
  <2> QED
    BY <2>2, <2>3, <1>2
<1> QED
  BY <1>2, <1>3, <1>4, <1>5 DEF P

\* The next chunk, with the next unit.
LEMMA CurrentGrows ==
  ASSUME InputOK, size.max > 0, NEW us, NEW ps, NEW s \in Seq(Piece), UnitsOK(us, ps[1]), us # <<>>,
         ps[1].to \in Nat, Within(s, ps[1].from, ps[1].to), Tokens(Chars(us[1])) <= size.max,
         s = <<>> \/ WeightOf(s) + Tokens(Chars(us[1])) <= size.max \/ WeightOf(s) <= size.overlap
  PROVE  CurrentOK(Append(s, us[1]), ps[1], FrontierOf(Tail(us), Append(s, us[1]), ps))
<1> DEFINE u == us[1]
           r == Append(s, u)
<1>1. IsUnit(u, ps[1].from, ps[1].to) /\ u \in Piece
  BY UnitsTail
<1>2. /\ r \in Seq(Piece) \ {<<>>} /\ Len(r) = Len(s) + 1 /\ Len(s) \in Nat
      /\ Front(r) = s /\ Last(r) = u
      /\ \A k \in 1..Len(s) : r[k] = s[k] /\ r[k] \in Piece
      /\ r[Len(s) + 1] = u
  BY <1>1, AppendFacts
<1>3. Within(r, ps[1].from, ps[1].to)
  <2>1. ASSUME NEW n \in 1..Len(r)
        PROVE  ps[1].from <= r[n].from /\ r[n].to <= ps[1].to
    <3>1. CASE n = Len(s) + 1
      BY <3>1, <1>1, <1>2 DEF IsUnit
    <3>2. CASE n \in 1..Len(s)
      BY <3>2, <1>2 DEF Within
    <3> QED
      BY <3>1, <3>2, <1>2
  <2> QED
    BY <2>1 DEF Within
<1>4. WeightOf(r) = WeightOf(s) + Tokens(Chars(u))
  BY <1>1, WeightAppend
<1>5. Light(r)
  <2>1. CASE s = <<>>
    <3>1. WeightOf(s) = 0 /\ Tokens(Chars(u)) \in Nat
      BY <2>1, <1>1, WeightEmpty, TokensOfPiece
    <3> QED
      BY <3>1, <1>4 DEF Light
  <2>2. CASE WeightOf(s) + Tokens(Chars(u)) <= size.max
    BY <2>2, <1>4 DEF Light
  <2>3. CASE WeightOf(s) <= size.overlap
    BY <2>3, <1>2 DEF Light
  <2> QED
    BY <2>1, <2>2, <2>3
<1>6. u.to < FrontierOf(Tail(us), r, ps)
  BY <1>2, UnitBefore
<1> QED
  BY <1>1, <1>2, <1>3, <1>5, <1>6 DEF CurrentOK

\* Emitting pieces of the page in work keeps the chunks sound.
LEMMA EmitKeeps ==
  ASSUME ParseInv, PackInv, stage = "chunk", pages # <<>>,
         NEW s \in Seq(Piece) \ {<<>>}, Within(s, Page.from, Page.to), Light(s)
  PROVE  ChunksOK(Emit(s))
<1>1. Page \in PageRec /\ PageOK(Page) /\ ChunksOK(chunks)
  BY PageFacts DEF PackInv
<1>2. ChunkOK([pieces |-> s, path |-> Page.path, number |-> Page.number])
  BY <1>1, ChunkOfPage
<1> QED
  BY <1>1, <1>2, ChunksAppend DEF Emit

\* One piece that fits is light.
LEMMA OneIsLight ==
  ASSUME NEW p \in Piece, Tokens(Chars(p)) <= size.max
  PROVE  <<p>> \in Seq(Piece) \ {<<>>} /\ Light(<<p>>)
<1>1. WeightOf(<<p>>) <= size.max
  BY WeightOne
<1>2. <<p>> \in Seq(Piece) /\ <<p>> # <<>>
  OBVIOUS
<1> QED
  BY <1>1, <1>2 DEF Light

\* Opening a page keeps the packing invariant.
LEMMA OpenPagePacks ==
  ASSUME ParseInv, PackInv, OpenPage
  PROVE  PackInv' /\ UnitsOK(units', pages[1]) /\ units' # <<>>
<1>1. /\ stage = "chunk" /\ pages # <<>> /\ current = <<>>
      /\ input' = input /\ size' = size /\ stage' = stage /\ pages' = pages
      /\ current' = current /\ chunks' = chunks
      /\ units' = UnitsOf(Page)
  BY DEF OpenPage
<1>2. /\ InputOK /\ Page = pages[1] /\ Page.from \in Nat \ {0} /\ Page.to \in Nat
      /\ Page.from <= Page.to /\ Page.to <= Len(Lines) /\ Filled(Page.from, Page.to) # {}
  BY <1>1, PageFacts
<1>3. units' \in Seq(Piece) /\ units' # <<>>
      /\ (\A k \in 1..Len(units') : IsUnit(units'[k], Page.from, Page.to))
      /\ Consecutive(units', Page.to)
  BY <1>1, <1>2, PageUnits
<1>4. UnitsOK(units', pages[1])
  BY <1>2, <1>3 DEF UnitsOK
<1>5. ValidSize /\ ChunksOK(chunks)
  BY <1>1 DEF PackInv, PackOK
<1>6. PackOK(units', current', pages', stage')
  BY <1>1, <1>3, <1>4, <1>5 DEF PackOK
<1> QED
  BY <1>1, <1>3, <1>4, <1>5, <1>6, GivenPack

\* A closed page leaves nothing in work.
LEMMA ClosedPacks ==
  ASSUME ParseInv, PackInv, stage = "chunk", pages # <<>>, input' = input, size' = size,
         stage' = stage, pages' = Tail(pages), units' = <<>>, current' = <<>>, ChunksOK(chunks')
  PROVE  PackInv'
<1>1. ValidSize
  BY DEF PackInv, PackOK
<1>2. PackOK(units', current', pages', stage')
  BY <1>1 DEF PackOK
<1> QED
  BY <1>2, GivenPack

\* ChunkWhole keeps the packing invariant.
LEMMA ChunkWholePacks ==
  ASSUME ParseInv, PackInv, ChunkWhole
  PROVE  PackInv'
<1>1. /\ stage = "chunk" /\ pages # <<>> /\ current = <<>> /\ units = <<>>
      /\ input' = input /\ size' = size /\ stage' = stage /\ pages' = Tail(pages)
      /\ current' = current /\ units' = units
      /\ Tokens(TextChars(Page.from, Page.to)) <= size.max
      /\ chunks' = Emit(<<Unit(Page.from, Page.to)>>)
  BY DEF ChunkWhole
<1>2. /\ InputOK /\ Page.from \in Nat \ {0} /\ Page.to \in Nat
      /\ Page.from <= Page.to /\ Page.to <= Len(Lines) /\ Filled(Page.from, Page.to) # {}
  BY <1>1, PageFacts
<1> DEFINE u == Unit(Page.from, Page.to)
<1>3. u \in Piece
  BY <1>2, UnitOfLines
<1>4. Chars(u) = TextChars(Page.from, Page.to) /\ u.from = Page.from /\ u.to = Page.to
  BY <1>2, TextNat DEF Unit, Chars
<1> HIDE DEF u
<1>5. <<u>> \in Seq(Piece) \ {<<>>} /\ Light(<<u>>)
  BY <1>1, <1>3, <1>4, OneIsLight
<1>6. Within(<<u>>, Page.from, Page.to)
  BY <1>2, <1>4 DEF Within
<1>7. ChunksOK(chunks')
  BY <1>1, <1>5, <1>6, EmitKeeps DEF u
<1> QED
  BY <1>1, <1>7, ClosedPacks

\* ClosePage keeps the packing invariant.
LEMMA ClosePagePacks ==
  ASSUME ParseInv, PackInv, ClosePage
  PROVE  PackInv' /\ pages # <<>>
<1>1. /\ stage = "chunk" /\ current # <<>> /\ units = <<>>
      /\ input' = input /\ size' = size /\ stage' = stage /\ pages' = Tail(pages)
      /\ current' = <<>> /\ units' = units /\ chunks' = Emit(current)
  BY DEF ClosePage
<1>2. pages # <<>> /\ CurrentOK(current, pages[1], FrontierOf(units, current, pages))
  BY <1>1 DEF PackInv, PackOK
<1>3. Page = pages[1]
  BY <1>1, <1>2, PageFacts
<1>4. current \in Seq(Piece) \ {<<>>} /\ Within(current, Page.from, Page.to) /\ Light(current)
  BY <1>1, <1>2, <1>3 DEF CurrentOK
<1>5. ChunksOK(chunks')
  BY <1>1, <1>2, <1>4, EmitKeeps
<1> QED
  BY <1>1, <1>2, <1>5, ClosedPacks

\* PackMore keeps the packing invariant.
LEMMA PackMorePacks ==
  ASSUME ParseInv, PackInv, PackMore
  PROVE  PackInv'
<1>1. /\ units # <<>> /\ Tokens(Chars(Head(units))) <= size.max /\ Fits(Head(units))
      /\ input' = input /\ size' = size /\ stage' = stage /\ pages' = pages /\ chunks' = chunks
      /\ current' = Append(current, Head(units)) /\ units' = Tail(units)
  BY DEF PackMore
<1>2. /\ stage = "chunk" /\ pages # <<>> /\ UnitsOK(units, pages[1]) /\ ValidSize /\ ChunksOK(chunks)
      /\ (current # <<>> => CurrentOK(current, pages[1], FrontierOf(units, current, pages)))
  BY <1>1 DEF PackInv, PackOK
<1>3. InputOK /\ size.max > 0 /\ Page = pages[1] /\ pages[1].to \in Nat
  BY <1>2, PageFacts
<1>4. current \in Seq(Piece) /\ Within(current, pages[1].from, pages[1].to)
  <2>1. CASE current = <<>>
    BY <2>1 DEF Within
  <2>2. CASE current # <<>>
    BY <2>2, <1>2 DEF CurrentOK
  <2> QED
    BY <2>1, <2>2
<1>5. /\ UnitsOK(Tail(units), pages[1]) /\ Head(units) = units[1] /\ units[1] \in Piece
  BY <1>1, <1>2, <1>3, UnitsTail
<1>6. current = <<>> \/ WeightOf(current) + Tokens(Chars(units[1])) <= size.max
  BY <1>1, <1>5 DEF Fits
<1>7. CurrentOK(current', pages[1], FrontierOf(units', current', pages))
  BY <1>1, <1>2, <1>3, <1>4, <1>5, <1>6, CurrentGrows
<1>8. current' # <<>>
  BY <1>1, <1>4, <1>5, AppendFacts
<1>9. PackOK(units', current', pages', stage')
  BY <1>1, <1>2, <1>5, <1>7, <1>8 DEF PackOK
<1> QED
  BY <1>1, <1>2, <1>9, GivenPack

\* What a tail repeats is on the page.
LEMMA TailWithin ==
  ASSUME NEW s \in Seq(Piece), NEW t, IsTail(t, s), NEW a, NEW b, Within(s, a, b)
  PROVE  t \in Seq(Piece) /\ Within(t, a, b)
<1>1. ASSUME NEW n \in 1..Len(t)
      PROVE  a <= t[n].from /\ t[n].to <= b
  <2>1. Len(t) \in Nat /\ Len(s) \in Nat /\ Len(t) <= Len(s)
    BY DEF IsTail
  <2>2. Len(s) - Len(t) + n \in 1..Len(s)
    BY <2>1
  <2> QED
    BY <2>2 DEF IsTail, Within
<1> QED
  BY <1>1 DEF IsTail, Within

\* PackSeam keeps the packing invariant.
LEMMA PackSeamPacks ==
  ASSUME ParseInv, PackInv, PackSeam
  PROVE  PackInv'
<1>1. /\ units # <<>> /\ Tokens(Chars(Head(units))) <= size.max /\ current # <<>>
      /\ input' = input /\ size' = size /\ stage' = stage /\ pages' = pages
      /\ chunks' = Emit(current) /\ units' = Tail(units)
  BY DEF PackSeam, Fits
<1>2. PICK carry \in TailsForOverlap(current) : current' = Append(carry, Head(units))
  BY DEF PackSeam
<1>3. /\ stage = "chunk" /\ pages # <<>> /\ UnitsOK(units, pages[1]) /\ ValidSize
      /\ CurrentOK(current, pages[1], FrontierOf(units, current, pages))
  BY <1>1 DEF PackInv, PackOK
<1>4. InputOK /\ size.max > 0 /\ Page = pages[1] /\ pages[1].to \in Nat
  BY <1>3, PageFacts
<1>5. current \in Seq(Piece) \ {<<>>} /\ Within(current, Page.from, Page.to) /\ Light(current)
  BY <1>1, <1>3, <1>4 DEF CurrentOK
<1>6. ChunksOK(chunks')
  BY <1>1, <1>3, <1>5, EmitKeeps
<1>7. IsTail(carry, current) /\ WeightOf(carry) <= size.overlap
  BY <1>4, <1>5, Tails
<1>8. carry \in Seq(Piece) /\ Within(carry, pages[1].from, pages[1].to)
  BY <1>4, <1>5, <1>7, TailWithin
<1>9. UnitsOK(Tail(units), pages[1]) /\ Head(units) = units[1] /\ units[1] \in Piece
  BY <1>1, <1>3, <1>4, UnitsTail
<1>10. CurrentOK(current', pages[1], FrontierOf(units', current', pages))
  BY <1>1, <1>2, <1>3, <1>4, <1>7, <1>8, <1>9, CurrentGrows
<1>11. current' # <<>>
  BY <1>2, <1>8, <1>9, AppendFacts
<1>12. PackOK(units', current', pages', stage')
  BY <1>1, <1>3, <1>9, <1>10, <1>11 DEF PackOK
<1> QED
  BY <1>1, <1>6, <1>12, GivenPack

\* The pieces of an oversized unit, each a chunk of its own.
Own(u) ==
  [k \in 1..Len(HardSplit(u)) |-> [pieces |-> <<HardSplit(u)[k]>>, path |-> Page.path,
                                   number |-> Page.number]]

\* The chunks an oversized unit is cut into are sound.
LEMMA OwnChunks ==
  ASSUME ParseInv, PackInv, stage = "chunk", pages # <<>>, NEW u, IsUnit(u, Page.from, Page.to),
         Tokens(Chars(u)) > size.max
  PROVE  ChunksOK(Own(u)) /\ Len(Own(u)) = Len(HardSplit(u)) /\ Own(u) # <<>>
<1> DEFINE ps == HardSplit(u)
           own == Own(u)
<1>1. /\ InputOK /\ size.max > 0 /\ Page \in PageRec /\ PageOK(Page)
  BY PageFacts
<1>2. /\ ps \in Seq(Piece) /\ ps # <<>>
      /\ \A k \in 1..Len(ps) : ps[k].from = u.from /\ ps[k].to = u.to /\ Tokens(Chars(ps[k])) <= size.max
  BY <1>1, HardSplitPieces
<1>3. own = [k \in 1..Len(ps) |-> [pieces |-> <<ps[k]>>, path |-> Page.path, number |-> Page.number]]
  BY DEF Own
<1> HIDE DEF ps, own
<1>4. ASSUME NEW k \in 1..Len(ps)
      PROVE  ChunkOK(own[k])
  <2> DEFINE p == ps[k]
  <2>1. p \in Piece
    BY <1>2
  <2>2. p.from = u.from /\ p.to = u.to /\ Tokens(Chars(p)) <= size.max
    BY <1>2
  <2>3. own[k] = [pieces |-> <<p>>, path |-> Page.path, number |-> Page.number]
    BY <1>3
  <2> HIDE DEF p
  <2>4. <<p>> \in Seq(Piece) \ {<<>>} /\ Light(<<p>>)
    BY <2>1, <2>2, OneIsLight
  <2>5. Within(<<p>>, Page.from, Page.to)
    BY <2>2 DEF Within, IsUnit
  <2> QED
    BY <1>1, <2>3, <2>4, <2>5, ChunkOfPage
<1>5. Len(ps) \in Nat \ {0}
  BY <1>2
<1>6. \A k \in 1..Len(ps) : own[k] \in ChunkRec
  BY <1>4 DEF ChunkOK
<1>7. own \in Seq(ChunkRec) /\ Len(own) = Len(ps)
  <2> DEFINE C == ChunkRec
             n == Len(ps)
  <2>1. DOMAIN own = 1..n /\ own = [k \in 1..n |-> own[k]]
    BY <1>3
  <2>2. n \in Nat /\ \A k \in 1..n : own[k] \in C
    BY <1>5, <1>6
  <2> HIDE DEF C, n
  <2>3. own \in Seq(C) /\ Len(own) = n
    BY <2>1, <2>2
  <2> QED
    BY <2>3 DEF C, n
<1> QED
  BY <1>4, <1>5, <1>7 DEF ChunksOK, ps, own

\* PackOversized keeps the packing invariant.
LEMMA PackOversizedPacks ==
  ASSUME ParseInv, PackInv, PackOversized
  PROVE  PackInv' /\ pages # <<>>
<1> DEFINE u == Head(units)
<1>1. /\ units # <<>> /\ Tokens(Chars(u)) > size.max
      /\ input' = input /\ size' = size /\ stage' = stage
      /\ current' = <<>> /\ units' = Tail(units)
      /\ pages' = IF units' = <<>> THEN Tail(pages) ELSE pages
      /\ chunks' = Joined(current) \o Own(u)
  BY DEF PackOversized, Own
<1>2. /\ stage = "chunk" /\ pages # <<>> /\ UnitsOK(units, pages[1]) /\ ValidSize /\ ChunksOK(chunks)
      /\ (current # <<>> => CurrentOK(current, pages[1], FrontierOf(units, current, pages)))
  BY <1>1 DEF PackInv, PackOK
<1>3. Page = pages[1] /\ pages[1].to \in Nat
  BY <1>2, PageFacts
<1>4. UnitsOK(Tail(units), pages[1]) /\ IsUnit(u, Page.from, Page.to)
  BY <1>1, <1>2, <1>3, UnitsTail
<1>5. ChunksOK(Own(u))
  BY <1>1, <1>2, <1>4, OwnChunks
<1>6. ChunksOK(Joined(current))
  <2>1. CASE current = <<>>
    BY <2>1, <1>2 DEF Joined
  <2>2. CASE current # <<>>
    <3>1. current \in Seq(Piece) \ {<<>>} /\ Within(current, Page.from, Page.to) /\ Light(current)
      BY <2>2, <1>2, <1>3 DEF CurrentOK
    <3> QED
      BY <2>2, <3>1, <1>2, EmitKeeps DEF Joined
  <2> QED
    BY <2>1, <2>2
<1>7. ChunksOK(chunks')
  BY <1>1, <1>5, <1>6, ChunksConcat
<1>8. PackOK(units', current', pages', stage')
  BY <1>1, <1>2, <1>4 DEF PackOK
<1> QED
  BY <1>1, <1>2, <1>7, <1>8, GivenPack

\* EndOfDocument keeps the packing invariant.
LEMMA EndOfDocumentPacks ==
  ASSUME ParseInv, PackInv, EndOfDocument
  PROVE  PackInv'
<1>1. /\ stage = "parse" /\ stage' = IF pages' # <<>> /\ ~ValidSize THEN "failed" ELSE "chunk"
      /\ input' = input /\ size' = size /\ packer' = packer
  BY DEF EndOfDocument
<1>2. units = <<>> /\ current = <<>> /\ chunks = <<>>
  BY <1>1 DEF ParseInv, ScanOK
<1>3. units' = <<>> /\ current' = <<>> /\ chunks' = <<>>
  BY <1>1, <1>2 DEF packer
<1>4. PackOK(units', current', pages', stage')
  BY <1>1, <1>3 DEF PackOK
<1>5. ChunksOK(chunks')
  BY <1>2, <1>3 DEF PackInv
<1> QED
  BY <1>1, <1>4, <1>5, GivenPack

\* While the document is parsed nothing is packed, and neither by what ends the work.
LEMMA NothingPacks ==
  ASSUME ParseInv, PackInv, input' = input, size' = size, packer' = packer,
         \/ stage = "parse" /\ stage' \in {"parse", "failed"}
         \/ stage = "chunk" /\ stage' = "done" /\ pages = <<>> /\ pages' = pages
         \/ stage' = stage /\ pages' = pages
  PROVE  PackInv'
<1>1. units' = units /\ current' = current /\ chunks' = chunks /\ ChunksOK(chunks)
  BY DEF packer, PackInv
<1>2. PackOK(units, current, pages, stage)
  BY DEF PackInv
<1>3. PackOK(units', current', pages', stage')
  <2>1. CASE stage = "parse" /\ stage' \in {"parse", "failed"}
    <3>1. units = <<>> /\ current = <<>>
      BY <2>1 DEF ParseInv, ScanOK
    <3> QED
      BY <2>1, <3>1, <1>1 DEF PackOK
  <2>2. CASE stage = "chunk" /\ stage' = "done" /\ pages = <<>> /\ pages' = pages
    BY <2>2, <1>1, <1>2 DEF PackOK
  <2>3. CASE stage' = stage /\ pages' = pages
    BY <2>3, <1>1, <1>2
  <2> QED
    BY <2>1, <2>2, <2>3
<1> QED
  BY <1>1, <1>3, GivenPack

PipelineInv == ParseInv /\ PackInv

\* An empty pipeline satisfies both invariants.
LEMMA PipelineInit == Init => PipelineInv
<1> SUFFICES ASSUME Init PROVE PackInv
  BY ParseInvInit DEF PipelineInv
<1>1. units = <<>> /\ current = <<>> /\ chunks = <<>> /\ stage = "parse"
  BY DEF Init
<1>2. PackOK(units, current, pages, stage)
  BY <1>1 DEF PackOK
<1>3. ChunksOK(<<>>)
  <2>1. <<>> \in Seq(ChunkRec) /\ 1..Len(<<>>) = {}
    OBVIOUS
  <2> QED
    BY <2>1 DEF ChunksOK
<1> QED
  BY <1>1, <1>2, <1>3 DEF PackInv

\* Every step keeps both invariants.
LEMMA PipelineStep == PipelineInv /\ [Next]_vars => PipelineInv'
<1> SUFFICES ASSUME PipelineInv, [Next]_vars PROVE PipelineInv'
  OBVIOUS
<1> USE DEF PipelineInv
<1>1. CASE ParseFence
  <2>1. stage = "parse" /\ input' = input /\ size' = size /\ packer' = packer /\ stage' = stage
    BY <1>1 DEF ParseFence, More
  <2> QED
    BY <1>1, <2>1, ParseFenceKeeps, NothingPacks
<1>2. CASE ParseHeading
  <2>1. stage = "parse" /\ input' = input /\ size' = size /\ packer' = packer /\ stage' = stage
    BY <1>2 DEF ParseHeading, More
  <2> QED
    BY <1>2, <2>1, ParseHeadingKeeps, NothingPacks
<1>3. CASE ParseLine
  <2>1. stage = "parse" /\ input' = input /\ size' = size /\ packer' = packer /\ stage' = stage
    BY <1>3 DEF ParseLine, More
  <2> QED
    BY <1>3, <2>1, ParseLineKeeps, NothingPacks
<1>4. CASE ParseBreak
  <2>1. stage = "parse" /\ input' = input /\ size' = size /\ packer' = packer /\ stage' = stage
    BY <1>4 DEF ParseBreak, More
  <2> QED
    BY <1>4, <2>1, ParseBreakKeeps, NothingPacks
<1>5. CASE EndOfDocument
  BY <1>5, EndOfDocumentKeeps, EndOfDocumentPacks
<1>6. CASE ParserError
  <2>1. stage = "parse" /\ input' = input /\ size' = size /\ packer' = packer /\ stage' = "failed"
    BY <1>6 DEF ParserError
  <2> QED
    BY <1>6, <2>1, ParserErrorKeeps, NothingPacks
<1>7. CASE ChunkWhole
  <2>1. /\ stage = "chunk" /\ pages # <<>> /\ input' = input /\ size' = size /\ parser' = parser
        /\ stage' = stage /\ pages' = Tail(pages)
    BY <1>7 DEF ChunkWhole
  <2> QED
    BY <1>7, <2>1, ChunkingKeeps, ChunkWholePacks
<1>8. CASE OpenPage
  <2>1. /\ stage = "chunk" /\ input' = input /\ size' = size /\ parser' = parser
        /\ stage' = stage /\ pages' = pages
    BY <1>8 DEF OpenPage
  <2> QED
    BY <1>8, <2>1, ChunkingKeeps, OpenPagePacks
<1>9. CASE PackOversized
  <2>1. /\ input' = input /\ size' = size /\ parser' = parser /\ stage' = stage
        /\ pages' = pages \/ pages' = Tail(pages)
    BY <1>9 DEF PackOversized
  <2>2. stage = "chunk" /\ pages # <<>>
    BY <1>9 DEF PackOversized, PackInv, PackOK
  <2> QED
    BY <1>9, <2>1, <2>2, ChunkingKeeps, PackOversizedPacks
<1>10. CASE PackSeam
  <2>1. input' = input /\ size' = size /\ parser' = parser /\ stage' = stage /\ pages' = pages
    BY <1>10 DEF PackSeam
  <2>2. stage = "chunk"
    BY <1>10 DEF PackSeam, PackInv, PackOK
  <2> QED
    BY <1>10, <2>1, <2>2, ChunkingKeeps, PackSeamPacks
<1>11. CASE PackMore
  <2>1. input' = input /\ size' = size /\ parser' = parser /\ stage' = stage /\ pages' = pages
    BY <1>11 DEF PackMore
  <2>2. stage = "chunk"
    BY <1>11 DEF PackMore, PackInv, PackOK
  <2> QED
    BY <1>11, <2>1, <2>2, ChunkingKeeps, PackMorePacks
<1>12. CASE ClosePage
  <2>1. /\ stage = "chunk" /\ input' = input /\ size' = size /\ parser' = parser
        /\ stage' = stage /\ pages' = Tail(pages)
    BY <1>12 DEF ClosePage
  <2> QED
    BY <1>12, <2>1, ChunkingKeeps, ClosePagePacks
<1>13. CASE Finish
  <2>1. /\ stage = "chunk" /\ pages = <<>> /\ input' = input /\ size' = size /\ parser' = parser
        /\ stage' = "done" /\ pages' = pages /\ packer' = packer
    BY <1>13 DEF Finish
  <2> QED
    BY <2>1, ChunkingKeeps, NothingPacks
<1>14. CASE UNCHANGED vars
  <2>1. /\ input' = input /\ size' = size /\ stage' = stage /\ parser' = parser
        /\ pages' = pages /\ packer' = packer
    BY <1>14 DEF vars
  <2>2. ParseInv'
    <3>1. /\ at' = at /\ from' = from /\ fence' = fence /\ headings' = headings /\ number' = number
          /\ lost' = lost /\ units' = units /\ current' = current /\ chunks' = chunks
      BY <2>1 DEF parser, packer
    <3>2. ScanOK => ScanOK'
      BY <2>1, <3>1, Fixed DEF ScanOK, StackInv, Between, Covers
    <3>3. InputOK' /\ PagesOK(pages)' /\ ParserType'
      BY <2>1, <3>1, GivenFixed, PagesOKFixed, Fixed DEF ParserType, Marks, ParseInv
    <3> QED
      BY <2>1, <3>2, <3>3 DEF ParseInv
  <2> QED
    BY <2>1, <2>2, NothingPacks
<1> QED
  BY <1>1, <1>2, <1>3, <1>4, <1>5, <1>6, <1>7, <1>8, <1>9, <1>10, <1>11, <1>12, <1>13, <1>14
     DEF Next

-----------------------------------------------------------------------------
(* What every chunk is *)

\* The chunks of a state that is reached.
LEMMA ChunkTypes ==
  ASSUME PackInv
  PROVE  /\ DOMAIN chunks = 1..Len(chunks) /\ Len(chunks) \in Nat
         /\ \A k \in 1..Len(chunks) : chunks[k].pieces \in Seq(Piece) \ {<<>>} /\ ChunkOK(chunks[k])
<1>1. chunks \in Seq(ChunkRec) /\ \A k \in 1..Len(chunks) : ChunkOK(chunks[k])
  BY DEF PackInv, ChunksOK
<1>2. \A c \in ChunkRec : c.pieces \in Seq(Piece) \ {<<>>}
  BY DEF ChunkRec
<1> QED
  BY <1>1, <1>2 DEF ChunkOK

\* Every parsed document, and every state of its chunking, is of the types the code
\* gives them: a piece is some text of some lines, a page is not empty, and neither is a
\* chunk (parsers.py, chunking.py).
THEOREM TypeCorrect == Spec => []TypeOK
<1>1. PipelineInv => TypeOK
  <2> SUFFICES ASSUME PipelineInv PROVE TypeOK
    OBVIOUS
  <2>1. /\ ParserType /\ PagesOK(pages) /\ stage \in {"parse", "chunk", "done", "failed"}
        /\ PackOK(units, current, pages, stage) /\ PackInv
    BY DEF PipelineInv, ParseInv, PackInv
  <2>2. units \in Seq(Piece) /\ current \in Seq(Piece)
    <3>1. <<>> \in Seq(Piece)
      OBVIOUS
    <3> QED
      BY <2>1, <3>1 DEF PackOK, UnitsOK, CurrentOK
  <2>3. \A k \in DOMAIN chunks : chunks[k].pieces \in Seq(Piece) \ {<<>>}
    BY <2>1, ChunkTypes
  <2>4. \A k \in DOMAIN pages : pages[k].from <= pages[k].to
    BY <2>1 DEF PagesOK, PageOK
  <2> QED
    BY <2>1, <2>2, <2>3, <2>4 DEF TypeOK, ParserType, Marks
<1> QED
  BY <1>1, PipelineInit, PipelineStep, PTL DEF Spec

\* A chunk stays within max_tokens, by the weight of its pieces, unless it is an overlap
\* within its budget and one more piece (_pack, _hard_split and _tail_for_overlap).
THEOREM ChunksStayWithin == Spec => []ChunkCeiling
<1>1. PipelineInv => ChunkCeiling
  <2> SUFFICES ASSUME PipelineInv, NEW c \in ToSet(chunks) PROVE Light(c.pieces)
    BY DEF ChunkCeiling, Light
  <2>1. PICK k \in DOMAIN chunks : c = chunks[k]
    BY DEF ToSet
  <2> QED
    BY <2>1, ChunkTypes DEF PipelineInv, ChunkOK
<1> QED
  BY <1>1, PipelineInit, PipelineStep, PTL DEF Spec

\* Every line of a chunk, also of the text it repeats, is on the page and under exactly
\* the headings the chunk is cited with (Page.section_path, page_number and the heading
\* stacks of parsers.py).
THEOREM ProvenanceIsTrue == Spec => []ProvenanceTrue
<1>1. PipelineInv => ProvenanceTrue
  <2> SUFFICES ASSUME PipelineInv, NEW c \in ToSet(chunks), NEW piece \in ToSet(c.pieces),
                      NEW i \in Filled(piece.from, piece.to)
               PROVE  c.path = Above(i) /\ c.number = PageOf(i)
    BY DEF ProvenanceTrue
  <2>1. PICK k \in DOMAIN chunks : c = chunks[k]
    BY DEF ToSet
  <2>2. c.pieces \in Seq(Piece) /\ ChunkOK(c)
    BY <2>1, ChunkTypes DEF PipelineInv
  <2>3. PICK n \in 1..Len(c.pieces) : piece = c.pieces[n]
    BY <2>2 DEF ToSet
  <2>4. i \in piece.from..piece.to
    BY DEF Filled
  <2> QED
    BY <2>2, <2>3, <2>4 DEF ChunkOK
<1> QED
  BY <1>1, PipelineInit, PipelineStep, PTL DEF Spec
-----------------------------------------------------------------------------
(* Seams *)

\* m pieces of after repeat the end of before, the others are new; and m is not 0
\* within a section, but at a cut.
Links(m, before, after) ==
  /\ m <= Len(before)
  /\ \A n \in 1..m : LET p == before[Len(before) - m + n]
                     IN /\ ~after[n].fresh
                        /\ after[n].from = p.from /\ after[n].to = p.to
                        /\ after[n].last = p.last /\ after[n].first >= p.first
  /\ \A n \in m + 1..Len(after) : after[n].fresh
  /\ WeightOf(SubSeq(after, 1, m)) <= size.overlap
  /\ m = 0 /\ size.overlap > 0 =>
       \/ Cut(Last(before)) \/ Cut(Last(after))
       \/ Between(Last(before).from, Last(after).from)
Linked(before, after) == \E m \in 0..Len(after) : Links(m, before, after)

Chained(cs) == \A k \in 2..Len(cs) : Linked(cs[k - 1].pieces, cs[k].pieces)
\* What comes behind the last chunk: the next one, a border or, after a cut, a unit.
Follows(us, cur, last, ps) ==
  IF cur # <<>> THEN Linked(last, cur)
  ELSE Between(Last(last).from, FrontierOf(us, cur, ps)) \/ (us # <<>> /\ Cut(Last(last)))
SeamOK(us, cur, cs, ps) ==
  /\ Chained(cs)
  /\ cs # <<>> /\ ps # <<>> => Follows(us, cur, cs[Len(cs)].pieces, ps)
SeamInv == SeamOK(units, current, chunks, pages)

\* Seams are judged by a document and a size that never change.
LEMMA GivenSeam ==
  ASSUME input' = input, size' = size, SeamOK(units', current', chunks', pages')
  PROVE  SeamInv'
<1>1. /\ Lines' = Lines /\ Borders' = Borders /\ \A a, b : Filled(a, b)' = Filled(a, b)
  BY Fixed
<1>2. \A a, b : Paragraphs(a, b)' = Paragraphs(a, b)
  BY <1>1 DEF Paragraphs
<1>3. \A a, b : TextChars(a, b)' = TextChars(a, b)
  BY <1>1, <1>2 DEF TextChars
<1>4. \A p : Cut(p)' = Cut(p)
  BY <1>3 DEF Cut
<1>5. \A i, j : Between(i, j)' = Between(i, j)
  BY <1>1 DEF Between
<1>6. \A m, s, t : Links(m, s, t)' = Links(m, s, t)
  BY <1>4, <1>5 DEF Links
<1>7. \A s, t : Linked(s, t)' = Linked(s, t)
  BY <1>6 DEF Linked
<1>8. FrontierOf(units, current, pages)' = FrontierOf(units', current', pages')
  BY <1>1 DEF FrontierOf
<1> QED
  BY <1>4, <1>5, <1>7, <1>8 DEF SeamInv, SeamOK, Chained, Follows

\* Lines without a border between them have none in any part.
LEMMA BetweenWider ==
  ASSUME InputOK, NEW i \in Int, NEW j \in Int, NEW h \in Int, NEW k \in Int, Between(i, j), h <= i, j <= k
  PROVE  Between(h, k)
<1>1. \A b \in Borders : b \in Int
  BY BorderTypes
<1> QED
  BY <1>1 DEF Between

\* A unit is fresh, whole and lies within its page.
LEMMA UnitFacts ==
  ASSUME NEW u, NEW a, NEW b, IsUnit(u, a, b)
  PROVE  /\ u \in Piece /\ u.fresh /\ ~Cut(u) /\ u.from \in Nat \ {0} /\ u.to \in Nat
         /\ u.from <= u.to /\ a <= u.from /\ u.to <= b
<1>1. u \in Piece /\ u = Unit(u.from, u.to)
  BY DEF IsUnit
<1>2. u.first = 1 /\ u.last = TextChars(u.from, u.to) /\ u.fresh
  BY <1>1 DEF Unit
<1>3. u.from <= u.to
  BY <1>1 DEF Piece
<1> QED
  BY <1>1, <1>2, <1>3 DEF IsUnit, Cut

\* One new piece behind a chunk.
LEMMA LinkFresh ==
  ASSUME InputOK, NEW before \in Seq(Piece), NEW p \in Piece, p.fresh,
         Cut(Last(before)) \/ Cut(p) \/ Between(Last(before).from, p.from)
  PROVE  Linked(before, <<p>>)
<1>1. Last(<<p>>) = p /\ Len(<<p>>) = 1 /\ <<p>>[1] = p
  BY DEF Last
<1>2. SubSeq(<<p>>, 1, 0) = <<>>
  OBVIOUS
<1>3. WeightOf(SubSeq(<<p>>, 1, 0)) <= size.overlap
  <2>1. size.overlap \in Nat
    BY DEF InputOK
  <2>2. WeightOf(SubSeq(<<p>>, 1, 0)) = 0
    BY ONLY <1>2, WeightEmpty
  <2> QED
    BY <2>1, <2>2
<1>4. 1..0 = {} /\ (0 + 1)..Len(<<p>>) = {1} /\ 0 <= Len(before) /\ 0 \in 0..Len(<<p>>)
  BY <1>1
<1>5. Links(0, before, <<p>>)
  BY <1>1, <1>3, <1>4 DEF Links
<1> QED
  BY <1>4, <1>5 DEF Linked

\* The next chunk, behind the last one, with one more unit.
LEMMA LinkGrows ==
  ASSUME InputOK, NEW before \in Seq(Piece), NEW s \in Seq(Piece), s # <<>>, Linked(before, s),
         before # <<>>, NEW u \in Piece, u.fresh, ~Cut(Last(s)), Last(s).from <= u.from
  PROVE  Linked(before, Append(s, u))
<1> DEFINE r == Append(s, u)
<1>1. /\ r \in Seq(Piece) /\ Len(r) = Len(s) + 1 /\ Len(s) \in Nat /\ Last(r) = u
      /\ \A k \in 1..Len(s) : r[k] = s[k]
      /\ r[Len(s) + 1] = u
  BY AppendFacts
<1>2. PICK m \in 0..Len(s) : Links(m, before, s)
  BY DEF Linked
<1>3. SubSeq(r, 1, m) = SubSeq(s, 1, m)
  <2>1. SubSeq(r, 1, m) = [k \in 1..m |-> r[k]]
    BY <1>1, <1>2
  <2>2. SubSeq(s, 1, m) = [k \in 1..m |-> s[k]]
    BY <1>1, <1>2
  <2>3. \A k \in 1..m : r[k] = s[k]
    BY <1>1, <1>2
  <2> QED
    BY <2>1, <2>2, <2>3
<1>4. \A k \in 1..m : r[k] = s[k]
  BY <1>1, <1>2
<1>5. \A n \in m + 1..Len(r) : r[n].fresh
  <2>1. ASSUME NEW n \in m + 1..Len(r)
        PROVE  r[n].fresh
    <3>1. CASE n = Len(s) + 1
      BY <3>1, <1>1
    <3>2. CASE n # Len(s) + 1
      <4>1. n \in 1..Len(s) /\ n \in m + 1..Len(s)
        BY <3>2, <1>1, <1>2
      <4> QED
        BY <4>1, <1>1, <1>2 DEF Links
    <3> QED
      BY <3>1, <3>2
  <2> QED
    BY <2>1
<1>6. ASSUME m = 0, size.overlap > 0
      PROVE  Cut(Last(before)) \/ Between(Last(before).from, u.from)
  <2>1. Cut(Last(before)) \/ Between(Last(before).from, Last(s).from)
    BY <1>2, <1>6 DEF Links
  <2>2. Last(before) \in Piece /\ Last(s) \in Piece
    BY DEF Last
  <2>3. Last(before).from \in Int /\ Last(s).from \in Int /\ u.from \in Int
    BY <2>2 DEF Piece
  <2> QED
    BY <2>1, <2>3, BetweenWider
<1> HIDE DEF r
<1>7. Links(m, before, r)
  BY <1>1, <1>2, <1>3, <1>4, <1>5, <1>6 DEF Links
<1>8. m \in 0..Len(r)
  BY <1>1, <1>2
<1> QED
  BY <1>7, <1>8 DEF Linked, r

\* What a seam carries over links the chunks.
LEMMA LinkSeam ==
  ASSUME InputOK, NEW s \in Seq(Piece), s # <<>>, NEW carry \in TailsForOverlap(s),
         NEW u \in Piece, u.fresh
  PROVE  Linked(s, Append(carry, u))
<1> DEFINE r == Append(carry, u)
           m == Len(carry)
<1>1. /\ IsTail(carry, s) /\ WeightOf(carry) <= size.overlap /\ carry \in Seq(Piece)
      /\ (size.overlap > 0 => carry # <<>>)
  BY Tails DEF IsTail
<1>2. /\ Len(r) = m + 1 /\ m \in Nat /\ r[m + 1] = u
      /\ \A k \in 1..m : r[k] = carry[k]
      /\ r \in Seq(Piece)
  BY <1>1, AppendFacts
<1>3. SubSeq(r, 1, m) = carry
  <2>1. SubSeq(r, 1, m) = [k \in 1..m |-> r[k]]
    BY <1>2
  <2>2. carry = [k \in 1..m |-> carry[k]]
    BY <1>1
  <2> QED
    BY <2>1, <2>2, <1>2
<1>4. m = 0 => carry = <<>>
  BY <1>1
<1> HIDE DEF r, m
<1>5. \A n \in m + 1..Len(r) : r[n].fresh
  BY <1>2
<1>6. Links(m, s, r)
  BY <1>1, <1>2, <1>3, <1>4, <1>5 DEF Links, IsTail, m
<1>7. m \in 0..Len(r)
  BY <1>2
<1> QED
  BY <1>6, <1>7 DEF Linked, r

\* Chained chunks linked to chained chunks are chained.
LEMMA ChainConcat ==
  ASSUME NEW s, NEW t, ChunksOK(s), ChunksOK(t), Chained(s), Chained(t), t # <<>>,
         s # <<>> => Linked(s[Len(s)].pieces, t[1].pieces)
  PROVE  LET r == s \o t
         IN /\ Chained(r) /\ r # <<>> /\ r[Len(r)] = t[Len(t)]
<1> DEFINE r == s \o t
           C == ChunkRec
<1>1. s \in Seq(C) /\ t \in Seq(C)
  BY DEF ChunksOK
<1> HIDE DEF C
<1>2. /\ Len(r) = Len(s) + Len(t) /\ Len(s) \in Nat /\ Len(t) \in Nat \ {0}
      /\ (s # <<>> <=> Len(s) > 0)
  BY <1>1
<1>3. \A k \in 1..Len(s) : r[k] = s[k]
  BY <1>1
<1>4. \A k \in 1..Len(t) : r[Len(s) + k] = t[k]
  BY <1>1
<1>5. r # <<>>
  BY <1>2
<1> HIDE DEF r
<1>6. ASSUME NEW k \in 2..Len(r)
      PROVE  Linked(r[k - 1].pieces, r[k].pieces)
  <2>1. CASE k <= Len(s)
    <3>1. k \in 2..Len(s) /\ k \in 1..Len(s) /\ k - 1 \in 1..Len(s)
      BY <2>1, <1>2
    <3> QED
      BY <3>1, <1>3 DEF Chained
  <2>2. CASE k = Len(s) + 1
    <3>1. k - 1 = Len(s) /\ Len(s) \in 1..Len(s) /\ 1 \in 1..Len(t) /\ s # <<>>
      BY <2>2, <1>2
    <3>2. r[k - 1] = s[Len(s)] /\ r[k] = t[1]
      BY <2>2, <3>1, <1>3, <1>4
    <3> QED
      BY <3>1, <3>2
  <2>3. CASE k > Len(s) + 1
    <3> DEFINE j == k - Len(s)
    <3>1. /\ j \in 2..Len(t) /\ j \in 1..Len(t) /\ j - 1 \in 1..Len(t)
          /\ k = Len(s) + j /\ k - 1 = Len(s) + (j - 1)
      BY <2>3, <1>2
    <3> HIDE DEF j
    <3>2. r[k] = t[j] /\ r[k - 1] = t[j - 1]
      BY <3>1, <1>4
    <3> QED
      BY <3>1, <3>2 DEF Chained
  <2> QED
    BY <2>1, <2>2, <2>3, <1>2
<1>7. r[Len(r)] = t[Len(t)]
  BY <1>2, <1>4
<1> QED
  BY <1>5, <1>6, <1>7 DEF Chained, r

\* A chunk linked to the last of chained chunks is chained.
LEMMA ChainAppend ==
  ASSUME NEW s, NEW c, ChunksOK(s), ChunkOK(c), Chained(s),
         s # <<>> => Linked(s[Len(s)].pieces, c.pieces)
  PROVE  LET r == Append(s, c)
         IN /\ Chained(r) /\ r # <<>> /\ r[Len(r)] = c
<1> DEFINE t == <<c>>
<1>1. /\ t \in Seq(ChunkRec) /\ Len(t) = 1 /\ t[1] = c /\ t # <<>> /\ t[Len(t)] = c
  BY DEF ChunkOK
<1>2. Append(s, c) = s \o t
  <2>1. s \in Seq(ChunkRec)
    BY DEF ChunksOK
  <2> QED
    BY <2>1
<1> HIDE DEF t
<1>3. 2..Len(t) = {} /\ 1..Len(t) = {1}
  BY <1>1
<1>4. ChunksOK(t) /\ Chained(t)
  BY <1>1, <1>3 DEF ChunksOK, Chained
<1> QED
  BY <1>1, <1>2, <1>4, ChainConcat

\* What a step that packs has before it.
LEMMA SeamFacts ==
  ASSUME ParseInv, PackInv, SeamInv, stage = "chunk", pages # <<>>
  PROVE  /\ Chained(chunks) /\ ChunksOK(chunks)
         /\ chunks # <<>> => /\ Follows(units, current, chunks[Len(chunks)].pieces, pages)
                             /\ chunks[Len(chunks)].pieces \in Seq(Piece) \ {<<>>}
                             /\ Last(chunks[Len(chunks)].pieces) \in Piece
                             /\ Last(chunks[Len(chunks)].pieces).from \in Nat
<1>1. Chained(chunks) /\ ChunksOK(chunks)
      /\ (chunks # <<>> => Follows(units, current, chunks[Len(chunks)].pieces, pages))
  BY DEF SeamInv, SeamOK, PackInv
<1>2. ASSUME chunks # <<>>
      PROVE  chunks[Len(chunks)].pieces \in Seq(Piece) \ {<<>>}
  <2>1. chunks \in Seq(ChunkRec)
    BY <1>1 DEF ChunksOK
  <2>2. Len(chunks) \in 1..Len(chunks)
    BY <2>1, <1>2
  <2> QED
    BY <2>2, ChunkTypes
<1>3. \A s \in Seq(Piece) \ {<<>>} : Last(s) \in Piece
  BY DEF Last
<1>4. \A p \in Piece : p.from \in Nat
  BY DEF Piece
<1> QED
  BY <1>1, <1>2, <1>3, <1>4

\* The last page's chunks are behind a border.
LEMMA NextPage ==
  ASSUME ParseInv, PackInv, stage = "chunk", pages # <<>>, Tail(pages) # <<>>,
         NEW i \in Nat, i <= Page.to
  PROVE  Between(i, FrontierOf(<<>>, <<>>, Tail(pages))) /\ Page.to < Tail(pages)[1].from
         /\ Tail(pages)[1].from \in Nat
<1>1. /\ InputOK /\ PagesOK(pages) /\ Page.to \in Nat
  BY PageFacts
<1>2. PagesOK(Tail(pages)) /\ \A k \in 1..Len(Tail(pages)) : Between(Page.to, Tail(pages)[k].from)
  BY <1>1, PagesTail
<1> DEFINE t == Tail(pages)
           P == PageRec
<1>3. t \in Seq(P) /\ t # <<>>
  BY <1>2 DEF PagesOK
<1> HIDE DEF P
<1>4. 1 \in 1..Len(t) /\ t[1] \in P
  BY <1>3
<1>5. Between(Page.to, t[1].from)
  BY <1>2, <1>4
<1>6. \A q \in PageRec : q.from \in Nat
  BY DEF PageRec
<1>7. t[1].from \in Nat
  BY <1>4, <1>6 DEF P
<1>8. FrontierOf(<<>>, <<>>, t) = t[1].from
  BY <1>3 DEF FrontierOf
<1>9. \A b \in Borders : b \in Int
  BY <1>1, BorderTypes
<1>10. Page.to < t[1].from
  BY <1>1, <1>5, <1>7, <1>9 DEF Between
<1>11. Between(i, t[1].from)
  BY <1>1, <1>5, <1>7, BetweenWider
<1> QED
  BY <1>7, <1>8, <1>10, <1>11

\* A page is done: the next one is another section.
LEMMA ClosedSeams ==
  ASSUME ParseInv, PackInv, stage = "chunk", pages # <<>>, NEW cs, Chained(cs),
         cs # <<>> => Last(cs[Len(cs)].pieces).from \in Nat /\ Last(cs[Len(cs)].pieces).from <= Page.to
  PROVE  SeamOK(<<>>, <<>>, cs, Tail(pages))
<1>1. ASSUME cs # <<>>, Tail(pages) # <<>>
      PROVE  Follows(<<>>, <<>>, cs[Len(cs)].pieces, Tail(pages))
  BY <1>1, NextPage DEF Follows
<1> QED
  BY <1>1 DEF SeamOK

\* OpenPage keeps every seam.
LEMMA OpenPageSeams ==
  ASSUME ParseInv, PackInv, SeamInv, OpenPage
  PROVE  SeamInv'
<1>1. /\ stage = "chunk" /\ pages # <<>> /\ current = <<>> /\ units = <<>>
      /\ input' = input /\ size' = size /\ pages' = pages
      /\ current' = current /\ chunks' = chunks
  BY DEF OpenPage
<1>2. UnitsOK(units', pages[1]) /\ units' # <<>>
  BY OpenPagePacks
<1>3. /\ InputOK /\ Page = pages[1] /\ Page.from \in Nat \ {0} /\ Page.to \in Nat
  BY <1>1, PageFacts
<1>4. IsUnit(units'[1], pages[1].from, pages[1].to)
  BY <1>2, <1>3, UnitsTail
<1>5. units'[1].from \in Nat /\ pages[1].from <= units'[1].from
  BY <1>4, UnitFacts
<1>6. ASSUME chunks # <<>>
      PROVE  Follows(units', current', chunks[Len(chunks)].pieces, pages)
  <2> DEFINE last == Last(chunks[Len(chunks)].pieces)
  <2>1. Follows(units, current, chunks[Len(chunks)].pieces, pages) /\ last.from \in Nat
    BY <1>1, <1>6, SeamFacts
  <2>2. Between(last.from, pages[1].from)
    BY <2>1, <1>1 DEF Follows, FrontierOf
  <2>3. Between(last.from, units'[1].from)
    BY <2>1, <2>2, <1>3, <1>5, BetweenWider
  <2> QED
    BY <2>3, <1>1, <1>2 DEF Follows, FrontierOf
<1>7. SeamOK(units', current', chunks', pages')
  BY <1>1, <1>6, SeamFacts DEF SeamOK
<1> QED
  BY <1>1, <1>7, GivenSeam

\* ChunkWhole keeps every seam.
LEMMA ChunkWholeSeams ==
  ASSUME ParseInv, PackInv, SeamInv, ChunkWhole
  PROVE  SeamInv'
<1> DEFINE u == Unit(Page.from, Page.to)
           c == [pieces |-> <<u>>, path |-> Page.path, number |-> Page.number]
<1>1. /\ stage = "chunk" /\ pages # <<>> /\ current = <<>> /\ units = <<>>
      /\ input' = input /\ size' = size /\ pages' = Tail(pages)
      /\ current' = <<>> /\ units' = <<>>
      /\ Tokens(TextChars(Page.from, Page.to)) <= size.max
      /\ chunks' = Append(chunks, c)
  BY DEF ChunkWhole, Emit
<1>2. /\ InputOK /\ Page = pages[1] /\ Page \in PageRec /\ PageOK(Page)
      /\ Page.from \in Nat \ {0} /\ Page.to \in Nat
      /\ Page.from <= Page.to /\ Page.to <= Len(Lines) /\ Filled(Page.from, Page.to) # {}
  BY <1>1, PageFacts
<1>3. u \in Piece
  BY <1>2, UnitOfLines
<1>4. /\ Chars(u) = TextChars(Page.from, Page.to) /\ u.from = Page.from /\ u.to = Page.to /\ u.fresh
  BY <1>2, TextNat DEF Unit, Chars
<1>5. c.pieces = <<u>>
  OBVIOUS
<1> HIDE DEF u
<1>6. <<u>> \in Seq(Piece) \ {<<>>} /\ Light(<<u>>)
  BY <1>1, <1>3, <1>4, OneIsLight
<1>7. Within(<<u>>, Page.from, Page.to)
  BY <1>2, <1>4 DEF Within
<1>8. ChunkOK(c)
  BY <1>2, <1>6, <1>7, ChunkOfPage
<1>9. ASSUME chunks # <<>>
      PROVE  Linked(chunks[Len(chunks)].pieces, <<u>>)
  <2>1. /\ Follows(units, current, chunks[Len(chunks)].pieces, pages)
        /\ chunks[Len(chunks)].pieces \in Seq(Piece)
    BY <1>1, <1>9, SeamFacts
  <2>2. Between(Last(chunks[Len(chunks)].pieces).from, u.from)
    BY <2>1, <1>1, <1>2, <1>4 DEF Follows, FrontierOf
  <2> QED
    BY <2>1, <2>2, <1>2, <1>3, <1>4, LinkFresh
<1>10. Chained(chunks) /\ ChunksOK(chunks)
  BY <1>1, SeamFacts
<1> HIDE DEF c
<1>11. Chained(chunks') /\ chunks' # <<>> /\ chunks'[Len(chunks')] = c
  BY <1>1, <1>5, <1>8, <1>9, <1>10, ChainAppend
<1>12. Last(c.pieces).from \in Nat /\ Last(c.pieces).from <= Page.to
  <2>1. Last(<<u>>) = u
    BY DEF Last
  <2> QED
    BY <2>1, <1>2, <1>4, <1>5
<1>13. SeamOK(<<>>, <<>>, chunks', Tail(pages))
  BY <1>1, <1>11, <1>12, ClosedSeams
<1> QED
  BY <1>1, <1>13, GivenSeam

\* The chunk that is being packed, as the last chunk.
LEMMA EmitSeams ==
  ASSUME ParseInv, PackInv, SeamInv, stage = "chunk", pages # <<>>, current # <<>>
  PROVE  /\ Chained(Emit(current)) /\ Emit(current) # <<>>
         /\ Emit(current)[Len(Emit(current))].pieces = current
         /\ current \in Seq(Piece) \ {<<>>} /\ ChunksOK(Emit(current))
         /\ IsUnit(Last(current), Page.from, Page.to)
         /\ Last(current).to < FrontierOf(units, current, pages)
<1> DEFINE c == [pieces |-> current, path |-> Page.path, number |-> Page.number]
<1>1. CurrentOK(current, pages[1], FrontierOf(units, current, pages))
  BY DEF PackInv, PackOK
<1>2. Page = pages[1] /\ Page \in PageRec /\ PageOK(Page)
  BY PageFacts
<1>3. /\ current \in Seq(Piece) \ {<<>>} /\ Within(current, Page.from, Page.to) /\ Light(current)
      /\ IsUnit(Last(current), Page.from, Page.to)
      /\ Last(current).to < FrontierOf(units, current, pages)
  BY <1>1, <1>2 DEF CurrentOK
<1>4. ChunkOK(c)
  BY <1>2, <1>3, ChunkOfPage
<1>5. c.pieces = current
  OBVIOUS
<1>6. chunks # <<>> => Linked(chunks[Len(chunks)].pieces, current)
  BY SeamFacts DEF Follows
<1>7. Chained(chunks) /\ ChunksOK(chunks)
  BY SeamFacts
<1>8. Emit(current) = Append(chunks, c)
  BY DEF Emit
<1> HIDE DEF c
<1>9. Chained(Emit(current)) /\ Emit(current) # <<>> /\ Emit(current)[Len(Emit(current))] = c
  BY <1>4, <1>5, <1>6, <1>7, <1>8, ChainAppend
<1>10. ChunksOK(Emit(current))
  BY <1>3, EmitKeeps
<1> QED
  BY <1>3, <1>5, <1>9, <1>10

\* ClosePage keeps every seam.
LEMMA ClosePageSeams ==
  ASSUME ParseInv, PackInv, SeamInv, ClosePage
  PROVE  SeamInv'
<1>1. /\ stage = "chunk" /\ current # <<>> /\ units = <<>>
      /\ input' = input /\ size' = size /\ pages' = Tail(pages)
      /\ current' = <<>> /\ units' = <<>> /\ chunks' = Emit(current)
  BY DEF ClosePage
<1>2. pages # <<>>
  BY ClosePagePacks
<1>3. /\ Chained(Emit(current)) /\ Emit(current)[Len(Emit(current))].pieces = current
      /\ IsUnit(Last(current), Page.from, Page.to)
  BY <1>1, <1>2, EmitSeams
<1>4. /\ Last(current).from \in Nat /\ Last(current).from <= Last(current).to
      /\ Last(current).to <= Page.to /\ Last(current).to \in Nat
  BY <1>3, UnitFacts
<1>5. Page.to \in Nat
  BY <1>1, <1>2, PageFacts
<1>6. Last(current).from <= Page.to
  BY <1>4, <1>5
<1>7. SeamOK(<<>>, <<>>, chunks', Tail(pages))
  BY <1>1, <1>2, <1>3, <1>4, <1>6, ClosedSeams
<1> QED
  BY <1>1, <1>7, GivenSeam

\* PackMore keeps every seam.
LEMMA PackMoreSeams ==
  ASSUME ParseInv, PackInv, SeamInv, PackMore
  PROVE  SeamInv'
<1> DEFINE u == units[1]
<1>1. /\ units # <<>>
      /\ input' = input /\ size' = size /\ pages' = pages /\ chunks' = chunks
      /\ current' = Append(current, Head(units)) /\ units' = Tail(units)
  BY DEF PackMore
<1>2. stage = "chunk" /\ pages # <<>> /\ UnitsOK(units, pages[1])
  BY <1>1 DEF PackInv, PackOK
<1>3. InputOK /\ Page = pages[1] /\ pages[1].to \in Nat
  BY <1>2, PageFacts
<1>4. Head(units) = u /\ IsUnit(u, Page.from, Page.to)
  BY <1>1, <1>2, <1>3, UnitsTail
<1>5. u \in Piece /\ u.fresh /\ u.from \in Nat
  BY <1>4, UnitFacts
<1>6. current \in Seq(Piece)
  <2>1. CASE current # <<>>
    BY <2>1, <1>2, EmitSeams
  <2>2. CASE current = <<>>
    BY <2>2
  <2> QED
    BY <2>1, <2>2
<1>7. current' # <<>>
  BY <1>1, <1>4, <1>5, <1>6, AppendFacts
<1>8. ASSUME chunks # <<>>
      PROVE  Linked(chunks[Len(chunks)].pieces, current')
  <2> DEFINE before == chunks[Len(chunks)].pieces
  <2>1. Follows(units, current, before, pages) /\ before \in Seq(Piece) \ {<<>>}
    BY <1>2, <1>8, SeamFacts
  <2>2. FrontierOf(units, current, pages) = u.from
    BY <1>1 DEF FrontierOf
  <2> HIDE DEF before
  <2>3. CASE current = <<>>
    <3>1. Cut(Last(before)) \/ Between(Last(before).from, u.from)
      BY <2>1, <2>2, <2>3 DEF Follows
    <3>2. Linked(before, <<u>>)
      BY <3>1, <2>1, <1>3, <1>5, LinkFresh
    <3>3. current' = <<u>>
      BY <2>3, <1>1, <1>4
    <3> QED
      BY <3>2, <3>3 DEF before
  <2>4. CASE current # <<>>
    <3>1. Linked(before, current)
      BY <2>1, <2>4 DEF Follows
    <3>2. IsUnit(Last(current), Page.from, Page.to) /\ Last(current).to < u.from
      BY <2>2, <2>4, <1>2, EmitSeams
    <3>3. /\ ~Cut(Last(current)) /\ Last(current).from <= Last(current).to
          /\ Last(current).from \in Nat /\ Last(current).to \in Nat
      BY <3>2, UnitFacts
    <3>4. Last(current).from <= u.from
      BY <3>2, <3>3, <1>5
    <3>5. Linked(before, Append(current, u))
      BY <3>1, <3>3, <3>4, <2>1, <2>4, <1>3, <1>5, <1>6, LinkGrows
    <3> QED
      BY <3>5, <1>1, <1>4 DEF before
  <2> QED
    BY <2>3, <2>4
<1>9. Chained(chunks)
  BY <1>2, SeamFacts
<1>10. SeamOK(units', current', chunks', pages')
  BY <1>1, <1>7, <1>8, <1>9 DEF SeamOK, Follows
<1> QED
  BY <1>1, <1>10, GivenSeam

\* PackSeam keeps every seam.
LEMMA PackSeamSeams ==
  ASSUME ParseInv, PackInv, SeamInv, PackSeam
  PROVE  SeamInv'
<1>1. /\ units # <<>> /\ current # <<>>
      /\ input' = input /\ size' = size /\ pages' = pages
      /\ chunks' = Emit(current) /\ units' = Tail(units)
  BY DEF PackSeam, Fits
<1>2. PICK carry \in TailsForOverlap(current) : current' = Append(carry, Head(units))
  BY DEF PackSeam
<1>3. stage = "chunk" /\ pages # <<>> /\ UnitsOK(units, pages[1])
  BY <1>1 DEF PackInv, PackOK
<1>4. InputOK /\ Page = pages[1] /\ pages[1].to \in Nat
  BY <1>3, PageFacts
<1>5. Head(units) = units[1] /\ IsUnit(units[1], Page.from, Page.to)
  BY <1>1, <1>3, <1>4, UnitsTail
<1>6. units[1] \in Piece /\ units[1].fresh
  BY <1>5, UnitFacts
<1>7. /\ Chained(Emit(current)) /\ Emit(current)[Len(Emit(current))].pieces = current
      /\ current \in Seq(Piece)
  BY <1>1, <1>3, EmitSeams
<1>8. Linked(current, current')
  BY <1>1, <1>2, <1>4, <1>5, <1>6, <1>7, LinkSeam
<1>9. current' # <<>>
  <2>1. carry \in Seq(Piece)
    BY <1>1, <1>4, <1>7, Tails DEF IsTail
  <2> QED
    BY <2>1, <1>2, <1>5, <1>6, AppendFacts
<1>10. SeamOK(units', current', chunks', pages')
  BY <1>1, <1>7, <1>8, <1>9 DEF SeamOK, Follows
<1> QED
  BY <1>1, <1>10, GivenSeam

\* The chunks of an oversized unit are cut.
LEMMA OwnSeams ==
  ASSUME ParseInv, PackInv, stage = "chunk", pages # <<>>, NEW u, IsUnit(u, Page.from, Page.to),
         Tokens(Chars(u)) > size.max
  PROVE  LET own == Own(u)
         IN /\ ChunksOK(own) /\ own # <<>> /\ Chained(own)
            /\ \A s \in Seq(Piece) : Linked(s, own[1].pieces)
            /\ Cut(Last(own[Len(own)].pieces))
            /\ Last(own[Len(own)].pieces).from = u.from
<1> DEFINE ps == HardSplit(u)
           own == Own(u)
<1>1. InputOK /\ size.max > 0
  BY PageFacts
<1>2. /\ ps \in Seq(Piece) /\ ps # <<>>
      /\ \A k \in 1..Len(ps) : ps[k].from = u.from /\ ps[k].fresh /\ Cut(ps[k])
  BY <1>1, HardSplitPieces
<1>3. ChunksOK(own) /\ Len(own) = Len(ps) /\ own # <<>>
  BY OwnChunks
<1>4. \A k \in 1..Len(ps) : own[k].pieces = <<ps[k]>>
  BY DEF Own
<1> DEFINE n == Len(ps)
<1>5. n \in Nat \ {0} /\ \A k \in 1..n : ps[k] \in Piece
  BY <1>2
<1> HIDE DEF ps, own, n
<1>6. ASSUME NEW k \in 1..n, NEW s \in Seq(Piece)
      PROVE  Linked(s, own[k].pieces)
  <2> DEFINE p == ps[k]
  <2>1. p \in Piece /\ p.fresh /\ Cut(p) /\ own[k].pieces = <<p>>
    BY <1>2, <1>4, <1>5 DEF n
  <2> HIDE DEF p
  <2>2. Linked(s, <<p>>)
    BY <2>1, <1>1, LinkFresh
  <2> QED
    BY <2>1, <2>2
<1>7. Chained(own)
  <2>1. ASSUME NEW k \in 2..n
        PROVE  Linked(own[k - 1].pieces, own[k].pieces)
    <3>1. k \in 1..n /\ k - 1 \in 1..n
      BY <1>5
    <3>2. own[k - 1].pieces \in Seq(Piece)
      <4> DEFINE p == ps[k - 1]
      <4>1. p \in Piece /\ own[k - 1].pieces = <<p>>
        BY <3>1, <1>4, <1>5 DEF n
      <4> HIDE DEF p
      <4> QED
        BY <4>1
    <3> QED
      BY <3>1, <3>2, <1>6
  <2> QED
    BY <2>1, <1>3 DEF Chained, n
<1>8. 1 \in 1..n /\ n \in 1..n
  BY <1>5
<1>9. \A s \in Seq(Piece) : Linked(s, own[1].pieces)
  BY <1>6, <1>8
<1>10. Last(own[n].pieces) = ps[n]
  <2>1. own[n].pieces = <<ps[n]>>
    BY <1>4, <1>8 DEF n
  <2> QED
    BY <2>1 DEF Last
<1>11. Cut(Last(own[n].pieces)) /\ Last(own[n].pieces).from = u.from
  BY <1>2, <1>8, <1>10 DEF n
<1> QED
  BY <1>3, <1>7, <1>9, <1>11 DEF own, n

\* PackOversized keeps every seam.
LEMMA PackOversizedSeams ==
  ASSUME ParseInv, PackInv, SeamInv, PackOversized
  PROVE  SeamInv'
<1> DEFINE u == Head(units)
           own == Own(u)
           done == Joined(current)
<1>1. /\ units # <<>> /\ Tokens(Chars(u)) > size.max
      /\ input' = input /\ size' = size
      /\ current' = <<>> /\ units' = Tail(units)
      /\ pages' = IF units' = <<>> THEN Tail(pages) ELSE pages
      /\ chunks' = done \o own
  BY DEF PackOversized, Own
<1>2. stage = "chunk" /\ pages # <<>> /\ UnitsOK(units, pages[1])
  BY <1>1 DEF PackInv, PackOK
<1>3. Page = pages[1] /\ Page.to \in Nat
  BY <1>2, PageFacts
<1>4. IsUnit(u, Page.from, Page.to)
  BY <1>1, <1>2, <1>3, UnitsTail
<1>5. u.from \in Nat /\ u.from <= u.to /\ u.to <= Page.to /\ u.to \in Nat
  BY <1>4, UnitFacts
<1>6. /\ ChunksOK(own) /\ own # <<>> /\ Chained(own)
      /\ \A s \in Seq(Piece) : Linked(s, own[1].pieces)
      /\ Cut(Last(own[Len(own)].pieces))
      /\ Last(own[Len(own)].pieces).from = u.from
  BY <1>1, <1>2, <1>4, OwnSeams
<1>7. /\ ChunksOK(done) /\ Chained(done)
      /\ (done # <<>> => done[Len(done)].pieces \in Seq(Piece))
  <2>1. CASE current = <<>>
    <3>1. done = chunks
      BY <2>1 DEF Joined
    <3> QED
      BY <3>1, <1>2, SeamFacts
  <2>2. CASE current # <<>>
    <3>1. done = Emit(current)
      BY <2>2 DEF Joined
    <3> QED
      BY <2>2, <3>1, <1>2, EmitSeams
  <2> QED
    BY <2>1, <2>2
<1> HIDE DEF own, done, u
<1>8. Chained(chunks') /\ chunks' # <<>> /\ chunks'[Len(chunks')] = own[Len(own)]
  BY <1>1, <1>6, <1>7, ChainConcat
<1>9. Last(chunks'[Len(chunks')].pieces).from \in Nat
      /\ Last(chunks'[Len(chunks')].pieces).from <= Page.to
  BY <1>3, <1>5, <1>6, <1>8
<1>10. SeamOK(units', current', chunks', pages')
  <2>1. CASE units' = <<>>
    <3>1. SeamOK(<<>>, <<>>, chunks', Tail(pages))
      BY <1>2, <1>8, <1>9, ClosedSeams
    <3> QED
      BY <2>1, <3>1, <1>1
  <2>2. CASE units' # <<>>
    BY <2>2, <1>1, <1>6, <1>8 DEF SeamOK, Follows
  <2> QED
    BY <2>1, <2>2
<1> QED
  BY <1>1, <1>10, GivenSeam

\* Without chunks there are no seams.
LEMMA SeamInit == Init => SeamInv
<1> SUFFICES ASSUME Init PROVE SeamInv
  OBVIOUS
<1>1. chunks = <<>> /\ 2..Len(<<>>) = {}
  BY DEF Init
<1> QED
  BY <1>1 DEF SeamInv, SeamOK, Chained

\* While the document is parsed there is no chunk.
LEMMA NoSeams ==
  ASSUME ParseInv, SeamInv, input' = input, size' = size, packer' = packer,
         stage = "parse" \/ pages' = pages
  PROVE  SeamInv'
<1>1. units' = units /\ current' = current /\ chunks' = chunks
  BY DEF packer
<1>2. SeamOK(units', current', chunks', pages')
  <2>1. CASE stage = "parse"
    <3>1. chunks = <<>>
      BY <2>1 DEF ParseInv, ScanOK
    <3> QED
      BY <3>1, <1>1 DEF SeamInv, SeamOK
  <2>2. CASE pages' = pages
    BY <2>2, <1>1 DEF SeamInv
  <2> QED
    BY <2>1, <2>2
<1> QED
  BY <1>2, GivenSeam

\* Every step keeps the seams.
LEMMA SeamStep == PipelineInv /\ SeamInv /\ [Next]_vars => SeamInv'
<1> SUFFICES ASSUME ParseInv, PackInv, SeamInv, [Next]_vars PROVE SeamInv'
  BY DEF PipelineInv
<1>1. ASSUME ParseFence \/ ParseHeading \/ ParseLine \/ ParseBreak \/ EndOfDocument \/ ParserError
      PROVE  stage = "parse" /\ input' = input /\ size' = size /\ packer' = packer
  BY <1>1 DEF ParseFence, ParseHeading, ParseLine, ParseBreak, EndOfDocument, ParserError, More
<1>2. CASE ParseFence \/ ParseHeading \/ ParseLine \/ ParseBreak \/ EndOfDocument \/ ParserError
  BY <1>1, <1>2, NoSeams
<1>3. CASE Finish \/ UNCHANGED vars
  <2>1. input' = input /\ size' = size /\ pages' = pages /\ packer' = packer
    BY <1>3 DEF Finish, vars
  <2> QED
    BY <2>1, NoSeams
<1> QED
  BY <1>2, <1>3, ChunkWholeSeams, OpenPageSeams, PackOversizedSeams, PackSeamSeams, PackMoreSeams,
     ClosePageSeams DEF Next

\* What a chunk repeats stands first, is the end of the chunk before it and within the
\* budget; and no seam of a section is without it, unless a piece there is oversized
\* (_tail_for_overlap and _pack).
THEOREM ChunksOverlap == Spec => []RepeatsTail
<1>1. PipelineInv /\ SeamInv => RepeatsTail
  <2> SUFFICES ASSUME PipelineInv, SeamInv, NEW k \in 2..Len(chunks)
               PROVE  LET before == chunks[k - 1].pieces
                          after == chunks[k].pieces
                          m == Cardinality(Repeated(after))
                      IN /\ Repeated(after) = 1..m /\ m <= Len(before)
                         /\ WeightOf(SubSeq(after, 1, m)) <= size.overlap
                         /\ \A n \in 1..m : LET p == before[Len(before) - m + n]
                                           IN /\ after[n].from = p.from /\ after[n].to = p.to
                                              /\ after[n].last = p.last /\ after[n].first >= p.first
                         /\ SameSection(Last(before).from, Last(after).from) /\ size.overlap > 0
                              /\ ~Cut(Last(before)) /\ ~Cut(Last(after)) => m > 0
    BY Zenon DEF RepeatsTail
  <2> DEFINE before == chunks[k - 1].pieces
             after == chunks[k].pieces
  <2>1. PackInv /\ InputOK
    BY DEF PipelineInv, ParseInv
  <2>2. k - 1 \in 1..Len(chunks) /\ k \in 1..Len(chunks) /\ Len(chunks) \in Nat
    BY <2>1, ChunkTypes
  <2>3. before \in Seq(Piece) \ {<<>>} /\ after \in Seq(Piece) \ {<<>>}
    BY <2>1, <2>2, ChunkTypes
  <2>4. Linked(before, after)
    BY DEF SeamInv, SeamOK, Chained
  <2> HIDE DEF before, after
  <2>5. PICK m \in 0..Len(after) : Links(m, before, after)
    BY <2>4 DEF Linked
  <2>6. Len(after) \in Nat /\ m \in Nat /\ DOMAIN after = 1..Len(after)
    BY <2>3, <2>5
  <2>7. Repeated(after) = 1..m
    <3>1. \A n \in 1..m : n \in DOMAIN after /\ ~after[n].fresh
      BY <2>5, <2>6 DEF Links
    <3>2. \A n \in DOMAIN after : n \notin 1..m => after[n].fresh
      BY <2>5, <2>6 DEF Links
    <3> QED
      BY <3>1, <3>2 DEF Repeated
  <2>8. Cardinality(Repeated(after)) = m
    <3>1. 1 \in Int /\ m \in Int /\ (1 > m => m = 0)
      BY <2>6
    <3>2. Cardinality(1..m) = IF 1 > m THEN 0 ELSE m - 1 + 1
      BY <3>1, FS_Interval
    <3> QED
      BY <2>6, <2>7, <3>1, <3>2
  <2>9. SameSection(Last(before).from, Last(after).from) =>
          ~Between(Last(before).from, Last(after).from)
    <3>1. Last(before) \in Piece /\ Last(after) \in Piece
      BY <2>3 DEF Last
    <3>2. Last(before).from \in Nat /\ Last(after).from \in Nat
      BY <3>1 DEF Piece
    <3>3. \A b \in Borders : b \in Int
      BY <2>1, BorderTypes
    <3> QED
      BY <3>2, <3>3 DEF SameSection, Between
  <2>10. /\ m <= Len(before)
         /\ WeightOf(SubSeq(after, 1, m)) <= size.overlap
         /\ \A n \in 1..m : LET p == before[Len(before) - m + n]
                            IN /\ after[n].from = p.from /\ after[n].to = p.to
                               /\ after[n].last = p.last /\ after[n].first >= p.first
    BY <2>5 DEF Links
  <2>11. SameSection(Last(before).from, Last(after).from) /\ size.overlap > 0
           /\ ~Cut(Last(before)) /\ ~Cut(Last(after)) => m > 0
    BY <2>5, <2>6, <2>9 DEF Links
  <2> QED
    BY <2>7, <2>8, <2>10, <2>11 DEF before, after
<1> QED
  BY <1>1, PipelineInit, PipelineStep, SeamInit, SeamStep, PTL DEF Spec
-----------------------------------------------------------------------------
(* Text *)

\* The pieces of the chunks, and those of the chunk that is being packed.
Row(cs, cur, k) == IF k <= Len(cs) THEN cs[k].pieces ELSE cur
Entry(cs, cur, x) == Row(cs, cur, x[1])[x[2]]
New(cs, cur) ==
  UNION {{<<k, n>> : n \in {n \in 1..Len(Row(cs, cur, k)) : Row(cs, cur, k)[n].fresh}} :
         k \in 1..Len(cs) + 1}
Has(cs, cur, i) ==
  \E x \in New(cs, cur) : Entry(cs, cur, x).from <= i /\ i <= Entry(cs, cur, x).to

Before(p, q) == p.to < q.from \/ (p.from = q.from /\ p.last < q.first)

\* What is new in them is before line f, in order, and whole.
TextOK(cs, cur, f) ==
  /\ \A x \in New(cs, cur) : Entry(cs, cur, x).to < f
  /\ \A x, y \in New(cs, cur) : Earlier(x, y) => Before(Entry(cs, cur, x), Entry(cs, cur, y))
  /\ \A x \in New(cs, cur) :
       \A c \in 1..TextChars(Entry(cs, cur, x).from, Entry(cs, cur, x).to) :
         \E y \in New(cs, cur) : /\ Entry(cs, cur, y).from = Entry(cs, cur, x).from
                                 /\ Entry(cs, cur, y).first <= c /\ c <= Entry(cs, cur, y).last

\* The lines that are still to be packed; those that are neither packed nor waiting are
\* breaks, or of pages that could not be extracted.
Waits(us, cur, ps, i) ==
  \/ \E k \in 1..Len(us) : us[k].from <= i /\ i <= us[k].to
  \/ \E k \in 1..Len(ps) : /\ ps[k].from <= i /\ i <= ps[k].to
                           /\ k > 1 \/ (us = <<>> /\ cur = <<>>)
Kept(us, cur, cs, ps, gone) ==
  \A i \in Filled(1, Len(Lines)) \ (gone \cup Breaks) : Has(cs, cur, i) \/ Waits(us, cur, ps, i)

TextInv ==
  /\ TextOK(chunks, current, FrontierOf(units, current, pages))
  /\ stage \in {"chunk", "done"} => Kept(units, current, chunks, pages, lost)

\* The text is judged by a document that never changes.
LEMMA GivenText ==
  ASSUME input' = input, TextOK(chunks', current', FrontierOf(units', current', pages')),
         stage' \in {"chunk", "done"} => Kept(units', current', chunks', pages', lost')
  PROVE  TextInv'
<1>1. /\ Lines' = Lines /\ Breaks' = Breaks /\ \A a, b : Filled(a, b)' = Filled(a, b)
  BY Fixed
<1>2. \A a, b : Paragraphs(a, b)' = Paragraphs(a, b)
  BY <1>1 DEF Paragraphs
<1>3. \A a, b : TextChars(a, b)' = TextChars(a, b)
  BY <1>1, <1>2 DEF TextChars
<1>4. FrontierOf(units, current, pages)' = FrontierOf(units', current', pages')
  BY <1>1 DEF FrontierOf
<1>5. \A cs, cur, f : TextOK(cs, cur, f)' = TextOK(cs, cur, f)
  BY <1>3 DEF TextOK
<1>6. \A us, cur, cs, ps, l : Kept(us, cur, cs, ps, l)' = Kept(us, cur, cs, ps, l)
  BY <1>1 DEF Kept
<1> QED
  BY <1>4, <1>5, <1>6 DEF TextInv

\* An entry is a pair of a row and a place in it.
LEMMA NewIs ==
  ASSUME NEW cs, NEW cur
  PROVE  /\ \A x \in New(cs, cur) :
              /\ x = <<x[1], x[2]>> /\ x[1] \in 1..Len(cs) + 1
              /\ x[2] \in 1..Len(Row(cs, cur, x[1])) /\ Row(cs, cur, x[1])[x[2]].fresh
         /\ \A k \in 1..Len(cs) + 1 : \A n \in 1..Len(Row(cs, cur, k)) :
              Row(cs, cur, k)[n].fresh => <<k, n>> \in New(cs, cur)
<1> DEFINE R(k) == {<<k, n>> : n \in {n \in 1..Len(Row(cs, cur, k)) : Row(cs, cur, k)[n].fresh}}
<1>1. New(cs, cur) = UNION {R(k) : k \in 1..Len(cs) + 1}
  BY DEF New
<1>2. ASSUME NEW x \in New(cs, cur)
      PROVE  /\ x = <<x[1], x[2]>> /\ x[1] \in 1..Len(cs) + 1
             /\ x[2] \in 1..Len(Row(cs, cur, x[1])) /\ Row(cs, cur, x[1])[x[2]].fresh
  <2>1. PICK k \in 1..Len(cs) + 1 : x \in R(k)
    BY <1>1
  <2>2. PICK n \in 1..Len(Row(cs, cur, k)) : x = <<k, n>> /\ Row(cs, cur, k)[n].fresh
    BY <2>1
  <2> QED
    BY <2>2
<1>3. ASSUME NEW k \in 1..Len(cs) + 1, NEW n \in 1..Len(Row(cs, cur, k)), Row(cs, cur, k)[n].fresh
      PROVE  <<k, n>> \in New(cs, cur)
  <2>1. <<k, n>> \in R(k)
    BY <1>3
  <2> QED
    BY <2>1, <1>1
<1> QED
  BY <1>2, <1>3

\* D: some more new pieces, behind all that there are, whole and before line g.
Adds(cs, cur, f, ds, due, g, D) ==
  LET P(x) == Entry(ds, due, x)
  IN /\ New(ds, due) = New(cs, cur) \cup D
     /\ \A x \in New(cs, cur) : P(x) = Entry(cs, cur, x) /\ P(x).to \in Int
     /\ \A d \in D : P(d).to < g /\ f <= P(d).from /\ P(d).from \in Int
     /\ \A d \in D : \A x \in New(cs, cur) : ~Earlier(d, x)
     /\ \A d, e \in D : Earlier(d, e) => Before(P(d), P(e))
     /\ \A d \in D : \A c \in 1..TextChars(P(d).from, P(d).to) :
          \E e \in D : P(e).from = P(d).from /\ P(e).first <= c /\ c <= P(e).last

\* New pieces behind the frontier keep the text in order and lose nothing.
LEMMA TextGrows ==
  ASSUME NEW cs, NEW cur, NEW f \in Int, TextOK(cs, cur, f), NEW ds, NEW due, NEW g \in Int, f <= g,
         NEW D, Adds(cs, cur, f, ds, due, g, D)
  PROVE  TextOK(ds, due, g) /\ \A i : Has(cs, cur, i) => Has(ds, due, i)
<1> DEFINE N == New(cs, cur)
           M == New(ds, due)
           P(x) == Entry(ds, due, x)
<1>0. /\ New(ds, due) = New(cs, cur) \cup D
      /\ \A x \in New(cs, cur) : P(x) = Entry(cs, cur, x) /\ P(x).to \in Int
  BY DEF Adds
<1>1. /\ \A x \in N : P(x).to < f /\ P(x).to \in Int
      /\ \A x, y \in N : Earlier(x, y) => Before(P(x), P(y))
      /\ \A x \in N : \A c \in 1..TextChars(P(x).from, P(x).to) :
           \E y \in N : P(y).from = P(x).from /\ P(y).first <= c /\ c <= P(y).last
  BY <1>0 DEF TextOK
<1>2. M = N \cup D
  BY <1>0
<1>3. \A i : Has(cs, cur, i) => Has(ds, due, i)
  BY <1>0, <1>2 DEF Has
<1>4. /\ \A d \in D : P(d).to < g /\ f <= P(d).from /\ P(d).from \in Int
      /\ \A d \in D : \A x \in N : ~Earlier(d, x)
      /\ \A d, e \in D : Earlier(d, e) => Before(P(d), P(e))
      /\ \A d \in D : \A c \in 1..TextChars(P(d).from, P(d).to) :
           \E e \in D : P(e).from = P(d).from /\ P(e).first <= c /\ c <= P(e).last
  BY DEF Adds
<1> HIDE DEF N, M, P
<1>5. \A x \in M : P(x).to < g
  BY <1>1, <1>2, <1>4
<1>6. ASSUME NEW x \in M, NEW y \in M, Earlier(x, y)
      PROVE  Before(P(x), P(y))
  <2>1. CASE y \in N
    BY <2>1, <1>1, <1>2, <1>4, <1>6
  <2>2. CASE y \in D /\ x \in N
    <3>1. P(x).to < P(y).from
      BY <2>2, <1>1, <1>4
    <3> QED
      BY <3>1 DEF Before
  <2>3. CASE y \in D /\ x \in D
    BY <2>3, <1>4, <1>6
  <2> QED
    BY <2>1, <2>2, <2>3, <1>2
<1>7. ASSUME NEW x \in M, NEW c \in 1..TextChars(P(x).from, P(x).to)
      PROVE  \E y \in M : P(y).from = P(x).from /\ P(y).first <= c /\ c <= P(y).last
  BY <1>1, <1>2, <1>4
<1> QED
  BY <1>3, <1>5, <1>6, <1>7 DEF TextOK, M, P

\* What is new is text.
LEMMA EntryTypes ==
  ASSUME NEW cs, ChunksOK(cs), NEW cur \in Seq(Piece)
  PROVE  /\ Len(cs) \in Nat /\ \A k \in 1..Len(cs) + 1 : Row(cs, cur, k) \in Seq(Piece)
         /\ \A x \in New(cs, cur) : Entry(cs, cur, x) \in Piece
         /\ \A x \in New(cs, cur) : Entry(cs, cur, x).from \in Int /\ Entry(cs, cur, x).to \in Int
<1>1. cs \in Seq(ChunkRec)
  BY DEF ChunksOK
<1>2. Len(cs) \in Nat /\ \A k \in 1..Len(cs) : cs[k].pieces \in Seq(Piece)
  <2>1. \A c \in ChunkRec : c.pieces \in Seq(Piece)
    BY DEF ChunkRec
  <2> DEFINE C == ChunkRec
  <2>2. cs \in Seq(C) /\ \A c \in C : c.pieces \in Seq(Piece)
    BY <1>1, <2>1
  <2> HIDE DEF C
  <2> QED
    BY <2>2
<1>3. \A k \in 1..Len(cs) + 1 : Row(cs, cur, k) \in Seq(Piece)
  BY <1>2 DEF Row
<1>4. ASSUME NEW x \in New(cs, cur)
      PROVE  Entry(cs, cur, x) \in Piece
  <2>1. x[1] \in 1..Len(cs) + 1 /\ x[2] \in 1..Len(Row(cs, cur, x[1]))
    BY NewIs
  <2>2. Row(cs, cur, x[1]) \in Seq(Piece)
    BY <2>1, <1>3
  <2> QED
    BY <2>1, <2>2 DEF Entry
<1>5. \A p \in Piece : p.from \in Int /\ p.to \in Int
  BY DEF Piece
<1> QED
  BY <1>2, <1>3, <1>4, <1>5

\* A seam: the chunk is the next one, and only repeated text is in the one after it.
LEMMA TextSeam ==
  ASSUME NEW cs, ChunksOK(cs), NEW c, ChunkOK(c), NEW carry \in Seq(Piece),
         \A n \in 1..Len(carry) : ~carry[n].fresh,
         NEW f \in Int, TextOK(cs, c.pieces, f)
  PROVE  /\ TextOK(Append(cs, c), carry, f)
         /\ \A i : Has(cs, c.pieces, i) => Has(Append(cs, c), carry, i)
<1> DEFINE ds == Append(cs, c)
           cur == c.pieces
           n == Len(cs)
           C == ChunkRec
<1>1. cs \in Seq(C) /\ c \in C
  BY DEF ChunksOK, ChunkOK
<1>2. cur \in Seq(Piece)
  BY DEF ChunkOK, ChunkRec
<1> HIDE DEF C
<1>3. n \in Nat /\ Len(ds) = n + 1 /\ (\A k \in 1..n : ds[k] = cs[k]) /\ ds[n + 1] = c
  BY <1>1
<1> HIDE DEF ds, cur, n
<1>4. \A k \in 1..n + 1 : Row(ds, carry, k) = Row(cs, cur, k)
  BY <1>3 DEF Row, cur, n
<1>5. Row(ds, carry, n + 2) = carry
  BY <1>3 DEF Row
<1>6. ASSUME NEW x \in New(ds, carry)
      PROVE  x \in New(cs, cur)
  <2>1. /\ x = <<x[1], x[2]>> /\ x[1] \in 1..n + 2
        /\ x[2] \in 1..Len(Row(ds, carry, x[1])) /\ Row(ds, carry, x[1])[x[2]].fresh
    BY <1>3, NewIs
  <2>2. x[1] # n + 2
    BY <2>1, <1>5
  <2>3. x[1] \in 1..n + 1
    BY <2>1, <2>2, <1>3
  <2>4. x[2] \in 1..Len(Row(cs, cur, x[1])) /\ Row(cs, cur, x[1])[x[2]].fresh
    BY <2>1, <2>3, <1>4
  <2>5. <<x[1], x[2]>> \in New(cs, cur)
    BY <2>3, <2>4, NewIs DEF n
  <2> QED
    BY <2>1, <2>5
<1>7. ASSUME NEW x \in New(cs, cur)
      PROVE  x \in New(ds, carry) /\ Entry(ds, carry, x) = Entry(cs, cur, x)
  <2>1. /\ x = <<x[1], x[2]>> /\ x[1] \in 1..n + 1
        /\ x[2] \in 1..Len(Row(cs, cur, x[1])) /\ Row(cs, cur, x[1])[x[2]].fresh
    BY NewIs DEF n
  <2>2. x[1] \in 1..Len(ds) + 1 /\ Row(ds, carry, x[1]) = Row(cs, cur, x[1])
    BY <2>1, <1>3, <1>4
  <2>3. <<x[1], x[2]>> \in New(ds, carry)
    BY <2>1, <2>2, NewIs
  <2> QED
    BY <2>1, <2>2, <2>3 DEF Entry
<1>8. New(ds, carry) = New(cs, cur) \cup {}
  BY <1>6, <1>7
<1>9. \A x \in New(cs, cur) : Entry(cs, cur, x).to \in Int
  BY <1>2, EntryTypes
<1>10. Adds(cs, cur, f, ds, carry, f, {})
  BY <1>7, <1>8, <1>9 DEF Adds
<1>11. TextOK(ds, carry, f) /\ \A i : Has(cs, cur, i) => Has(ds, carry, i)
  <2>1. f <= f /\ TextOK(cs, cur, f)
    BY DEF cur
  <2> QED
    BY <2>1, <1>10, TextGrows
<1> QED
  BY <1>11 DEF ds, cur

\* One more unit, behind all that is packed.
LEMMA TextUnit ==
  ASSUME NEW cs, ChunksOK(cs), NEW cur \in Seq(Piece), NEW u \in Piece, u = Unit(u.from, u.to),
         NEW f \in Int, TextOK(cs, cur, f), f <= u.from, NEW g \in Int, u.to < g
  PROVE  LET due == Append(cur, u)
         IN /\ TextOK(cs, due, g)
            /\ \A i : Has(cs, cur, i) => Has(cs, due, i)
            /\ \A i : u.from <= i /\ i <= u.to => Has(cs, due, i)
<1> DEFINE due == Append(cur, u)
           m == Len(cs)
           l == Len(cur)
           new == <<m + 1, l + 1>>
           N == New(cs, cur)
<1>1. /\ m \in Nat /\ \A x \in N : Entry(cs, cur, x).to \in Int
  BY EntryTypes
<1>2. /\ l \in Nat /\ Len(due) = l + 1 /\ (\A k \in 1..l : due[k] = cur[k]) /\ due[l + 1] = u
  BY AppendFacts
<1>3. /\ u.fresh /\ u.first = 1 /\ u.last = TextChars(u.from, u.to)
      /\ u.from \in Int /\ u.to \in Int /\ u.from <= u.to
  <2>1. u.fresh /\ u.first = 1 /\ u.last = TextChars(u.from, u.to)
    BY DEF Unit
  <2> QED
    BY <2>1 DEF Piece
<1> HIDE DEF due, m, l
<1>4. /\ \A k \in 1..m : Row(cs, due, k) = Row(cs, cur, k)
      /\ Row(cs, due, m + 1) = due /\ Row(cs, cur, m + 1) = cur
  BY <1>1 DEF Row, m
<1>5. new[1] = m + 1 /\ new[2] = l + 1 /\ Entry(cs, due, new) = u
  BY <1>2, <1>4 DEF Entry
<1>6. new \in New(cs, due)
  <2>1. m + 1 \in 1..m + 1 /\ l + 1 \in 1..Len(Row(cs, due, m + 1))
        /\ Row(cs, due, m + 1)[l + 1].fresh
    BY <1>1, <1>2, <1>3, <1>4
  <2> QED
    BY <2>1, NewIs DEF m
<1>7. ASSUME NEW x \in N
      PROVE  /\ x \in New(cs, due) /\ Entry(cs, due, x) = Entry(cs, cur, x) /\ ~Earlier(new, x)
  <2>1. /\ x = <<x[1], x[2]>> /\ x[1] \in 1..m + 1
        /\ x[2] \in 1..Len(Row(cs, cur, x[1])) /\ Row(cs, cur, x[1])[x[2]].fresh
    BY NewIs DEF m
  <2>2. CASE x[1] = m + 1
    <3>1. x[2] \in 1..l /\ cur[x[2]].fresh
      BY <2>1, <2>2, <1>4 DEF l
    <3>2. x[2] \in 1..Len(Row(cs, due, x[1])) /\ Row(cs, due, x[1])[x[2]] = cur[x[2]]
      BY <3>1, <2>2, <1>2, <1>4
    <3>3. <<x[1], x[2]>> \in New(cs, due)
      BY <2>1, <3>1, <3>2, NewIs DEF m
    <3>4. Entry(cs, due, x) = Entry(cs, cur, x)
      BY <3>2, <2>2, <1>4 DEF Entry
    <3> QED
      BY <3>1, <3>3, <3>4, <2>1, <2>2, <1>1, <1>2, <1>5 DEF Earlier
  <2>3. CASE x[1] \in 1..m
    <3>1. Row(cs, due, x[1]) = Row(cs, cur, x[1])
      BY <2>3, <1>4
    <3>2. <<x[1], x[2]>> \in New(cs, due)
      BY <2>1, <3>1, NewIs DEF m
    <3> QED
      BY <3>1, <3>2, <2>1, <2>3, <1>1, <1>5 DEF Earlier, Entry
  <2> QED
    BY <2>1, <2>2, <2>3, <1>1
<1>8. ASSUME NEW x \in New(cs, due)
      PROVE  x \in N \cup {new}
  <2>1. /\ x = <<x[1], x[2]>> /\ x[1] \in 1..m + 1
        /\ x[2] \in 1..Len(Row(cs, due, x[1])) /\ Row(cs, due, x[1])[x[2]].fresh
    BY NewIs DEF m
  <2>2. CASE x[1] = m + 1 /\ x[2] = l + 1
    BY <2>1, <2>2
  <2>3. CASE x[1] = m + 1 /\ x[2] # l + 1
    <3>1. x[2] \in 1..l
      BY <2>1, <2>3, <1>2, <1>4
    <3>2. x[2] \in 1..Len(Row(cs, cur, x[1])) /\ Row(cs, cur, x[1])[x[2]].fresh
      BY <3>1, <2>1, <2>3, <1>2, <1>4 DEF l
    <3>3. <<x[1], x[2]>> \in New(cs, cur)
      BY <3>2, <2>1, NewIs DEF m
    <3> QED
      BY <3>3, <2>1
  <2>4. CASE x[1] \in 1..m
    <3>1. Row(cs, due, x[1]) = Row(cs, cur, x[1])
      BY <2>4, <1>4
    <3>2. <<x[1], x[2]>> \in New(cs, cur)
      BY <2>1, <3>1, NewIs DEF m
    <3> QED
      BY <3>2, <2>1
  <2> QED
    BY <2>1, <2>2, <2>3, <2>4, <1>1
<1>9. New(cs, due) = N \cup {new}
  BY <1>6, <1>7, <1>8
<1>10. ~Earlier(new, new)
  BY <1>1, <1>2, <1>5 DEF Earlier
<1>11. \A k \in 1..TextChars(u.from, u.to) : u.from = u.from /\ u.first <= k /\ k <= u.last
  BY <1>3
<1> HIDE DEF new
<1>12. Adds(cs, cur, f, cs, due, g, {new})
  BY <1>1, <1>3, <1>5, <1>7, <1>9, <1>10, <1>11 DEF Adds
<1>13. f <= g
  BY <1>3
<1>14. TextOK(cs, due, g) /\ \A i : Has(cs, cur, i) => Has(cs, due, i)
  BY <1>12, <1>13, TextGrows
<1>15. \A i : u.from <= i /\ i <= u.to => Has(cs, due, i)
  BY <1>5, <1>6 DEF Has
<1> QED
  BY <1>14, <1>15 DEF due

\* The pieces of an oversized unit cover it.
LEMMA SplitCovers ==
  ASSUME InputOK, size.max > 0, NEW a, NEW b, NEW u, IsUnit(u, a, b), Tokens(Chars(u)) > size.max,
         NEW c \in 1..u.last
  PROVE  \E k \in 1..Len(HardSplit(u)) : HardSplit(u)[k].first <= c /\ c <= HardSplit(u)[k].last
<1> DEFINE ps == HardSplit(u)
           n == Len(ps)
           reach == {k \in 1..n : c <= ps[k].last}
<1>1. /\ ps \in Seq(Piece) /\ ps # <<>>
      /\ \A k \in 1..n : ps[k].first = IF k = 1 THEN 1 ELSE ps[k - 1].last + 1
      /\ ps[n].last = u.last
  BY HardSplitPieces
<1>2. n \in Nat \ {0} /\ \A k \in 1..n : ps[k] \in Piece
  BY <1>1
<1>3. \A p \in Piece : p.last \in Nat
  BY DEF Piece
<1>4. \A k \in 1..n : ps[k].last \in Nat
  BY <1>2, <1>3
<1>5. n \in reach /\ reach \in SUBSET Nat
  BY <1>1, <1>2, <1>4
<1> HIDE DEF ps, n
<1>6. PICK k \in reach : \A j \in reach : k <= j
  <2> HIDE DEF reach
  <2> QED
    BY <1>5, LeastNat
<1>7. ps[k].first <= c
  <2>1. CASE k = 1
    BY <2>1, <1>1, <1>6
  <2>2. CASE k # 1
    <3>1. k - 1 \in 1..n /\ k - 1 < k
      BY <2>2, <1>2, <1>6
    <3>2. k - 1 \notin reach
      BY <3>1, <1>6
    <3>3. ps[k - 1].last < c
      BY <3>1, <3>2, <1>4
    <3>4. ps[k].first = ps[k - 1].last + 1
      BY <2>2, <1>1, <1>6
    <3> QED
      BY <3>1, <3>3, <3>4, <1>4
  <2> QED
    BY <2>1, <2>2
<1> QED
  BY <1>6, <1>7 DEF ps, n

\* An oversized unit, behind all that is packed.
LEMMA TextHard ==
  ASSUME ParseInv, PackInv, stage = "chunk", pages # <<>>, NEW u, IsUnit(u, Page.from, Page.to),
         Tokens(Chars(u)) > size.max,
         NEW cs, ChunksOK(cs), NEW f \in Int, TextOK(cs, <<>>, f), f <= u.from,
         NEW g \in Int, u.to < g
  PROVE  LET ds == cs \o Own(u)
         IN /\ TextOK(ds, <<>>, g)
            /\ \A i : Has(cs, <<>>, i) => Has(ds, <<>>, i)
            /\ \A i : u.from <= i /\ i <= u.to => Has(ds, <<>>, i)
<1> DEFINE ps == HardSplit(u)
           own == Own(u)
           ds == cs \o own
           m == Len(cs)
           n == Len(ps)
           D == {<<m + k, 1>> : k \in 1..n}
           N == New(cs, <<>>)
           P(x) == Entry(ds, <<>>, x)
           C == ChunkRec
<1>1. InputOK /\ size.max > 0
  BY PageFacts
<1>2. /\ ps \in Seq(Piece) /\ ps # <<>>
      /\ \A k \in 1..n : ps[k].from = u.from /\ ps[k].to = u.to /\ ps[k].fresh
      /\ \A j, k \in 1..n : j < k => ps[j].last < ps[k].first
  BY <1>1, HardSplitPieces
<1>3. \A c \in 1..u.last : \E k \in 1..n : ps[k].first <= c /\ c <= ps[k].last
  BY <1>1, SplitCovers
<1>4. ChunksOK(own) /\ Len(own) = n /\ own # <<>>
  BY OwnChunks
<1>5. \A k \in 1..n : own[k].pieces = <<ps[k]>>
  BY DEF Own
<1>6. n \in Nat \ {0}
  BY <1>2
<1>7. u.from \in Nat /\ u.to \in Nat /\ u.from <= u.to /\ u.last = TextChars(u.from, u.to)
  <2>1. u = Unit(u.from, u.to)
    BY DEF IsUnit
  <2>2. u.last = TextChars(u.from, u.to)
    BY <2>1 DEF Unit
  <2> QED
    BY <2>2, UnitFacts
<1>8. cs \in Seq(C) /\ own \in Seq(C)
  BY <1>4 DEF ChunksOK
<1> HIDE DEF C, ps, own, n
<1>9. /\ m \in Nat /\ Len(ds) = m + n
      /\ \A k \in 1..m : ds[k] = cs[k]
      /\ \A k \in 1..n : ds[m + k] = own[k]
  BY <1>4, <1>8
<1>10. /\ \A x \in N : Entry(cs, <<>>, x).to \in Int
  <2>1. <<>> \in Seq(Piece)
    OBVIOUS
  <2> QED
    BY <2>1, EntryTypes
<1> HIDE DEF ds, m
<1>11. /\ \A k \in 1..m : Row(ds, <<>>, k) = Row(cs, <<>>, k)
       /\ Row(cs, <<>>, m + 1) = <<>>
  BY <1>6, <1>9 DEF Row, m
<1>12. Row(ds, <<>>, m + n + 1) = <<>>
  BY <1>6, <1>9 DEF Row
<1>13. ASSUME NEW k \in 1..n
       PROVE  /\ Row(ds, <<>>, m + k) = <<ps[k]>> /\ P(<<m + k, 1>>) = ps[k]
              /\ <<m + k, 1>> \in New(ds, <<>>)
  <2>1. Row(ds, <<>>, m + k) = <<ps[k]>>
    BY <1>5, <1>6, <1>9 DEF Row
  <2>2. P(<<m + k, 1>>) = ps[k]
    BY <2>1 DEF Entry
  <2>3. m + k \in 1..Len(ds) + 1 /\ 1 \in 1..Len(Row(ds, <<>>, m + k))
        /\ Row(ds, <<>>, m + k)[1].fresh
    BY <2>1, <1>2, <1>6, <1>9
  <2> QED
    BY <2>1, <2>2, <2>3, NewIs
<1>14. ASSUME NEW x \in N
       PROVE  /\ x \in New(ds, <<>>) /\ P(x) = Entry(cs, <<>>, x) /\ x[1] \in 1..m
  <2>1. /\ x = <<x[1], x[2]>> /\ x[1] \in 1..m + 1
        /\ x[2] \in 1..Len(Row(cs, <<>>, x[1])) /\ Row(cs, <<>>, x[1])[x[2]].fresh
    BY NewIs DEF m
  <2>2. x[1] # m + 1
    BY <2>1, <1>11
  <2>3. x[1] \in 1..m /\ x[1] \in 1..Len(ds) + 1
    BY <2>1, <2>2, <1>6, <1>9
  <2>4. Row(ds, <<>>, x[1]) = Row(cs, <<>>, x[1])
    BY <2>3, <1>11
  <2>5. <<x[1], x[2]>> \in New(ds, <<>>)
    BY <2>1, <2>3, <2>4, NewIs
  <2> QED
    BY <2>1, <2>3, <2>4, <2>5 DEF Entry
<1>15. ASSUME NEW x \in New(ds, <<>>)
       PROVE  x \in N \cup D
  <2>1. /\ x = <<x[1], x[2]>> /\ x[1] \in 1..m + n + 1
        /\ x[2] \in 1..Len(Row(ds, <<>>, x[1])) /\ Row(ds, <<>>, x[1])[x[2]].fresh
    BY <1>9, NewIs
  <2>2. x[1] # m + n + 1
    BY <2>1, <1>12
  <2>3. CASE x[1] \in 1..m
    <3>1. x[2] \in 1..Len(Row(cs, <<>>, x[1])) /\ Row(cs, <<>>, x[1])[x[2]].fresh
          /\ x[1] \in 1..m + 1
      BY <2>1, <2>3, <1>9, <1>11
    <3>2. <<x[1], x[2]>> \in N
      BY <3>1, NewIs DEF m
    <3> QED
      BY <3>2, <2>1
  <2>4. CASE x[1] \notin 1..m
    <3> DEFINE k == x[1] - m
    <3>1. k \in 1..n /\ x[1] = m + k
      BY <2>1, <2>2, <2>4, <1>6, <1>9
    <3>2. Row(ds, <<>>, x[1]) = <<ps[k]>>
      BY <3>1, <1>13
    <3>3. x[2] = 1
      BY <2>1, <3>2
    <3> QED
      BY <2>1, <3>1, <3>3
  <2> QED
    BY <2>3, <2>4
<1>16. New(ds, <<>>) = N \cup D
  BY <1>13, <1>14, <1>15
<1>17. \A d \in D : P(d).from = u.from /\ P(d).to = u.to
  BY <1>2, <1>13
<1>18. ASSUME NEW d \in D, NEW x \in N
       PROVE  ~Earlier(d, x)
  <2>1. PICK k \in 1..n : d = <<m + k, 1>>
    OBVIOUS
  <2>2. d[1] = m + k /\ x[1] \in 1..m
    BY <2>1, <1>14
  <2> QED
    BY <2>2, <1>6, <1>9 DEF Earlier
<1>19. ASSUME NEW d \in D, NEW e \in D, Earlier(d, e)
       PROVE  Before(P(d), P(e))
  <2>1. PICK j \in 1..n : d = <<m + j, 1>>
    OBVIOUS
  <2>2. PICK k \in 1..n : e = <<m + k, 1>>
    OBVIOUS
  <2>3. m + j < m + k
    BY <2>1, <2>2, <1>19 DEF Earlier
  <2>4. j < k
    BY <2>3, <1>6, <1>9
  <2>5. ps[j].last < ps[k].first
    BY <2>4, <1>2
  <2>6. P(d) = ps[j] /\ P(e) = ps[k]
    BY <2>1, <2>2, <1>13
  <2> QED
    BY <2>5, <2>6, <1>17 DEF Before
<1>20. ASSUME NEW c \in 1..TextChars(u.from, u.to)
       PROVE  \E e \in D : P(e).from = u.from /\ P(e).first <= c /\ c <= P(e).last
  <2>1. PICK k \in 1..n : ps[k].first <= c /\ c <= ps[k].last
    BY <1>3, <1>7
  <2>2. <<m + k, 1>> \in D /\ P(<<m + k, 1>>) = ps[k]
    BY <1>13
  <2> QED
    BY <2>1, <2>2, <1>17
<1> HIDE DEF D
<1>21. Adds(cs, <<>>, f, ds, <<>>, g, D)
  BY <1>7, <1>10, <1>14, <1>16, <1>17, <1>18, <1>19, <1>20 DEF Adds
<1>22. f <= g
  BY <1>7
<1>23. TextOK(ds, <<>>, g) /\ \A i : Has(cs, <<>>, i) => Has(ds, <<>>, i)
  BY <1>21, <1>22, TextGrows
<1>24. ASSUME NEW i, u.from <= i, i <= u.to
       PROVE  Has(ds, <<>>, i)
  <2>1. 1 \in 1..n
    BY <1>6
  <2>2. <<m + 1, 1>> \in New(ds, <<>>) /\ P(<<m + 1, 1>>) = ps[1]
    BY <2>1, <1>13
  <2> QED
    BY <2>1, <2>2, <1>2, <1>24 DEF Has
<1> QED
  BY <1>23, <1>24 DEF ds, own

\* The frontier may move on past lines without text.
LEMMA TextLater ==
  ASSUME NEW cs, ChunksOK(cs), NEW cur \in Seq(Piece), NEW f \in Int, TextOK(cs, cur, f),
         NEW g \in Int, f <= g
  PROVE  TextOK(cs, cur, g)
<1>1. \A x \in New(cs, cur) : Entry(cs, cur, x).to \in Int
  BY EntryTypes
<1>2. \A x \in New(cs, cur) : Entry(cs, cur, x).to < g
  BY <1>1 DEF TextOK
<1> QED
  BY <1>2 DEF TextOK

\* What waits is the first, or behind it.
LEMMA TailHas ==
  ASSUME NEW S, NEW s \in Seq(S), NEW k \in 1..Len(s), NEW i, s[k].from <= i, i <= s[k].to
  PROVE  \/ k = 1
         \/ \E j \in 1..Len(Tail(s)) : Tail(s)[j].from <= i /\ i <= Tail(s)[j].to
<1> DEFINE t == Tail(s)
           n == Len(t)
<1>1. s # <<>> /\ Len(s) \in Nat
  OBVIOUS
<1>2. n = Len(s) - 1 /\ \A j \in 1..n : t[j] = s[j + 1]
  BY <1>1
<1> HIDE DEF t, n
<1>3. CASE k # 1
  <2>1. k - 1 \in 1..n /\ (k - 1) + 1 = k
    BY <1>1, <1>2, <1>3
  <2>2. t[k - 1] = s[k]
    BY <2>1, <1>2
  <2> QED
    BY <2>1, <2>2 DEF t, n
<1> QED
  BY <1>3

\* Every line from the first unit on is in a unit.
LEMMA UnitOfLine ==
  ASSUME NEW us, NEW p, UnitsOK(us, p), us # <<>>, NEW i \in Nat, us[1].from <= i, i <= p.to
  PROVE  \E k \in 1..Len(us) : us[k].from <= i /\ i <= us[k].to
<1> DEFINE n == Len(us)
           starts == {k \in 1..n : us[k].from <= i}
<1>1. n \in Nat \ {0} /\ \A k \in 1..n : us[k] \in Piece
  BY DEF UnitsOK
<1>2. \A q \in Piece : q.from \in Nat
  BY DEF Piece
<1>3. \A k \in 1..n : us[k].from \in Nat
  BY <1>1, <1>2
<1>4. \A k \in 1..n : us[k].to = IF k = n THEN p.to ELSE us[k + 1].from - 1
  BY DEF UnitsOK, Consecutive
<1> HIDE DEF n
<1>5. starts \in SUBSET Nat /\ 1 \in starts /\ starts \subseteq 1..n
  BY <1>1
<1>6. IsFiniteSet(starts)
  <2>1. IsFiniteSet(1..n)
    BY <1>1, FS_Interval
  <2> QED
    BY <2>1, <1>5, FS_Subset
<1> HIDE DEF starts
<1>7. Max(starts) \in starts /\ \A k \in starts : k <= Max(starts)
  BY <1>5, <1>6, MaxNat
<1>8. PICK k \in 1..n : k \in starts /\ \A j \in starts : j <= k
  BY <1>5, <1>7
<1>9. i <= us[k].to
  <2>1. CASE k = n
    BY <2>1, <1>4
  <2>2. CASE k # n
    <3>1. k + 1 \in 1..n /\ k + 1 > k
      BY <2>2, <1>1
    <3>2. k + 1 \notin starts
      BY <3>1, <1>8
    <3>3. i < us[k + 1].from
      BY <3>1, <3>2, <1>3 DEF starts
    <3>4. us[k].to = us[k + 1].from - 1
      BY <2>2, <1>4
    <3> QED
      BY <3>1, <3>3, <3>4, <1>3
  <2> QED
    BY <2>1, <2>2
<1> QED
  BY <1>8, <1>9 DEF n, starts

\* What the three invariants say of the page in work.
LEMMA TextFacts ==
  ASSUME ParseInv, PackInv, TextInv, stage = "chunk", pages # <<>>
  PROVE  /\ ChunksOK(chunks) /\ current \in Seq(Piece) /\ pages \in Seq(PageRec)
         /\ TextOK(chunks, current, FrontierOf(units, current, pages))
         /\ Kept(units, current, chunks, pages, lost)
         /\ \A i \in Filled(1, Len(Lines)) : /\ i \in Nat
                                             /\ (pages[1].from <= i /\ i <= pages[1].to =>
                                                   i \in Filled(pages[1].from, pages[1].to))
<1>1. /\ ChunksOK(chunks) /\ TextOK(chunks, current, FrontierOf(units, current, pages))
      /\ Kept(units, current, chunks, pages, lost)
  BY DEF PackInv, TextInv
<1>2. current \in Seq(Piece)
  <2>1. CASE current # <<>>
    BY <2>1 DEF PackInv, PackOK, CurrentOK
  <2>2. CASE current = <<>>
    BY <2>2
  <2> QED
    BY <2>1, <2>2
<1>3. /\ PagesOK(pages) /\ Page = pages[1] /\ Page.from \in Nat /\ Page.to \in Nat /\ Len(Lines) \in Nat
  BY PageFacts
<1>4. pages \in Seq(PageRec)
  BY <1>3 DEF PagesOK
<1>5. \A i \in Filled(1, Len(Lines)) :
        /\ i \in Nat
        /\ (pages[1].from <= i /\ i <= pages[1].to => i \in Filled(pages[1].from, pages[1].to))
  BY <1>3 DEF Filled
<1> QED
  BY <1>1, <1>2, <1>4, <1>5

\* A page is done.
LEMMA ClosedText ==
  ASSUME ParseInv, PackInv, TextInv, stage = "chunk", pages # <<>>,
         NEW cs, ChunksOK(cs), TextOK(cs, <<>>, Page.to + 1),
         \A i \in Filled(1, Len(Lines)) \ (lost \cup Breaks) :
           \/ Has(cs, <<>>, i)
           \/ \E k \in 1..Len(pages) : k > 1 /\ pages[k].from <= i /\ i <= pages[k].to
  PROVE  /\ TextOK(cs, <<>>, FrontierOf(<<>>, <<>>, Tail(pages)))
         /\ Kept(<<>>, <<>>, cs, Tail(pages), lost)
<1> DEFINE g == FrontierOf(<<>>, <<>>, Tail(pages))
<1>1. Page.to \in Nat /\ Page.to <= Len(Lines) /\ Len(Lines) \in Nat
  BY PageFacts
<1>2. g \in Int /\ Page.to + 1 <= g
  <2>1. CASE Tail(pages) = <<>>
    <3>1. g = Len(Lines) + 1
      BY <2>1 DEF FrontierOf
    <3> QED
      BY <3>1, <1>1
  <2>2. CASE Tail(pages) # <<>>
    <3>1. g = Tail(pages)[1].from
      BY <2>2 DEF FrontierOf
    <3>2. 0 \in Nat /\ 0 <= Page.to
      BY <1>1
    <3>3. Page.to < g /\ g \in Nat
      BY <2>2, <3>1, <3>2, NextPage
    <3> HIDE DEF g
    <3> QED
      BY <3>3, <1>1
  <2> QED
    BY <2>1, <2>2
<1>3. <<>> \in Seq(Piece) /\ Page.to + 1 \in Int
  BY <1>1
<1> HIDE DEF g
<1>4. TextOK(cs, <<>>, g)
  BY <1>2, <1>3, TextLater
<1>5. ASSUME NEW i \in Filled(1, Len(Lines)) \ (lost \cup Breaks)
      PROVE  Has(cs, <<>>, i) \/ Waits(<<>>, <<>>, Tail(pages), i)
  <2>1. CASE Has(cs, <<>>, i)
    BY <2>1
  <2>2. CASE \E k \in 1..Len(pages) : k > 1 /\ pages[k].from <= i /\ i <= pages[k].to
    <3>1. PICK k \in 1..Len(pages) : k > 1 /\ pages[k].from <= i /\ i <= pages[k].to
      BY <2>2
    <3>2. pages \in Seq(PageRec)
      BY TextFacts
    <3>3. \E j \in 1..Len(Tail(pages)) : Tail(pages)[j].from <= i /\ i <= Tail(pages)[j].to
      BY <3>1, <3>2, TailHas
    <3> QED
      BY <3>3 DEF Waits
  <2> QED
    BY <2>1, <2>2
<1> QED
  BY <1>4, <1>5 DEF Kept, g

\* OpenPage loses and reorders no text.
LEMMA OpenPageText ==
  ASSUME ParseInv, PackInv, TextInv, OpenPage
  PROVE  TextInv'
<1>1. /\ stage = "chunk" /\ pages # <<>> /\ current = <<>> /\ units = <<>>
      /\ input' = input /\ stage' = stage /\ pages' = pages /\ parser' = parser
      /\ current' = <<>> /\ chunks' = chunks /\ units' = UnitsOf(Page)
  BY DEF OpenPage
<1>2. UnitsOK(units', pages[1]) /\ units' # <<>>
  BY OpenPagePacks
<1>3. /\ InputOK /\ Page = pages[1] /\ Page.from \in Nat \ {0} /\ Page.to \in Nat
      /\ Page.from <= Page.to /\ Page.to <= Len(Lines) /\ Filled(Page.from, Page.to) # {}
  BY <1>1, PageFacts
<1>4. IsUnit(units'[1], pages[1].from, pages[1].to)
  BY <1>2, <1>3, UnitsTail
<1>5. units'[1].from \in Nat /\ pages[1].from <= units'[1].from
  BY <1>4, UnitFacts
<1>6. \A i \in Filled(Page.from, Page.to) : units'[1].from <= i
  BY <1>1, <1>3, PageUnits
<1>7. /\ ChunksOK(chunks) /\ current \in Seq(Piece) /\ TextOK(chunks, current, Page.from)
      /\ Kept(units, current, chunks, pages, lost)
  <2>1. FrontierOf(units, current, pages) = Page.from
    BY <1>1, <1>3 DEF FrontierOf
  <2> QED
    BY <2>1, <1>1, TextFacts
<1>8. FrontierOf(units', current', pages') = units'[1].from
  BY <1>2 DEF FrontierOf
<1>9. TextOK(chunks', current', FrontierOf(units', current', pages'))
  <2>1. Page.from \in Int /\ units'[1].from \in Int /\ Page.from <= units'[1].from
    BY <1>3, <1>5
  <2>2. TextOK(chunks, current, units'[1].from)
    BY <2>1, <1>7, TextLater
  <2> QED
    BY <2>2, <1>1, <1>8
<1>10. ASSUME NEW i \in Filled(1, Len(Lines)) \ (lost \cup Breaks)
       PROVE  Has(chunks, current, i) \/ Waits(units', current', pages, i)
  <2>1. CASE Has(chunks, current, i)
    BY <2>1
  <2>2. CASE Waits(units, current, pages, i)
    <3>1. PICK k \in 1..Len(pages) : pages[k].from <= i /\ i <= pages[k].to
      BY <2>2, <1>1 DEF Waits
    <3>2. CASE k > 1
      BY <3>1, <3>2 DEF Waits
    <3>3. CASE ~(k > 1)
      <4>1. k = 1
        BY <3>3
      <4>2. i \in Nat /\ i \in Filled(Page.from, Page.to)
        BY <4>1, <3>1, <1>1, <1>3, TextFacts
      <4>3. units'[1].from <= i /\ i <= pages[1].to
        BY <4>1, <4>2, <3>1, <1>6
      <4>4. \E j \in 1..Len(units') : units'[j].from <= i /\ i <= units'[j].to
        BY <4>2, <4>3, <1>2, UnitOfLine
      <4> QED
        BY <4>4 DEF Waits
    <3> QED
      BY <3>2, <3>3
  <2> QED
    BY <2>1, <2>2, <1>7 DEF Kept
<1>11. Kept(units', current', chunks', pages', lost')
  BY <1>1, <1>10 DEF Kept, parser
<1> QED
  BY <1>1, <1>9, <1>11, GivenText

\* ChunkWhole loses and reorders no text.
LEMMA ChunkWholeText ==
  ASSUME ParseInv, PackInv, TextInv, ChunkWhole
  PROVE  TextInv'
<1> DEFINE u == Unit(Page.from, Page.to)
           c == [pieces |-> <<u>>, path |-> Page.path, number |-> Page.number]
<1>1. /\ stage = "chunk" /\ pages # <<>> /\ current = <<>> /\ units = <<>>
      /\ input' = input /\ stage' = stage /\ pages' = Tail(pages) /\ parser' = parser
      /\ current' = <<>> /\ units' = <<>>
      /\ Tokens(TextChars(Page.from, Page.to)) <= size.max
      /\ chunks' = Append(chunks, c)
  BY DEF ChunkWhole, Emit
<1>2. /\ InputOK /\ Page = pages[1] /\ Page \in PageRec /\ PageOK(Page)
      /\ Page.from \in Nat \ {0} /\ Page.to \in Nat
      /\ Page.from <= Page.to /\ Page.to <= Len(Lines) /\ Filled(Page.from, Page.to) # {}
  BY <1>1, PageFacts
<1>3. u \in Piece
  BY <1>2, UnitOfLines
<1>4. /\ Chars(u) = TextChars(Page.from, Page.to) /\ u.from = Page.from /\ u.to = Page.to
      /\ u = Unit(u.from, u.to)
  BY <1>2, TextNat DEF Unit, Chars
<1>5. c.pieces = <<u>>
  OBVIOUS
<1> HIDE DEF u
<1>6. <<u>> \in Seq(Piece) \ {<<>>} /\ Light(<<u>>)
  BY <1>1, <1>3, <1>4, OneIsLight
<1>7. Within(<<u>>, Page.from, Page.to)
  BY <1>2, <1>4 DEF Within
<1>8. ChunkOK(c)
  BY <1>2, <1>6, <1>7, ChunkOfPage
<1> HIDE DEF c
<1>9. /\ ChunksOK(chunks) /\ TextOK(chunks, <<>>, Page.from) /\ <<>> \in Seq(Piece)
      /\ Kept(units, current, chunks, pages, lost)
  <2>1. FrontierOf(units, current, pages) = Page.from
    BY <1>1, <1>2 DEF FrontierOf
  <2> QED
    BY <2>1, <1>1, TextFacts
<1>10. Append(<<>>, u) = <<u>>
  OBVIOUS
<1>11. Page.from \in Int /\ Page.to + 1 \in Int /\ Page.from <= u.from /\ u.to < Page.to + 1
  BY <1>2, <1>4
<1>12. /\ TextOK(chunks, <<u>>, Page.to + 1)
       /\ \A i : Has(chunks, <<>>, i) => Has(chunks, <<u>>, i)
       /\ \A i : u.from <= i /\ i <= u.to => Has(chunks, <<u>>, i)
  BY <1>3, <1>4, <1>9, <1>10, <1>11, TextUnit
<1>13. /\ TextOK(chunks', <<>>, Page.to + 1)
       /\ \A i : Has(chunks, <<u>>, i) => Has(chunks', <<>>, i)
  <2>1. \A n \in 1..Len(<<>>) : ~<<>>[n].fresh
    OBVIOUS
  <2> QED
    BY <2>1, <1>1, <1>5, <1>8, <1>9, <1>11, <1>12, TextSeam
<1>14. ASSUME NEW i \in Filled(1, Len(Lines)) \ (lost \cup Breaks)
       PROVE  \/ Has(chunks', <<>>, i)
              \/ \E k \in 1..Len(pages) : k > 1 /\ pages[k].from <= i /\ i <= pages[k].to
  <2>1. CASE Has(chunks, current, i)
    BY <2>1, <1>1, <1>12, <1>13
  <2>2. CASE Waits(units, current, pages, i)
    <3>1. PICK k \in 1..Len(pages) : pages[k].from <= i /\ i <= pages[k].to
      BY <2>2, <1>1 DEF Waits
    <3>2. CASE k = 1
      BY <3>1, <3>2, <1>2, <1>4, <1>12, <1>13
    <3> QED
      BY <3>1, <3>2
  <2> QED
    BY <2>1, <2>2, <1>9 DEF Kept
<1>15. ChunksOK(chunks')
  BY <1>1, <1>8, <1>9, ChunksAppend
<1>16. /\ TextOK(chunks', <<>>, FrontierOf(<<>>, <<>>, Tail(pages)))
       /\ Kept(<<>>, <<>>, chunks', Tail(pages), lost)
  BY <1>1, <1>13, <1>14, <1>15, ClosedText
<1>17. lost' = lost
  BY <1>1 DEF parser
<1> QED
  BY <1>1, <1>16, <1>17, GivenText

\* Where the next unit and what comes after it begin.
LEMMA UnitFrontier ==
  ASSUME NEW us, NEW cur, NEW due, due # <<>>, NEW ps, UnitsOK(us, ps[1]), us # <<>>, ps[1].to \in Nat
  PROVE  /\ FrontierOf(us, cur, ps) = us[1].from /\ us[1].from \in Int
         /\ us[1].to < FrontierOf(Tail(us), due, ps)
         /\ FrontierOf(Tail(us), due, ps) \in Int
<1>1. us[1] \in Piece /\ (Tail(us) # <<>> => Tail(us)[1] \in Piece)
  BY UnitsTail
<1>2. \A p \in Piece : p.from \in Int
  BY DEF Piece
<1>3. FrontierOf(Tail(us), due, ps) \in Int
  BY <1>1, <1>2 DEF FrontierOf
<1> QED
  BY <1>1, <1>2, <1>3, UnitBefore DEF FrontierOf

\* What waited waits on, but for the unit that is packed.
LEMMA UnitTaken ==
  ASSUME NEW us \in Seq(Piece), us # <<>>, NEW cur, NEW ps, NEW i, Waits(us, cur, ps, i)
  PROVE  \/ us[1].from <= i /\ i <= us[1].to
         \/ \E j \in 1..Len(Tail(us)) : Tail(us)[j].from <= i /\ i <= Tail(us)[j].to
         \/ \E k \in 1..Len(ps) : k > 1 /\ ps[k].from <= i /\ i <= ps[k].to
<1>1. CASE \E k \in 1..Len(us) : us[k].from <= i /\ i <= us[k].to
  <2>1. PICK k \in 1..Len(us) : us[k].from <= i /\ i <= us[k].to
    BY <1>1
  <2>2. k = 1 \/ \E j \in 1..Len(Tail(us)) : Tail(us)[j].from <= i /\ i <= Tail(us)[j].to
    BY <2>1, TailHas
  <2> QED
    BY <2>1, <2>2
<1>2. CASE \E k \in 1..Len(ps) : k > 1 /\ ps[k].from <= i /\ i <= ps[k].to
  BY <1>2
<1> QED
  BY <1>1, <1>2 DEF Waits

\* PackMore loses and reorders no text.
LEMMA PackMoreText ==
  ASSUME ParseInv, PackInv, TextInv, PackMore
  PROVE  TextInv'
<1> DEFINE u == units[1]
<1>1. /\ units # <<>>
      /\ input' = input /\ stage' = stage /\ pages' = pages /\ chunks' = chunks /\ parser' = parser
      /\ current' = Append(current, Head(units)) /\ units' = Tail(units)
  BY DEF PackMore
<1>2. stage = "chunk" /\ pages # <<>> /\ UnitsOK(units, pages[1])
  BY <1>1 DEF PackInv, PackOK
<1>3. InputOK /\ Page = pages[1] /\ pages[1].to \in Nat
  BY <1>2, PageFacts
<1>4. Head(units) = u /\ IsUnit(u, Page.from, Page.to) /\ units \in Seq(Piece)
  BY <1>1, <1>2, <1>3, UnitsTail DEF UnitsOK
<1>5. u \in Piece /\ u = Unit(u.from, u.to)
  BY <1>4 DEF IsUnit
<1>6. /\ ChunksOK(chunks) /\ current \in Seq(Piece)
      /\ TextOK(chunks, current, FrontierOf(units, current, pages))
      /\ Kept(units, current, chunks, pages, lost)
  BY <1>2, TextFacts
<1>7. current' = Append(current, u) /\ current' # <<>>
  BY <1>1, <1>4, <1>5, <1>6, AppendFacts
<1> DEFINE g == FrontierOf(units', current', pages')
<1>8. FrontierOf(units, current, pages) = u.from /\ u.from \in Int /\ u.to < g /\ g \in Int
  BY <1>1, <1>2, <1>3, <1>7, UnitFrontier
<1> HIDE DEF g, u
<1>9. u.from <= u.from
  BY <1>8
<1>10. /\ TextOK(chunks, current', g)
       /\ \A i : Has(chunks, current, i) => Has(chunks, current', i)
       /\ \A i : u.from <= i /\ i <= u.to => Has(chunks, current', i)
  BY <1>5, <1>6, <1>7, <1>8, <1>9, TextUnit
<1>11. ASSUME NEW i \in Filled(1, Len(Lines)) \ (lost \cup Breaks)
       PROVE  Has(chunks, current', i) \/ Waits(units', current', pages, i)
  <2>1. Has(chunks, current, i) \/ Waits(units, current, pages, i)
    BY <1>6 DEF Kept
  <2> QED
    BY <2>1, <1>1, <1>4, <1>10, UnitTaken DEF u, Waits
<1>12. Kept(units', current', chunks', pages', lost')
  BY <1>1, <1>11 DEF Kept, parser
<1> QED
  BY <1>1, <1>10, <1>12, GivenText DEF g

\* The chunk that is being packed becomes the last one.
LEMMA EmitText ==
  ASSUME ParseInv, PackInv, TextInv, stage = "chunk", pages # <<>>, current # <<>>,
         NEW carry \in Seq(Piece), \A n \in 1..Len(carry) : ~carry[n].fresh,
         NEW f \in Int, f = FrontierOf(units, current, pages)
  PROVE  /\ TextOK(Emit(current), carry, f) /\ ChunksOK(Emit(current))
         /\ \A i : Has(chunks, current, i) => Has(Emit(current), carry, i)
<1> DEFINE c == [pieces |-> current, path |-> Page.path, number |-> Page.number]
<1>1. CurrentOK(current, pages[1], FrontierOf(units, current, pages)) /\ ChunksOK(chunks)
  BY DEF PackInv, PackOK
<1>2. Page = pages[1] /\ Page \in PageRec /\ PageOK(Page)
  BY PageFacts
<1>3. current \in Seq(Piece) \ {<<>>} /\ Within(current, Page.from, Page.to) /\ Light(current)
  BY <1>1, <1>2 DEF CurrentOK
<1>4. ChunkOK(c) /\ c.pieces = current
  BY <1>2, <1>3, ChunkOfPage
<1>5. Emit(current) = Append(chunks, c)
  BY DEF Emit
<1> HIDE DEF c
<1>6. TextOK(chunks, c.pieces, f)
  BY <1>4, TextFacts
<1>7. /\ TextOK(Append(chunks, c), carry, f)
      /\ \A i : Has(chunks, c.pieces, i) => Has(Append(chunks, c), carry, i)
  BY <1>1, <1>4, <1>6, TextSeam
<1>8. ChunksOK(Emit(current))
  BY <1>3, EmitKeeps
<1> QED
  BY <1>4, <1>5, <1>7, <1>8

\* PackSeam loses and reorders no text.
LEMMA PackSeamText ==
  ASSUME ParseInv, PackInv, TextInv, PackSeam
  PROVE  TextInv'
<1> DEFINE u == units[1]
           f == FrontierOf(units, current, pages)
           g == FrontierOf(units', current', pages')
<1>1. /\ units # <<>> /\ current # <<>>
      /\ input' = input /\ stage' = stage /\ pages' = pages /\ parser' = parser
      /\ chunks' = Emit(current) /\ units' = Tail(units)
  BY DEF PackSeam, Fits
<1>2. PICK carry \in TailsForOverlap(current) : current' = Append(carry, Head(units))
  BY DEF PackSeam
<1>3. stage = "chunk" /\ pages # <<>> /\ UnitsOK(units, pages[1])
  BY <1>1 DEF PackInv, PackOK
<1>4. InputOK /\ Page = pages[1] /\ pages[1].to \in Nat
  BY <1>3, PageFacts
<1>5. Head(units) = u /\ IsUnit(u, Page.from, Page.to) /\ units \in Seq(Piece)
  BY <1>1, <1>3, <1>4, UnitsTail DEF UnitsOK
<1>6. u \in Piece /\ u = Unit(u.from, u.to)
  BY <1>5 DEF IsUnit
<1>7. /\ current \in Seq(Piece) /\ Kept(units, current, chunks, pages, lost)
  BY <1>3, TextFacts
<1>8. carry \in Seq(Piece) /\ \A n \in 1..Len(carry) : ~carry[n].fresh
  BY <1>1, <1>4, <1>7, Tails DEF IsTail
<1>9. current' = Append(carry, u) /\ current' # <<>>
  BY <1>2, <1>5, <1>6, <1>8, AppendFacts
<1>10. f = u.from /\ f \in Int /\ u.to < g /\ g \in Int
  BY <1>1, <1>3, <1>4, <1>9, UnitFrontier
<1> HIDE DEF g, u
<1>11. /\ TextOK(chunks', carry, f) /\ ChunksOK(chunks')
       /\ \A i : Has(chunks, current, i) => Has(chunks', carry, i)
  BY <1>1, <1>3, <1>8, <1>10, EmitText
<1> HIDE DEF f
<1>12. f <= u.from
  BY <1>10
<1>13. /\ TextOK(chunks', current', g)
       /\ \A i : Has(chunks', carry, i) => Has(chunks', current', i)
       /\ \A i : u.from <= i /\ i <= u.to => Has(chunks', current', i)
  BY <1>6, <1>8, <1>9, <1>10, <1>11, <1>12, TextUnit
<1>14. ASSUME NEW i \in Filled(1, Len(Lines)) \ (lost \cup Breaks)
       PROVE  Has(chunks', current', i) \/ Waits(units', current', pages, i)
  <2>1. Has(chunks, current, i) \/ Waits(units, current, pages, i)
    BY <1>7 DEF Kept
  <2> QED
    BY <2>1, <1>1, <1>5, <1>11, <1>13, UnitTaken DEF u, Waits
<1>15. Kept(units', current', chunks', pages', lost')
  BY <1>1, <1>14 DEF Kept, parser
<1> QED
  BY <1>1, <1>13, <1>15, GivenText DEF g

\* ClosePage loses and reorders no text.
LEMMA ClosePageText ==
  ASSUME ParseInv, PackInv, TextInv, ClosePage
  PROVE  TextInv'
<1>1. /\ stage = "chunk" /\ current # <<>> /\ units = <<>>
      /\ input' = input /\ stage' = stage /\ pages' = Tail(pages) /\ parser' = parser
      /\ current' = <<>> /\ units' = <<>> /\ chunks' = Emit(current)
  BY DEF ClosePage
<1>2. pages # <<>>
  BY ClosePagePacks
<1>3. Page = pages[1] /\ Page.to \in Nat
  BY <1>1, <1>2, PageFacts
<1>4. FrontierOf(units, current, pages) = Page.to + 1 /\ Page.to + 1 \in Int
  BY <1>1, <1>3 DEF FrontierOf
<1>5. <<>> \in Seq(Piece) /\ \A n \in 1..Len(<<>>) : ~<<>>[n].fresh
  OBVIOUS
<1>6. /\ TextOK(chunks', <<>>, Page.to + 1) /\ ChunksOK(chunks')
      /\ \A i : Has(chunks, current, i) => Has(chunks', <<>>, i)
  BY <1>1, <1>2, <1>4, <1>5, EmitText
<1>7. ASSUME NEW i \in Filled(1, Len(Lines)) \ (lost \cup Breaks)
      PROVE  \/ Has(chunks', <<>>, i)
             \/ \E k \in 1..Len(pages) : k > 1 /\ pages[k].from <= i /\ i <= pages[k].to
  <2>1. Has(chunks, current, i) \/ Waits(units, current, pages, i)
    BY <1>1, <1>2, TextFacts DEF Kept
  <2> QED
    BY <2>1, <1>1, <1>6 DEF Waits
<1>8. /\ TextOK(chunks', <<>>, FrontierOf(<<>>, <<>>, Tail(pages)))
      /\ Kept(<<>>, <<>>, chunks', Tail(pages), lost)
  BY <1>1, <1>2, <1>6, <1>7, ClosedText
<1>9. lost' = lost
  BY <1>1 DEF parser
<1> QED
  BY <1>1, <1>8, <1>9, GivenText

\* PackOversized loses and reorders no text.
LEMMA PackOversizedText ==
  ASSUME ParseInv, PackInv, TextInv, PackOversized
  PROVE  TextInv'
<1> DEFINE u == Head(units)
           done == Joined(current)
           f == FrontierOf(units, current, pages)
           g == IF units' = <<>> THEN Page.to + 1 ELSE units'[1].from
<1>1. /\ units # <<>> /\ Tokens(Chars(u)) > size.max
      /\ input' = input /\ stage' = stage /\ parser' = parser
      /\ current' = <<>> /\ units' = Tail(units)
      /\ pages' = IF units' = <<>> THEN Tail(pages) ELSE pages
      /\ chunks' = done \o Own(u)
  BY DEF PackOversized, Own
<1>2. stage = "chunk" /\ pages # <<>> /\ UnitsOK(units, pages[1])
  BY <1>1 DEF PackInv, PackOK
<1>3. Page = pages[1] /\ Page.to \in Nat
  BY <1>2, PageFacts
<1>4. /\ IsUnit(u, Page.from, Page.to) /\ u = units[1] /\ units \in Seq(Piece)
      /\ (Tail(units) # <<>> => Tail(units)[1] \in Piece /\ u.to < Tail(units)[1].from)
  BY <1>1, <1>2, <1>3, UnitsTail DEF UnitsOK
<1>5. u.from \in Nat /\ u.to \in Nat /\ u.to <= Page.to
  BY <1>4, UnitFacts
<1>6. f = u.from /\ f \in Int
  BY <1>1, <1>4, <1>5 DEF FrontierOf
<1>7. g \in Int /\ u.to < g
  <2>1. \A p \in Piece : p.from \in Int
    BY DEF Piece
  <2> QED
    BY <2>1, <1>1, <1>3, <1>4, <1>5
<1>8. <<>> \in Seq(Piece) /\ \A n \in 1..Len(<<>>) : ~<<>>[n].fresh
  OBVIOUS
<1>9. /\ TextOK(done, <<>>, f) /\ ChunksOK(done)
      /\ \A i : Has(chunks, current, i) => Has(done, <<>>, i)
  <2>1. CASE current = <<>>
    BY <2>1, <1>2, TextFacts DEF Joined
  <2>2. CASE current # <<>>
    <3>1. done = Emit(current)
      BY <2>2 DEF Joined
    <3> QED
      BY <2>2, <3>1, <1>2, <1>6, <1>8, EmitText
  <2> QED
    BY <2>1, <2>2
<1> HIDE DEF u, done, f, g
<1>10. f <= u.from
  BY <1>5, <1>6
<1>11. /\ TextOK(chunks', <<>>, g)
       /\ \A i : Has(done, <<>>, i) => Has(chunks', <<>>, i)
       /\ \A i : u.from <= i /\ i <= u.to => Has(chunks', <<>>, i)
  BY <1>1, <1>2, <1>4, <1>6, <1>7, <1>9, <1>10, TextHard
<1>12. ASSUME NEW i \in Filled(1, Len(Lines)) \ (lost \cup Breaks)
       PROVE  \/ Has(chunks', <<>>, i)
              \/ \E j \in 1..Len(units') : units'[j].from <= i /\ i <= units'[j].to
              \/ \E k \in 1..Len(pages) : k > 1 /\ pages[k].from <= i /\ i <= pages[k].to
  <2>1. Has(chunks, current, i) \/ Waits(units, current, pages, i)
    BY <1>2, TextFacts DEF Kept
  <2> QED
    BY <2>1, <1>1, <1>4, <1>9, <1>11, UnitTaken
<1>13. CASE units' = <<>>
  <2>1. g = Page.to + 1
    BY <1>13 DEF g
  <2>2. ASSUME NEW i \in Filled(1, Len(Lines)) \ (lost \cup Breaks)
        PROVE  \/ Has(chunks', <<>>, i)
               \/ \E k \in 1..Len(pages) : k > 1 /\ pages[k].from <= i /\ i <= pages[k].to
    <3>1. 1..Len(units') = {}
      BY <1>13
    <3> QED
      BY <3>1, <1>12
  <2>3. ChunksOK(chunks')
    BY <1>1, <1>2, <1>4, <1>9, OwnChunks, ChunksConcat
  <2>4. /\ TextOK(chunks', <<>>, FrontierOf(<<>>, <<>>, Tail(pages)))
        /\ Kept(<<>>, <<>>, chunks', Tail(pages), lost)
    BY <2>1, <2>2, <2>3, <1>2, <1>11, ClosedText
  <2>5. lost' = lost
    BY <1>1 DEF parser
  <2> QED
    BY <2>4, <2>5, <1>1, <1>13, GivenText
<1>14. CASE units' # <<>>
  <2>1. FrontierOf(units', current', pages') = g
    BY <1>14 DEF g, FrontierOf
  <2>2. Kept(units', current', chunks', pages', lost')
    BY <1>1, <1>12, <1>14 DEF Kept, Waits, parser
  <2> QED
    BY <2>1, <2>2, <1>1, <1>11, GivenText
<1> QED
  BY <1>13, <1>14

\* Without chunks there are no entries.
LEMMA NoText ==
  ASSUME NEW f
  PROVE  New(<<>>, <<>>) = {} /\ TextOK(<<>>, <<>>, f)
<1>1. ASSUME NEW x \in New(<<>>, <<>>)
      PROVE  FALSE
  <2>1. x[2] \in 1..Len(Row(<<>>, <<>>, x[1])) /\ x[1] \in 1..Len(<<>>) + 1
    BY NewIs
  <2>2. x[1] = 1
    BY <2>1
  <2>3. Row(<<>>, <<>>, 1) = <<>>
    BY DEF Row
  <2> QED
    BY <2>1, <2>2, <2>3
<1> QED
  BY <1>1 DEF TextOK

\* While the document is parsed no text is packed; its pages then hold all of it.
LEMMA ParseText ==
  ASSUME ParseInv, TextInv, stage = "parse", input' = input, packer' = packer,
         \/ stage' \in {"parse", "failed"}
         \/ EndOfDocument
  PROVE  TextInv'
<1>1. units = <<>> /\ current = <<>> /\ chunks = <<>> /\ ScanOK /\ InputOK /\ ParserType /\ PagesOK(pages)
  BY DEF ParseInv, ScanOK
<1>2. units' = <<>> /\ current' = <<>> /\ chunks' = <<>>
  BY <1>1 DEF packer
<1>3. TextOK(chunks', current', FrontierOf(units', current', pages'))
  BY <1>2, NoText
<1>4. ASSUME EndOfDocument
      PROVE  Kept(units', current', chunks', pages', lost')
  <2>1. ((Flush /\ UNCHANGED lost) \/ PageFails) /\ at = Len(Lines) + 1 /\ Len(Lines) \in Nat
    BY <1>1, <1>4, LineType DEF EndOfDocument
  <2>2. \A i \in Filled(1, at - 1) \ (lost' \cup Breaks) : Covers(pages', i)
    BY <1>1, <2>1, PageEnds
  <2>3. at - 1 = Len(Lines)
    BY <2>1
  <2> QED
    BY <2>2, <2>3, <1>2 DEF Kept, Waits, Covers
<1>5. stage' \in {"chunk", "done"} => EndOfDocument
  OBVIOUS
<1> QED
  BY <1>3, <1>4, <1>5, GivenText

\* Without chunks nothing is out of order.
LEMMA TextInit == Init => TextInv
<1> SUFFICES ASSUME Init PROVE TextInv
  OBVIOUS
<1>1. chunks = <<>> /\ current = <<>> /\ stage = "parse"
  BY DEF Init
<1> QED
  BY <1>1, NoText DEF TextInv

\* Every step keeps the text.
LEMMA TextStep == PipelineInv /\ TextInv /\ [Next]_vars => TextInv'
<1> SUFFICES ASSUME ParseInv, PackInv, TextInv, [Next]_vars PROVE TextInv'
  BY DEF PipelineInv
<1>1. ASSUME ParseFence \/ ParseHeading \/ ParseLine \/ ParseBreak \/ ParserError
      PROVE  stage = "parse" /\ stage' \in {"parse", "failed"} /\ input' = input /\ packer' = packer
  BY <1>1 DEF ParseFence, ParseHeading, ParseLine, ParseBreak, ParserError, More
<1>2. CASE ParseFence \/ ParseHeading \/ ParseLine \/ ParseBreak \/ ParserError
  BY <1>1, <1>2, ParseText
<1>3. CASE EndOfDocument
  <2>1. stage = "parse" /\ input' = input /\ packer' = packer
    BY <1>3 DEF EndOfDocument
  <2> QED
    BY <1>3, <2>1, ParseText
<1>4. CASE Finish \/ UNCHANGED vars
  <2>1. /\ input' = input /\ pages' = pages /\ units' = units /\ current' = current
        /\ chunks' = chunks /\ lost' = lost
        /\ (stage' \in {"chunk", "done"} => stage \in {"chunk", "done"})
    BY <1>4 DEF Finish, vars, packer, parser
  <2> QED
    BY <2>1, GivenText DEF TextInv
<1> QED
  BY <1>2, <1>3, <1>4, ChunkWholeText, OpenPageText, PackOversizedText, PackSeamText, PackMoreText,
     ClosePageText DEF Next

\* Chunking loses, repeats and reorders nothing: the fresh pieces of all chunks, in their
\* order, are the text of the document to the last character, but for PDF pages that
\* could not be extracted (parse_content, chunk_document, _split_units, _hard_split, _pack).
THEOREM NothingIsLost == Spec => []NothingLost
<1>1. PipelineInv /\ TextInv => NothingLost
  <2> SUFFICES ASSUME PipelineInv, TextInv, stage = "done" PROVE NothingLost
    BY DEF NothingLost
  <2>1. /\ PackInv /\ pages = <<>> /\ units = <<>> /\ current = <<>>
    BY DEF PipelineInv, PackInv, PackOK
  <2>2. /\ TextOK(chunks, <<>>, FrontierOf(units, current, pages))
        /\ Kept(<<>>, <<>>, chunks, <<>>, lost)
    BY <2>1 DEF TextInv
  <2>3. DOMAIN chunks = 1..Len(chunks) /\ Len(chunks) \in Nat
        /\ \A k \in 1..Len(chunks) : DOMAIN chunks[k].pieces = 1..Len(chunks[k].pieces)
    BY <2>1, ChunkTypes
  <2>4. /\ \A k \in 1..Len(chunks) : Row(chunks, <<>>, k) = chunks[k].pieces
        /\ Row(chunks, <<>>, Len(chunks) + 1) = <<>>
    BY <2>3 DEF Row
  <2> DEFINE F(k) == {<<k, n>> : n \in {n \in DOMAIN chunks[k].pieces : chunks[k].pieces[n].fresh}}
  <2>5. Fresh = UNION {F(k) : k \in DOMAIN chunks}
    BY DEF Fresh
  <2>6. ASSUME NEW x \in Fresh
        PROVE  x \in New(chunks, <<>>)
    <3>1. PICK k \in DOMAIN chunks : x \in F(k)
      BY <2>5
    <3>2. PICK n \in DOMAIN chunks[k].pieces : x = <<k, n>> /\ chunks[k].pieces[n].fresh
      BY <3>1
    <3>3. k \in 1..Len(chunks) + 1 /\ n \in 1..Len(Row(chunks, <<>>, k))
          /\ Row(chunks, <<>>, k)[n].fresh
      BY <3>2, <2>3, <2>4
    <3> QED
      BY <3>2, <3>3, NewIs
  <2>7. ASSUME NEW x \in New(chunks, <<>>)
        PROVE  x \in Fresh /\ Entry(chunks, <<>>, x) = PieceAt(x)
    <3>1. /\ x = <<x[1], x[2]>> /\ x[1] \in 1..Len(chunks) + 1
          /\ x[2] \in 1..Len(Row(chunks, <<>>, x[1])) /\ Row(chunks, <<>>, x[1])[x[2]].fresh
      BY NewIs
    <3>2. x[1] # Len(chunks) + 1
      BY <3>1, <2>4
    <3>3. x[1] \in 1..Len(chunks)
      BY <3>1, <3>2, <2>3
    <3>4. x[2] \in DOMAIN chunks[x[1]].pieces /\ chunks[x[1]].pieces[x[2]].fresh
      BY <3>1, <3>3, <2>3, <2>4
    <3>5. x \in F(x[1])
      BY <3>1, <3>4
    <3>6. x \in Fresh
      BY <3>3, <3>5, <2>3, <2>5
    <3>7. Entry(chunks, <<>>, x) = PieceAt(x)
      BY <3>3, <2>4 DEF Entry, PieceAt
    <3> QED
      BY <3>6, <3>7
  <2>8. Fresh = New(chunks, <<>>) /\ \A x \in Fresh : Entry(chunks, <<>>, x) = PieceAt(x)
    BY <2>6, <2>7
  <2>9. \A i \in Filled(1, Len(Lines)) \ (lost \cup Breaks) :
          \E x \in Fresh : PieceAt(x).from <= i /\ i <= PieceAt(x).to
    <3>1. ASSUME NEW i \in Filled(1, Len(Lines)) \ (lost \cup Breaks)
          PROVE  Has(chunks, <<>>, i)
      BY <2>2 DEF Kept, Waits
    <3> QED
      BY <3>1, <2>8 DEF Has
  <2>10. \A x \in Fresh : \A c \in 1..TextChars(PieceAt(x).from, PieceAt(x).to) :
           \E y \in Fresh : /\ PieceAt(y).from = PieceAt(x).from
                           /\ PieceAt(y).first <= c /\ c <= PieceAt(y).last
    BY <2>2, <2>8 DEF TextOK
  <2>11. \A x, y \in Fresh : Earlier(x, y) => Before(PieceAt(x), PieceAt(y))
    BY <2>2, <2>8 DEF TextOK
  <2> QED
    BY <2>9, <2>10, <2>11 DEF NothingLost, Before
<1> QED
  BY <1>1, PipelineInit, PipelineStep, TextInit, TextStep, PTL DEF Spec
=============================================================================
