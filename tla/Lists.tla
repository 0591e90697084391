------------------------------- MODULE Lists -------------------------------
(* Sorting, filtering and adding up, as SetToSortSeq, SelectSeq and FoldSeq  *)
(* do it, without the recursive operators that a proof cannot expand.  An    *)
(* order is a set of pairs.                                                  *)
EXTENDS Naturals, FiniteSets, Sequences

\* How many elements of S the order R puts before x.
Rank(S, R, x) == Cardinality({y \in S : <<y, x>> \in R})

\* The elements of S in the order R, a strict total order on S.
Ranked(S, R) == [n \in 1..Cardinality(S) |-> CHOOSE x \in S : Rank(S, R, x) = n - 1]

Ascending(S) == Ranked(S, {p \in S \X S : p[1] < p[2]})

\* The elements of s that are in S, in their order.
Only(s, S) ==
  LET at == Ascending({i \in DOMAIN s : s[i] \in S})
  IN [n \in DOMAIN at |-> s[at[n]]]

\* The sum of a sequence of numbers.
Total(s) ==
  LET upTo[k \in 0..Len(s)] == IF k = 0 THEN 0 ELSE upTo[k - 1] + s[k]
  IN upTo[Len(s)]
=============================================================================
