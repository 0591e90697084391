----------------------------- MODULE Retrieval -----------------------------
(***************************************************************************)
(* Hybrid retrieval (app/rag/retrieval/hybrid.py) and the tool the agent     *)
(* calls (app/tools/documentation/search.py), searching while documents are  *)
(* ingested.  A search reads the store twice, once per channel, and other    *)
(* requests write in between; each channel may fail alone.  A query is what  *)
(* the store and the embedder make of it: the chunks by falling cosine       *)
(* similarity, those with similarity enough, the texts with some and those   *)
(* with every word of it, the lexical rank, and the documents its filters    *)
(* admit.                                                                    *)
(***************************************************************************)
EXTENDS Ingestion, Lists

CONSTANTS
  Readers,        \* searches in progress at once
  Queries,        \* [nearest, near, some, every, lexical, scope]
  TopK, Alpha     \* top_k of the tool; retrieval_hybrid_alpha in hundredths

Elements(s) == {s[i] : i \in DOMAIN s}
NoRepeat(s) == \A i, j \in DOMAIN s : s[i] = s[j] => i = j
First(s, n) == SubSeq(s, 1, IF Len(s) < n THEN Len(s) ELSE n)

RrfK == 60
ChannelLimit == IF 2 * TopK > TopK + 4 THEN 2 * TopK ELSE TopK + 4

ASSUME RetrievalAssumption ==
  /\ Queries \subseteq [nearest : Seq(Chunks), near : SUBSET Chunks,
                        some : SUBSET Texts, every : SUBSET Texts, lexical : Seq(Chunks),
                        scope : SUBSET Docs]
  /\ \A q \in Queries : NoRepeat(q.nearest) /\ NoRepeat(q.lexical)
       /\ {c \in Chunks : c[2] \in q.some \cup q.every} \subseteq Elements(q.lexical)
  /\ TopK \in Nat \ {0} /\ Alpha \in 0..100

VARIABLES
  stage,       \* of each search: idle, vector, keyword, done, failed
  query,
  byVector, byKeyword,    \* what each channel returned
  passages,    \* what the search returned
  lexicalOk,   \* history: the keyword channel answered
  stable,      \* history: the chunks indexed, with all their rows, ever since it began
  seen         \* history: the chunks indexed at some time since then

search == <<stage, query, byVector, byKeyword, passages, lexicalOk>>
history == <<stable, seen>>
allVars == <<vars, search, history>>

Whole == {c \in Indexed : c[1] \notin damaged}
AnyQuery == CHOOSE q \in Queries : TRUE

NoSearch ==
  /\ stage = [r \in Readers |-> "idle"] /\ query = [r \in Readers |-> AnyQuery]
  /\ byVector = [r \in Readers |-> <<>>] /\ byKeyword = [r \in Readers |-> <<>>]
  /\ passages = [r \in Readers |-> <<>>] /\ lexicalOk = [r \in Readers |-> FALSE]
  /\ stable = [r \in Readers |-> {}] /\ seen = [r \in Readers |-> {}]

-----------------------------------------------------------------------------
(* Reciprocal rank fusion *)

RankIn(s, c) == IF c \in Elements(s) THEN CHOOSE i \in DOMAIN s : s[i] = c ELSE 0

\* Mutant: a channel without the chunk counts as if it came first.
ScoreAbsent(v, k, c) ==
  LET rv == RankIn(v, c)
      rk == RankIn(k, c)
  IN [num |-> Alpha * (RrfK + rk) + (100 - Alpha) * (RrfK + rv), den |-> (RrfK + rv) * (RrfK + rk)]
\* alpha/(k + rank) + (1 - alpha)/(k + rank), a missing rank contributing nothing,
\* as a numerator over a denominator.
Score(v, k, c) ==
  LET rv == RankIn(v, c)
      rk == RankIn(k, c)
      wv == IF rv = 0 THEN 0 ELSE Alpha
      wk == IF rk = 0 THEN 0 ELSE 100 - Alpha
  IN [num |-> wv * (RrfK + rk) + wk * (RrfK + rv), den |-> (RrfK + rv) * (RrfK + rk)]

\* Chunks are scored in this order, and the sort keeps it among equals.
Scored(v, k) == v \o Only(k, Elements(k) \ Elements(v))

Beats(v, k, b, c) ==
  LET sb == Score(v, k, b)
      sc == Score(v, k, c)
      order == Scored(v, k)
  IN \/ sb.num * sc.den > sc.num * sb.den
     \/ sb.num * sc.den = sc.num * sb.den /\ RankIn(order, b) < RankIn(order, c)

Fusion(v, k) ==
  LET all == Elements(v) \cup Elements(k)
      order == {p \in all \X all : Beats(v, k, p[1], p[2])}
  IN First(Ranked(all, order), TopK)

\* Mutant: nothing without the vector channel.
CombineVectorFirst(q, v, k) ==
  IF k = <<>> \/ v = <<>> THEN First(Only(v, q.near), TopK) ELSE Fusion(v, k)
\* One channel alone: near enough by vector, or the lexical order.
Combine(q, v, k) ==
  IF k = <<>> THEN First(Only(v, q.near), TopK)
  ELSE IF v = <<>> THEN First(k, TopK)
  ELSE Fusion(v, k)

-----------------------------------------------------------------------------
(* A search *)

Ask(r, q) ==
  /\ server = "up" /\ stage[r] \in {"idle", "done", "failed"}
  /\ stage' = [stage EXCEPT ![r] = "vector"]
  /\ query' = [query EXCEPT ![r] = q]
  /\ byVector' = [byVector EXCEPT ![r] = <<>>]
  /\ byKeyword' = [byKeyword EXCEPT ![r] = <<>>]
  /\ passages' = [passages EXCEPT ![r] = <<>>]
  /\ lexicalOk' = [lexicalOk EXCEPT ![r] = FALSE]
  /\ stable' = [stable EXCEPT ![r] = Whole]
  /\ seen' = [seen EXCEPT ![r] = Indexed]
  /\ UNCHANGED vars

\* The tool answers an empty query with an error.
AskBlank(r) ==
  /\ server = "up" /\ stage[r] \in {"idle", "done"}
  /\ stage' = [stage EXCEPT ![r] = "failed"]
  /\ passages' = [passages EXCEPT ![r] = <<>>]
  /\ UNCHANGED <<vars, query, byVector, byKeyword, lexicalOk, history>>

\* embed_query, then vector_search; whatever fails, the channel returns nothing.
VectorChannel(r) ==
  /\ stage[r] = "vector"
  /\ \/ LET ds == query[r].scope IN
        /\ VectorSearch(ds) /\ UNCHANGED <<server, model, task, damaged>>
        /\ IF DimensionsFit(model, ds)
           THEN byVector' = [byVector EXCEPT ![r] =
                  Only(First(Only(query[r].nearest, Rows(Loaded(ds))), ChannelLimit),
                       VectorHits(ds))]
           ELSE UNCHANGED byVector
     \/ UNCHANGED <<vars, byVector>>
  /\ stage' = [stage EXCEPT ![r] = "keyword"]
  /\ UNCHANGED <<query, byKeyword, passages, lexicalOk, history>>

\* keyword_search: by lexical rank, except that a scan returns rows as they come.
Lexical(r) ==
  LET q == query[r]
      hits == KeywordHits(q.some, q.every, q.scope)
      scan == backend \in Sqlite
              /\ (backend = "sqlite_like" \/ Matching(fts \cap Indexed, q.some, q.scope) = {})
  IN {First(s, ChannelLimit) :
        s \in IF scan THEN {t \in [1..Cardinality(hits) -> hits] : Elements(t) = hits}
              ELSE {Only(q.lexical, hits)}}

KeywordChannel(r) ==
  /\ stage[r] = "keyword"
  /\ \/ /\ \E s \in Lexical(r) : byKeyword' = [byKeyword EXCEPT ![r] = s]
        /\ lexicalOk' = [lexicalOk EXCEPT ![r] = TRUE]
     \/ UNCHANGED <<byKeyword, lexicalOk>>
  /\ passages' = [passages EXCEPT ![r] = Combine(query[r], byVector[r], byKeyword'[r])]
  /\ stage' = [stage EXCEPT ![r] = "done"]
  /\ byVector' = [byVector EXCEPT ![r] = <<>>]
  /\ stable' = [stable EXCEPT ![r] = {}] /\ seen' = [seen EXCEPT ![r] = {}]
  /\ UNCHANGED <<vars, query>>

Reading(r) == stage[r] \in {"vector", "keyword"}

\* The tables outlive the process, its searches do not.
SearchesDie ==
  /\ stage' = [r \in Readers |-> "idle"] /\ query' = [r \in Readers |-> AnyQuery]
  /\ byVector' = [r \in Readers |-> <<>>] /\ byKeyword' = [r \in Readers |-> <<>>]
  /\ passages' = [r \in Readers |-> <<>>] /\ lexicalOk' = [r \in Readers |-> FALSE]
  /\ stable' = [r \in Readers |-> {}] /\ seen' = [r \in Readers |-> {}]

\* What ingestion does while searches are in progress.
Meanwhile ==
  IF server' = "down" /\ server # "down"
  THEN SearchesDie
  ELSE /\ UNCHANGED search
       /\ stable' = [r \in Readers |-> IF Reading(r) THEN stable[r] \cap Whole' ELSE stable[r]]
       /\ seen' = [r \in Readers |-> IF Reading(r) THEN seen[r] \cup Indexed' ELSE seen[r]]

RetrievalNext ==
  \/ Next /\ Meanwhile
  \/ \E r \in Readers :
       \/ \E q \in Queries : Ask(r, q)
       \/ AskBlank(r) \/ VectorChannel(r) \/ KeywordChannel(r)

RetrievalSpec == Init /\ NoSearch /\ [][RetrievalNext]_allVars

-----------------------------------------------------------------------------
(* Properties *)

Answers(r) == stage[r] = "keyword" /\ stage'[r] = "done"

\* No search returns a passage twice, none that its filters do not admit, and none that
\* was not indexed at some moment of the search, whatever was re-ingested between its
\* channels, however stale the cached matrix is and whatever the search that filled it
\* asked for.
Admitted(q, cs) == {c \in cs : c[1] \in q.scope}
FoundInStore ==
  [][\A r \in Readers : Answers(r) =>
       /\ Elements(passages'[r]) \subseteq Admitted(query[r], seen[r])
       /\ Cardinality(Elements(passages'[r])) = Len(passages'[r])]_allVars

\* A passage that its filters admit, that was indexed throughout the search and that holds
\* a word of the query (pgvector: every word of it) is found whenever the keyword channel
\* answers, even if the vector channel failed or another document was being replaced,
\* unless a delete was cut short or the limit cut it off.
Asked(q) == IF backend = "pgvector" THEN q.every ELSE q.some
StableFound ==
  [][\A r \in Readers : Answers(r) /\ lexicalOk'[r] =>
       \/ {c \in Admitted(query[r], stable[r]) : c[2] \in Asked(query[r])}
            \subseteq Elements(passages'[r])
       \/ Len(byKeyword'[r]) = ChannelLimit \/ Len(passages'[r]) = TopK]_allVars

\* Fusion respects both rankings: a passage that neither channel puts behind another
\* one, and that some channel puts ahead of it, is returned before it.
Ahead(s, a, b) == RankIn(s, a) # 0 /\ (RankIn(s, b) = 0 \/ RankIn(s, a) < RankIn(s, b))
RespectsBoth(v, k, s) ==
  \A a \in Elements(v) \cup Elements(k), b \in Elements(s) :
    /\ Ahead(v, a, b) \/ Ahead(k, a, b)
    /\ ~Ahead(v, b, a) /\ ~Ahead(k, b, a)
    => Ahead(s, a, b)
FusedByRank ==
  [][\A r \in Readers : Answers(r) /\ byVector[r] # <<>> /\ byKeyword'[r] # <<>> =>
       RespectsBoth(byVector[r], byKeyword'[r], passages'[r])]_allVars
=============================================================================
