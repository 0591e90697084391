--------------------------- MODULE DocumentStore ---------------------------
(***************************************************************************)
(* The vector stores (app/db): SqliteVectorStore, with or without FTS5, and *)
(* PgVectorStore behind one interface.  A chunk is a text of a document: its *)
(* id is a digest of the document, the position and the text, so a text here *)
(* stands for a text at its position.  A chunk row and its embedding row are *)
(* written in one transaction and deleted by one cascade, so they are one    *)
(* entry of vectors; the full-text rows and the cached matrix have no        *)
(* foreign key.                                                              *)
(* SQLite serialises the operations with a lock and PostgreSQL runs each as  *)
(* a transaction, so an operation is one step, except that SQLite commits    *)
(* the three statements of a delete one by one.                              *)
(***************************************************************************)
EXTENDS Naturals, FiniteSets

CONSTANTS
  Docs, Texts,     \* document ids; texts of chunks
  Models, Dim,     \* embedding models; the dimensions of their vectors
  IndexDim,        \* dimensions the pgvector column is declared with
  Backends         \* what the settings may resolve to

Absent == "absent"
Chunks == Docs \X Texts
\* A matrix without rows is never cached, so it stands for no matrix.
NoMatrix == [c \in Chunks |-> Absent]
Sqlite == {"sqlite", "sqlite_like"}
Statements == 0..3     \* of delete_document: full-text rows, chunks, document row

ASSUME StoreAssumption ==
  /\ IsFiniteSet(Docs) /\ IsFiniteSet(Texts)
  /\ Backends \subseteq Sqlite \cup {"pgvector"}
  /\ Absent \notin Models
  /\ Dim \in [Models -> Nat] /\ IndexDim \in Nat

VARIABLES
  backend,      \* the store build_vector_store made
  documents,    \* the rows of documents
  vectors,      \* by chunk: the model that embedded it, if its rows exist
  fts,          \* the rows of chunk_fts
  matrix        \* _matrix and _matrix_ids

tables == <<documents, vectors, fts>>
store == <<backend, tables, matrix>>

StoreTypeOK ==
  /\ backend \in Backends
  /\ documents \subseteq Docs
  /\ vectors \in [Chunks -> Models \cup {Absent}]
  /\ fts \subseteq Chunks
  /\ matrix \in [Chunks -> Models \cup {Absent}]

Rows(table) == {c \in Chunks : table[c] # Absent}
Indexed == Rows(vectors)
ChunksOf(d) == {c \in Indexed : c[1] = d}
TextsOf(d) == {c[2] : c \in ChunksOf(d)}

StoreInit ==
  /\ backend \in Backends
  /\ documents = {} /\ vectors = NoMatrix /\ fts = {} /\ matrix = NoMatrix

-----------------------------------------------------------------------------
(* Writes *)

UpsertDocument(d) ==
  /\ documents' = documents \cup {d}
  /\ UNCHANGED <<backend, vectors, fts, matrix>>

\* The foreign key of document_chunks, and the width of the pgvector column.
PgAccepts(m) == Dim[m] = IndexDim
\* Mutant: the foreign key is not enforced.
AcceptsOrphans(cs, m) == backend = "pgvector" => PgAccepts(m)
Accepts(cs, m) ==
  /\ \A c \in cs : c[1] \in documents
  /\ backend = "pgvector" => PgAccepts(m)

\* Mutant: the upsert replaces the table.
UpsertRowsAlone(cs, m) == vectors' = [c \in cs |-> m]
\* One transaction: all rows or none.
UpsertRows(cs, m) == vectors' = [c \in Chunks |-> IF c \in cs THEN m ELSE vectors[c]]

\* Mutant: the write does not invalidate the matrix.
SqliteUpsertChunksStale(cs, m) ==
  /\ backend \in Sqlite
  /\ UpsertRows(cs, m)
  /\ fts' = IF backend = "sqlite" THEN fts \cup cs ELSE fts
  /\ UNCHANGED <<backend, documents, matrix>>
SqliteUpsertChunks(cs, m) ==
  /\ backend \in Sqlite
  /\ UpsertRows(cs, m)
  /\ fts' = IF backend = "sqlite" THEN fts \cup cs ELSE fts
  /\ matrix' = NoMatrix
  /\ UNCHANGED <<backend, documents>>

PgUpsertChunks(cs, m) ==
  /\ backend = "pgvector"
  /\ UpsertRows(cs, m)
  /\ UNCHANGED <<backend, documents, fts, matrix>>

UpsertChunks(cs, m) ==
  /\ Accepts(cs, m)
  /\ SqliteUpsertChunks(cs, m) \/ PgUpsertChunks(cs, m)

\* Mutant: the chunks are deleted before their full-text rows.
DeleteStatementsDetached(d, k) ==
  /\ vectors' = IF k >= 1 THEN [c \in Chunks |-> IF c[1] = d THEN Absent ELSE vectors[c]]
                ELSE vectors
  /\ fts' = IF k >= 2 THEN fts \ ChunksOf(d) ELSE fts
  /\ documents' = IF k = 3 THEN documents \ {d} ELSE documents
  /\ UNCHANGED backend
\* The first k statements of SQLite's delete, each of them committed.
DeleteStatements(d, k) ==
  /\ fts' = IF k >= 1 THEN fts \ ChunksOf(d) ELSE fts
  /\ vectors' = IF k >= 2 THEN [c \in Chunks |-> IF c[1] = d THEN Absent ELSE vectors[c]]
                ELSE vectors
  /\ documents' = IF k = 3 THEN documents \ {d} ELSE documents
  /\ UNCHANGED backend

SqliteDeleteDocument(d) ==
  /\ backend \in Sqlite
  /\ DeleteStatements(d, 3)
  /\ matrix' = NoMatrix

\* A statement fails, and the exception leaves the matrix as it is.
SqliteDeleteFails(d, k) ==
  /\ backend \in Sqlite /\ k < 3
  /\ DeleteStatements(d, k)
  /\ UNCHANGED matrix

\* One transaction, which cascades to the chunks and their embeddings.
PgDeleteDocument(d) ==
  /\ backend = "pgvector"
  /\ DeleteStatements(d, 3)
  /\ UNCHANGED matrix

DeleteDocument(d) == SqliteDeleteDocument(d) \/ PgDeleteDocument(d)

-----------------------------------------------------------------------------
(* Reads *)

CountChunks == Cardinality(Indexed)

\* _load_matrix: the cache serves unfiltered searches; nothing is cached while
\* the index is empty.  ds are the documents a filter admits.
Unfiltered(ds) == ds = Docs
Cached(ds) == Unfiltered(ds) /\ matrix # NoMatrix
Loaded(ds) ==
  IF Cached(ds) THEN matrix
  ELSE [c \in Chunks |-> IF c[1] \in ds THEN vectors[c] ELSE Absent]
LoadMatrix(ds) ==
  /\ matrix' = IF Unfiltered(ds) /\ Rows(Loaded(ds)) # {} THEN Loaded(ds) ELSE matrix
  /\ UNCHANGED <<backend, tables>>

\* The rows are padded to the widest vector, and the query must have its width.
Width(table) == CHOOSE n \in {Dim[table[c]] : c \in Rows(table)} :
                  \A c \in Rows(table) : Dim[table[c]] <= n

SqliteDimensionsFit(m, ds) ==
  Rows(Loaded(ds)) = {} \/ Dim[m] = Width(Loaded(ds))
\* Mutant: they are returned.
SqliteVectorHitsUnjoined(ds) == Rows(Loaded(ds))
\* Ids of the matrix whose chunk is gone are skipped.
SqliteVectorHits(ds) == Rows(Loaded(ds)) \cap Indexed

PgDimensionsFit(m) == Dim[m] = IndexDim
PgVectorHits(ds) == {c \in Indexed : c[1] \in ds}

DimensionsFit(m, ds) ==
  IF backend = "pgvector" THEN PgDimensionsFit(m) ELSE SqliteDimensionsFit(m, ds)
VectorHits(ds) == IF backend = "pgvector" THEN PgVectorHits(ds) ELSE SqliteVectorHits(ds)

VectorSearch(ds) ==
  IF backend = "pgvector" THEN UNCHANGED store ELSE LoadMatrix(ds)

\* The chunks of ds that hold one of the texts.
Matching(cs, texts, ds) == {c \in cs : c[1] \in ds /\ c[2] \in texts}
\* SQLite ORs the terms: full-text rows joined with their chunks; a scan of the chunks
\* if there is none.
SqliteKeywordHits(some, ds) ==
  LET hits == Matching(fts \cap Indexed, some, ds)
  IN IF backend = "sqlite" /\ hits # {} THEN hits ELSE Matching(Indexed, some, ds)
\* websearch_to_tsquery ANDs them.
PgKeywordHits(every, ds) == Matching(Indexed, every, ds)

\* some: the texts with some word of the query; every: those with every word of it.
KeywordHits(some, every, ds) ==
  IF backend = "pgvector" THEN PgKeywordHits(every, ds) ELSE SqliteKeywordHits(some, ds)

\* close, or the end of the process: the tables stay.
ForgetMatrix == matrix' = NoMatrix
=============================================================================
