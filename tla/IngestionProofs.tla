-------------------------- MODULE IngestionProofs --------------------------
(* Theorems about Ingestion for every set of documents, texts, models, tasks *)
(* and requests, on every backend.                                           *)
EXTENDS Ingestion, SequenceTheorems, FiniteSetTheorems, TLAPS

-----------------------------------------------------------------------------
(* Types *)

\* A busy task has a current document, and a queue without it.
LEMMA QueueTyped ==
  ASSUME TypeOK, NEW t \in Workers, Busy(t)
  PROVE  Current(t) \in Docs /\ Tail(queue[t]) \in Seq(Docs)
<1>1. queue[t] \in Seq(Docs) /\ queue[t] # <<>>
  BY DEF TypeOK, Busy
<1> QED  BY <1>1, HeadTailProperties DEF Current

\* The chunks a task writes are chunks of its document.
LEMMA ParsedTyped ==
  ASSUME TypeOK, NEW t \in Workers, Busy(t), version[t] \in Versions
  PROVE  Parsed(t) \subseteq Chunks
BY QueueTyped, IngestionAssumption DEF IngestionAssumption, Parsed, Chunks

\* Boot is a worker, and no request.
LEMMA BootWorker == Boot \in Workers /\ Boot \notin Tasks /\ Tasks \subseteq Workers
BY IngestionAssumption DEF IngestionAssumption, Workers

LEMMA InitTyped == Init => TypeOK
<1> SUFFICES ASSUME Init PROVE TypeOK  OBVIOUS
<1>1. StoreTypeOK
  <2>1. backend \in Backends /\ documents = {} /\ vectors = NoMatrix /\ fts = {} /\ matrix = NoMatrix
    BY DEF Init, StoreInit
  <2>2. NoMatrix \in [Chunks -> Models \cup {Absent}]
    BY DEF NoMatrix
  <2> QED  BY <2>1, <2>2 DEF StoreTypeOK
<1>2. queue \in [Workers -> Seq(Docs)] /\ phase \in [Workers -> Phases]
      /\ version \in [Workers -> Versions \cup {Unreadable}]
  BY DEF Init, Idle, Phases
<1> QED  BY <1>1, <1>2 DEF Init, TypeOK

\* The pieces steps are made of keep the types of what they change.
TaskTypeOK ==
  /\ server \in {"down", "starting", "up"}
  /\ queue \in [Workers -> Seq(Docs)]
  /\ phase \in [Workers -> Phases]
  /\ version \in [Workers -> Versions \cup {Unreadable}]

LEMMA NextDocumentTyped ==
  ASSUME TypeOK, NEW t \in Workers, Busy(t), NextDocument(t)
  PROVE  TaskTypeOK'
BY QueueTyped DEF TypeOK, TaskTypeOK, NextDocument, GoTo, Phases

LEMMA AbortTyped ==
  ASSUME TypeOK, NEW t \in Workers, Abort(t)
  PROVE  TaskTypeOK' /\ matrix' \in {matrix, NoMatrix}
<1>1. TaskTypeOK'
  BY DEF TypeOK, TaskTypeOK, Abort, GoTo, Phases
<1>2. matrix' \in {matrix, NoMatrix}
  BY DEF Abort, ForgetMatrix
<1> QED  BY <1>1, <1>2

LEMMA NoMatrixTyped == NoMatrix \in [Chunks -> Models \cup {Absent}]
BY DEF NoMatrix

LEMMA DeleteTyped ==
  ASSUME StoreTypeOK, NEW d \in Docs, NEW k \in Statements, DeleteStatements(d, k),
         matrix' \in {matrix, NoMatrix}
  PROVE  StoreTypeOK'
BY NoMatrixTyped DEF StoreTypeOK, DeleteStatements

LEMMA UpsertTyped ==
  ASSUME StoreTypeOK, StoreAssumption, NEW cs \in SUBSET Chunks, NEW m \in Models,
         UpsertChunks(cs, m)
  PROVE  StoreTypeOK'
BY NoMatrixTyped DEF StoreTypeOK, UpsertChunks, SqliteUpsertChunks, PgUpsertChunks, UpsertRows

LEMMA SearchTyped ==
  ASSUME StoreTypeOK, VectorSearch(Docs)
  PROVE  StoreTypeOK' /\ UNCHANGED <<backend, tables>>
<1>1. Loaded(Docs) \in [Chunks -> Models \cup {Absent}]
  BY DEF StoreTypeOK, Loaded
<1> QED  BY <1>1 DEF StoreTypeOK, VectorSearch, LoadMatrix, store, tables

\* Tables that do not change keep their types.
LEMMA TablesTyped ==
  ASSUME StoreTypeOK, UNCHANGED <<backend, tables>>, matrix' \in {matrix, NoMatrix}
  PROVE  StoreTypeOK'
BY NoMatrixTyped DEF StoreTypeOK, tables

\* A task past its first step has parsed a version, which has text.
PhasesFit ==
  \A t \in Workers : phase[t] # "read" =>
    Busy(t) /\ version[t] \in Versions /\ Content[version[t]] # {}

LEMMA StepTyped ==
  ASSUME TypeOK, PhasesFit, StoreAssumption, [Next]_vars
  PROVE  TypeOK'
<1>0. TypeOK <=> StoreTypeOK /\ TaskTypeOK /\ model \in Models /\ damaged \subseteq Docs
  BY DEF TypeOK, TaskTypeOK
<1>00. TypeOK' <=> StoreTypeOK' /\ TaskTypeOK' /\ model' \in Models /\ damaged' \subseteq Docs
  BY DEF TypeOK, TaskTypeOK
<1> USE <1>0
<1>1. CASE Start
  <2>1. TaskTypeOK'
    BY <1>1, IngestionAssumption, BootWorker DEF IngestionAssumption, Start, TaskTypeOK
  <2> QED  BY <1>00, <1>1, <2>1, TablesTyped DEF Start, store, tables
<1>2. CASE Crash
  <2>1. TaskTypeOK'
    BY <1>2 DEF Crash, TaskTypeOK, Phases
  <2>2. HalfWritten \subseteq Docs
    BY QueueTyped DEF HalfWritten
  <2>3. CASE UNCHANGED tables /\ damaged' = damaged \cup HalfWritten
    <3>1. StoreTypeOK'
      BY <1>2, <2>3, TablesTyped DEF Crash, ForgetMatrix
    <3> QED  BY <1>00, <1>2, <2>1, <2>2, <2>3, <3>1 DEF Crash
  <2>4. ASSUME NEW t \in Workers, NEW k \in Statements, Busy(t), DeleteStatements(Current(t), k),
               damaged' = damaged \cup HalfWritten \cup Torn(Current(t), k)
        PROVE  TypeOK'
    <3>1. Current(t) \in Docs
      BY <2>4, QueueTyped
    <3>2. StoreTypeOK'
      BY <1>2, <2>4, <3>1, DeleteTyped DEF Crash, ForgetMatrix
    <3> QED  BY <1>00, <1>2, <2>1, <2>2, <2>4, <3>1, <3>2 DEF Crash, Torn
  <2> QED  BY <1>2, <2>3, <2>4 DEF Crash
<1>3. CASE Search
  <2>1. StoreTypeOK'
    BY <1>3, SearchTyped DEF Search
  <2> QED  BY <1>00, <1>3, <2>1 DEF Search, TaskTypeOK, task
<1>4. ASSUME NEW t \in Tasks, Request(t) PROVE TypeOK'
  <2>1. TaskTypeOK'
    BY <1>4, IngestionAssumption, BootWorker DEF IngestionAssumption, Request, TaskTypeOK
  <2> QED  BY <1>00, <1>4, <2>1, TablesTyped DEF Request, store, tables
<1>5. ASSUME NEW t \in Workers, Unparsable(t) PROVE TypeOK'
  <2>1. TaskTypeOK' /\ matrix' \in {matrix, NoMatrix}
    BY <1>5, NextDocumentTyped, AbortTyped DEF Unparsable
  <2> QED  BY <1>00, <1>5, <2>1, TablesTyped DEF Unparsable
<1>6. ASSUME NEW t \in Workers, Skip(t) PROVE TypeOK'
  <2>1. TaskTypeOK'
    BY <1>6, NextDocumentTyped DEF Skip
  <2> QED  BY <1>00, <1>6, <2>1, TablesTyped DEF Skip, store, tables
<1>7. ASSUME NEW t \in Workers, Read(t) PROVE TypeOK'
  <2>1. TaskTypeOK'
    BY <1>7 DEF Read, TaskTypeOK, GoTo, Phases
  <2> QED  BY <1>00, <1>7, <2>1, TablesTyped DEF Read, store, tables
<1>8. ASSUME NEW t \in Workers, Delete(t) PROVE TypeOK'
  <2>1. TaskTypeOK'
    BY <1>8 DEF Delete, TaskTypeOK, GoTo, Phases
  <2>2. DeleteStatements(Current(t), 3) /\ matrix' \in {matrix, NoMatrix}
    BY <1>8 DEF Delete, DeleteDocument, SqliteDeleteDocument, PgDeleteDocument
  <2>3. StoreTypeOK'
    BY <1>8, <2>2, QueueTyped, DeleteTyped DEF Delete, Statements
  <2> QED  BY <1>00, <1>8, <2>1, <2>3 DEF Delete
<1>9. ASSUME NEW t \in Workers, DeleteFails(t) PROVE TypeOK'
  <2>1. PICK k \in Statements : SqliteDeleteFails(Current(t), k)
                                /\ damaged' = damaged \cup Torn(Current(t), k)
    BY <1>9 DEF DeleteFails
  <2>2. Current(t) \in Docs
    BY <1>9, QueueTyped DEF DeleteFails
  <2>3. TaskTypeOK' /\ matrix' \in {matrix, NoMatrix}
    BY <1>9, AbortTyped DEF DeleteFails
  <2>4. StoreTypeOK'
    BY <2>1, <2>2, <2>3, DeleteTyped DEF SqliteDeleteFails
  <2> QED  BY <1>00, <1>9, <2>1, <2>2, <2>3, <2>4 DEF DeleteFails, Torn
<1>10. ASSUME NEW t \in Workers, Row(t) PROVE TypeOK'
  <2>1. TaskTypeOK'
    BY <1>10 DEF Row, TaskTypeOK, GoTo, Phases
  <2>2. StoreTypeOK'
    BY <1>10, QueueTyped DEF Row, UpsertDocument, StoreTypeOK
  <2> QED  BY <1>00, <1>10, <2>1, <2>2 DEF Row
<1>11. ASSUME NEW t \in Workers, Index(t) PROVE TypeOK'
  <2>1. TaskTypeOK'
    BY <1>11, NextDocumentTyped DEF Index
  <2>2. Parsed(t) \in SUBSET Chunks
    <3>1. version[t] \in Versions
      BY <1>11 DEF Index, PhasesFit
    <3> QED  BY <1>11, <3>1, ParsedTyped DEF Index
  <2>3. StoreTypeOK'
    BY <1>11, <2>2, UpsertTyped DEF Index
  <2> QED  BY <1>00, <1>11, <2>1, <2>3 DEF Index
<1>12. ASSUME NEW t \in Workers, IndexFails(t) PROVE TypeOK'
  <2>1. TaskTypeOK' /\ matrix' \in {matrix, NoMatrix}
    BY <1>12, AbortTyped DEF IndexFails
  <2> QED  BY <1>00, <1>12, <2>1, TablesTyped, QueueTyped DEF IndexFails
<1>13. ASSUME NEW t \in Workers, StoreFails(t) PROVE TypeOK'
  <2>1. TaskTypeOK' /\ matrix' \in {matrix, NoMatrix}
    BY <1>13, AbortTyped DEF StoreFails
  <2> QED  BY <1>00, <1>13, <2>1, TablesTyped DEF StoreFails
<1>14. CASE UNCHANGED vars
  BY <1>14 DEF vars, store, tables, task, TypeOK, StoreTypeOK
<1> QED
  BY <1>1, <1>2, <1>3, <1>4, <1>5, <1>6, <1>7, <1>8, <1>9, <1>10, <1>11, <1>12, <1>13, <1>14
  DEF Next, Step

LEMMA StepFits ==
  ASSUME TypeOK, PhasesFit, [Next]_vars
  PROVE  PhasesFit'
<1>1. CASE Start
  BY <1>1, BootWorker DEF Start, PhasesFit, Busy, TypeOK
<1>2. CASE Crash
  BY <1>2 DEF Crash, PhasesFit
<1>3. CASE Search
  BY <1>3 DEF Search, PhasesFit, Busy, task
<1>4. ASSUME NEW t \in Tasks, Request(t) PROVE PhasesFit'
  BY <1>4, BootWorker DEF Request, PhasesFit, Busy, TypeOK
<1>5. ASSUME NEW t \in Workers, NextDocument(t) \/ Abort(t) PROVE PhasesFit'
  BY <1>5 DEF NextDocument, Abort, GoTo, PhasesFit, Busy, TypeOK
<1>6. ASSUME NEW t \in Workers, Read(t) PROVE PhasesFit'
  BY <1>6 DEF Read, GoTo, PhasesFit, Busy, TypeOK
<1>7. ASSUME NEW t \in Workers, Delete(t) \/ Row(t) PROVE PhasesFit'
  BY <1>7 DEF Delete, Row, GoTo, PhasesFit, Busy, TypeOK
<1>8. CASE UNCHANGED vars
  BY <1>8 DEF vars, task, PhasesFit, Busy
<1> QED
  BY <1>1, <1>2, <1>3, <1>4, <1>5, <1>6, <1>7, <1>8
  DEF Next, Step, Unparsable, Skip, DeleteFails, StoreFails, Index, IndexFails

-----------------------------------------------------------------------------
(* The store *)

\* What backends do not use is empty: PostgreSQL needs no matrix, and only
\* SQLite with FTS5 has full-text rows.
StoreFit ==
  /\ backend = "pgvector" => matrix = NoMatrix
  /\ backend # "sqlite" => fts = {}

StoreInv == TypeOK /\ StoreFit /\ CacheCoherent /\ FullTextAgrees /\ NoEmptyDocument
StoreKept == StoreFit' /\ CacheCoherent' /\ FullTextAgrees' /\ NoEmptyDocument'

\* Why a document may have no chunks.
Excused(d) ==
  \/ d \in damaged
  \/ \E t \in Workers : Busy(t) /\ phase[t] = "index" /\ Current(t) = d

LEMMA Unstored ==
  ASSUME StoreInv, UNCHANGED <<backend, tables>>, matrix' \in {matrix, NoMatrix},
         damaged \subseteq damaged', \A d \in Docs : Excused(d) => Excused(d)'
  PROVE  StoreKept
<1>1. UNCHANGED <<backend, documents, vectors, fts>> /\ Indexed' = Indexed
  BY DEF tables, Indexed, Rows
<1>2. StoreFit' /\ CacheCoherent'
  BY <1>1 DEF StoreInv, StoreFit, CacheCoherent, Chunks
<1>3. FullTextAgrees'
  BY <1>1 DEF StoreInv, FullTextAgrees, Indexed, Rows, Chunks
<1>4. NoEmptyDocument'
  BY <1>1 DEF StoreInv, NoEmptyDocument, Excused, ChunksOf, TypeOK, StoreTypeOK
<1> QED  BY <1>2, <1>3, <1>4 DEF StoreKept

\* A delete of SQLite that went as far as its k-th statement, or a whole one.
LEMMA Deleted ==
  ASSUME StoreInv, NEW d \in Docs, NEW k \in Statements, DeleteStatements(d, k),
         \/ matrix' = NoMatrix
         \/ matrix' = matrix /\ (k < 3 \/ backend = "pgvector"),
         damaged \ {d} \subseteq damaged',
         k < 3 => d \notin damaged \/ d \in damaged', k \in {1, 2} => d \in damaged',
         \A e \in Docs : (e # d \/ k < 3) /\ Excused(e) => Excused(e)'
  PROVE  StoreKept
<1>1. /\ fts' = IF k >= 1 THEN fts \ ChunksOf(d) ELSE fts
      /\ vectors' = IF k >= 2 THEN [c \in Chunks |-> IF c[1] = d THEN Absent ELSE vectors[c]]
                    ELSE vectors
      /\ documents' = IF k = 3 THEN documents \ {d} ELSE documents
      /\ backend' = backend
  BY DEF DeleteStatements
<1>2. k \in {0, 1, 2, 3} /\ (k >= 1 <=> k # 0) /\ (k >= 2 <=> k \in {2, 3}) /\ (k < 3 <=> k # 3)
  BY DEF Statements
<1>3. \A c \in Chunks : vectors'[c] = IF k \in {2, 3} /\ c[1] = d THEN Absent ELSE vectors[c]
  BY <1>1, <1>2 DEF StoreInv, TypeOK, StoreTypeOK
<1>4. \A c \in Chunks : c \in Indexed' <=> c \in Indexed /\ ~(k \in {2, 3} /\ c[1] = d)
  BY <1>3 DEF Indexed, Rows
<1>5. Indexed' \subseteq Chunks /\ Indexed \subseteq Chunks
  BY DEF Indexed, Rows
<1>6. \A c : c \in ChunksOf(d) <=> c \in Indexed /\ c[1] = d
  BY DEF ChunksOf
<1>7. StoreFit'
  BY <1>1, <1>2 DEF StoreInv, StoreFit
<1>8. CacheCoherent'
  <2>1. CASE matrix' = NoMatrix
    BY <2>1 DEF CacheCoherent, NoMatrix
  <2>2. CASE matrix' = matrix /\ backend = "pgvector"
    BY <2>2 DEF CacheCoherent, NoMatrix, StoreInv, StoreFit
  <2>3. CASE matrix' = matrix /\ k # 3
    <3> SUFFICES ASSUME matrix # NoMatrix, NEW c \in Chunks
                 PROVE  matrix[c] = vectors'[c] \/ (vectors'[c] = Absent /\ c[1] \in damaged')
      BY <2>3 DEF CacheCoherent, NoMatrix
    <3>1. matrix[c] = vectors[c] \/ (vectors[c] = Absent /\ c[1] \in damaged)
      BY DEF StoreInv, CacheCoherent
    <3> QED  BY <1>2, <1>3, <2>3, <3>1
  <2> QED  BY <1>2, <2>1, <2>2, <2>3
<1>9. FullTextAgrees'
  <2>1. fts' \subseteq Indexed'
    BY <1>1, <1>2, <1>4, <1>5, <1>6 DEF StoreInv, FullTextAgrees
  <2>2. ASSUME backend = "sqlite", NEW c \in Indexed' \ fts' PROVE c[1] \in damaged'
    BY <1>1, <1>2, <1>4, <1>5, <1>6, <2>2 DEF StoreInv, FullTextAgrees
  <2> QED  BY <1>1, <2>1, <2>2 DEF FullTextAgrees
<1>10. NoEmptyDocument'
  <2>1. \A c \in Indexed' : c[1] \in documents'
    BY <1>1, <1>2, <1>4, <1>5 DEF StoreInv, NoEmptyDocument
  <2>2. ASSUME NEW e \in documents' PROVE (ChunksOf(e) # {})' \/ Excused(e)'
    <3>1. e \in documents /\ e \in Docs /\ (e # d \/ k # 3)
      BY <1>1, <2>2 DEF StoreInv, TypeOK, StoreTypeOK
    <3>2. CASE k \in {1, 2} /\ e = d
      BY <3>2 DEF Excused
    <3>3. CASE Excused(e)
      BY <1>2, <3>1, <3>3
    <3>4. CASE ~Excused(e) /\ (e # d \/ k = 0)
      <4>1. ChunksOf(e) # {}
        BY <3>1, <3>4 DEF StoreInv, NoEmptyDocument, Excused
      <4>2. PICK c \in Indexed : c[1] = e
        BY <4>1 DEF ChunksOf
      <4>3. c \in Indexed'
        BY <1>4, <1>5, <3>4, <4>2
      <4> QED  BY <4>2, <4>3 DEF ChunksOf
    <3> QED  BY <1>2, <3>1, <3>2, <3>3, <3>4
  <2> QED  BY <2>1, <2>2 DEF NoEmptyDocument, Excused
<1> QED  BY <1>7, <1>8, <1>9, <1>10 DEF StoreKept

LEMMA Upserted ==
  ASSUME StoreInv, StoreAssumption, NEW cs \in SUBSET Chunks, NEW m \in Models, UpsertChunks(cs, m),
         damaged' = damaged,
         \A d \in Docs : Excused(d) => Excused(d)' \/ \E c \in cs : c[1] = d
  PROVE  StoreKept
<1>1. /\ vectors' = [c \in Chunks |-> IF c \in cs THEN m ELSE vectors[c]]
      /\ fts' = IF backend = "sqlite" THEN fts \cup cs ELSE fts
      /\ matrix' = IF backend = "pgvector" THEN matrix ELSE NoMatrix
      /\ backend' = backend /\ documents' = documents
      /\ \A c \in cs : c[1] \in documents
  BY DEF UpsertChunks, SqliteUpsertChunks, PgUpsertChunks, UpsertRows, Accepts, Sqlite
<1>2. m # Absent
  BY DEF StoreAssumption
<1>3. Indexed' = Indexed \cup cs /\ Indexed \subseteq Chunks
  BY <1>1, <1>2 DEF Indexed, Rows
<1>4. matrix' = NoMatrix
  BY <1>1 DEF StoreInv, StoreFit
<1>5. StoreFit' /\ CacheCoherent'
  BY <1>1, <1>4 DEF StoreInv, StoreFit, CacheCoherent
<1>6. FullTextAgrees'
  BY <1>1, <1>3 DEF StoreInv, FullTextAgrees
<1>7. NoEmptyDocument'
  <2>1. \A c \in Indexed' : c[1] \in documents'
    BY <1>1, <1>3 DEF StoreInv, NoEmptyDocument
  <2>2. ASSUME NEW d \in documents' PROVE (ChunksOf(d) # {})' \/ Excused(d)'
    <3>1. d \in documents /\ d \in Docs
      BY <1>1, <2>2 DEF StoreInv, TypeOK, StoreTypeOK
    <3>2. ChunksOf(d) # {} \/ Excused(d)
      BY <3>1 DEF StoreInv, NoEmptyDocument, Excused
    <3>3. (\E c \in cs : c[1] = d) => (ChunksOf(d) # {})'
      BY <1>3 DEF ChunksOf
    <3>4. ChunksOf(d) # {} => (ChunksOf(d) # {})'
      BY <1>3 DEF ChunksOf
    <3> QED  BY <3>1, <3>2, <3>3, <3>4
  <2> QED  BY <2>1, <2>2 DEF NoEmptyDocument, Excused
<1> QED  BY <1>5, <1>6, <1>7 DEF StoreKept

LEMMA Rowed ==
  ASSUME StoreInv, NEW d \in Docs, UpsertDocument(d), damaged' = damaged, Excused(d)',
         \A e \in Docs : Excused(e) => Excused(e)'
  PROVE  StoreKept
<1>1. documents' = documents \cup {d} /\ UNCHANGED <<backend, vectors, fts, matrix>> /\ Indexed' = Indexed
  BY DEF UpsertDocument, Indexed, Rows
<1>2. StoreFit' /\ CacheCoherent' /\ FullTextAgrees'
  BY <1>1 DEF StoreInv, StoreFit, CacheCoherent, FullTextAgrees
<1>3. NoEmptyDocument'
  BY <1>1 DEF StoreInv, NoEmptyDocument, Excused, ChunksOf, TypeOK, StoreTypeOK
<1> QED  BY <1>2, <1>3 DEF StoreKept

LEMMA Searched ==
  ASSUME StoreInv, VectorSearch(Docs), UNCHANGED <<damaged, task>>
  PROVE  StoreKept
<1>1. UNCHANGED <<backend, documents, vectors, fts>> /\ Indexed' = Indexed
  BY DEF VectorSearch, LoadMatrix, store, tables, Indexed, Rows
<1>2. FullTextAgrees' /\ NoEmptyDocument'
  BY <1>1 DEF StoreInv, FullTextAgrees, NoEmptyDocument, ChunksOf, task, Busy, Current
<1>3. matrix' \in {matrix, vectors}
  <2>1. [c \in Chunks |-> IF c[1] \in Docs THEN vectors[c] ELSE Absent] = vectors
    BY DEF StoreInv, TypeOK, StoreTypeOK, Chunks
  <2>2. Loaded(Docs) \in {matrix, vectors}
    BY <2>1 DEF Loaded
  <2> QED  BY <2>2 DEF VectorSearch, LoadMatrix, store
<1>4. backend = "pgvector" => matrix' = matrix
  BY DEF VectorSearch, store
<1>5. StoreFit' /\ CacheCoherent'
  BY <1>1, <1>3, <1>4 DEF StoreInv, StoreFit, CacheCoherent
<1> QED  BY <1>2, <1>5 DEF StoreKept

-----------------------------------------------------------------------------
(* The inductive invariant *)

\* Requests are served once the service is up, and seeds only while it starts.
ServerFit ==
  /\ server # "up" => \A t \in Tasks : ~Busy(t)
  /\ server # "starting" => ~Busy(Boot)

IInv == StoreInv /\ PhasesFit /\ ServerFit

LEMMA InitInv == Init => IInv
<1> SUFFICES ASSUME Init PROVE IInv  OBVIOUS
<1>1. documents = {} /\ vectors = NoMatrix /\ fts = {} /\ matrix = NoMatrix
      /\ phase = [t \in Workers |-> "read"]
  BY DEF Init, StoreInit, Idle
<1>2. Indexed = {}
  BY <1>1 DEF Indexed, Rows, NoMatrix
<1>3. PhasesFit
  BY <1>1 DEF PhasesFit
<1>4. StoreFit /\ CacheCoherent /\ FullTextAgrees /\ NoEmptyDocument
  BY <1>1, <1>2 DEF StoreFit, CacheCoherent, FullTextAgrees, NoEmptyDocument
<1>5. ServerFit
  BY BootWorker DEF Init, Idle, ServerFit, Busy
<1> QED  BY <1>3, <1>4, <1>5, InitTyped DEF IInv, StoreInv

LEMMA StepServes ==
  ASSUME TypeOK, ServerFit, [Next]_vars
  PROVE  ServerFit'
<1> USE BootWorker
<1>1. CASE Start
  BY <1>1 DEF Start, ServerFit, Busy, TypeOK
<1>2. CASE Crash
  BY <1>2 DEF Crash, ServerFit, Busy
<1>3. CASE Search
  BY <1>3 DEF Search, ServerFit, Busy, task
<1>4. ASSUME NEW t \in Tasks, Request(t) PROVE ServerFit'
  BY <1>4 DEF Request, ServerFit, Busy, TypeOK
<1>5. ASSUME NEW t \in Workers, Busy(t), NextDocument(t) PROVE ServerFit'
  BY <1>5 DEF NextDocument, ServerFit, Busy, TypeOK, Workers
<1>6. ASSUME NEW t \in Workers, Busy(t), Abort(t) PROVE ServerFit'
  BY <1>6 DEF Abort, ServerFit, Busy, TypeOK, Workers
<1>7. ASSUME UNCHANGED <<server, queue>> PROVE ServerFit'
  BY <1>7 DEF ServerFit, Busy
<1> QED
  BY <1>1, <1>2, <1>3, <1>4, <1>5, <1>6, <1>7
  DEF Next, Step, Unparsable, Skip, Read, Delete, DeleteFails, StoreFails, Row, Index, IndexFails, vars,
      task

\* A task that turns away from a document it was not indexing leaves every
\* excuse standing, and so does one that records the document as damaged.
LEMMA TurnsAway ==
  ASSUME TypeOK, NEW t \in Workers, NextDocument(t) \/ Abort(t), damaged \subseteq damaged',
         phase[t] # "index" \/ (Busy(t) => Current(t) \in damaged')
  PROVE  \A d \in Docs : Excused(d) => Excused(d)'
<1> SUFFICES ASSUME NEW d \in Docs, Excused(d) PROVE Excused(d)'  OBVIOUS
<1>1. CASE d \in damaged
  BY <1>1 DEF Excused
<1>2. ASSUME NEW w \in Workers, Busy(w), phase[w] = "index", Current(w) = d
      PROVE  Excused(d)'
  <2>1. CASE w = t
    BY <1>2, <2>1 DEF Excused
  <2>2. CASE w # t
    <3>1. queue'[w] = queue[w] /\ phase'[w] = phase[w]
      BY <2>2 DEF TypeOK, NextDocument, Abort, GoTo
    <3> QED  BY <1>2, <3>1 DEF Excused, Busy, Current
  <2> QED  BY <2>1, <2>2
<1> QED  BY <1>1, <1>2 DEF Excused

\* A task that goes on from another phase leaves every excuse standing.
LEMMA GoesOn ==
  ASSUME TypeOK, NEW t \in Workers, NEW p, GoTo(t, p), queue' = queue, phase[t] # "index",
         damaged \subseteq damaged'
  PROVE  \A d \in Docs : Excused(d) => Excused(d)'
BY DEF TypeOK, GoTo, Excused, Busy, Current

LEMMA CrashKeeps ==
  ASSUME IInv, Crash
  PROVE  StoreKept
<1>1. \A d \in Docs : Excused(d) => d \in damaged \cup HalfWritten
  BY DEF Excused, HalfWritten
<1>2. matrix' = NoMatrix /\ backend' = backend
  BY DEF Crash, ForgetMatrix
<1>3. CASE UNCHANGED tables /\ damaged' = damaged \cup HalfWritten
  <2>1. \A d \in Docs : Excused(d) => Excused(d)'
    BY <1>1, <1>3 DEF Excused
  <2> QED  BY <1>2, <1>3, <2>1, Unstored DEF IInv
<1>4. ASSUME NEW t \in Workers, NEW k \in Statements, Busy(t), DeleteStatements(Current(t), k),
             damaged' = damaged \cup HalfWritten \cup Torn(Current(t), k)
      PROVE  StoreKept
  <2>1. \A d \in Docs : Excused(d) => Excused(d)'
    BY <1>1, <1>4 DEF Excused
  <2>2. Current(t) \in Docs
    BY <1>4, QueueTyped DEF IInv, StoreInv
  <2>3. k \in {1, 2} => Current(t) \in damaged'
    BY <1>4 DEF Torn
  <2> QED  BY <1>2, <1>4, <2>1, <2>2, <2>3, Deleted DEF IInv
<1> QED  BY <1>3, <1>4 DEF Crash

LEMMA DeleteKeeps ==
  ASSUME IInv, NEW t \in Workers, Delete(t)
  PROVE  StoreKept
<1>1. Current(t) \in Docs
  BY QueueTyped DEF Delete, IInv, StoreInv
<1>2. DeleteStatements(Current(t), 3)
  BY DEF Delete, DeleteDocument, SqliteDeleteDocument, PgDeleteDocument
<1>3. matrix' = NoMatrix \/ (matrix' = matrix /\ backend = "pgvector")
  BY DEF Delete, DeleteDocument, SqliteDeleteDocument, PgDeleteDocument
<1>4. damaged' = damaged \ {Current(t)}
  BY DEF Delete
<1>5. \A d \in Docs : d # Current(t) /\ Excused(d) => Excused(d)'
  BY <1>4 DEF Delete, GoTo, Excused, Busy, Current, IInv, StoreInv, TypeOK
<1>6. 3 \in Statements
  BY DEF Statements
<1> QED  BY <1>1, <1>2, <1>3, <1>4, <1>5, <1>6, Deleted DEF IInv

LEMMA DeleteFailsKeeps ==
  ASSUME IInv, NEW t \in Workers, DeleteFails(t)
  PROVE  StoreKept
<1>1. PICK k \in Statements : SqliteDeleteFails(Current(t), k)
                              /\ damaged' = damaged \cup Torn(Current(t), k)
  BY DEF DeleteFails
<1>2. Current(t) \in Docs
  BY QueueTyped DEF DeleteFails, IInv, StoreInv
<1>3. k < 3 /\ DeleteStatements(Current(t), k) /\ matrix' = matrix
  BY <1>1 DEF SqliteDeleteFails
<1>4. k \in {1, 2} => Current(t) \in damaged'
  BY <1>1 DEF Torn
<1>5. \A d \in Docs : Excused(d) => Excused(d)'
  BY <1>1, TurnsAway DEF DeleteFails, IInv, StoreInv
<1> QED  BY <1>1, <1>2, <1>3, <1>4, <1>5, Deleted DEF IInv

LEMMA RowKeeps ==
  ASSUME IInv, NEW t \in Workers, Row(t)
  PROVE  StoreKept
<1>1. PICK d \in Docs : d = Current(t) /\ UpsertDocument(d) /\ damaged' = damaged
  BY QueueTyped DEF Row, IInv, StoreInv
<1>2. \A e \in Docs : Excused(e) => Excused(e)'
  BY GoesOn DEF Row, IInv, StoreInv
<1>3. Excused(d)'
  BY <1>1 DEF Row, GoTo, Excused, Busy, Current, IInv, StoreInv, TypeOK
<1> QED  BY <1>1, <1>2, <1>3, Rowed DEF IInv

LEMMA IndexKeeps ==
  ASSUME IInv, StoreAssumption, NEW t \in Workers, Index(t)
  PROVE  StoreKept
<1>1. Busy(t) /\ version[t] \in Versions /\ Content[version[t]] # {}
  BY DEF Index, IInv, PhasesFit
<1>2. Parsed(t) \in SUBSET Chunks /\ model \in Models /\ damaged' = damaged
  BY <1>1, ParsedTyped DEF Index, IInv, StoreInv, TypeOK
<1>3. \E c \in Parsed(t) : c[1] = Current(t)
  <2>1. PICK text \in Content[version[t]] : TRUE
    BY <1>1
  <2>2. <<Current(t), text>> \in Parsed(t)
    BY DEF Parsed
  <2> QED  BY <2>2
<1>4. ASSUME NEW d \in Docs, Excused(d) PROVE Excused(d)' \/ \E c \in Parsed(t) : c[1] = d
  <2>1. CASE d = Current(t)
    BY <1>3, <2>1
  <2>2. CASE d # Current(t)
    BY <1>2, <1>4, <2>2 DEF Index, NextDocument, GoTo, Excused, Busy, Current, IInv, StoreInv, TypeOK
  <2> QED  BY <2>1, <2>2
<1>5. UpsertChunks(Parsed(t), model)
  BY DEF Index
<1> QED  BY <1>2, <1>4, <1>5, Upserted DEF IInv

LEMMA StepKeeps ==
  ASSUME IInv, StoreAssumption, [Next]_vars
  PROVE  StoreKept
<1>1. TypeOK
  BY DEF IInv, StoreInv
<1>2. CASE Start
  <2>1. \A d \in Docs : Excused(d) => Excused(d)'
    BY <1>1, <1>2, BootWorker DEF Start, IInv, ServerFit, Excused, Busy, Current, TypeOK
  <2> QED  BY <1>2, <2>1, Unstored DEF Start, IInv, store
<1>3. CASE Crash
  BY <1>3, CrashKeeps
<1>4. CASE Search
  BY <1>4, Searched DEF Search, IInv
<1>5. ASSUME NEW t \in Tasks, Request(t) PROVE StoreKept
  <2>1. \A d \in Docs : Excused(d) => Excused(d)'
    BY <1>5, BootWorker DEF Request, IInv, StoreInv, Excused, Busy, Current, TypeOK, PhasesFit
  <2> QED  BY <1>5, <2>1, Unstored DEF Request, IInv, store
<1>6. ASSUME NEW t \in Workers, Unparsable(t) PROVE StoreKept
  <2>1. \A d \in Docs : Excused(d) => Excused(d)'
    BY <1>1, <1>6, TurnsAway DEF Unparsable
  <2>2. matrix' \in {matrix, NoMatrix}
    BY <1>1, <1>6, AbortTyped DEF Unparsable
  <2> QED  BY <1>6, <2>1, <2>2, Unstored DEF Unparsable, IInv
<1>7. ASSUME NEW t \in Workers, Skip(t) PROVE StoreKept
  <2>1. \A d \in Docs : Excused(d) => Excused(d)'
    BY <1>1, <1>7, TurnsAway DEF Skip
  <2> QED  BY <1>7, <2>1, Unstored DEF Skip, IInv, store
<1>8. ASSUME NEW t \in Workers, Read(t) PROVE StoreKept
  <2>1. \A d \in Docs : Excused(d) => Excused(d)'
    BY <1>1, <1>8, GoesOn DEF Read
  <2> QED  BY <1>8, <2>1, Unstored DEF Read, IInv, store
<1>9. ASSUME NEW t \in Workers, IndexFails(t) PROVE StoreKept
  <2>1. \A d \in Docs : Excused(d) => Excused(d)'
    BY <1>1, <1>9, TurnsAway DEF IndexFails
  <2>2. matrix' \in {matrix, NoMatrix}
    BY <1>1, <1>9, AbortTyped DEF IndexFails
  <2> QED  BY <1>9, <2>1, <2>2, Unstored DEF IndexFails, IInv
<1>10. ASSUME NEW t \in Workers, StoreFails(t) PROVE StoreKept
  <2>1. \A d \in Docs : Excused(d) => Excused(d)'
    BY <1>1, <1>10, TurnsAway DEF StoreFails
  <2>2. matrix' \in {matrix, NoMatrix}
    BY <1>1, <1>10, AbortTyped DEF StoreFails
  <2> QED  BY <1>10, <2>1, <2>2, Unstored DEF StoreFails, IInv
<1>11. CASE UNCHANGED vars
  <2>1. \A d \in Docs : Excused(d) => Excused(d)'
    BY <1>11 DEF vars, task, Excused, Busy, Current
  <2> QED  BY <1>11, <2>1, Unstored DEF vars, IInv, store
<1> QED
  BY <1>2, <1>3, <1>4, <1>5, <1>6, <1>7, <1>8, <1>9, <1>10, <1>11,
     DeleteKeeps, DeleteFailsKeeps, RowKeeps, IndexKeeps DEF Next, Step

THEOREM Invariance == Spec => []IInv
<1>1. ASSUME IInv, [Next]_vars PROVE IInv'
  <2>1. TypeOK' /\ PhasesFit' /\ ServerFit'
    BY <1>1, StepTyped, StepFits, StepServes, StoreAssumption DEF IInv, StoreInv
  <2>2. StoreKept
    BY <1>1, StepKeeps, StoreAssumption
  <2> QED  BY <2>1, <2>2 DEF IInv, StoreInv, StoreKept
<1> QED  BY <1>1, InitInv, PTL DEF Spec

\* Every part of the store keeps its type, however tasks interleave and fail.
THEOREM TypeCorrect == Spec => []TypeOK
<1>1. IInv => TypeOK
  BY DEF IInv, StoreInv
<1> QED  BY <1>1, Invariance, PTL

\* A cached matrix is never stale, except for what a failed delete took away.
THEOREM CachesAreCoherent == Spec => []CacheCoherent
<1>1. IInv => CacheCoherent
  BY DEF IInv, StoreInv
<1> QED  BY <1>1, Invariance, PTL

\* The full-text rows are those of the indexed chunks, except where a delete stopped.
THEOREM FullTextIsComplete == Spec => []FullTextAgrees
<1>1. IInv => FullTextAgrees
  BY DEF IInv, StoreInv
<1> QED  BY <1>1, Invariance, PTL

\* A document without chunks is being written or was cut short.
THEOREM NoDocumentIsEmpty == Spec => []NoEmptyDocument
<1>1. IInv => NoEmptyDocument
  BY DEF IInv, StoreInv
<1> QED  BY <1>1, Invariance, PTL

-----------------------------------------------------------------------------
(* Start-up *)

\* What is left to seed is not indexed, and names no document twice.
SeedsLeft ==
  Busy(Boot) =>
    /\ \A i, j \in 1..Len(queue[Boot]) : queue[Boot][i] = queue[Boot][j] => i = j
    /\ \A c \in Indexed, i \in 1..Len(queue[Boot]) : queue[Boot][i] # c[1]

\* The first document of a queue, and the others.
LEMMA HeadAndTail ==
  ASSUME NEW s \in Seq(Docs), s # <<>>
  PROVE  /\ Len(s) \in Nat \ {0} /\ Head(s) = s[1]
         /\ Tail(s) \in Seq(Docs) /\ Len(Tail(s)) = Len(s) - 1
         /\ \A i \in 1..Len(Tail(s)) : i + 1 \in 1..Len(s) /\ Tail(s)[i] = s[i + 1]
<1>1. Len(s) \in Nat \ {0} /\ Head(s) = s[1]
  OBVIOUS
<1>2. Tail(s) \in Seq(Docs) /\ Len(Tail(s)) = Len(s) - 1
      /\ \A i \in 1..Len(Tail(s)) : Tail(s)[i] = s[i + 1]
  BY HeadTailProperties
<1>3. \A i \in 1..Len(Tail(s)) : i + 1 \in 1..Len(s)
  BY <1>1, <1>2
<1> QED  BY <1>1, <1>2, <1>3

\* An index that counts no chunk has none.
LEMMA CountsNone == StoreAssumption /\ ~(CountChunks > 0) => Indexed = {}
<1> SUFFICES ASSUME StoreAssumption, ~(CountChunks > 0) PROVE Indexed = {}  OBVIOUS
<1>1. IsFiniteSet(Chunks)
  BY FS_Product DEF StoreAssumption, Chunks
<1>2. Indexed \in SUBSET Chunks
  BY DEF Indexed, Rows
<1>3. IsFiniteSet(Indexed)
  BY <1>1, <1>2, FS_Subset
<1>4. Cardinality(Indexed) \in Nat
  BY <1>3, FS_CardinalityType
<1>5. Cardinality(Indexed) = 0
  BY <1>4 DEF CountChunks
<1> QED  BY <1>3, <1>5, FS_EmptySet

\* How the chunks of the index change in a step of a task.
LEMMA DeleteRemoves ==
  ASSUME TypeOK, NEW d, NEW k \in Statements, DeleteStatements(d, k)
  PROVE  Indexed' = Indexed \/ Indexed' = Indexed \ ChunksOf(d)
<1>1. CASE vectors' = vectors
  BY <1>1 DEF Indexed, Rows
<1>2. CASE vectors' = [c \in Chunks |-> IF c[1] = d THEN Absent ELSE vectors[c]]
  BY <1>2 DEF Indexed, Rows, ChunksOf
<1> QED  BY <1>1, <1>2 DEF DeleteStatements

LEMMA IndexAdds ==
  ASSUME TypeOK, StoreAssumption, PhasesFit, NEW t \in Workers, Index(t)
  PROVE  Indexed' = Indexed \cup Parsed(t)
<1>1. Parsed(t) \in SUBSET Chunks /\ model \in Models /\ model # Absent
  BY ParsedTyped DEF Index, PhasesFit, TypeOK, StoreAssumption
<1>2. vectors' = [c \in Chunks |-> IF c \in Parsed(t) THEN model ELSE vectors[c]]
  BY DEF Index, UpsertChunks, SqliteUpsertChunks, PgUpsertChunks, UpsertRows
<1> QED  BY <1>1, <1>2 DEF Indexed, Rows

\* No other step changes the index.
IndexKept == Indexed' = Indexed

LEMMA StepIndexes ==
  ASSUME TypeOK, [Next]_vars
  PROVE  \/ IndexKept
         \/ \E t \in Workers : Index(t)
         \/ \E t \in Workers : (phase[t] = "delete" /\ Busy(t)) /\ (Delete(t) \/ DeleteFails(t) \/ Crash)
                               /\ Indexed' = Indexed \ ChunksOf(Current(t))
<1>0. vectors' = vectors => IndexKept
  BY DEF IndexKept, Indexed, Rows
<1>1. CASE Start
  BY <1>0, <1>1 DEF Start, store, tables
<1>2. CASE Crash
  BY <1>0, <1>2, DeleteRemoves DEF Crash, tables, IndexKept
<1>3. CASE Search
  BY <1>0, <1>3 DEF Search, VectorSearch, LoadMatrix, store, tables
<1>4. ASSUME NEW t \in Tasks, Request(t) PROVE IndexKept
  BY <1>0, <1>4 DEF Request, store, tables
<1>5. ASSUME NEW t \in Workers, \/ Unparsable(t) \/ Skip(t) \/ Read(t) \/ Row(t)
                                \/ IndexFails(t) \/ StoreFails(t)
      PROVE  IndexKept
  BY <1>0, <1>5 DEF Unparsable, Skip, Read, Row, IndexFails, StoreFails, UpsertDocument, store,
     tables
<1>6. ASSUME NEW t \in Workers, Delete(t)
      PROVE  IndexKept \/ Indexed' = Indexed \ ChunksOf(Current(t))
  BY <1>6, DeleteRemoves DEF Delete, DeleteDocument, SqliteDeleteDocument, PgDeleteDocument,
     Statements, IndexKept
<1>7. ASSUME NEW t \in Workers, DeleteFails(t)
      PROVE  IndexKept \/ Indexed' = Indexed \ ChunksOf(Current(t))
  BY <1>7, DeleteRemoves DEF DeleteFails, SqliteDeleteFails, IndexKept
<1>8. CASE UNCHANGED vars
  BY <1>0, <1>8 DEF vars, store, tables
<1> QED
  BY <1>1, <1>2, <1>3, <1>4, <1>5, <1>6, <1>7, <1>8 DEF Next, Step, Delete, DeleteFails

\* How the seeds that are left change.
LEMMA BootQueue ==
  ASSUME TypeOK, [Next]_vars
  PROVE  \/ queue'[Boot] = queue[Boot] \/ queue'[Boot] = <<>>
         \/ Busy(Boot) /\ queue'[Boot] = Tail(queue[Boot])
         \/ Start /\ Indexed' = Indexed /\ queue'[Boot] = Seeds /\ ~(CountChunks > 0)
<1> USE BootWorker
<1>1. CASE Start
  BY <1>1 DEF Start, TypeOK, Indexed, Rows, store, tables
<1>2. CASE Crash
  BY <1>2 DEF Crash
<1>3. ASSUME NEW t \in Tasks, Request(t) PROVE queue'[Boot] = queue[Boot]
  BY <1>3 DEF Request, TypeOK
<1>4. ASSUME NEW t \in Workers, Busy(t), NextDocument(t)
      PROVE  queue'[Boot] = queue[Boot] \/ (Busy(Boot) /\ queue'[Boot] = Tail(queue[Boot]))
  BY <1>4 DEF NextDocument, TypeOK
<1>5. ASSUME NEW t \in Workers, Abort(t)
      PROVE  queue'[Boot] = queue[Boot] \/ queue'[Boot] = <<>>
  BY <1>5 DEF Abort, TypeOK
<1>6. ASSUME UNCHANGED queue PROVE queue'[Boot] = queue[Boot]
  BY <1>6
<1> QED
  BY <1>1, <1>2, <1>3, <1>4, <1>5, <1>6
  DEF Next, Step, Unparsable, Skip, Read, Delete, DeleteFails, StoreFails, Row, Index, IndexFails, Search,
      vars, task

\* While seeds are left, no other task runs; a request finds no seed left.
LEMMA OneAtStart ==
  ASSUME IInv, NEW t \in Workers, Busy(t), Busy(Boot)
  PROVE  t = Boot
BY DEF IInv, ServerFit, Workers

LEMMA SeedsKept ==
  ASSUME IInv, StoreAssumption, SeedsLeft, [Next]_vars
  PROVE  SeedsLeft'
<1>0. TypeOK
  BY DEF IInv, StoreInv
<1>1. CASE queue'[Boot] = <<>>
  BY <1>1 DEF SeedsLeft, Busy
<1>2. CASE Start /\ Indexed' = Indexed /\ queue'[Boot] = Seeds /\ ~(CountChunks > 0)
  <2>1. Indexed' = {}
    BY <1>2, CountsNone
  <2> QED  BY <1>2, <2>1, IngestionAssumption DEF IngestionAssumption, SeedsLeft
<1>3. ASSUME Busy(Boot), queue'[Boot] = queue[Boot] \/ queue'[Boot] = Tail(queue[Boot]),
             Indexed' \subseteq Indexed
      PROVE  SeedsLeft'
  <2>1. queue[Boot] \in Seq(Docs) /\ queue[Boot] # <<>>
    BY <1>0, <1>3, BootWorker DEF TypeOK, Busy
  <2>2. CASE queue'[Boot] = queue[Boot]
    BY <1>3, <2>2 DEF SeedsLeft
  <2>3. CASE queue'[Boot] = Tail(queue[Boot])
    <3>1. \A i, j \in 1..Len(queue'[Boot]) : queue'[Boot][i] = queue'[Boot][j] => i = j
      BY <1>3, <2>1, <2>3, HeadAndTail DEF SeedsLeft
    <3>2. \A c \in Indexed', i \in 1..Len(queue'[Boot]) : queue'[Boot][i] # c[1]
      BY <1>3, <2>1, <2>3, HeadAndTail DEF SeedsLeft
    <3> QED  BY <3>1, <3>2 DEF SeedsLeft
  <2> QED  BY <1>3, <2>2, <2>3
<1>4. ASSUME ~Busy(Boot), queue'[Boot] = queue[Boot] PROVE SeedsLeft'
  BY <1>4 DEF SeedsLeft, Busy
<1>5. ASSUME NEW t \in Workers, Index(t), Busy(Boot) PROVE SeedsLeft'
  <2>1. t = Boot
    BY <1>5, OneAtStart DEF Index
  <2>2. queue[Boot] \in Seq(Docs) /\ queue[Boot] # <<>>
    BY <1>0, <1>5, BootWorker DEF TypeOK, Busy
  <2>3. queue'[Boot] = Tail(queue[Boot])
    BY <1>0, <1>5, <2>1, BootWorker DEF Index, NextDocument, TypeOK
  <2>4. Indexed' = Indexed \cup Parsed(Boot)
    BY <1>0, <1>5, <2>1, IndexAdds DEF IInv
  <2>5. \A c \in Parsed(Boot) : c[1] = queue[Boot][1]
    BY <2>2, HeadAndTail DEF Parsed, Current
  <2>6. \A i, j \in 1..Len(queue'[Boot]) : queue'[Boot][i] = queue'[Boot][j] => i = j
    BY <1>5, <2>2, <2>3, HeadAndTail DEF SeedsLeft
  <2>7. ASSUME NEW c \in Indexed', NEW i \in 1..Len(queue'[Boot]) PROVE queue'[Boot][i] # c[1]
    <3>1. i + 1 \in 1..Len(queue[Boot]) /\ queue'[Boot][i] = queue[Boot][i + 1]
          /\ 1 \in 1..Len(queue[Boot]) /\ i \in Nat \ {0}
      BY <2>2, <2>3, HeadAndTail
    <3>2. CASE c \in Indexed
      BY <1>5, <3>1, <3>2 DEF SeedsLeft
    <3>3. CASE c \in Parsed(Boot)
      <4>1. queue[Boot][i + 1] # queue[Boot][1]
        <5>1. i + 1 # 1
          BY <3>1
        <5> QED  BY <1>5, <3>1, <5>1 DEF SeedsLeft
      <4> QED  BY <2>5, <3>1, <3>3, <4>1
    <3> QED  BY <2>4, <3>2, <3>3
  <2> QED  BY <2>6, <2>7 DEF SeedsLeft
<1>6. ASSUME NEW t \in Workers, Index(t), ~Busy(Boot) PROVE queue'[Boot] = queue[Boot]
  BY <1>0, <1>6, BootWorker DEF Index, NextDocument, TypeOK
<1>7. (\E t \in Workers : Index(t)) \/ Indexed' \subseteq Indexed
  BY <1>0, StepIndexes DEF IndexKept
<1> QED  BY <1>0, <1>1, <1>2, <1>3, <1>4, <1>5, <1>6, <1>7, BootQueue

\* Start-up never deletes a chunk, however often it was cut short before.
THEOREM StartupAdds == Spec => StartupOnlyAdds
<1>1. ASSUME IInv, SeedsLeft, [Next]_vars
      PROVE  [server = "starting" => Indexed \subseteq Indexed']_vars
  <2> SUFFICES ASSUME server = "starting" PROVE Indexed \subseteq Indexed'
    OBVIOUS
  <2>0. TypeOK /\ PhasesFit
    BY <1>1 DEF IInv, StoreInv
  <2>1. CASE IndexKept
    BY <2>1 DEF IndexKept
  <2>2. ASSUME NEW t \in Workers, Index(t) PROVE Indexed \subseteq Indexed'
    BY <2>0, <2>2, IndexAdds, StoreAssumption
  <2>3. ASSUME NEW t \in Workers, Busy(t), Indexed' = Indexed \ ChunksOf(Current(t))
        PROVE  Indexed \subseteq Indexed'
    <3>1. t = Boot
      BY <1>1, <2>3 DEF IInv, ServerFit, Workers
    <3>2. queue[Boot] \in Seq(Docs) /\ queue[Boot] # <<>>
      BY <2>0, <2>3, <3>1, BootWorker DEF TypeOK, Busy
    <3>3. 1 \in 1..Len(queue[Boot]) /\ Current(Boot) = queue[Boot][1]
      BY <3>2, HeadAndTail DEF Current
    <3>4. ChunksOf(Current(Boot)) = {}
      BY <1>1, <2>3, <3>1, <3>3 DEF SeedsLeft, ChunksOf
    <3> QED  BY <2>3, <3>1, <3>4
  <2> QED  BY <1>1, <2>0, <2>1, <2>2, <2>3, StepIndexes
<1>2. Init => SeedsLeft
  BY BootWorker DEF Init, Idle, SeedsLeft, Busy
<1>3. ASSUME IInv, SeedsLeft, [Next]_vars PROVE SeedsLeft'
  BY <1>3, SeedsKept, StoreAssumption
<1> QED  BY <1>1, <1>2, <1>3, Invariance, PTL DEF Spec, StartupOnlyAdds

-----------------------------------------------------------------------------
(* Ingestion implements KnowledgeBase *)

\* No document is named by the requests of two tasks.
RequestsApart ==
  \A t, u \in Tasks : t # u =>
    \A a \in Requests[t], b \in Requests[u] :
      \A i \in 1..Len(a), j \in 1..Len(b) : a[i] # b[j]

\* A task takes the documents of a request it was given.
QueuesFit ==
  \A t \in Tasks : \A i \in 1..Len(queue[t]) :
    \E docs \in Requests[t] : \E j \in 1..Len(docs) : docs[j] = queue[t][i]

LEMMA QueuesKept ==
  ASSUME TypeOK, QueuesFit, [Next]_vars
  PROVE  QueuesFit'
<1> USE BootWorker
<1>1. CASE Start
  <2>1. \A t \in Tasks : queue'[t] = queue[t]
    BY <1>1 DEF Start, TypeOK
  <2> QED  BY <2>1 DEF QueuesFit
<1>2. CASE Crash
  BY <1>2 DEF Crash, QueuesFit
<1>3. ASSUME NEW t \in Tasks, Request(t) PROVE QueuesFit'
  <2>1. PICK docs \in Requests[t] : queue' = [queue EXCEPT ![t] = docs]
    BY <1>3 DEF Request
  <2>2. queue'[t] = docs /\ \A u \in Tasks \ {t} : queue'[u] = queue[u]
    BY <2>1 DEF TypeOK
  <2> QED  BY <2>2 DEF QueuesFit
<1>4. ASSUME NEW t \in Workers, Busy(t), NextDocument(t) PROVE QueuesFit'
  <2>1. queue' = [queue EXCEPT ![t] = Tail(queue[t])]
    BY <1>4 DEF NextDocument, TypeOK
  <2>2. \A i \in 1..Len(Tail(queue[t])) : i + 1 \in 1..Len(queue[t])
                                          /\ Tail(queue[t])[i] = queue[t][i + 1]
    BY <1>4, HeadAndTail DEF TypeOK, Busy
  <2>3. queue'[t] = Tail(queue[t]) /\ \A u \in Tasks \ {t} : queue'[u] = queue[u]
    BY <2>1 DEF TypeOK
  <2>4. ASSUME NEW u \in Tasks, NEW i \in 1..Len(queue'[u])
        PROVE  \E docs \in Requests[u] : \E j \in 1..Len(docs) : docs[j] = queue'[u][i]
    <3>1. CASE u = t
      <4>1. i + 1 \in 1..Len(queue[u]) /\ queue'[u][i] = queue[u][i + 1]
        BY <2>2, <2>3, <2>4, <3>1
      <4> QED  BY <2>4, <4>1 DEF QueuesFit
    <3>2. CASE u # t
      BY <2>3, <2>4, <3>2 DEF QueuesFit
    <3> QED  BY <3>1, <3>2
  <2> QED  BY <2>4 DEF QueuesFit
<1>5. ASSUME NEW t \in Workers, Abort(t) PROVE QueuesFit'
  BY <1>5 DEF Abort, QueuesFit, TypeOK
<1>6. ASSUME UNCHANGED queue PROVE QueuesFit'
  BY <1>6 DEF QueuesFit
<1> QED
  BY <1>1, <1>2, <1>3, <1>4, <1>5, <1>6
  DEF Next, Step, Unparsable, Skip, Read, Delete, DeleteFails, StoreFails, Row, Index, IndexFails, Search,
      vars, task

\* So no two tasks work on one document.
LEMMA Alone ==
  ASSUME RequestsApart, IInv, QueuesFit, NEW t \in Workers, NEW u \in Workers, t # u, Busy(t), Busy(u)
  PROVE  Current(t) # Current(u)
<1>1. t \in Tasks /\ u \in Tasks
  BY DEF IInv, ServerFit, Workers
<1>2. queue[t] \in Seq(Docs) /\ queue[t] # <<>> /\ queue[u] \in Seq(Docs) /\ queue[u] # <<>>
  BY DEF IInv, StoreInv, TypeOK, Busy
<1>3. /\ 1 \in 1..Len(queue[t]) /\ Current(t) = queue[t][1]
      /\ 1 \in 1..Len(queue[u]) /\ Current(u) = queue[u][1]
  BY <1>2, HeadAndTail DEF Current
<1> QED  BY <1>1, <1>3 DEF QueuesFit, RequestsApart

\* A task about to write chunks finds none of its document.
ClearFirst ==
  \A t \in Workers : phase[t] \in {"row", "index"} => ChunksOf(Current(t)) = {}

LEMMA ClearKept ==
  ASSUME RequestsApart, StoreAssumption, IInv, QueuesFit, ClearFirst, [Next]_vars
  PROVE  ClearFirst'
<1>0. TypeOK /\ PhasesFit
  BY DEF IInv, StoreInv
\* A task that stays in its phase with its document, while the index does not grow.
<1>1. ASSUME NEW u \in Workers, phase[u] \in {"row", "index"}, queue'[u] = queue[u],
             Indexed' \subseteq Indexed
      PROVE  ChunksOf(Current(u))' = {}
  BY <1>1 DEF ClearFirst, ChunksOf, Current
<1>2. ASSUME NEW t \in Workers, NextDocument(t) \/ Abort(t), Indexed' \subseteq Indexed
      PROVE  ClearFirst'
  <2> SUFFICES ASSUME NEW u \in Workers, phase'[u] \in {"row", "index"}
               PROVE  ChunksOf(Current(u))' = {}
    BY DEF ClearFirst
  <2>1. u # t /\ phase'[u] = phase[u] /\ queue'[u] = queue[u]
    BY <1>0, <1>2 DEF NextDocument, Abort, GoTo, TypeOK
  <2> QED  BY <1>1, <1>2, <2>1
<1>3. CASE Start
  BY <1>0, <1>3, BootWorker DEF Start, ClearFirst, ChunksOf, Current, Indexed, Rows, store, tables,
     PhasesFit, Busy, TypeOK, IInv, ServerFit
<1>4. CASE Crash
  BY <1>4 DEF Crash, ClearFirst
<1>5. CASE Search
  BY <1>5 DEF Search, VectorSearch, LoadMatrix, ClearFirst, ChunksOf, Current, Indexed, Rows,
     store, tables, task
<1>6. ASSUME NEW t \in Tasks, Request(t) PROVE ClearFirst'
  BY <1>0, <1>6, BootWorker DEF Request, ClearFirst, ChunksOf, Current, Indexed, Rows, store, tables,
     PhasesFit, TypeOK
<1>7. ASSUME NEW t \in Workers, Read(t) PROVE ClearFirst'
  <2>1. Indexed' = Indexed
    BY <1>7 DEF Read, Indexed, Rows, store, tables
  <2> SUFFICES ASSUME NEW u \in Workers, phase'[u] \in {"row", "index"}
               PROVE  ChunksOf(Current(u))' = {}
    BY DEF ClearFirst
  <2>2. CASE u # t
    BY <1>0, <1>1, <1>7, <2>1, <2>2 DEF Read, GoTo, TypeOK
  <2>3. CASE u = t
    <3>1. Current(t) \notin documents
      BY <1>0, <1>7, <2>3 DEF Read, GoTo, TypeOK
    <3>2. \A c \in Indexed : c[1] # Current(t)
      BY <3>1 DEF IInv, StoreInv, NoEmptyDocument
    <3>3. queue' = queue
      BY <1>7 DEF Read
    <3> QED  BY <2>1, <2>3, <3>2, <3>3 DEF ChunksOf, Current
  <2> QED  BY <2>2, <2>3
<1>8. ASSUME NEW t \in Workers, Delete(t) PROVE ClearFirst'
  <2>1. queue' = queue /\ phase' = [phase EXCEPT ![t] = "row"]
        /\ vectors' = [c \in Chunks |-> IF c[1] = Current(t) THEN Absent ELSE vectors[c]]
    BY <1>8 DEF Delete, GoTo, DeleteDocument, SqliteDeleteDocument, PgDeleteDocument, DeleteStatements
  <2>2. Indexed' = Indexed \ ChunksOf(Current(t))
    BY <1>0, <2>1 DEF Indexed, Rows, ChunksOf, TypeOK
  <2> SUFFICES ASSUME NEW u \in Workers, phase'[u] \in {"row", "index"}
               PROVE  ChunksOf(Current(u))' = {}
    BY DEF ClearFirst
  <2>3. CASE u # t
    BY <1>0, <1>1, <2>1, <2>2, <2>3 DEF TypeOK
  <2>4. CASE u = t
    BY <2>1, <2>2, <2>4 DEF ChunksOf, Current
  <2> QED  BY <2>3, <2>4
<1>9. ASSUME NEW t \in Workers, Row(t) PROVE ClearFirst'
  BY <1>0, <1>9 DEF Row, GoTo, UpsertDocument, ClearFirst, ChunksOf, Current, Indexed, Rows, TypeOK
<1>10. ASSUME NEW t \in Workers, Index(t) PROVE ClearFirst'
  <2>1. Indexed' = Indexed \cup Parsed(t)
    BY <1>0, <1>10, IndexAdds
  <2> SUFFICES ASSUME NEW u \in Workers, phase'[u] \in {"row", "index"}
               PROVE  ChunksOf(Current(u))' = {}
    BY DEF ClearFirst
  <2>2. u # t /\ phase'[u] = phase[u] /\ queue'[u] = queue[u]
    BY <1>0, <1>10 DEF Index, NextDocument, GoTo, TypeOK
  <2>3. Current(u) # Current(t)
    BY <1>0, <1>10, <2>2, Alone DEF Index, PhasesFit
  <2>4. \A c \in Parsed(t) : c[1] = Current(t)
    BY DEF Parsed
  <2>5. \A c \in Indexed : c[1] # Current(u)
    BY <2>2 DEF ClearFirst, ChunksOf
  <2>6. Current(u)' = Current(u)
    BY <2>2 DEF Current
  <2>7. \A c \in Indexed' : c[1] # Current(u)'
    BY <2>1, <2>3, <2>4, <2>5, <2>6
  <2> QED  BY <2>7 DEF ChunksOf
<1>11. CASE UNCHANGED vars
  BY <1>11 DEF vars, store, tables, task, ClearFirst, ChunksOf, Current, Indexed, Rows
<1>12. ASSUME NEW t \in Workers, \/ Unparsable(t) \/ Skip(t) \/ IndexFails(t)
                                 \/ StoreFails(t) \/ DeleteFails(t)
       PROVE  ClearFirst'
  <2>1. Indexed' \subseteq Indexed
    <3>1. CASE DeleteFails(t)
      BY <1>0, <3>1, DeleteRemoves DEF DeleteFails, SqliteDeleteFails
    <3>2. CASE Unparsable(t) \/ Skip(t) \/ IndexFails(t) \/ StoreFails(t)
      BY <3>2 DEF Unparsable, Skip, IndexFails, StoreFails, store, tables, Indexed, Rows
    <3> QED  BY <1>12, <3>1, <3>2
  <2>2. NextDocument(t) \/ Abort(t)
    BY <1>12 DEF Unparsable, Skip, IndexFails, StoreFails, DeleteFails
  <2> QED  BY <1>2, <2>1, <2>2
<1> QED
  BY <1>3, <1>4, <1>5, <1>6, <1>7, <1>8, <1>9, <1>10, <1>11, <1>12 DEF Next, Step

\* How the shown content changes with the index.
LEMMA ContentKept ==
  ASSUME TypeOK, Indexed' = Indexed
  PROVE  [d \in Docs |-> TextsOf(d)]' = [d \in Docs |-> TextsOf(d)]
BY DEF TextsOf, ChunksOf

LEMMA ContentCleared ==
  ASSUME NEW d \in Docs, Indexed' = Indexed \ ChunksOf(d)
  PROVE  ShownVersions!Clear(d)
<1>1. ASSUME NEW e \in Docs PROVE TextsOf(e)' = IF e = d THEN {} ELSE TextsOf(e)
  BY DEF TextsOf, ChunksOf
<1> QED  BY <1>1 DEF ShownVersions!Clear

LEMMA ContentShown ==
  ASSUME TypeOK, StoreAssumption, PhasesFit, ClearFirst, NEW t \in Workers, Index(t)
  PROVE  ShownVersions!Show(Current(t), Content[version[t]])
<1>1. Indexed' = Indexed \cup Parsed(t)
  BY IndexAdds
<1>2. Current(t) \in Docs
  BY QueueTyped DEF Index
<1>3. ChunksOf(Current(t)) = {}
  BY DEF Index, ClearFirst
<1>4. TextsOf(Current(t)) = {}
  BY <1>3 DEF TextsOf
<1>5. \A c \in Parsed(t) : c[1] = Current(t) /\ c[2] \in Content[version[t]]
  BY DEF Parsed
<1>6. ASSUME NEW d \in Docs
      PROVE  TextsOf(d)' = IF d = Current(t) THEN Content[version[t]] ELSE TextsOf(d)
  <2>1. CASE d # Current(t)
    BY <1>1, <1>5, <2>1 DEF TextsOf, ChunksOf
  <2>2. CASE d = Current(t)
    <3>1. ChunksOf(d)' = Parsed(t)
      BY <1>1, <1>3, <1>5, <2>2 DEF ChunksOf
    <3>2. \A text : text \in TextsOf(d)' <=> \E c \in Parsed(t) : c[2] = text
      BY <3>1 DEF TextsOf
    <3>3. \A text : text \in Content[version[t]] <=> \E c \in Parsed(t) : c[2] = text
      <4>1. \A text \in Content[version[t]] : <<Current(t), text>> \in Parsed(t)
        BY DEF Parsed
      <4> QED  BY <1>5, <4>1
    <3>4. TextsOf(d)' = Content[version[t]]
      BY <3>2, <3>3
    <3> QED  BY <2>2, <3>4
  <2> QED  BY <2>1, <2>2
<1>7. [d \in Docs |-> TextsOf(d)]' =
        [[d \in Docs |-> TextsOf(d)] EXCEPT ![Current(t)] = Content[version[t]]]
  BY <1>6
<1> QED  BY <1>2, <1>4, <1>7 DEF ShownVersions!Show

\* What is searchable of a document is one whole version or nothing, if no two
\* requests in progress name it.
THEOREM ImplementsKnowledgeBase ==
  ASSUME RequestsApart
  PROVE  Spec => Replaces
<1>1. Init => ShownVersions!Init /\ QueuesFit /\ ClearFirst
  <2> SUFFICES ASSUME Init PROVE ShownVersions!Init /\ QueuesFit /\ ClearFirst  OBVIOUS
  <2>1. Indexed = {}
    BY DEF Init, StoreInit, Indexed, Rows, NoMatrix
  <2>2. \A d \in Docs : TextsOf(d) = {}
    BY <2>1 DEF TextsOf, ChunksOf
  <2>3. QueuesFit /\ ClearFirst
    BY BootWorker DEF Init, Idle, QueuesFit, ClearFirst
  <2> QED  BY <2>2, <2>3 DEF ShownVersions!Init
<1>2. ASSUME IInv, QueuesFit, ClearFirst, [Next]_vars
      PROVE  QueuesFit' /\ ClearFirst'
  BY <1>2, QueuesKept, ClearKept, StoreAssumption DEF IInv, StoreInv
<1>3. ASSUME IInv, QueuesFit, ClearFirst, [Next]_vars
      PROVE  [ShownVersions!Next]_([d \in Docs |-> TextsOf(d)])
  <2>0. TypeOK /\ PhasesFit
    BY <1>3 DEF IInv, StoreInv
  <2>1. CASE IndexKept
    BY <2>0, <2>1, ContentKept DEF IndexKept
  <2>2. ASSUME NEW t \in Workers, Index(t) PROVE ShownVersions!Next
    <3>1. Current(t) \in Docs /\ Content[version[t]] \in {Content[v] : v \in Versions}
      BY <2>0, <2>2, QueueTyped DEF Index, PhasesFit
    <3>2. ShownVersions!Show(Current(t), Content[version[t]])
      BY <1>3, <2>0, <2>2, ContentShown, StoreAssumption
    <3> QED  BY <3>1, <3>2 DEF ShownVersions!Next
  <2>3. ASSUME NEW t \in Workers, Busy(t), Indexed' = Indexed \ ChunksOf(Current(t))
        PROVE  ShownVersions!Next
    <3>1. Current(t) \in Docs
      BY <2>0, <2>3, QueueTyped
    <3>2. ShownVersions!Clear(Current(t))
      BY <2>3, <3>1, ContentCleared
    <3> QED  BY <3>1, <3>2 DEF ShownVersions!Next
  <2> QED  BY <1>3, <2>0, <2>1, <2>2, <2>3, StepIndexes
<1> QED  BY <1>1, <1>2, <1>3, Invariance, PTL DEF Spec, Replaces, ShownVersions!Spec
=============================================================================
