----------------------------- MODULE Ingestion -----------------------------
(***************************************************************************)
(* The ingestion pipeline (app/rag/ingestion/pipeline.py) over the vector   *)
(* store: the start-up of the service, which ingests the seed documents into *)
(* an empty store (app/services/container.py, the lifespan of                *)
(* app/api/main.py), and the concurrent ingestion requests it then serves.   *)
(* A task takes the documents of its request one by one, and awaits between  *)
(* the reads and writes of one document.  The process may die at any moment. *)
(***************************************************************************)
EXTENDS DocumentStore, Sequences

CONSTANTS
  Tasks,           \* ingestion requests in progress at once
  Uploads,         \* those that carry a text (ingest_text), not a directory
  Requests,        \* the documents a task may be asked to ingest, in order
  Seeds,           \* data/documents, in order
  Versions, Content    \* versions of a document, and the texts each is chunked into

Boot == "boot"     \* the ingestion of the seeds
Workers == Tasks \cup {Boot}
Unreadable == "unreadable"
Phases == {"read", "delete", "row", "index"}

ASSUME IngestionAssumption ==
  /\ Boot \notin Tasks /\ Uploads \subseteq Tasks
  /\ Requests \in [Tasks -> SUBSET (Seq(Docs) \ {<<>>})]
  /\ \A t \in Uploads : \A docs \in Requests[t] : Len(docs) = 1
  /\ Seeds \in Seq(Docs)
  /\ \A i, j \in 1..Len(Seeds) : Seeds[i] = Seeds[j] => i = j
  /\ Content \in [Versions -> SUBSET Texts] /\ Unreadable \notin Versions

VARIABLES
  server,      \* down, starting, up
  model,       \* the embedding model of the process
  queue,       \* the documents a task has left, the current one first
  phase,       \* what it does next with the current one
  version,     \* the version of the current one it has parsed
  damaged      \* history: documents some of whose rows were written or deleted
               \* without the others, since they were last deleted whole

task == <<queue, phase, version>>
vars == <<store, server, model, task, damaged>>

Busy(t) == queue[t] # <<>>
Current(t) == Head(queue[t])
Parsed(t) == {<<Current(t), text>> : text \in Content[version[t]]}

\* A row without chunks yet, and what some statements of a delete leave.
HalfWritten == {Current(t) : t \in {w \in Workers : Busy(w) /\ phase[w] = "index"}}
Torn(d, k) == IF k \in {1, 2} THEN {d} ELSE {}

Idle ==
  /\ queue = [t \in Workers |-> <<>>]
  /\ phase = [t \in Workers |-> "read"]
  /\ version = [t \in Workers |-> Unreadable]

Init ==
  /\ StoreInit
  /\ server = "down" /\ model \in Models
  /\ Idle
  /\ damaged = {}

GoTo(t, p) == phase' = [phase EXCEPT ![t] = p]

\* Mutant: the task does not move on.
NextDocumentAgain(t) ==
  /\ queue' = queue
  /\ GoTo(t, "read")
  /\ version' = [version EXCEPT ![t] = Unreadable]
  /\ server' = server
\* The task turns to its next document; after its last one it ends.
NextDocument(t) ==
  /\ queue' = [queue EXCEPT ![t] = Tail(@)]
  /\ GoTo(t, "read")
  /\ version' = [version EXCEPT ![t] = Unreadable]
  /\ server' = IF t = Boot /\ queue'[Boot] = <<>> THEN "up" ELSE server

\* An exception leaves ingest_directory or the handler; at start-up the service exits.
Abort(t) ==
  /\ IF t = Boot
     THEN server' = "down" /\ ForgetMatrix
     ELSE server' = server /\ UNCHANGED matrix
  /\ queue' = [queue EXCEPT ![t] = <<>>]
  /\ GoTo(t, "read")
  /\ version' = [version EXCEPT ![t] = Unreadable]

-----------------------------------------------------------------------------
(* The service *)

\* Mutant: the seeds are ingested at every start.
StartSeeding ==
  /\ server = "down"
  /\ model' \in Models
  /\ IF Seeds = <<>>
     THEN server' = "up" /\ UNCHANGED queue
     ELSE server' = "starting" /\ queue' = [queue EXCEPT ![Boot] = Seeds]
  /\ UNCHANGED <<store, phase, version, damaged>>
\* store.initialize, then the seeds if count_chunks finds none.
Start ==
  /\ server = "down"
  /\ model' \in Models
  /\ IF CountChunks > 0 \/ Seeds = <<>>
     THEN server' = "up" /\ UNCHANGED queue
     ELSE server' = "starting" /\ queue' = [queue EXCEPT ![Boot] = Seeds]
  /\ UNCHANGED <<store, phase, version, damaged>>

Request(t) ==
  /\ server = "up" /\ ~Busy(t)
  /\ \E docs \in Requests[t] : queue' = [queue EXCEPT ![t] = docs]
  /\ UNCHANGED <<store, server, model, phase, version, damaged>>

\* The process dies.  A delete that was running may have committed some of its
\* statements, whoever ran it; the lock lets one run at a time.
Crash ==
  /\ server # "down"
  /\ \/ UNCHANGED tables /\ damaged' = damaged \cup HalfWritten
     \/ /\ backend \in Sqlite
        /\ \E t \in Workers, k \in Statements :
             /\ Busy(t) /\ phase[t] = "delete"
             /\ DeleteStatements(Current(t), k)
             /\ damaged' = damaged \cup HalfWritten \cup Torn(Current(t), k)
  /\ server' = "down" /\ ForgetMatrix
  /\ queue' = [t \in Workers |-> <<>>]
  /\ phase' = [t \in Workers |-> "read"]
  /\ version' = [t \in Workers |-> Unreadable]
  /\ UNCHANGED <<backend, model>>

-----------------------------------------------------------------------------
(* One document *)

\* ingest_file and ingest_text: a document that cannot be parsed is skipped in a
\* directory and fails an upload; one without text is skipped, its old version stays.
Unparsable(t) ==
  /\ Busy(t) /\ phase[t] = "read"
  /\ IF t \in Uploads THEN Abort(t) ELSE NextDocument(t) /\ UNCHANGED matrix
  /\ UNCHANGED <<backend, tables, model, damaged>>

Skip(t) ==
  /\ Busy(t) /\ phase[t] = "read"
  /\ \E v \in Versions : Content[v] = {}
  /\ NextDocument(t)
  /\ UNCHANGED <<store, model, damaged>>

\* Mutant: the previous version is not looked for.
ReadBlindly(t) ==
  /\ Busy(t) /\ phase[t] = "read"
  /\ \E v \in Versions : Content[v] # {} /\ version' = [version EXCEPT ![t] = v]
  /\ GoTo(t, "row")
  /\ UNCHANGED <<store, server, model, queue, damaged>>
\* get_document, after the version was parsed and chunked.
Read(t) ==
  /\ Busy(t) /\ phase[t] = "read"
  /\ \E v \in Versions : Content[v] # {} /\ version' = [version EXCEPT ![t] = v]
  /\ GoTo(t, IF Current(t) \in documents THEN "delete" ELSE "row")
  /\ UNCHANGED <<store, server, model, queue, damaged>>

Delete(t) ==
  /\ Busy(t) /\ phase[t] = "delete"
  /\ DeleteDocument(Current(t))
  /\ GoTo(t, "row")
  /\ damaged' = damaged \ {Current(t)}
  /\ UNCHANGED <<server, model, queue, version>>

\* A statement of SQLite's delete fails: the error aborts the request.
DeleteFails(t) ==
  /\ Busy(t) /\ phase[t] = "delete" /\ backend \in Sqlite
  /\ \E k \in Statements :
       /\ SqliteDeleteFails(Current(t), k)
       /\ damaged' = damaged \cup Torn(Current(t), k)
  /\ Abort(t)
  /\ UNCHANGED model

\* get_document, a delete of pgvector or upsert_document fails: its transaction leaves
\* nothing behind, and the error aborts the request.
StoreFails(t) ==
  /\ Busy(t)
  /\ \/ phase[t] \in {"read", "row"}
     \/ phase[t] = "delete" /\ backend = "pgvector"
  /\ Abort(t)
  /\ UNCHANGED <<backend, tables, model, damaged>>

Row(t) ==
  /\ Busy(t) /\ phase[t] = "row"
  /\ UpsertDocument(Current(t))
  /\ GoTo(t, "index")
  /\ UNCHANGED <<server, model, queue, version, damaged>>

\* embed_documents, then upsert_chunks.
Index(t) ==
  /\ Busy(t) /\ phase[t] = "index"
  /\ UpsertChunks(Parsed(t), model)
  /\ NextDocument(t)
  /\ UNCHANGED <<model, damaged>>

\* The embedder fails, or the store refuses the rows.
IndexFails(t) ==
  /\ Busy(t) /\ phase[t] = "index"
  /\ damaged' = damaged \cup {Current(t)}
  /\ Abort(t)
  /\ UNCHANGED <<backend, tables, model>>

\* Any search of the whole index by the embedding of a query; one with filters
\* changes nothing.
Search == server = "up" /\ VectorSearch(Docs) /\ UNCHANGED <<server, model, task, damaged>>

Step(t) ==
  \/ Unparsable(t) \/ Skip(t) \/ Read(t) \/ Delete(t) \/ DeleteFails(t)
  \/ StoreFails(t) \/ Row(t) \/ Index(t) \/ IndexFails(t)

Next ==
  \/ Start \/ Crash \/ Search
  \/ \E t \in Tasks : Request(t)
  \/ \E t \in Workers : Step(t)

Spec == Init /\ [][Next]_vars
\* The event loop runs every task, and the calls it awaits time out.
FairSpec == Spec /\ \A t \in Workers : WF_vars(Step(t))
-----------------------------------------------------------------------------
(* Properties *)

TypeOK ==
  /\ StoreTypeOK
  /\ server \in {"down", "starting", "up"} /\ model \in Models
  /\ queue \in [Workers -> Seq(Docs)]
  /\ phase \in [Workers -> Phases]
  /\ version \in [Workers -> Versions \cup {Unreadable}]
  /\ damaged \subseteq Docs

\* A cached matrix holds every indexed chunk with its current embedding, whoever
\* wrote it while others were searching; it holds a deleted chunk only after a
\* delete that failed halfway (the invalidations of upsert_chunks and delete_document).
CacheCoherent ==
  matrix # NoMatrix =>
    \A c \in Chunks :
      \/ matrix[c] = vectors[c]
      \/ vectors[c] = Absent /\ c[1] \in damaged

\* Full-text search knows exactly the indexed chunks: a row without a chunk never
\* exists, a chunk without a row only where a delete stopped after its first statement.
FullTextAgrees ==
  /\ fts \subseteq Indexed
  /\ backend = "sqlite" => \A c \in Indexed \ fts : c[1] \in damaged

\* However ingestions of one document interleave, a document is registered without
\* chunks only while a task is about to write them or where one was cut short, and
\* no chunk outlives the row of its document.
NoEmptyDocument ==
  /\ \A c \in Indexed : c[1] \in documents
  /\ \A d \in documents :
       \/ ChunksOf(d) # {} \/ d \in damaged
       \/ \E t \in Workers : Busy(t) /\ phase[t] = "index" /\ Current(t) = d

\* Re-ingestion replaces a document: what is searchable of it is one whole version
\* or nothing, in every interleaving with crashes and failures, provided no two
\* requests in progress name the same document.
ShownVersions == INSTANCE KnowledgeBase WITH
  Documents <- Docs, Contents <- {Content[v] : v \in Versions},
  content <- [d \in Docs |-> TextsOf(d)]
Replaces == ShownVersions!Spec

\* Start-up only ever adds to the store: it finds it empty, no request is served
\* before the seeds are in, and no seed replaces another, however often earlier
\* start-ups were cut short (ingest_seed_documents).
StartupOnlyAdds == [][server = "starting" => Indexed \subseteq Indexed']_vars

\* Every ingestion ends: no task waits for another, and none takes a document twice.
IngestionsEnd == \A t \in Workers : Busy(t) ~> ~Busy(t)

\* pipeline.py: one failing document of a directory does not abort the batch.
BatchContinues ==
  [][\A t \in Tasks \ Uploads :
       Busy(t) /\ server' = "up" => queue'[t] \in {queue[t], Tail(queue[t])}]_vars
=============================================================================
