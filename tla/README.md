# Verification of the agentic support system

TLA+ modules of the support and research agent, the TLC runs that check them
on small instances, and theorems about them that TLAPS checks for every value
of their constants. Paths are relative to the repository root `src/`.

## The system

A FastAPI service answers questions from documentation and triages support
tickets. One request is one run of a LangGraph graph on a conversation thread.

| Component | State it keeps | Operations | Correct when |
|---|---|---|---|
| Agent graph (`app/agents/graph.py`, `state.py`) | the thread state in an in-memory checkpointer, kept between runs of one `thread_id`; lists declared with `operator.add` accumulate | nodes understand, retrieve, grade, refine, detect_conflicts, synthesize, classify, route, act | every run ends, within its budget, on one branch; what it reports matches what happened |
| Evidence registry (`app/models/evidence.py`) | handle counter, handles by fingerprint, rebuilt from the thread on every use | register, from_evidence, resolve | a handle names one passage for as long as the thread lives |
| Guardrails (`app/guardrails`) | none | screen_evidence, CitationValidator.validate | malicious passages never reach a prompt; citations are retrieved evidence |
| API (`app/api/main.py`) | the container | research, chat, triage_ticket, process_ticket, ingest_documents, health | the response shows the branch the run took |
| Container (`app/services/container.py`) | all singletons | initialize, ingest_seed_documents, new_state | the knowledge base is complete after start-up |
| Ticket tools and adapter (`app/tools/tickets`) | tickets, escalations, approvals, all process-wide | assign_queue, update_priority, add_ticket_comment, update_ticket, create_escalation, issue_refund, grant_approval | gated actions happen only after an approval; a ticket shows one decision |
| Routing engine (`app/routing/engine.py`, `config/policies`) | a validated, immutable policy | validate, route, requires_approval | a defined queue for every classification; floors and escalations hold |
| Ingestion (`app/rag/ingestion`) | none of its own | ingest_file, ingest_text, ingest_directory | a document's index holds the chunks of one version |
| Vector stores (`app/db`) | documents, chunks, embeddings, full-text rows, the matrix cache, a lock | upsert_document, upsert_chunks, delete_document, vector and keyword search | the tables agree with each other, the cache with the tables |
| Retrieval (`app/rag/retrieval/hybrid.py`, `app/tools/documentation`) | none | search | one failing channel degrades, results exist |
| Web research (`app/tools/web_research`) | the vendor policy | resolve, is_permitted, search | only permitted domains become evidence |
| Model providers (`app/providers`) | none | parse, embed | an answer that fits the schema, or LLMError |

Interaction: a handler builds a state and calls `SupportAgent.run`; the nodes
call the model, the internal search (retriever, embedder, store), the web
search and the ticket tools, one after the other. Requests are concurrent
tasks of one event loop; they share the store, the tickets, the approvals and,
if they name the same `thread_id`, the thread.

What is hard: the refine loop and its budget; state that accumulates over the
runs of a thread while the nodes were written for one run; model calls and
searches that fail at any point; the handler and the graph deciding separately
which branch a request takes; concurrent ingestion of one document; crashes
between autocommitted statements; approvals that outlive the run they were
given for. `PROJECT.json` lists each hazard at its line.

## Modules

| Module | Content |
|---|---|
| `AgentGraph` | the graph, the thread, the budget, evidence and citations, the four handlers that start runs |
| `RoutingEngine` | `validate` and `route` of the routing engine, one step per override, over any policy |
| `TicketDesk` | the ticket tools, the in-memory ticket system, approvals, and the triage runs that share them |
| `ApprovalGate` | abstract: high-risk actions happen only after an approval; `TicketDesk` implements it |
| `DocumentStore` | the SQLite and pgvector stores: tables, full-text rows, the cached matrix, the statements of a delete |
| `Ingestion` | start-up and concurrent ingestion requests over `DocumentStore`, with failures and crashes |
| `KnowledgeBase` | abstract: a document shows one whole version or nothing; `Ingestion` implements it |
| `Retrieval` | two-channel searches while `Ingestion` goes on, and the fusion of their ranks |
| `Chunking` | parsers and chunker, from lines to chunks |
| `WebResearch` | vendor detection, domain policy, search providers, the sifting of results |
| `ShippedPolicy` | `routing.yaml` as constants |
| `MC*` | constants for TLC; `MCRoutingEngine` also has what the README and the tests promise of a routing decision |
| `Lists` | sorting, filtering and adding up, by definitions a proof can expand |
| `SetFacts` | lemmas: least and greatest elements, finite ranges, first positions, ranked and filtered lists, totals |
| `AgentGraphProofs`, `RoutingEngineProofs`, `TicketDeskProofs`, `IngestionProofs`, `RetrievalProofs`, `ChunkingProofs`, `WebResearchProofs` | theorems |

`Retrieval` extends `Ingestion`, which extends `DocumentStore`: a search reads the
very tables that the ingesters write. `AgentGraph` sees the two searches only as
hit lists or failures, and the routing decision and the ticket tools as choices;
`RoutingEngine`, `TicketDesk`, `Retrieval` and `WebResearch` say which are possible.

### AgentGraph and the code

`node` is the node LangGraph runs next (`"idle"` between runs, `"respond"`
while the handler builds its response). The other variables are the fields of
`AgentState`, grouped as there; `iterations` and `toolCalls` are the two
counters of `Budget`. One action is one node: LangGraph runs the nodes of a
thread one at a time and applies the update a node returns in one step, and no
other reader sees the thread in between.

| Action | Code |
|---|---|
| `StartRun` | a handler merges `initial_state()` into the thread: fields with a reducer keep their content, fields it does not name (`queries` aside, the plan) keep their last value, the rest is reset |
| `Understand`, `UnderstandFails` | `_understand`, with any answer of `Plans` or `LLMError` |
| `Retrieve` | `_retrieve`: the last two queries, each on the planned channels, each call with any hit list or a failure; screening, registration, budget |
| `GradeNothing`, `Grade`, `GradeFails` | `_grade` and `_after_grade` |
| `Refine`, `RefineGivesUp` | `_refine` |
| `DetectConflicts`, `DetectConflictsFails` | `_detect_conflicts` |
| `Synthesize`, `Insufficient` | `_synthesize` with any set of cited handles, known or not |
| `Classify`, `ClassifyFails`, `Route`, `RouteUnclassified`, `Act` | the triage branch; the routing decision is abstracted to whether it escalates and whether it asks for a human, a ticket tool to whether it succeeds |
| `Respond` | `_research_response`, `_triage_response` |

Abstractions. A passage is one evidence fingerprint; `evidence` is a set of
records with a count of equal items instead of a list, since nothing reads its
order. The reworded request `"{request} {missing}"` is the pair of its parts,
for requests short enough not to be cut at 200 characters. Confidence is 0 or
not. The decision log, timing and texts are left out, as is `vendor_key`,
which only the web search reads (see `WebResearch`). `errors` and `invocations` are sets: the
properties ask what is in them, never how often. The runs of one thread are
serial here, see "Not modelled".

### RoutingEngine and the code

`Validate` is `validate()`: the floor of the intent, then urgency language.
`SelectQueue`, `ApplyOverride`, `SkipOverride` and `Decide` are the statements
of `route()` in their order, with one step per override of the policy. A
ticket's text is the set of policy keywords it contains, a confidence a
percentage. The engine is sequential and has no state between calls; it is
written as steps because the decision depends on the order in which overrides
read and raise the urgency. Left out are the branches for an intent or an
urgency outside the vocabulary, which the response schema and
`validate_vocabulary_matches_policy` exclude, language normalisation, and the
explanations of a decision.

### TicketDesk and the code

| Action | Code |
|---|---|
| `Process` | `process_ticket`: looks the ticket up, answers 404 |
| `Triage` | `triage_ticket` and `chat`: any `ticket_id`, or none |
| `Route` | `_classify` and `_route`, with any decision of `Decisions` |
| `Act`, `ActAdvisory` | `_act`: `assign_queue`, `update_priority`, `add_ticket_comment`, `create_escalation`, in this order, each with argument check, permission check and lookup |
| `GrantApproval`, `IssueRefund`, `UpdateTicket`, `CreateTicket` | the rest of the tool and adapter surface, which users of the container call (as the tests do) |

`Act` is one step: the in-memory adapter never suspends, so nothing else runs
between the four calls. Between `Process`, `Route` and `Act` the model is
awaited, and other requests run. `lastRun` and `granted` are history
variables. The escalation records and the refund comments are sequences, since
`escalation_id` is a counter. Customers, ticket text and tags are left out.

### DocumentStore, Ingestion and the code

A text stands for a chunk at its position, since a chunk id is a digest of
document, position and content. `vectors` gives for each chunk the model that
embedded it: chunk and embedding rows are written in one transaction and removed
by one cascade. `matrix` is the in-memory copy the SQLite store searches. An
operation is one step, since SQLite works under a lock and PostgreSQL in a
transaction; SQLite's delete commits each of its three statements, so it can also
fail or die behind any of them.

| Action | Code |
|---|---|
| `Start` | `VectorStore.initialize`, then the seeds if `count_chunks` finds none |
| `Request` | `ingest_documents`: `ingest_directory` or, for `Uploads`, `ingest_text` |
| `Read`, `Skip`, `Unparsable` | parsing and chunking, then `get_document` |
| `Delete`, `DeleteFails` | `delete_document` of the previous version; on SQLite it can end behind each of its statements |
| `StoreFails` | `get_document`, a delete of pgvector or `upsert_document` fails, and its transaction is rolled back |
| `Row`, `Index`, `IndexFails` | `upsert_document`; `embed_documents` and `upsert_chunks` |
| `Search` | any vector search, which loads the matrix |
| `Crash` | the process ends; tables stay, tasks, matrix and model do not |

Between two of these steps a task awaits, and other tasks run. `damaged` is a
history variable: the documents of which some rows were written or deleted without
the others. Versions are chosen by `\E`: files change between requests. Metadata,
counts and the pool of connections are left out.

### Retrieval and the code

`Ask`, `VectorChannel` and `KeywordChannel` are `DocumentationSearch.search` and
`HybridRetriever.search`: two reads of the store one after the other, each of which
may fail, then `Combine`, which fuses ranks or takes the one channel there is.
Similarities and lexical ranks are properties of the query (`nearest`, `near`,
`lexical`); a SQLite scan returns its rows in any order. `some` and `every` are the
texts with some and with every word of the query: SQLite asks for some
(`sqlite_store.py:433`), pgvector's `websearch_to_tsquery` for every one
(`pgvector_store.py:406`). `scope` is the documents that the filters of the store and
the tool admit; the agent passes none, its callers in the tests do. Scores are exact
fractions.
`Meanwhile` is any step of `Ingestion`; `stable` and `seen` record what was indexed
throughout the search and at some moment of it.

### Chunking and the code

A line is its number of characters, whether a sentence ends with it, its heading
level, fence marker or page break. `Parse*` are the loops over lines, elements and
pages; a fence in Markdown hides headings, an unclosed one to the end. The paging
of `chunk_document`, the splitting into paragraphs and sentences, `_pack` with its
carried overlap and `_hard_split` are steps on the page in work. Cleaning of text,
titles, splitting by words, nested HTML elements and HTML text outside the listed tags
are left out: `NothingLost` begins with the elements that `parsers.py:197` finds.

A piece is an interval of characters of the text between two lines, `first` to `last`
of `from` to `to`, and `fresh` unless it repeats the chunk before: intervals say of
every character where it ends up, which is what `NothingLost` and `RepeatsTail` are
about. A sentence or paragraph is an interval that begins at 1 and is whole; only
`_hard_split` cuts one, and a carried piece that is too long loses its beginning.

### WebResearch and the code

A host is the sequence of its labels from the top-level domain down, so a subdomain
extends its domain. A registry is what `vendors.yaml` may hold; `ValidRegistry` is
its validation. `Understand` is the part of `_understand` that proposes a vendor:
the thread keeps it, also when a later proposal fails. `Search` detects the vendor
and resolves the policy; `TavilyAnswers` returns any pages, since its filter is not
in this repository; `FixtureAnswers` replays recorded pages; `ToEvidence` discards
and sorts. Weights and scores are in hundredths. HTTP, snippets, highlights and
publishers are left out.

## Runs

| Run | Instance | Shows |
|---|---|---|
| `graph_loop` | one run; 3 passages (one internal, one malicious), at most 1 hit per call, 6 plans (none, one, two and four queries; no, one and two channels; triage), 4 grader answers, 2 iterations, 5 tool calls | `TypeOK`, `BudgetBound`, `CitationsGrounded`, `StopsShortOnlyExhausted`, `SearchFailuresReported`, and under fairness `RunsComplete` |
| `graph_thread` | two runs on one thread, 1 iteration, 4 tool calls, 3 plans, 2 grader answers | `HandlesIdentify`, `EvidenceScreened`, `OneBranchPerRun` |
| `routing` | the shipped policy; all 11 intents and 4 urgencies, confidence below, at and above the floor, both kinds of keywords, no, a harmless and a gated action | `TypeOK`, `NeverCalmer`, and `PromisesKept`: whatever order floors, urgency language and overrides apply in, the decision has the queue, urgency, escalation and approval that the README and the tests promise |
| `desk` | 2 triage runs, a seeded and a new ticket, 3 decisions, 1 update, 1 refund, approvals of both actions | `TypeOK`, `DecisionShown`, `ReportedIsDone`, `GateRespected` (`ApprovalGate` under a refinement mapping) |
| `ingest` | two seeds, a directory and an upload that share a document, three versions (two that share a chunk, one without text), three backends, any number of crashes | `TypeOK`, `CacheCoherent`, `FullTextAgrees`, `NoEmptyDocument`, `StartupOnlyAdds`, and under fairness `IngestionsEnd` |
| `retrieval` | one search with two kinds of question (two words, of which one passage holds both, unfiltered; one word within one document), two documents ingested by different requests, a seed, two backends, limit 2 | `FoundInStore`, `StableFound`, `FusedByRank`, `Replaces` (`KnowledgeBase` under a refinement mapping) |
| `chunks` | all Markdown and PDF documents of up to 5 lines, Markdown with headings without a title and HTML of up to 4, text of up to 6, three sizes | `TypeOK`, `ProvenanceTrue`, `NothingLost`, `ChunkCeiling`, `RepeatsTail` |
| `research` | two vendors with strict, preferring and refused registries, questions that name one, both and none, stale and wrong guesses, pinned domains, 8 pages, at most 2 results, three providers | `TypeOK`, `WrongVendorAtWorst`, `HintOutweighed`, `BlocklistAbsolute`, `AuthorityFirst`, `FixtureMirrors` |

The bounds. Two iterations let the loop be entered, refined and left by each of
its exits, and five tool calls lie between one batch of four and two, so that
both caps are met and overrun. Three passages give a known, a new and a
quarantined one; one hit per call gives up to four hits per retrieval, with
repeats. The four-query plan is the longest the schema admits, and both
shorter and longer lists than the window of `Pending` occur. Two runs suffice
for anything one run leaves to the next; the theorems below hold for any number.
Two triage runs reach every order of two requests on one ticket and on two, and a
ticket that is created while a run that names it is under way; one refund and one
escalation exercise both sides of the gate. Keyword lists are represented by one
keyword each, since the engine treats those of a list alike. Two ingesters and two
documents give every order of two requests on one document and on two, with a seed
before them; two versions both keep and drop a chunk. The limit of 2 is below the
number of chunks a fused list can have, so that it cuts. Five or six lines let
headings open, close and return, a fence hide one, and a page need two seams with
a carried piece; sizes of 2 to 4 tokens make every unit fit, just fit and not fit.
Eight pages hold one of each kind the policy tells apart, and two results one pair
to sort.

`CHECK_DEADLOCK FALSE`, in the configurations that say so: a thread may stay idle,
and does after `MaxRuns` runs, a routed ticket or a chunked document is done, a
desk may see no more requests, a down service may stay down.

Fairness is `WF_vars(Step)` for a run of the graph and `WF_vars(Step(t))` for every
ingestion task: what has started is driven on by the event loop, and every call it
awaits ends. The code justifies it: model and embedding clients are created with a
timeout (`app/providers/llm.py:136`, `embeddings.py:174`), the web search is wrapped
in `asyncio.wait_for` (`web_research/providers.py:140`), the rest is local. Nothing
is assumed of users, of restarts or of searches.

### Where the code and its documentation differ

Each `claim_*` run checks one statement of the documentation or of a comment
and TLC finds a behaviour of the code that violates it.

| Run | Statement | What happens |
|---|---|---|
| `claim_planned_queries` | `graph.py:188` only the queries just added | the last two of the thread, so older ones are repeated and planned ones dropped |
| `claim_triage_decides` | README: `/api/tickets/triage` classifies | HTTP 500 when the model plans research |
| `claim_approved_run` | `tools.py:66` approved "for this run" | approvals are shared by all runs and never consumed |
| `claim_batch_continues` | `pipeline.py:197` "the batch continues" | an embedding or store failure ends the batch |

Differences and weak spots seen while reading that no run is spent on.

Graph and API:
- `graph.py:327` says "stop looping", but the only edge out of refine leads to another retrieval.
- `graph.py:260` says "deduplicating repeats", but repeats within one retrieval are stored.
- `citations.py:5` speaks of evidence of this run; evidence of earlier runs of the thread is cited.
- The README's hard cap on tool calls is overrun by up to three (`BudgetBounded` proves that much and no more).
- A request with a `ticket_id` is researched when understanding fails (`graph.py:158` against `:168`).
- Failures of ticket tools are not errors of the state (`graph.py:588`).
- `/api/research` returns an empty answer when the model plans triage.
- Concurrent runs on one thread start from one checkpoint and the last to finish replaces what the other found, so a handle of a delivered answer may later name another passage (`graph.py:593`).

Routing and tickets:
- `PromisesKept` leaves three of the sentences below out, and names them: first match, one level, high-value accounts.
- Every matching override is applied although `routing.yaml:90` says "first match wins".
- Urgency language raises a low ticket by two levels, not one (`engine.py:107`, `routing.yaml:138`).
- `routing.yaml:123` "always create an escalation record": the record is held for an approval nothing in the application gives, and not retried (`tools.py:166`).
- The customer tier is never looked up (`graph.py:511`), so the approval for high-value accounts (`routing.yaml:168`, README) is never asked for.
- `issue_refund` raises for an unknown ticket (`tools.py:182` against `:33`); `update_ticket` writes unchecked fields (`tools.py:158`).

Ingestion and retrieval:
- Two concurrent ingestions of one document can leave chunks of both versions (`pipeline.py:107`), which `NoEmptyDocument` allows; `Replaces` holds, and is proved, for requests that name different documents.
- Seeding that was interrupted after its first chunks is never completed (`container.py:60`); `StartupOnlyAdds` is what remains true.
- A document whose text is gone keeps its old chunks (`pipeline.py:62`).
- The failure of both channels is reported as an empty result (`hybrid.py:133`, `documentation/search.py:59`); the filtering after fusion that `hybrid.py:129` announces does not happen.
- A question of several words finds a passage with one of them by keyword on SQLite, and not on pgvector, which asks for all (`sqlite_store.py:433`, `pgvector_store.py:406`); `StableFound` is stated for each.
- A search may return chunks of two versions of a document that is replaced between its two reads (`hybrid.py:136`); `FoundInStore` excludes only chunks that no moment of the search held.
- A change to an embedding model of equal dimensions is searched with the old embeddings (`sqlite_store.py:380`).
- The estimate of a joined chunk can exceed size plus overlap, since separators count too; text of nested HTML elements is repeated, and text outside the listed tags is dropped (`parsers.py:197`).

Web research:
- A hint weighs 1.5 and beats a single one-word alias at 1.10, although the comment at `domain_policy.py:156` calls it a tie-breaker.
- An override whose domains are all blocked searches everything but the blocklist (`domain_policy.py:220`, `:266`).
- The conversion of Tavily's response is outside its `try` (`providers.py:149`).

## Proofs

All theorems hold for every value of the constants that the named assumptions of
the modules admit. Where one assumes more (`RequestsApart`, `UpdatesTyped`,
`LowersNothing`, `ShippedInForce`), it says so in its statement, and below.

### The graph

`TypeCorrect` needs more than `TypeOK`: the maximum handle is only defined for
a finite set, and a query is built from the request, so `TypeInv` adds that
`evidence` is finite and that a running thread has a request. `Frames` states
once that an unchanged group of variables keeps its type; each action then
proves only what it changes. `Retrieve` rests on `CollectedType` (what the
calls return is a list of passages) and `RegisteredFresh` (new records are
well-typed, finitely many, beyond the counter, and pairwise distinct), which
rests on the counter being an upper bound (`CounterBounds`, `MaxNat`) and on
first positions (`FirstPosition`, `LeastNat`). The library's induction theorems
cannot be instantiated here; `LeastNat` is proved through injections of finite
sets instead.

| Theorem | Inductive invariant beyond the property |
|---|---|
| `BudgetBounded` | a run that retrieves or refines has spent nothing or is below both caps |
| `HandlesStable` | none; rests on `RegisteredFresh` and `CounterBounds` |
| `EvidenceIsScreened` | everything quarantined was reported by the scan |
| `CitationsAreGrounded` | none; evidence is only added |
| `StopsOnlyExhausted` | the grader's verdict and the budget still hold when the answer is written |
| `OneBranch` | what each node may already have written |
| `FailedSearchesReported` | none |

They assume natural budgets, malicious and internal passages among the passages,
and model answers that fit their schemas.

### Routing and tickets

`RoutingEngineProofs` proves `TypeCorrect`, `QueueIsDefined` (the last check of
`route()` leaves only queues of the policy) and `CriticalIsEscalated` (the re-check
after the overrides makes their order irrelevant; under the shipped order TLC never
needs it, so it is proved and not run). They hold for every policy that
`_validate_routing_policy` accepts (`PolicyAssumption`). `UrgencyNeverFalls` assumes
`LowersNothing` too: an override that sets an urgency sets none below those it
accepts. Start-up does not check that, and a policy may lower urgencies;
`ShippedLowersNothing` proves it of the shipped one.

`PromisesAreKept` is about the shipped policy (`ShippedInForce`) and every ticket,
with any confidence, text and actions. Its inductive invariant `DecidedSoFar` gives the
urgency and the queue behind each override, and `SettledUrgency` shows what the floor,
the keywords and the overrides leave: a critical urgency only for compromise language
or a ticket classified as critical, and never less than any of them asks for.

`TicketDeskProofs` assumes that the policy gates both high-risk actions and none of
the three triage tools (`PolicyAssumption`). `ImplementsGate` needs no more than
`LogsTyped`: a step that adds a refund or an escalation record is a `Perform` of the
gate because `OkMeans` gives the approval, an approval is an `Approve`, everything
else a stutter. `TicketsShowOneDecision` and `ReportsStayTrue` share `ShownInv`,
which adds that a run which reports or shows on a ticket has ended, on a known
ticket, with a decision of the policy. `TypeCorrect` and these two hold if the
callers of `update_ticket` keep to the vocabularies (`UpdatesTyped`), which the tool
does not check.

### Ingestion

The documents, the texts of their chunks, the vector dimensions and the backends
are as `StoreAssumption` says; the number of tasks is not bounded.

| Theorem | Argument |
|---|---|
| `TypeCorrect`, `CachesAreCoherent`, `FullTextIsComplete`, `NoDocumentIsEmpty` | one inductive invariant `IInv`: the store's four properties, `StoreFit` (pgvector has no matrix, only SQLite with FTS5 full-text rows), `PhasesFit` (a task past reading has a document and a version with text) and `ServerFit` (who may be busy in which state of the server). `damaged` is what makes the middle of a delete and of a failed write fit |
| `StartupAdds` | with `SeedsLeft`: at start-up no document still in the queue has a chunk, so its delete removes nothing; the empty store at the start gives it |
| `ImplementsKnowledgeBase` | with `QueuesFit` (a queue holds documents of its task's requests) and `ClearFirst` (a task about to write a document has cleared it). Every step clears a document, shows one, or stutters. It assumes `RequestsApart`: no document is named by two tasks |

### Retrieval

`RetrievalAssumption` says that a query ranks chunks without repetition and every
lexical match of either backend, that the limit is positive and the weight a percentage.

| Theorem | Argument |
|---|---|
| `SearchesAreReads` | a search changes no variable of `Ingestion`, except that it may load the matrix, as `Search` does; so `RetrievalSpec => Spec`, and every theorem about ingestion holds while searches run. `SearchInv` rides along: a vector list repeats nothing, what it holds was indexed since the search began, and what `stable` holds still has all its rows |
| `SearchesFindTheStore` | both channels return indexed chunks that the filters admit, fusion and cutting add none and repeat none |
| `StableMatchesAreFound` | with `IInv` of the ingestion: a match of the backend's kind (`Asked`) that the filters admit and that keeps all its rows is a hit of the keyword read, is ranked, and is in the answer unless a limit cut it |
| `FusionRespectsRanks` | a score is a sum of two fractions, each smaller for a worse rank; scores are ordered by cross-multiplication (`Cancel`), and ties by place |
| `SearchedKnowledgeBase` | `ImplementsKnowledgeBase` through `SearchesAreReads` |

They rest on what `Ranked` and `Only` of `Lists` return (`RankedList`, `OnlyList`).
A rank is a cardinality and a list is ranked by its places; that the ranks of a finite
set are the numbers below its size is proved without induction over the set, from the
library's facts on injections and intervals.

### Chunking

`ChunkingAssumption` types the documents and the sizes; sizes that the code refuses
(`chunking.py:148`) are among them. The theorems hold for documents and sizes of any
length, and state every property of the `chunks` run.

| Theorem | Inductive invariant |
|---|---|
| `TypeCorrect`, `ProvenanceIsTrue`, `ChunksStayWithin` | `ParseInv` and `PackInv` |
| `ChunksOverlap` | `SeamInv`, with both |
| `NothingIsLost` | `TextInv`, with both |

`ParseInv` compares the parser between two lines with what a reader would say there:
its fence is that of the open block, its number that of the page, its stack of headings
(`StackInv`) those that are open, and the pages it has closed cross no border, have one
between them, and cover every line with text that was not lost. `ProvenanceTrue` does not
follow without the stack, which the code never compares with the document again.
`PackInv` says what is in work: the units to come are the rest of the open page, in
order and without gaps; the next chunk ends with a whole unit before them; it and every
finished chunk keep the ceiling and lie within lines of one citation.

A chunk is linked to the one before it while it is still growing. `SeamInv` therefore
says of the last chunk what comes behind it: the chunk in work, linked to it by an
overlap, or a border, or, behind a cut piece, a unit. `TextInv` speaks of the fresh
pieces of the chunks and of the chunk in work together: they lie before the first line
not yet packed (`FrontierOf`), in order and complete, and every line with text is in one
of them or waits in a unit or a page.

Open blocks and totals are recursive functions of a position. That such a function
exists at all needs induction in a library module whose theorems the provers cannot
instantiate; `Recursion` in `SetFacts` proves it from the least counterexample.

### Web research

`RegistryAssumption` types the registry; a tier is one of the five of `vendors.yaml`,
which the file keeps to and the loader does not check. `WeightAssumption` says that
weights of aliases add up to a natural number: that a fold over a finite set of naturals
is one needs induction over the set. TLC evaluates both.

| Theorem | Argument |
|---|---|
| `BlocklistHolds` | `Permitted`: every page of the evidence passed `is_permitted` under the policy that is still in force |
| `DetectsKnownVendor` | a highest score and a first position exist (`BestExists`, `PrecedenceIsNat`), so the choice is a vendor of the registry |
| `WrongVendorIsBounded` | `Permitted` and `PolicyFit`: the policy of a search that names a vendor and pins nothing is the registry's for some vendor. A vendor's list of domains is never empty, which is what keeps a strict policy from admitting every host |
| `ClearNamesDecide` | inductive by itself; `LeaderIsDetected` compares the lead with the weight of a guess |
| `AuthorityIsEarned` | `InOrder`: each page carries its class and no page outranks an earlier one; `EarnedTier` goes through the branches of `classify` and uses that the loader refuses a tier for a domain the vendor does not list |
| `TypeCorrect`, `FixturesMirrorTheWeb` | what filtering and sorting return is a list of what they are given (`SetFacts`); of the recorded pages, `FixtureAnswers` returns only those on an allowed or a repository host, so that only pages without content and on repository hosts are left to discard; the live provider is not constrained |

### Only model-checked

Liveness (`RunsComplete`, `IngestionsEnd`), which the prover does not handle under
fairness, and the `claim_*` runs, which refute. Every invariant and action property of
the other runs is stated by a theorem.

## Plan

Done: the graph, the routing engine, the desk, the store with its ingesters and
searches, chunking, web research, and the theorems above.

Next: the desk with the routing engine in place of the set of decisions; concurrent runs on one thread over a reduced graph.

## Not modelled

- Concurrent runs on one thread. Each works on its own copy of the checkpoint it
  started from, so what is shown of a run holds for it; two whole runs with the
  checkpoint between them are too many states even for three passages and three
  plans. What overlapping runs do to each other's evidence is in the list above.
- Injection patterns, text cleaning, prompts, log redaction, the response schemas'
  validators and the web page are text processing without state.
- The HTTP clients of model, embedding and search providers are I/O; a call answers
  or fails, and the one retry of a model call lies within it.
- The deterministic model and the hashing embedder are stand-ins: the graph is
  checked against every answer a model may give, retrieval against any ranking.
- Settings and the wiring of the container are the constants of the modules.
