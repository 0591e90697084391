----------------------------- MODULE AgentGraph -----------------------------
(***************************************************************************)
(* The agent graph of app/agents/graph.py: one conversation thread, its    *)
(* LangGraph nodes, the state of app/agents/state.py that survives in the  *)
(* checkpointer between runs of the same thread_id, and the API handler    *)
(* of app/api/main.py that starts a run and turns its result into a        *)
(* response.                                                               *)
(*                                                                         *)
(* One action is one node: LangGraph applies the update a node returns in  *)
(* one superstep, and nothing else reads the thread in between.  What the  *)
(* model, the retrieval tools and the ticket tools answer is chosen by     *)
(* \E: the model's answers from Plans and Assessments, the passages from   *)
(* the hit lists of at most MaxHits passages, failures anywhere.           *)
(***************************************************************************)
EXTENDS Naturals, Sequences, FiniteSets, FiniteSetsExt

CONSTANTS
  Requests,        \* texts of user requests
  Topics,          \* query formulations the model may write
  Missing,         \* missing_information texts the grader may write
  Passages,        \* retrievable passages, one per evidence fingerprint
  InternalPassages,\* those of the internal knowledge base; the rest is official
  Malicious,       \* passages the injection scan reports as MALICIOUS
  EnableScanning,  \* settings.enable_injection_scanning
  MaxIterations,   \* settings.agent_max_iterations
  MaxToolCalls,    \* settings.agent_max_tool_calls
  MaxHits,         \* bound: passages one search returns (retrieval_top_k)
  Plans,           \* bound: the QueryUnderstanding answers of the model
  Assessments,     \* bound: the EvidenceAssessment answers of the model
  MaxRuns          \* bound: runs on the thread

Workflow == {"research", "triage"}
Channels == {"internal", "official"}
TicketActions == {"assign_queue", "update_priority", "add_ticket_comment",
                  "create_escalation"}
Stages == {"understand", "grade", "detect_conflicts", "synthesize", "classify"}
Endpoints == {"research", "chat", "triage", "process"}

\* What _grade reports when nothing was retrieved at all, and no text at all.
Unretrieved == "No evidence was retrieved."
Gap == Missing \cup {Unretrieved, ""}

\* A query is the request, a formulation of the model, or the request with
\* the missing information appended to it.
QueryText == Requests \cup Topics \cup (Requests \X Gap)

Plan == [workflow : Workflow, needsRetrieval : BOOLEAN,
         channels : SUBSET Channels, queries : Seq(QueryText)]
Assessment == [sufficient : BOOLEAN, missing : Gap, refined : Seq(QueryText)]

ASSUME BudgetAssumption == MaxIterations \in Nat /\ MaxToolCalls \in Nat
ASSUME BoundAssumption == MaxHits \in Nat /\ MaxRuns \in Nat
ASSUME PassageAssumption == /\ InternalPassages \subseteq Passages
                            /\ Malicious \subseteq Passages
                            /\ EnableScanning \in BOOLEAN
ASSUME ModelAssumption == Plans \subseteq Plan /\ Assessments \subseteq Assessment

VARIABLES
  node,            \* the node that runs next; "idle" between runs
  runs,            \* runs started on this thread
  input,           \* request, endpoint and ticket of the current run
  workflow, needsRetrieval, channels,  \* set by _understand
  queries,         \* operator.add: accumulates over the runs of the thread
  evidence,        \* operator.add: accumulates over the runs of the thread
  quarantined,     \* operator.add: accumulates over the runs of the thread
  sufficient, missing, refined,        \* set by _grade, read by _refine
  iterations, toolCalls,               \* the Budget spent
  conflicts,       \* whether _detect_conflicts reported any
  answer,          \* answer, citations, confidence and caveats
  classification, decision, approval,  \* the triage branch
  errors,          \* operator.add: stages that reported an error
  invocations,     \* operator.add: tools called and whether they succeeded
  response         \* what the endpoint answered

inputVars == <<runs, input>>
planVars == <<workflow, needsRetrieval, channels>>
evidenceVars == <<evidence, quarantined>>
gradeVars == <<sufficient, missing, refined>>
budgetVars == <<iterations, toolCalls>>
answerVars == <<conflicts, answer>>
triageVars == <<classification, decision, approval>>
auditVars == <<errors, invocations>>
vars == <<node, inputVars, planVars, queries, evidenceVars, gradeVars, budgetVars,
          answerVars, triageVars, auditVars, response>>

-----------------------------------------------------------------------------
(* Values *)

\* An evidence record: the list of the code may hold `copies` equal items,
\* which all carry one handle.
Evidence == [handle : Nat, passage : Passages, copies : Nat]
Citation == [handle : Nat, passage : Passages]
Caveat == {"incomplete", "unverifiable", "excluded", "conflict"}

NoAnswer == [status |-> "empty", citations |-> {}, confidence |-> 0, caveats |-> {}]
NoInput == [endpoint |-> "none", request |-> "none", ticket |-> FALSE]
NoDecision == [made |-> FALSE, escalate |-> FALSE, approval |-> FALSE]

\* A run that could not be classified goes to the fallback queue and asks
\* for a human.
FallbackDecision == [made |-> TRUE, escalate |-> FALSE, approval |-> TRUE]

Init ==
  /\ node = "idle" /\ runs = 0 /\ input = NoInput
  /\ workflow = "none" /\ needsRetrieval = TRUE /\ channels = {}
  /\ queries = <<>> /\ evidence = {} /\ quarantined = {}
  /\ sufficient = FALSE /\ missing = "" /\ refined = <<>>
  /\ iterations = 0 /\ toolCalls = 0
  /\ conflicts = FALSE /\ answer = NoAnswer
  /\ classification = "none" /\ decision = NoDecision /\ approval = FALSE
  /\ errors = {} /\ invocations = {}
  /\ response = "none"

-----------------------------------------------------------------------------
(* A handler starts a run: initial_state() is merged into the thread.      *)
(* Fields with a reducer keep what earlier runs added, fields initial_state *)
(* does not name keep their last value, every other field is reset.        *)
(* /triage and /process never name a thread, so theirs is always fresh.    *)

OwnThread(endpoint) == endpoint \in {"triage", "process"}

\* Mutant: the decision of the thread's previous run survives.
InitialStateKeepsDecision ==
  /\ sufficient' = FALSE /\ missing' = "" /\ refined' = <<>>
  /\ iterations' = 0 /\ toolCalls' = 0
  /\ conflicts' = FALSE /\ answer' = NoAnswer
  /\ classification' = "none" /\ UNCHANGED decision /\ approval' = FALSE

\* The fields initial_state() names and no reducer accumulates.
InitialState ==
  /\ sufficient' = FALSE /\ missing' = "" /\ refined' = <<>>
  /\ iterations' = 0 /\ toolCalls' = 0
  /\ conflicts' = FALSE /\ answer' = NoAnswer
  /\ classification' = "none" /\ decision' = NoDecision /\ approval' = FALSE

StartRun(endpoint, request, ticket) ==
  /\ node = "idle" /\ runs < MaxRuns
  /\ endpoint = "research" => ~ticket
  /\ endpoint = "process" => ticket
  /\ OwnThread(endpoint) => runs = 0
  /\ ~OwnThread(input.endpoint)
  /\ input' = [endpoint |-> endpoint, request |-> request, ticket |-> ticket]
  /\ runs' = runs + 1
  /\ InitialState
  /\ workflow' = IF OwnThread(endpoint) THEN "triage" ELSE workflow
  /\ node' = "understand"
  /\ response' = "none"
  /\ UNCHANGED <<needsRetrieval, channels, queries, evidenceVars, auditVars>>

-----------------------------------------------------------------------------
(* Routing predicates *)

\* Mutant: the name of the workflow is returned for the name of its first node.
AfterUnderstandByName(kind, needs) ==
  IF kind = "triage" THEN kind ELSE IF needs THEN "retrieve" ELSE "synthesize"

AfterUnderstand(kind, needs) ==
  IF kind = "triage" THEN "classify" ELSE IF needs THEN "retrieve" ELSE "synthesize"

\* Mutant: one iteration too many.
AfterGradeLate(enough) ==
  IF enough \/ iterations > MaxIterations \/ toolCalls >= MaxToolCalls
  THEN "detect_conflicts" ELSE "refine"

\* Mutant: one iteration too few.
AfterGradeEarly(enough) ==
  IF enough \/ iterations + 1 >= MaxIterations \/ toolCalls >= MaxToolCalls
  THEN "detect_conflicts" ELSE "refine"

AfterGrade(enough) ==
  IF enough \/ iterations >= MaxIterations \/ toolCalls >= MaxToolCalls
  THEN "detect_conflicts" ELSE "refine"

-----------------------------------------------------------------------------
(* The research branch *)

Understand(plan) ==
  /\ node = "understand"
  /\ workflow' = IF input.ticket THEN "triage" ELSE plan.workflow
  /\ needsRetrieval' = plan.needsRetrieval
  /\ channels' = plan.channels
  /\ queries' = queries \o (IF plan.queries = <<>> THEN <<input.request>> ELSE plan.queries)
  /\ node' = AfterUnderstand(workflow', needsRetrieval')
  /\ UNCHANGED <<inputVars, evidenceVars, gradeVars, budgetVars, answerVars,
                 triageVars, auditVars, response>>

UnderstandFails ==
  /\ node = "understand"
  /\ workflow' = "research" /\ needsRetrieval' = TRUE /\ channels' = Channels
  /\ queries' = Append(queries, input.request)
  /\ errors' = errors \cup {"understand"}
  /\ node' = AfterUnderstand(workflow', needsRetrieval')
  /\ UNCHANGED <<inputVars, evidenceVars, gradeVars, budgetVars, answerVars,
                 triageVars, invocations, response>>

\* The queries one retrieval runs: the last two of the thread, or all of them.
Pending ==
  LET all == IF queries = <<>> THEN <<input.request>> ELSE queries
  IN  IF Len(all) > 2 THEN <<all[Len(all) - 1], all[Len(all)]>> ELSE all

PassagesOf(channel) ==
  IF channel = "internal" THEN InternalPassages ELSE Passages \ InternalPassages

\* What one search tool answers: a failure, or a ranked list of passages.
\* A channel the plan leaves out is not called.
Outcomes(channel) ==
  IF channel \notin channels THEN {[status |-> "skipped", hits |-> <<>>]}
  ELSE {[status |-> "failed", hits |-> <<>>]} \cup
       {[status |-> "ok", hits |-> list] :
          list \in UNION {[1 .. n -> PassagesOf(channel)] : n \in 0 .. MaxHits}}

CallsPerQuery == (IF "internal" \in channels THEN 1 ELSE 0)
               + (IF "official" \in channels THEN 1 ELSE 0)

\* Everything the calls of one retrieval returned, in call order.
Collected(found) ==
  LET hits(i) == found[i].internal.hits \o found[i].official.hits
  IN  IF Len(Pending) = 0 THEN <<>>
      ELSE IF Len(Pending) = 1 THEN hits(1) ELSE hits(1) \o hits(2)

\* Mutant: the last passage of the batch is not scanned.
QuarantineSkipsLast(list) ==
  IF EnableScanning THEN {list[i] : i \in 1 .. Len(list) - 1} \cap Malicious ELSE {}

\* screen_evidence: MALICIOUS passages never enter the evidence.
Quarantine(list) ==
  IF EnableScanning THEN {list[i] : i \in DOMAIN list} \cap Malicious ELSE {}

FirstAt(list, p) ==
  CHOOSE i \in DOMAIN list : list[i] = p /\ \A j \in DOMAIN list : list[j] = p => i <= j

\* Mutant: the registry of a later retrieval starts counting afresh.
HandleCounterRestarts(known) == 0

\* EvidenceRegistry.from_evidence: the counter continues after the highest
\* handle of the thread.
HandleCounter(known) == IF known = {} THEN 0 ELSE Max({e.handle : e \in known})

\* EvidenceRegistry.register_all over the collected list: a passage known to
\* the thread keeps its handle and is not added again; a new one takes the
\* next handle in order of first occurrence.  A passage the searches returned
\* several times in this retrieval is added once per occurrence, under one handle.
Registered(known, list) ==
  LET rejected == {e.passage : e \in known} \cup Quarantine(list)
      fresh == {list[i] : i \in DOMAIN list} \ rejected
      rank(p) == Cardinality({list[i] : i \in 1 .. FirstAt(list, p)} \ rejected)
  IN  {[handle |-> HandleCounter(known) + rank(p), passage |-> p,
        copies |-> Cardinality({i \in DOMAIN list : list[i] = p})] : p \in fresh}

\* Mutant: a channel counts as failed only when it never answered.
SilentChannels(found) ==
  {c \in Channels : \A i \in DOMAIN found : found[i][c].status = "failed"}

FailedChannels(found) ==
  {c \in Channels : \E i \in DOMAIN found : found[i][c].status = "failed"}
CalledWith(found, status) ==
  {c \in Channels : \E i \in DOMAIN found : found[i][c].status = status}

\* Budget.spend_tool_calls and Budget.spend_iteration return a new Budget;
\* the mutant loses it.
SpendNoIteration(used) == used
SpendToolCalls(used, count) == used + count
SpendIteration(used) == used + 1

Retrieve ==
  /\ node = "retrieve"
  /\ \E found \in [1 .. Len(Pending) -> [internal : Outcomes("internal"),
                                         official : Outcomes("official")]] :
       /\ evidence' = evidence \cup Registered(evidence, Collected(found))
       /\ quarantined' = quarantined \cup Quarantine(Collected(found))
       /\ errors' = errors \cup FailedChannels(found)
       /\ invocations' = invocations
            \cup {[tool |-> c, ok |-> TRUE] : c \in CalledWith(found, "ok")}
            \cup {[tool |-> c, ok |-> FALSE] : c \in CalledWith(found, "failed")}
  /\ toolCalls' = SpendToolCalls(toolCalls, Len(Pending) * CallsPerQuery)
  /\ iterations' = SpendIteration(iterations)
  /\ node' = "grade"
  /\ UNCHANGED <<inputVars, planVars, queries, gradeVars, answerVars,
                 triageVars, response>>

GradeNothing ==
  /\ node = "grade" /\ evidence = {}
  /\ sufficient' = FALSE
  /\ missing' = Unretrieved
  /\ node' = AfterGrade(FALSE)
  /\ UNCHANGED <<inputVars, planVars, queries, evidenceVars, refined, budgetVars,
                 answerVars, triageVars, auditVars, response>>

Grade(assessment) ==
  /\ node = "grade" /\ evidence # {}
  /\ sufficient' = assessment.sufficient
  /\ missing' = assessment.missing
  /\ refined' = assessment.refined
  /\ node' = AfterGrade(assessment.sufficient)
  /\ UNCHANGED <<inputVars, planVars, queries, evidenceVars, budgetVars, answerVars,
                 triageVars, auditVars, response>>

GradeFails ==
  /\ node = "grade" /\ evidence # {}
  /\ sufficient' = TRUE
  /\ errors' = errors \cup {"grade"}
  /\ node' = AfterGrade(TRUE)
  /\ UNCHANGED <<inputVars, planVars, queries, evidenceVars, missing, refined,
                 budgetVars, answerVars, triageVars, invocations, response>>

\* The formulations _refine considers and the positions of the untried ones.
Reworded ==
  IF refined # <<>> THEN refined
  ELSE <<IF missing = "" THEN input.request ELSE <<input.request, missing>> >>
Untried == {i \in DOMAIN Reworded : \A j \in DOMAIN queries : queries[j] # Reworded[i]}
IsLeast(i, S) == i \in S /\ \A j \in S : i <= j

\* At most two untried formulations are added, in the model's order.
Refine ==
  /\ node = "refine"
  /\ \E i \in Untried :
       /\ IsLeast(i, Untried)
       /\ \/ Untried = {i} /\ queries' = Append(queries, Reworded[i])
          \/ \E j \in Untried : /\ IsLeast(j, Untried \ {i})
                                /\ queries' = queries \o <<Reworded[i], Reworded[j]>>
  /\ node' = "retrieve"
  /\ UNCHANGED <<inputVars, planVars, evidenceVars, gradeVars, budgetVars, answerVars,
                 triageVars, auditVars, response>>

\* Nothing new to try: _refine declares the evidence sufficient, and the
\* graph's only edge out of it leads to another retrieval all the same.
RefineGivesUp ==
  /\ node = "refine" /\ Untried = {}
  /\ sufficient' = TRUE
  /\ node' = "retrieve"
  /\ UNCHANGED <<inputVars, planVars, queries, evidenceVars, missing, refined,
                 budgetVars, answerVars, triageVars, auditVars, response>>

TwoSided == {e \in evidence : e.passage \in InternalPassages} \notin {{}, evidence}

DetectConflicts(found) ==
  /\ node = "detect_conflicts"
  /\ found => TwoSided
  /\ conflicts' = found
  /\ node' = "synthesize"
  /\ UNCHANGED <<inputVars, planVars, queries, evidenceVars, gradeVars, budgetVars,
                 answer, triageVars, auditVars, response>>

DetectConflictsFails ==
  /\ node = "detect_conflicts" /\ TwoSided
  /\ conflicts' = FALSE
  /\ errors' = errors \cup {"detect_conflicts"}
  /\ node' = "synthesize"
  /\ UNCHANGED <<inputVars, planVars, queries, evidenceVars, gradeVars, budgetVars,
                 answer, triageVars, invocations, response>>

\* _insufficient: no evidence, or the model call failed.
Insufficient ==
  /\ node = "synthesize"
  /\ answer' = [answer EXCEPT !.status = "insufficient", !.citations = {}, !.confidence = 0]
  /\ errors' = errors \cup {"synthesize"}
  /\ node' = "respond"
  /\ UNCHANGED <<inputVars, planVars, queries, evidenceVars, gradeVars, budgetVars,
                 conflicts, triageVars, invocations, response>>

\* Mutant: a handle that does not resolve is given some retrieved passage.
ResolvedToAny(handles) ==
  {[handle |-> h, passage |-> (CHOOSE e \in evidence : TRUE).passage] : h \in handles}

\* CitationValidator: handles of the answer's text that resolve become
\* citations, the others are dropped.
Resolved(handles) ==
  {[handle |-> e.handle, passage |-> e.passage] : e \in {x \in evidence : x.handle \in handles}}
Fabricated(handles) == handles \ {e.handle : e \in evidence}

\* `cited` is the set of handles in the model's text; an answer the model
\* itself declares insufficient is not searched for handles.
Synthesize(cited, declined, confidence) ==
  /\ node = "synthesize" /\ evidence # {}
  /\ LET citations == IF declined THEN {} ELSE Resolved(cited)
         invalid == ~declined /\ Fabricated(cited) # {}
     IN  answer' = [status |-> IF citations = {} THEN "insufficient" ELSE "answered",
                    citations |-> citations,
                    confidence |-> IF citations = {} THEN 0 ELSE confidence,
                    caveats |-> {c \in Caveat : \/ c = "incomplete" /\ ~sufficient
                                                \/ c = "unverifiable" /\ invalid
                                                \/ c = "excluded" /\ quarantined # {}
                                                \/ c = "conflict" /\ conflicts}]
  /\ node' = "respond"
  /\ UNCHANGED <<inputVars, planVars, queries, evidenceVars, gradeVars, budgetVars,
                 conflicts, triageVars, auditVars, response>>

-----------------------------------------------------------------------------
(* The triage branch *)

Classify ==
  /\ node = "classify"
  /\ classification' = "classified"
  /\ node' = "route"
  /\ UNCHANGED <<inputVars, planVars, queries, evidenceVars, gradeVars, budgetVars,
                 answerVars, decision, approval, auditVars, response>>

ClassifyFails ==
  /\ node = "classify"
  /\ classification' = "none"
  /\ errors' = errors \cup {"classify"}
  /\ node' = "route"
  /\ UNCHANGED <<inputVars, planVars, queries, evidenceVars, gradeVars, budgetVars,
                 answerVars, decision, approval, invocations, response>>

\* The routing engine's decision, abstracted to whether it escalates and
\* whether it asks for a human.
Route(escalate, human) ==
  /\ node = "route" /\ classification # "none"
  /\ decision' = [made |-> TRUE, escalate |-> escalate, approval |-> human]
  /\ approval' = human
  /\ node' = "act"
  /\ UNCHANGED <<inputVars, planVars, queries, evidenceVars, gradeVars, budgetVars,
                 answerVars, classification, auditVars, response>>

RouteUnclassified ==
  /\ node = "route" /\ classification = "none"
  /\ decision' = FallbackDecision
  /\ node' = "act"
  /\ UNCHANGED <<inputVars, planVars, queries, evidenceVars, gradeVars, budgetVars,
                 answerVars, classification, approval, auditVars, response>>

\* _act: an advisory run does nothing; otherwise every tool is called whatever
\* the ones before it answered, and only the invocation list records a failure.
Act ==
  /\ node = "act"
  /\ IF decision.made /\ input.ticket
     THEN \E ok \in [TicketActions \ (IF decision.escalate THEN {} ELSE {"create_escalation"})
                       -> BOOLEAN] :
            invocations' = invocations \cup {[tool |-> t, ok |-> ok[t]] : t \in DOMAIN ok}
     ELSE invocations' = invocations
  /\ node' = "respond"
  /\ UNCHANGED <<inputVars, planVars, queries, evidenceVars, gradeVars, budgetVars,
                 answerVars, triageVars, errors, response>>

-----------------------------------------------------------------------------
\* The handler turns the final state into a response: /research always answers
\* as research, /triage and /process fail without a decision, /chat follows
\* the state.
ResponseKind ==
  CASE input.endpoint = "research" -> "research"
    [] input.endpoint = "chat" -> IF decision.made THEN "triage" ELSE "research"
    [] OTHER -> IF decision.made THEN "triage" ELSE "error"

Respond ==
  /\ node = "respond"
  /\ response' = ResponseKind
  /\ node' = "idle"
  /\ UNCHANGED <<inputVars, planVars, queries, evidenceVars, gradeVars, budgetVars,
                 answerVars, triageVars, auditVars>>

\* Every handle in use, and one that resolves to nothing.
Citable == {e.handle : e \in evidence} \cup {0}

Step ==
  \/ \E plan \in Plans : Understand(plan)
  \/ UnderstandFails
  \/ Retrieve
  \/ GradeNothing
  \/ \E assessment \in Assessments : Grade(assessment)
  \/ GradeFails
  \/ Refine
  \/ RefineGivesUp
  \/ \E found \in BOOLEAN : DetectConflicts(found)
  \/ DetectConflictsFails
  \/ Insufficient
  \/ \E cited \in SUBSET Citable, declined \in BOOLEAN, confidence \in {0, 1} :
       Synthesize(cited, declined, confidence)
  \/ Classify
  \/ ClassifyFails
  \/ \E escalate, human \in BOOLEAN : Route(escalate, human)
  \/ RouteUnclassified
  \/ Act
  \/ Respond

Next ==
  \/ \E endpoint \in Endpoints, request \in Requests, ticket \in BOOLEAN :
       StartRun(endpoint, request, ticket)
  \/ Step

\* Users may stop asking; a run the graph has started is driven to its end by
\* the event loop, every external call of it returning or raising.
Fairness == WF_vars(Step)
Spec == Init /\ [][Next]_vars /\ Fairness
-----------------------------------------------------------------------------
(* Properties *)

Nodes == {"idle", "understand", "retrieve", "grade", "refine", "detect_conflicts",
          "synthesize", "classify", "route", "act", "respond"}
ToolNames == Channels \cup TicketActions

InputType ==
  /\ runs \in Nat
  /\ input \in [endpoint : Endpoints \cup {"none"}, request : Requests \cup {"none"},
                ticket : BOOLEAN]
PlanType ==
  /\ workflow \in Workflow \cup {"none"}
  /\ needsRetrieval \in BOOLEAN
  /\ channels \subseteq Channels
EvidenceType == evidence \subseteq Evidence /\ quarantined \subseteq Passages
GradeType == sufficient \in BOOLEAN /\ missing \in Gap /\ refined \in Seq(QueryText)
BudgetType == iterations \in Nat /\ toolCalls \in Nat
AnswerType ==
  /\ conflicts \in BOOLEAN
  /\ answer \in [status : {"empty", "insufficient", "answered"},
                 citations : SUBSET Citation, confidence : {0, 1}, caveats : SUBSET Caveat]
TriageType ==
  /\ classification \in {"none", "classified"}
  /\ decision \in [made : BOOLEAN, escalate : BOOLEAN, approval : BOOLEAN]
  /\ approval \in BOOLEAN
AuditType ==
  /\ errors \subseteq Stages \cup Channels
  /\ invocations \subseteq [tool : ToolNames, ok : BOOLEAN]

\* Every field of the thread has the type AgentState declares for it.
TypeOK ==
  /\ node \in Nodes
  /\ queries \in Seq(QueryText)
  /\ response \in {"none", "research", "triage", "error"}
  /\ InputType /\ PlanType /\ EvidenceType /\ GradeType
  /\ BudgetType /\ AnswerType /\ TriageType /\ AuditType

\* The budget bounds the loop of one run (Budget, _after_grade): the first
\* retrieval is never checked, and a retrieval that was allowed to start
\* makes at most four calls, two queries on two channels.
BudgetBound ==
  /\ iterations <= MaxIterations \/ iterations <= 1
  /\ toolCalls < MaxToolCalls + 4 \/ toolCalls <= 4

\* Over all loops and all runs of a thread one handle names one passage and
\* one passage has one handle (EvidenceRegistry, "stable handles").
HandlesIdentify ==
  \A e, f \in evidence : e.handle = f.handle <=> e.passage = f.passage

\* A passage the injection scan reported never sits in the evidence the
\* prompts are built from, in this run or a later one (screen_evidence).
EvidenceScreened ==
  EnableScanning => {e.passage : e \in evidence} \cap (Malicious \cup quarantined) = {}

\* What an answer cites was retrieved: each citation is the evidence record
\* of its handle, an answer that is not flagged insufficient has at least
\* one, and one that is flagged has none and claims no confidence.
CitationsGrounded ==
  /\ \A c \in answer.citations :
       \E e \in evidence : e.handle = c.handle /\ e.passage = c.passage
  /\ answer.status = "answered" <=> answer.citations # {}
  /\ answer.confidence > 0 => answer.status = "answered"

\* A run that looped stops short of sufficient evidence only because its
\* budget is used up (_after_grade, "Out of budget").
StopsShortOnlyExhausted ==
  (answer.status # "empty" /\ iterations > 0 /\ ~sufficient)
    => (iterations >= MaxIterations \/ toolCalls >= MaxToolCalls)

\* Every response rests on exactly one branch of its own run: a decision or
\* an answer, never both and never one an earlier run of the thread left.
OneBranchPerRun ==
  response # "none" => (decision.made <=> answer.status = "empty")

\* A search that failed is reported as an error of the state (_retrieve).
SearchFailuresReported ==
  \A i \in invocations : (i.tool \in Channels /\ ~i.ok) => i.tool \in errors

\* Every run the API starts is answered, whatever the model and the tools do.
RunsComplete == node # "idle" ~> node = "idle"

-----------------------------------------------------------------------------
(* What the documentation says of the graph *)

\* graph.py, _retrieve: "Only run the queries added by the most recent
\* planning step."
OnlyPlannedQueries ==
  [][queries' # queries => Len(Pending') <= Len(queries') - Len(queries)]_vars

\* README.md, API reference: POST /api/tickets/triage answers "intent, urgency,
\* language, queue".
TriageDecides == OwnThread(input.endpoint) => response # "error"
=============================================================================
