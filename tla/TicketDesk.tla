----------------------------- MODULE TicketDesk -----------------------------
(***************************************************************************)
(* The ticket tools (app/tools/tickets/tools.py) over the in-memory ticket  *)
(* system (adapters.py), shared by concurrent triage runs of the graph      *)
(* (_act of app/agents/graph.py) and by whoever records approvals.  No call *)
(* of the in-memory adapter suspends, so the tools one node calls are one   *)
(* step; between two nodes other requests run.                              *)
(***************************************************************************)
EXTENDS Naturals, Sequences

CONSTANTS
  TicketIds, Seeded,     \* ids a caller may name; those the adapter is seeded with
  Runs,                  \* triage runs, each of one request
  Queues, Urgencies,     \* the vocabularies of the policy
  Decisions,             \* routing decisions [queue, urgency, escalate, human]
  RequiredForActions, AutoApprovedActions,   \* of the approval policy
  Updates,               \* what callers of update_ticket write: [queue, priority, status]
  MaxRefunds             \* bound: refunds issued

NoTicket == "no ticket"
NoRun == "no run"
HighRisk == {"issue_refund", "security_escalation"}
TriageActions == {"assign_queue", "update_priority", "add_ticket_comment"}
ReadOnly == {"get_ticket", "get_customer", "get_customer_history"}
Statuses == {"new", "open", "pending", "escalated", "resolved", "closed"}
Stages == {"idle", "route", "act", "done", "missing"}
Outcomes == {"ok", "failed", "held", "skipped"}

ASSUME DeskAssumption ==
  /\ Seeded \subseteq TicketIds /\ NoTicket \notin TicketIds /\ NoRun \notin Runs
  /\ Decisions \subseteq [queue : Queues, urgency : Urgencies, escalate : BOOLEAN, human : BOOLEAN]
  /\ MaxRefunds \in Nat
\* The shipped policy gates both high-risk actions and none of triage.
ASSUME PolicyAssumption ==
  /\ HighRisk \subseteq RequiredForActions \ (AutoApprovedActions \cup ReadOnly)
  /\ TriageActions \cap RequiredForActions \subseteq AutoApprovedActions

VARIABLES
  known,         \* ids of the ticket system
  tickets,       \* status, queue, priority and the runs that commented, by id
  escalations,   \* the ticket of each escalation record, by number
  refunds,       \* the ticket of each refund comment, in order
  approvals,     \* TicketTools._approvals
  stage, target, decision,   \* of each run: next step, ticket_id, routing_decision
  invoked,       \* of each run: how each tool it called ended
  granted,       \* history: the run an approval was given for, and the action
  lastRun        \* history: the run whose decision a ticket shows

desk == <<known, tickets, escalations, refunds>>
run == <<stage, target, decision, invoked>>
vars == <<desk, approvals, run, granted, lastRun>>

NewTicket == [status |-> "new", queue |-> "none", priority |-> "none", comments |-> {}]
NoDecision == [queue |-> "none", urgency |-> "none", escalate |-> FALSE, human |-> FALSE]
NothingInvoked == [assign |-> "skipped", priority |-> "skipped", comment |-> "skipped",
                   escalation |-> "skipped"]

Init ==
  /\ known = Seeded /\ tickets = [t \in TicketIds |-> NewTicket]
  /\ escalations = <<>> /\ refunds = <<>>
  /\ approvals = {} /\ granted = {}
  /\ stage = [r \in Runs |-> "idle"] /\ target = [r \in Runs |-> NoTicket]
  /\ decision = [r \in Runs |-> NoDecision]
  /\ invoked = [r \in Runs |-> NothingInvoked]
  /\ lastRun = [t \in TicketIds |-> NoRun]

-----------------------------------------------------------------------------
(* Requests *)

\* /api/tickets/{id}/process looks the ticket up first, and answers 404.
Process(r, t) ==
  /\ stage[r] = "idle"
  /\ stage' = [stage EXCEPT ![r] = IF t \in known THEN "route" ELSE "missing"]
  /\ target' = [target EXCEPT ![r] = t]
  /\ UNCHANGED <<desk, approvals, decision, invoked, granted, lastRun>>

\* /api/tickets/triage and /api/chat take any ticket_id, or none.
Triage(r, t) ==
  /\ stage[r] = "idle"
  /\ stage' = [stage EXCEPT ![r] = "route"]
  /\ target' = [target EXCEPT ![r] = t]
  /\ UNCHANGED <<desk, approvals, decision, invoked, granted, lastRun>>

\* _classify and _route decide, from the text as it was when the run began.
Route(r, d) ==
  /\ stage[r] = "route"
  /\ decision' = [decision EXCEPT ![r] = d]
  /\ stage' = [stage EXCEPT ![r] = "act"]
  /\ UNCHANGED <<desk, approvals, target, invoked, granted, lastRun>>

-----------------------------------------------------------------------------
(* Tools *)

\* Mutant: the approval of one action lifts every gate.
BlockedUntilAnyApproval(action) == action \in RequiredForActions /\ approvals = {}

\* _check_permission: the unattended actions first, then the gated ones.
Blocked(action) ==
  /\ action \notin AutoApprovedActions \cup ReadOnly
  /\ action \in RequiredForActions
  /\ action \notin approvals

\* How a tool ends: argument check, permission check, lookup.
Outcome(valid, action, t) ==
  CASE ~valid -> "failed"
    [] valid /\ Blocked(action) -> "held"
    [] valid /\ ~Blocked(action) -> IF t \in known THEN "ok" ELSE "failed"

(* What each tool writes to its ticket when it ends well. *)

\* Mutant: a status TicketStatus does not have.
AssignedAs(ticket, queue) == [ticket EXCEPT !.queue = queue, !.status = "assigned"]
Assigned(ticket, queue) == [ticket EXCEPT !.queue = queue, !.status = "open"]
Prioritised(ticket, urgency) == [ticket EXCEPT !.priority = urgency]
\* Mutant: add_comment replaces the comments.
CommentedOnly(ticket, r) == [ticket EXCEPT !.comments = {r}]
Commented(ticket, r) == [ticket EXCEPT !.comments = @ \cup {r}]
\* Mutant: create_escalation leaves the ticket's status.
EscalatedSilently(ticket) == ticket
Escalated(ticket) == [ticket EXCEPT !.status = "escalated"]

\* The tools _act calls for a decision, and how each of them ends.
Invocations(t, d) ==
  [assign |-> Outcome(d.queue \in Queues, "assign_queue", t),
   priority |-> Outcome(d.urgency \in Urgencies, "update_priority", t),
   comment |-> Outcome(TRUE, "add_ticket_comment", t),
   escalation |-> IF d.escalate THEN Outcome(TRUE, "security_escalation", t) ELSE "skipped"]

\* The ticket after these tools, called in this order.
Acted(ticket, r, d, i) ==
  LET assigned == IF i.assign = "ok" THEN Assigned(ticket, d.queue) ELSE ticket
      ranked == IF i.priority = "ok" THEN Prioritised(assigned, d.urgency) ELSE assigned
      noted == IF i.comment = "ok" THEN Commented(ranked, r) ELSE ranked
  IN  IF i.escalation = "ok" THEN Escalated(noted) ELSE noted

Act(r) ==
  /\ stage[r] = "act" /\ target[r] # NoTicket
  /\ LET t == target[r]
         i == Invocations(t, decision[r])
     IN  /\ invoked' = [invoked EXCEPT ![r] = i]
         /\ tickets' = [tickets EXCEPT ![t] = Acted(@, r, decision[r], i)]
         /\ escalations' = IF i.escalation = "ok" THEN Append(escalations, t) ELSE escalations
         /\ lastRun' = [lastRun EXCEPT ![t] = IF t \in known THEN r ELSE @]
  /\ stage' = [stage EXCEPT ![r] = "done"]
  /\ UNCHANGED <<known, refunds, approvals, target, decision, granted>>

\* An advisory run names no ticket.
ActAdvisory(r) ==
  /\ stage[r] = "act" /\ target[r] = NoTicket
  /\ stage' = [stage EXCEPT ![r] = "done"]
  /\ UNCHANGED <<desk, approvals, target, decision, invoked, granted, lastRun>>

\* A human approves an action a run has asked for.
GrantApproval(r, action) ==
  /\ approvals' = approvals \cup {action}
  /\ granted' = granted \cup {<<r, action>>}
  /\ UNCHANGED <<desk, run, lastRun>>

\* issue_refund adds a comment; an unknown ticket ends it in an exception,
\* which changes nothing.
IssueRefund(t) ==
  /\ Len(refunds) < MaxRefunds
  /\ ~Blocked("issue_refund")
  /\ t \in known
  /\ refunds' = Append(refunds, t)
  /\ UNCHANGED <<known, tickets, escalations, approvals, run, granted, lastRun>>

\* update_ticket writes any field of a ticket it is given.
UpdateTicket(t, fields) ==
  /\ ~Blocked("update_ticket")
  /\ t \in known
  /\ tickets' = [tickets EXCEPT ![t].queue = fields.queue, ![t].priority = fields.priority,
                                ![t].status = fields.status]
  /\ lastRun' = [lastRun EXCEPT ![t] = NoRun]
  /\ UNCHANGED <<known, escalations, refunds, approvals, run, granted>>

\* A ticket arrives (create_ticket, whose callers use new ids).
CreateTicket(t) ==
  /\ t \notin known
  /\ known' = known \cup {t}
  /\ tickets' = [tickets EXCEPT ![t] = NewTicket]
  /\ UNCHANGED <<escalations, refunds, approvals, run, granted, lastRun>>

Next ==
  \/ \E r \in Runs : \/ \E t \in TicketIds : Process(r, t)
                     \/ \E t \in TicketIds \cup {NoTicket} : Triage(r, t)
                     \/ \E d \in Decisions : Route(r, d)
                     \/ Act(r)
                     \/ ActAdvisory(r)
                     \/ \E a \in HighRisk : GrantApproval(r, a)
  \/ \E t \in TicketIds : \/ IssueRefund(t)
                          \/ CreateTicket(t)
                          \/ \E fields \in Updates : UpdateTicket(t, fields)

Spec == Init /\ [][Next]_vars

-----------------------------------------------------------------------------
(* Properties *)

TicketType == [status : Statuses, queue : Queues \cup {"none"},
               priority : Urgencies \cup {"none"}, comments : SUBSET Runs]
InvokedType == [assign : Outcomes, priority : Outcomes, comment : Outcomes, escalation : Outcomes]

\* A ticket's queue and priority come from the policy's vocabularies and its
\* status from TicketStatus, whatever the tools of all runs write.
TypeOK ==
  /\ known \subseteq TicketIds
  /\ tickets \in [TicketIds -> TicketType]
  /\ escalations \in Seq(TicketIds) /\ refunds \in Seq(TicketIds)
  /\ approvals \subseteq HighRisk
  /\ stage \in [Runs -> Stages]
  /\ target \in [Runs -> TicketIds \cup {NoTicket}]
  /\ decision \in [Runs -> Decisions \cup {NoDecision}]
  /\ invoked \in [Runs -> InvokedType]
  /\ granted \subseteq Runs \X HighRisk
  /\ lastRun \in [TicketIds -> Runs \cup {NoRun}]

\* A ticket shows the whole decision of the run that acted on it last: queue,
\* priority, that run's comment, and an escalated status exactly if the run
\* reported an escalation record.  No ticket mixes the decisions of two runs.
DecisionShown ==
  \A t \in TicketIds : LET r == lastRun[t] IN r # NoRun =>
    /\ tickets[t].queue = decision[r].queue
    /\ tickets[t].priority = decision[r].urgency
    /\ r \in tickets[t].comments
    /\ tickets[t].status = "escalated" <=> invoked[r].escalation = "ok"

\* What a run reported as done is still done however many runs, updates and
\* refunds follow: its comment is on the ticket, its escalation on record.
ReportedIsDone ==
  \A r \in Runs :
    /\ invoked[r].comment = "ok" => r \in tickets[target[r]].comments
    /\ invoked[r].escalation = "ok" =>
         \E n \in 1 .. Len(escalations) : escalations[n] = target[r]

\* The high-risk effects as the abstract gate sees them.
Performed == [a \in HighRisk |-> IF a = "issue_refund" THEN Len(refunds) ELSE Len(escalations)]
Gate == INSTANCE ApprovalGate WITH approved <- approvals, performed <- Performed

\* The tools implement the approval gate: a refund or an escalation record
\* appears only after its action was approved, one at a time, and stays.
GateRespected == Gate!Spec

-----------------------------------------------------------------------------
(* What the documentation and the comments say of the tools *)

\* tools.py: the approvals are "Actions a human has explicitly approved for
\* this run."
ApprovedForThisRun ==
  \A r \in Runs : invoked[r].escalation = "ok" => <<r, "security_escalation">> \in granted

=============================================================================
