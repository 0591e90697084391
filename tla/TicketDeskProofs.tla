-------------------------- MODULE TicketDeskProofs --------------------------
(* Theorems about TicketDesk for every set of tickets, runs and decisions.  *)
EXTENDS TicketDesk, TLAPS

\* Callers of update_ticket that write a queue, a priority and a status of the
\* vocabularies; the tool itself does not check them.
UpdatesTyped == Updates \subseteq [queue : Queues \cup {"none"}, priority : Urgencies \cup {"none"},
                                  status : Statuses]

\* Every tool ends in one of four ways.
LEMMA OutcomeTyped ==
  ASSUME NEW valid \in BOOLEAN, NEW action, NEW t
  PROVE  Outcome(valid, action, t) \in {"ok", "failed", "held"}
BY Zenon DEF Outcome

\* The tools triage uses are never gated, so they end well on known tickets.
LEMMA TriageOpen ==
  ASSUME NEW t \in known, NEW action \in TriageActions
  PROVE  Outcome(TRUE, action, t) = "ok"
<1>1. ~Blocked(action)
  BY PolicyAssumption DEF PolicyAssumption, Blocked
<1> QED  BY <1>1 DEF Outcome

\* A tool that ends well found its ticket, and was approved if it is gated.
LEMMA OkMeans ==
  ASSUME NEW valid \in BOOLEAN, NEW action, NEW t, Outcome(valid, action, t) = "ok"
  PROVE  t \in known /\ (action \in HighRisk => action \in approvals)
<1>1. ~Blocked(action)
  BY Zenon, OutcomeTyped DEF Outcome
<1>2. t \in known
  BY Zenon, <1>1 DEF Outcome
<1>3. action \in HighRisk => action \in approvals
  BY <1>1, PolicyAssumption DEF PolicyAssumption, Blocked
<1> QED  BY <1>2, <1>3

\* What the tools of a run report has the type of a report.
LEMMA InvocationsTyped ==
  ASSUME NEW t, NEW d
  PROVE  Invocations(t, d) \in InvokedType
<1>1. \A valid \in BOOLEAN : \A action : Outcome(valid, action, t) \in Outcomes
  BY OutcomeTyped DEF Outcomes
<1>2. (d.queue \in Queues) \in BOOLEAN /\ (d.urgency \in Urgencies) \in BOOLEAN
  OBVIOUS
<1> QED  BY <1>1, <1>2 DEF Invocations, InvokedType, Outcomes

\* The tools keep a ticket well-typed.
LEMMA ActedTyped ==
  ASSUME NEW ticket \in TicketType, NEW r \in Runs, NEW d, NEW t
  PROVE  Acted(ticket, r, d, Invocations(t, d)) \in TicketType
<1> DEFINE i == Invocations(t, d)
           assigned == IF i.assign = "ok" THEN Assigned(ticket, d.queue) ELSE ticket
           ranked == IF i.priority = "ok" THEN Prioritised(assigned, d.urgency) ELSE assigned
           noted == IF i.comment = "ok" THEN Commented(ranked, r) ELSE ranked
<1>0. /\ i.assign = Outcome(d.queue \in Queues, "assign_queue", t)
      /\ i.priority = Outcome(d.urgency \in Urgencies, "update_priority", t)
  BY DEF Invocations
<1>1. i.assign = "ok" => d.queue \in Queues
  BY <1>0 DEF Outcome
<1>2. i.priority = "ok" => d.urgency \in Urgencies
  BY <1>0 DEF Outcome
<1>3. assigned \in TicketType
  BY <1>1 DEF TicketType, Assigned, Statuses
<1>4. ranked \in TicketType
  BY <1>2, <1>3 DEF TicketType, Prioritised
<1>5. noted \in TicketType
  BY <1>4 DEF TicketType, Commented
<1>6. (IF i.escalation = "ok" THEN Escalated(noted) ELSE noted) \in TicketType
  BY <1>5 DEF TicketType, Escalated, Statuses
<1> QED  BY <1>6 DEF Acted

\* Unchanged groups of variables keep their types.
LEMMA Frames ==
  ASSUME TypeOK
  PROVE  /\ UNCHANGED desk => /\ known' \subseteq TicketIds
                              /\ tickets' \in [TicketIds -> TicketType]
                              /\ escalations' \in Seq(TicketIds) /\ refunds' \in Seq(TicketIds)
         /\ UNCHANGED run => /\ stage' \in [Runs -> Stages]
                             /\ target' \in [Runs -> TicketIds \cup {NoTicket}]
                             /\ decision' \in [Runs -> Decisions \cup {NoDecision}]
                             /\ invoked' \in [Runs -> InvokedType]
BY DEF TypeOK, desk, run

\* The vocabulary of a new desk.
LEMMA InitTyped == Init => TypeOK
<1> SUFFICES ASSUME Init PROVE TypeOK  OBVIOUS
<1>1. /\ known = Seeded /\ tickets = [t \in TicketIds |-> NewTicket]
      /\ escalations = <<>> /\ refunds = <<>>
  BY DEF Init
<1>2. /\ approvals = {} /\ granted = {}
      /\ stage = [r \in Runs |-> "idle"] /\ target = [r \in Runs |-> NoTicket]
  BY DEF Init
<1>3. /\ decision = [r \in Runs |-> NoDecision]
      /\ invoked = [r \in Runs |-> NothingInvoked]
      /\ lastRun = [t \in TicketIds |-> NoRun]
  BY DEF Init
<1>4. NewTicket \in TicketType
  BY DEF NewTicket, TicketType, Statuses
<1>5. NothingInvoked \in InvokedType
  BY DEF NothingInvoked, InvokedType, Outcomes
<1>6. known \subseteq TicketIds /\ tickets \in [TicketIds -> TicketType]
      /\ escalations \in Seq(TicketIds) /\ refunds \in Seq(TicketIds)
  BY <1>1, <1>4, DeskAssumption DEF DeskAssumption
<1>7. /\ approvals \subseteq HighRisk
      /\ granted \subseteq Runs \X HighRisk
      /\ stage \in [Runs -> Stages] /\ target \in [Runs -> TicketIds \cup {NoTicket}]
  BY <1>2 DEF Stages
<1>8. /\ decision \in [Runs -> Decisions \cup {NoDecision}]
      /\ invoked \in [Runs -> InvokedType]
      /\ lastRun \in [TicketIds -> Runs \cup {NoRun}]
  BY <1>3, <1>5
<1> QED  BY <1>6, <1>7, <1>8 DEF TypeOK

LEMMA StepTyped ==
  ASSUME UpdatesTyped, TypeOK, [Next]_vars
  PROVE  TypeOK'
<1>1. ASSUME NEW r \in Runs, NEW t \in TicketIds, Process(r, t) PROVE TypeOK'
  BY <1>1, Frames DEF TypeOK, Process, Stages
<1>2. ASSUME NEW r \in Runs, NEW t \in TicketIds \cup {NoTicket}, Triage(r, t) PROVE TypeOK'
  BY <1>2, Frames DEF TypeOK, Triage, Stages
<1>3. ASSUME NEW r \in Runs, NEW d \in Decisions, Route(r, d) PROVE TypeOK'
  BY <1>3, Frames DEF TypeOK, Route, Stages
<1>4. ASSUME NEW r \in Runs, Act(r) PROVE TypeOK'
  <2> DEFINE t == target[r]
             i == Invocations(t, decision[r])
             acted == Acted(tickets[t], r, decision[r], i)
  <2>1. t \in TicketIds
    BY <1>4 DEF TypeOK, Act
  <2>2. /\ invoked' = [invoked EXCEPT ![r] = i]
        /\ tickets' = [tickets EXCEPT ![t] = acted]
        /\ escalations' = IF i.escalation = "ok" THEN Append(escalations, t) ELSE escalations
        /\ lastRun' = [lastRun EXCEPT ![t] = IF t \in known THEN r ELSE @]
        /\ stage' = [stage EXCEPT ![r] = "done"]
        /\ UNCHANGED <<known, refunds, approvals, target, decision, granted>>
    BY <1>4 DEF Act
  <2>3. i \in InvokedType  BY InvocationsTyped
  <2>4. acted \in TicketType  BY <2>1, ActedTyped DEF TypeOK
  <2> HIDE DEF i, acted, t
  <2>5. tickets' \in [TicketIds -> TicketType]  BY <2>2, <2>4 DEF TypeOK
  <2>6. invoked' \in [Runs -> InvokedType]  BY <2>2, <2>3 DEF TypeOK
  <2>7. escalations' \in Seq(TicketIds)  BY <2>1, <2>2 DEF TypeOK
  <2>8. lastRun' \in [TicketIds -> Runs \cup {NoRun}]  BY <2>2 DEF TypeOK
  <2>9. stage' \in [Runs -> Stages]  BY <2>2 DEF TypeOK, Stages
  <2> QED  BY <2>2, <2>5, <2>6, <2>7, <2>8, <2>9 DEF TypeOK
<1>5. ASSUME NEW r \in Runs, ActAdvisory(r) PROVE TypeOK'
  BY <1>5, Frames DEF TypeOK, ActAdvisory, Stages
<1>6. ASSUME NEW r \in Runs, NEW a \in HighRisk, GrantApproval(r, a) PROVE TypeOK'
  BY <1>6, Frames DEF TypeOK, GrantApproval
<1>7. ASSUME NEW t \in TicketIds, IssueRefund(t) PROVE TypeOK'
  <2>1. refunds' = Append(refunds, t) /\ refunds \in Seq(TicketIds)
    BY <1>7 DEF IssueRefund, TypeOK
  <2>2. refunds' \in Seq(TicketIds)
    BY <2>1
  <2> QED  BY <1>7, <2>2, Frames DEF TypeOK, IssueRefund
<1>8. ASSUME NEW t \in TicketIds, NEW fields \in Updates, UpdateTicket(t, fields) PROVE TypeOK'
  <2>1. /\ fields.queue \in Queues \cup {"none"} /\ fields.priority \in Urgencies \cup {"none"}
        /\ fields.status \in Statuses
    BY DEF UpdatesTyped
  <2>2. tickets[t] \in TicketType  BY DEF TypeOK
  <2>3. [tickets[t] EXCEPT !.queue = fields.queue, !.priority = fields.priority,
                           !.status = fields.status] \in TicketType
    BY <2>1, <2>2 DEF TicketType
  <2>4. tickets' \in [TicketIds -> TicketType]
    BY <1>8, <2>3 DEF UpdateTicket, TypeOK
  <2> QED  BY <1>8, <2>4, Frames DEF TypeOK, UpdateTicket
<1>9. ASSUME NEW t \in TicketIds, CreateTicket(t) PROVE TypeOK'
  <2>1. NewTicket \in TicketType
    BY DEF NewTicket, TicketType, Statuses
  <2>2. tickets' \in [TicketIds -> TicketType] /\ known' \subseteq TicketIds
    BY <1>9, <2>1 DEF CreateTicket, TypeOK
  <2> QED  BY <1>9, <2>2, Frames DEF TypeOK, CreateTicket
<1>10. CASE UNCHANGED vars
  BY <1>10, Frames DEF vars, TypeOK
<1> QED  BY <1>1, <1>2, <1>3, <1>4, <1>5, <1>6, <1>7, <1>8, <1>9, <1>10 DEF Next

\* For every set of tickets, runs and decisions: as long as the callers of
\* update_ticket keep to the vocabularies, so does every ticket.
THEOREM TypeCorrect == UpdatesTyped => (Spec => []TypeOK)
<1> SUFFICES ASSUME UpdatesTyped PROVE Spec => []TypeOK  OBVIOUS
<1>1. TypeOK /\ [Next]_vars => TypeOK'  BY StepTyped
<1> QED  BY <1>1, InitTyped, PTL DEF Spec

-----------------------------------------------------------------------------
(* The approval gate *)

\* What the gate sees of the desk.
LogsTyped == /\ known \subseteq TicketIds
             /\ escalations \in Seq(TicketIds) /\ refunds \in Seq(TicketIds)

LEMMA LogsKept ==
  ASSUME LogsTyped, [Next]_vars
  PROVE  LogsTyped'
<1>1. ASSUME NEW r \in Runs, Act(r) PROVE LogsTyped'
  <2> DEFINE t == target[r]
             i == Invocations(t, decision[r])
  <2>1. i.escalation = "ok" => t \in known
    BY OkMeans DEF Invocations
  <2>2. escalations' = IF i.escalation = "ok" THEN Append(escalations, t) ELSE escalations
    BY <1>1 DEF Act
  <2> HIDE DEF i, t
  <2>3. escalations' \in Seq(TicketIds)  BY <2>1, <2>2 DEF LogsTyped
  <2> QED  BY <1>1, <2>3 DEF LogsTyped, Act
<1>2. ASSUME NEW t \in TicketIds, IssueRefund(t) PROVE LogsTyped'
  BY <1>2 DEF IssueRefund, LogsTyped
<1>3. ASSUME NEW t \in TicketIds, CreateTicket(t) PROVE LogsTyped'
  BY <1>3 DEF CreateTicket, LogsTyped
<1>4. ASSUME UNCHANGED <<known, escalations, refunds>> PROVE LogsTyped'
  BY <1>4 DEF LogsTyped
<1> QED
  BY <1>1, <1>2, <1>3, <1>4
  DEF Next, vars, desk, Process, Triage, Route, ActAdvisory, GrantApproval, UpdateTicket

\* One more high-risk effect is one more performed action.
LEMMA OneMorePerformed ==
  ASSUME NEW t \in TicketIds, LogsTyped
  PROVE  /\ escalations' = Append(escalations, t) /\ refunds' = refunds
              => Performed' = [Performed EXCEPT !["security_escalation"] = @ + 1]
         /\ refunds' = Append(refunds, t) /\ escalations' = escalations
              => Performed' = [Performed EXCEPT !["issue_refund"] = @ + 1]
<1>1. \A s \in Seq(TicketIds) : Len(Append(s, t)) = Len(s) + 1
  OBVIOUS
<1> QED  BY <1>1 DEF LogsTyped, Performed, HighRisk

\* Every step of the desk is a step of the gate or leaves it alone.
LEMMA StepGated ==
  ASSUME LogsTyped, [Next]_vars
  PROVE  [Gate!Next]_(Gate!gateVars)
<1>1. ASSUME NEW r \in Runs, Act(r) PROVE [Gate!Next]_(Gate!gateVars)
  <2> DEFINE t == target[r]
             i == Invocations(t, decision[r])
  <2>1. i.escalation = "ok" => t \in known /\ "security_escalation" \in approvals
    BY OkMeans DEF Invocations, HighRisk
  <2>2. /\ escalations' = IF i.escalation = "ok" THEN Append(escalations, t) ELSE escalations
        /\ refunds' = refunds /\ approvals' = approvals
    BY <1>1 DEF Act
  <2> HIDE DEF i, t
  <2>3. CASE i.escalation = "ok"
    <3>1. t \in TicketIds  BY <2>1, <2>3 DEF LogsTyped
    <3>2. Performed' = [Performed EXCEPT !["security_escalation"] = @ + 1]
      BY <2>2, <2>3, <3>1, OneMorePerformed
    <3>3. Gate!Perform("security_escalation")
      BY <2>1, <2>2, <2>3, <3>2 DEF Gate!Perform
    <3> QED  BY <3>3 DEF Gate!Next, HighRisk
  <2>4. CASE i.escalation # "ok"
    BY <2>2, <2>4 DEF Gate!gateVars, Performed
  <2> QED  BY <2>3, <2>4
<1>2. ASSUME NEW t \in TicketIds, IssueRefund(t) PROVE [Gate!Next]_(Gate!gateVars)
  <2>1. "issue_refund" \in approvals
    BY <1>2, PolicyAssumption DEF PolicyAssumption, IssueRefund, Blocked, HighRisk
  <2>2. refunds' = Append(refunds, t) /\ escalations' = escalations /\ approvals' = approvals
    BY <1>2 DEF IssueRefund
  <2>3. Performed' = [Performed EXCEPT !["issue_refund"] = @ + 1]
    BY <2>2, OneMorePerformed
  <2>4. Gate!Perform("issue_refund")
    BY <2>1, <2>2, <2>3 DEF Gate!Perform
  <2> QED  BY <2>4 DEF Gate!Next, HighRisk
<1>3. ASSUME NEW r \in Runs, NEW a \in HighRisk, GrantApproval(r, a)
      PROVE  [Gate!Next]_(Gate!gateVars)
  <2>1. Performed' = Performed
    BY <1>3 DEF GrantApproval, desk, Performed
  <2>2. Gate!Approve(a)
    BY <1>3, <2>1 DEF GrantApproval, Gate!Approve
  <2> QED  BY <2>2 DEF Gate!Next
<1>4. ASSUME UNCHANGED <<escalations, refunds, approvals>> PROVE [Gate!Next]_(Gate!gateVars)
  BY <1>4 DEF Gate!gateVars, Performed
<1> QED
  BY <1>1, <1>2, <1>3, <1>4
  DEF Next, vars, desk, Process, Triage, Route, ActAdvisory, UpdateTicket, CreateTicket

\* The tools implement the approval gate for every policy that gates both
\* actions: whatever runs, updates and refunds interleave, no refund and no
\* escalation record appears before its action was approved.
THEOREM ImplementsGate == Spec => GateRespected
<1>1. Init => Gate!Init
  BY DEF Init, Gate!Init, Performed
<1>2. Init => LogsTyped
  BY DeskAssumption DEF DeskAssumption, Init, LogsTyped
<1>3. LogsTyped /\ [Next]_vars => LogsTyped'
  BY LogsKept
<1>4. LogsTyped /\ [Next]_vars => [Gate!Next]_(Gate!gateVars)
  BY StepGated
<1> QED  BY <1>1, <1>2, <1>3, <1>4, PTL DEF Spec, GateRespected, Gate!Spec
-----------------------------------------------------------------------------
(* Decisions and reports *)

\* Behind DecisionShown and ReportedIsDone: a run that reports or whose
\* decision shows has ended, on a known ticket, with a decision of the policy.
DeskInv ==
  /\ \A r \in Runs : stage[r] = "act" => decision[r] \in Decisions
  /\ \A r \in Runs : invoked[r].comment = "ok" \/ invoked[r].escalation = "ok" =>
       stage[r] = "done" /\ target[r] \in known
  /\ \A t \in TicketIds : lastRun[t] # NoRun =>
       t \in known /\ stage[lastRun[t]] = "done" /\ target[lastRun[t]] = t

\* The tickets show decisions, and every report is true.
ShownInv == TypeOK /\ DeskInv /\ DecisionShown /\ ReportedIsDone

\* A step of a run that changes nothing on the desk preserves it.
LEMMA RunStep ==
  ASSUME ShownInv, TypeOK', UNCHANGED <<desk, invoked, lastRun>>,
         NEW r \in Runs, stage[r] # "done",
         \A q \in Runs \ {r} : stage'[q] = stage[q] /\ target'[q] = target[q]
                               /\ decision'[q] = decision[q],
         stage'[r] = "act" => decision'[r] \in Decisions
  PROVE  ShownInv'
<1>1. /\ known' = known /\ tickets' = tickets /\ escalations' = escalations
      /\ invoked' = invoked /\ lastRun' = lastRun
  BY DEF desk
<1>2. \A q \in Runs : stage[q] = "done" => q # r
  OBVIOUS
<1>3. \A t \in TicketIds : lastRun[t] # NoRun => lastRun[t] \in Runs
  BY DEF ShownInv, TypeOK
<1>4. DeskInv'
  BY <1>1, <1>2, <1>3 DEF ShownInv, DeskInv
<1>5. DecisionShown'
  BY <1>1, <1>2, <1>3 DEF ShownInv, DeskInv, DecisionShown
<1>6. ReportedIsDone'
  BY <1>1, <1>2 DEF ShownInv, DeskInv, ReportedIsDone
<1> QED  BY <1>4, <1>5, <1>6 DEF ShownInv

\* What a ticket of a triaged run shows.
LEMMA ActedShows ==
  ASSUME NEW ticket \in TicketType, NEW r \in Runs, NEW d \in Decisions, NEW t \in known
  PROVE  LET i == Invocations(t, d)
             acted == Acted(ticket, r, d, i)
         IN  /\ acted.queue = d.queue /\ acted.priority = d.urgency
             /\ acted.comments = ticket.comments \cup {r}
             /\ acted.status = "escalated" <=> i.escalation = "ok"
<1> DEFINE i == Invocations(t, d)
           acted == Acted(ticket, r, d, i)
<1>1. d.queue \in Queues /\ d.urgency \in Urgencies
  BY DeskAssumption DEF DeskAssumption
<1>2. /\ Outcome(TRUE, "assign_queue", t) = "ok"
      /\ Outcome(TRUE, "update_priority", t) = "ok"
      /\ Outcome(TRUE, "add_ticket_comment", t) = "ok"
  BY TriageOpen DEF TriageActions
<1>3. i.assign = "ok" /\ i.priority = "ok" /\ i.comment = "ok"
  BY <1>1, <1>2 DEF Invocations
<1> DEFINE noted == Commented(Prioritised(Assigned(ticket, d.queue), d.urgency), r)
<1>4. /\ noted.queue = d.queue /\ noted.priority = d.urgency
      /\ noted.comments = ticket.comments \cup {r} /\ noted.status = "open"
      /\ noted \in [status : {"open"}, queue : {d.queue}, priority : {d.urgency},
                    comments : {ticket.comments \cup {r}}]
  BY DEF Commented, Prioritised, Assigned, TicketType
<1> HIDE DEF i
<1>5. acted = IF i.escalation = "ok" THEN Escalated(noted) ELSE noted
  BY <1>3 DEF Acted
<1> HIDE DEF noted, acted
<1>6. CASE i.escalation = "ok"
  <2>1. acted = [noted EXCEPT !.status = "escalated"]  BY <1>5, <1>6 DEF Escalated
  <2> QED  BY <1>4, <1>6, <2>1 DEF i, acted
<1>7. CASE i.escalation # "ok"
  <2>1. acted = noted  BY <1>5, <1>7
  <2> QED  BY <1>4, <1>7, <2>1 DEF i, acted
<1> QED  BY <1>6, <1>7
\* Tools that are called for an unknown ticket change nothing.
LEMMA UnknownUntouched ==
  ASSUME NEW t, t \notin known, NEW d, NEW r, NEW ticket
  PROVE  LET i == Invocations(t, d)
         IN  /\ i.comment # "ok" /\ i.escalation # "ok"
             /\ Acted(ticket, r, d, i) = ticket
<1> DEFINE i == Invocations(t, d)
<1>1. \A valid \in BOOLEAN : \A action : Outcome(valid, action, t) # "ok"
  BY OkMeans
<1>2. (d.queue \in Queues) \in BOOLEAN /\ (d.urgency \in Urgencies) \in BOOLEAN
  OBVIOUS
<1>3. /\ i.assign # "ok" /\ i.priority # "ok"
      /\ i.comment # "ok" /\ i.escalation # "ok"
  BY <1>1, <1>2 DEF Invocations
<1> QED  BY <1>3 DEF Acted

\* Acting shows the decision of the run, and keeps what others reported.
LEMMA ActShows ==
  ASSUME ShownInv, TypeOK', NEW r \in Runs, Act(r)
  PROVE  ShownInv'
<1> DEFINE t == target[r]
           d == decision[r]
           i == Invocations(t, d)
           acted == Acted(tickets[t], r, d, i)
<1>1. /\ invoked' = [invoked EXCEPT ![r] = i]
      /\ tickets' = [tickets EXCEPT ![t] = acted]
      /\ escalations' = IF i.escalation = "ok" THEN Append(escalations, t) ELSE escalations
      /\ lastRun' = [lastRun EXCEPT ![t] = IF t \in known THEN r ELSE @]
      /\ stage' = [stage EXCEPT ![r] = "done"]
      /\ known' = known /\ target' = target /\ decision' = decision
  BY DEF Act
<1>2. stage[r] = "act" /\ t # NoTicket
  BY DEF Act
<1>3. /\ d \in Decisions /\ t \in TicketIds /\ tickets[t] \in TicketType
      /\ tickets \in [TicketIds -> TicketType] /\ invoked \in [Runs -> InvokedType]
      /\ lastRun \in [TicketIds -> Runs \cup {NoRun}] /\ stage \in [Runs -> Stages]
      /\ escalations \in Seq(TicketIds)
      /\ NoRun \notin Runs
  BY <1>2, DeskAssumption DEF ShownInv, DeskInv, TypeOK, DeskAssumption
<1>4. /\ i.comment = "ok" \/ i.escalation = "ok" => t \in known
      /\ t \notin known => acted = tickets[t]
  BY UnknownUntouched
<1>5. t \in known => /\ acted.queue = d.queue /\ acted.priority = d.urgency
                     /\ acted.comments = tickets[t].comments \cup {r}
                     /\ acted.status = "escalated" <=> i.escalation = "ok"
  BY <1>3, ActedShows
<1> HIDE DEF i, acted, t, d
<1>6. \A q \in Runs : stage[q] = "done" => q # r
  BY <1>2
<1>7. DeskInv'
  BY <1>1, <1>3, <1>4, <1>6 DEF ShownInv, DeskInv, t
<1>8. DecisionShown'
  <2> SUFFICES ASSUME NEW u \in TicketIds, lastRun'[u] # NoRun
               PROVE  LET q == lastRun'[u]
                      IN  /\ tickets'[u].queue = decision'[q].queue
                          /\ tickets'[u].priority = decision'[q].urgency
                          /\ q \in tickets'[u].comments
                          /\ tickets'[u].status = "escalated" <=> invoked'[q].escalation = "ok"
    BY DEF DecisionShown
  <2>1. CASE u = t /\ t \in known
    <3>1. lastRun'[u] = r /\ tickets'[u] = acted /\ invoked'[r] = i
      BY <1>1, <1>3, <2>1
    <3> QED  BY <1>1, <1>5, <2>1, <3>1 DEF d
  <2>2. CASE u # t \/ t \notin known
    <3>1. lastRun'[u] = lastRun[u] /\ tickets'[u] = tickets[u]
      BY <1>1, <1>3, <1>4, <2>2
    <3>2. lastRun[u] \in Runs /\ lastRun[u] # r
      BY <1>3, <1>6, <3>1 DEF ShownInv, DeskInv
    <3>3. invoked'[lastRun[u]] = invoked[lastRun[u]]
      BY <1>1, <1>3, <3>2
    <3> QED  BY <1>1, <3>1, <3>3 DEF ShownInv, DecisionShown
  <2> QED  BY <2>1, <2>2
<1>9. ReportedIsDone'
  <2> SUFFICES ASSUME NEW q \in Runs
               PROVE  /\ invoked'[q].comment = "ok" => q \in tickets'[target'[q]].comments
                      /\ invoked'[q].escalation = "ok" =>
                           \E n \in 1 .. Len(escalations') : escalations'[n] = target'[q]
    BY DEF ReportedIsDone
  <2>1. Len(escalations) \in Nat
    BY <1>3
  <2>2. \A n \in 1 .. Len(escalations) : n \in 1 .. Len(escalations')
                                        /\ escalations'[n] = escalations[n]
    BY <1>1, <1>3, <2>1
  <2>3. CASE q = r
    <3>1. invoked'[q] = i /\ target'[q] = t
      BY <1>1, <1>3, <2>3 DEF t
    <3>2. i.comment = "ok" => q \in tickets'[t].comments
      BY <1>1, <1>3, <1>4, <1>5, <2>3
    <3>3. i.escalation = "ok" => Len(escalations) + 1 \in 1 .. Len(escalations')
                               /\ escalations'[Len(escalations) + 1] = t
      BY <1>1, <1>3, <2>1
    <3> QED  BY <3>1, <3>2, <3>3
  <2>4. CASE q # r
    <3>1. invoked'[q] = invoked[q] /\ target'[q] = target[q]
      BY <1>1, <1>3, <2>4
    <3>2. invoked[q].comment = "ok" => q \in tickets'[target[q]].comments
      <4>1. CASE target[q] = t
        BY <1>1, <1>3, <1>4, <1>5, <4>1 DEF ShownInv, ReportedIsDone
      <4>2. CASE target[q] # t
        BY <1>1, <1>3, <4>2 DEF ShownInv, ReportedIsDone
      <4> QED  BY <4>1, <4>2
    <3> QED  BY <2>2, <3>1, <3>2 DEF ShownInv, ReportedIsDone
  <2> QED  BY <2>3, <2>4
<1> QED  BY <1>7, <1>8, <1>9 DEF ShownInv

\* The three facts about every step.
LEMMA StepShows ==
  ASSUME ShownInv, TypeOK', [Next]_vars
  PROVE  ShownInv'
<1>1. ASSUME NEW r \in Runs, NEW t \in TicketIds, Process(r, t) PROVE ShownInv'
  BY <1>1, RunStep DEF Process, ShownInv, TypeOK
<1>2. ASSUME NEW r \in Runs, NEW t \in TicketIds \cup {NoTicket}, Triage(r, t) PROVE ShownInv'
  BY <1>2, RunStep DEF Triage, ShownInv, TypeOK
<1>3. ASSUME NEW r \in Runs, NEW d \in Decisions, Route(r, d) PROVE ShownInv'
  BY <1>3, RunStep DEF Route, ShownInv, TypeOK
<1>4. ASSUME NEW r \in Runs, Act(r) PROVE ShownInv'
  BY <1>4, ActShows
<1>5. ASSUME NEW r \in Runs, ActAdvisory(r) PROVE ShownInv'
  BY <1>5, RunStep DEF ActAdvisory, ShownInv, TypeOK
<1>6. ASSUME UNCHANGED <<known, tickets, escalations, run, lastRun>> PROVE ShownInv'
  BY <1>6 DEF run, ShownInv, DeskInv, DecisionShown, ReportedIsDone
<1>7. ASSUME NEW t \in TicketIds, NEW fields \in Updates, UpdateTicket(t, fields) PROVE ShownInv'
  <2>1. /\ tickets' = [tickets EXCEPT ![t].queue = fields.queue,
                                      ![t].priority = fields.priority,
                                      ![t].status = fields.status]
        /\ lastRun' = [lastRun EXCEPT ![t] = NoRun]
        /\ known' = known /\ escalations' = escalations /\ stage' = stage
        /\ target' = target /\ decision' = decision /\ invoked' = invoked
    BY <1>7 DEF UpdateTicket, run
  <2>2. /\ tickets \in [TicketIds -> TicketType] /\ lastRun \in [TicketIds -> Runs \cup {NoRun}]
        /\ NoRun \notin Runs
    BY DeskAssumption DEF ShownInv, TypeOK, DeskAssumption
  <2>3. \A u \in TicketIds : u # t => tickets'[u] = tickets[u] /\ lastRun'[u] = lastRun[u]
    BY <2>1, <2>2
  <2>4. lastRun'[t] = NoRun /\ tickets'[t].comments = tickets[t].comments
    BY <2>1, <2>2 DEF TicketType
  <2>5. DeskInv'  BY <2>1, <2>3, <2>4 DEF ShownInv, DeskInv
  <2>6. DecisionShown'  BY <2>1, <2>3, <2>4 DEF ShownInv, DecisionShown
  <2>7. \A q \in Runs : invoked[q].comment = "ok" => target[q] \in TicketIds
    BY DEF ShownInv, DeskInv, TypeOK
  <2>8. ReportedIsDone'
    BY <2>1, <2>3, <2>4, <2>7 DEF ShownInv, ReportedIsDone
  <2> QED  BY <2>5, <2>6, <2>8 DEF ShownInv
<1>8. ASSUME NEW t \in TicketIds, CreateTicket(t) PROVE ShownInv'
  <2>1. /\ t \notin known /\ known' = known \cup {t}
        /\ tickets' = [tickets EXCEPT ![t] = NewTicket]
        /\ lastRun' = lastRun /\ escalations' = escalations /\ stage' = stage
        /\ target' = target /\ decision' = decision /\ invoked' = invoked
    BY <1>8 DEF CreateTicket, run
  <2>2. \A u \in known : u \in TicketIds /\ tickets'[u] = tickets[u]
    BY <2>1 DEF ShownInv, TypeOK
  <2>3. DeskInv'  BY <2>1 DEF ShownInv, DeskInv
  <2>4. DecisionShown'  BY <2>1, <2>2 DEF ShownInv, DeskInv, DecisionShown
  <2>5. ReportedIsDone'  BY <2>1, <2>2 DEF ShownInv, DeskInv, ReportedIsDone
  <2> QED  BY <2>3, <2>4, <2>5 DEF ShownInv
<1> QED
  BY <1>1, <1>2, <1>3, <1>4, <1>5, <1>6, <1>7, <1>8
  DEF Next, vars, desk, GrantApproval, IssueRefund

\* A new desk shows nothing and nothing was reported.
LEMMA InitShows == Init => ShownInv
<1> SUFFICES ASSUME Init PROVE ShownInv  OBVIOUS
<1>1. /\ stage = [r \in Runs |-> "idle"] /\ invoked = [r \in Runs |-> NothingInvoked]
      /\ lastRun = [t \in TicketIds |-> NoRun]
  BY DEF Init
<1>2. DeskInv /\ DecisionShown /\ ReportedIsDone
  BY <1>1 DEF DeskInv, DecisionShown, ReportedIsDone, NothingInvoked
<1> QED  BY <1>2, InitTyped DEF ShownInv

LEMMA Shown == UpdatesTyped => (Spec => []ShownInv)
<1> SUFFICES ASSUME UpdatesTyped PROVE Spec => []ShownInv  OBVIOUS
<1>1. ShownInv /\ [Next]_vars => ShownInv'
  BY StepTyped, StepShows DEF ShownInv
<1> QED  BY <1>1, InitShows, PTL DEF Spec

\* For every set of tickets, runs and decisions: a ticket never mixes the
\* decisions of two runs, and is escalated exactly if its last run recorded it.
THEOREM TicketsShowOneDecision == UpdatesTyped => (Spec => []DecisionShown)
<1>1. ShownInv => DecisionShown  BY DEF ShownInv
<1> QED  BY <1>1, Shown, PTL

\* For every set of tickets, runs and decisions: what a run reported as done
\* stays done.
THEOREM ReportsStayTrue == UpdatesTyped => (Spec => []ReportedIsDone)
<1>1. ShownInv => ReportedIsDone  BY DEF ShownInv
<1> QED  BY <1>1, Shown, PTL
=============================================================================
