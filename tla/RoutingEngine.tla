---------------------------- MODULE RoutingEngine ----------------------------
(***************************************************************************)
(* The deterministic routing of app/routing/engine.py: one classified      *)
(* ticket is validated, given a queue, run through the overrides of the     *)
(* policy in their order and checked for approval.  The policy of           *)
(* app/config/policies.py is the constants; a ticket's text is the set of   *)
(* policy keywords it contains.                                             *)
(***************************************************************************)
EXTENDS Naturals, Sequences

CONSTANTS
  Intents, Queues,
  Rules,              \* routing_rules: the queue of each intent
  FallbackQueue,
  Floors,             \* urgency_floors: the least urgency of some intents
  Overrides,          \* overrides, in the order of the policy
  Keywords,           \* every keyword the policy mentions
  UrgencyKeywords,    \* urgency_escalation_keywords
  GatedActions,       \* approval_policy.required_for_actions
  Conditions,         \* approval_policy.required_for_conditions
  ConfidenceFloor,    \* settings.classification_confidence_floor, in percent
  Tiers,              \* customer tiers
  Tickets             \* bound: the classified tickets that are routed

Urgencies == {"low", "medium", "high", "critical"}
Rank == [low |-> 0, medium |-> 1, high |-> 2, critical |-> 3]

\* A classified ticket: the model's reading of it, what its text contains and
\* the tier of the customer who wrote it.
Ticket == [intent : Intents, urgency : Urgencies, confidence : 0 .. 100,
           actions : SUBSET STRING, text : SUBSET Keywords, tier : Tiers]
Override == [intent : Intents \cup {"any"}, urgency : Urgencies \cup {"any"},
             keywords : SUBSET Keywords,
             setQueue : Queues \cup {"none"}, setUrgency : Urgencies \cup {"none"},
             minUrgency : Urgencies \cup {"none"}, escalate : BOOLEAN]
Condition == [urgencies : SUBSET Urgencies, tiers : SUBSET Tiers, below : 0 .. 100]

\* What _validate_routing_policy and validate_vocabulary_matches_policy refuse
\* to start without.
ASSUME PolicyAssumption ==
  /\ Rules \in [Intents -> Queues]
  /\ FallbackQueue \in Queues
  /\ DOMAIN Floors \subseteq Intents /\ \A i \in DOMAIN Floors : Floors[i] \in Urgencies
  /\ Overrides \in Seq(Override)
  /\ Conditions \subseteq Condition
  /\ "none" \notin Queues
ASSUME TicketAssumption == Tickets \subseteq Ticket /\ ConfidenceFloor \in Nat

VARIABLES
  stage,     \* the next step of validate() and route()
  ticket,    \* the classified ticket
  urgency, queue, escalate, human,   \* the decision so far
  next       \* the override that is considered next

vars == <<stage, ticket, urgency, queue, escalate, human, next>>

Init ==
  /\ stage = "validate" /\ ticket \in Tickets
  /\ urgency = ticket.urgency /\ queue = "none"
  /\ escalate = FALSE /\ human = FALSE
  /\ next = 1

AtLeast(level, floor) == IF Rank[level] < Rank[floor] THEN floor ELSE level

\* Mutant: the policy's urgency replaces the model's.
FlooredAlways(level) == IF ticket.intent \in DOMAIN Floors THEN Floors[ticket.intent] ELSE level

\* The least urgency of the intent, then of explicit urgency language.
Floored(level) ==
  IF ticket.intent \in DOMAIN Floors THEN AtLeast(level, Floors[ticket.intent]) ELSE level
Urged(level) == IF ticket.text \cap UrgencyKeywords # {} THEN AtLeast(level, "high") ELSE level

Validate ==
  /\ stage = "validate"
  /\ urgency' = Urged(Floored(urgency))
  /\ stage' = "select"
  /\ UNCHANGED <<ticket, queue, escalate, human, next>>

BelowFloor == ticket.confidence < ConfidenceFloor

\* Mutant: the name of the intent for the name of its queue.
QueueNamedLikeIntent == IF BelowFloor THEN FallbackQueue ELSE ticket.intent

\* Low confidence goes to humans.
FirstQueue == IF BelowFloor THEN FallbackQueue ELSE Rules[ticket.intent]

SelectQueue ==
  /\ stage = "select"
  /\ queue' = FirstQueue
  /\ stage' = "override"
  /\ UNCHANGED <<ticket, urgency, escalate, human, next>>

\* Mutant: an override that names no intent applies to none.
MatchesExactly(o) ==
  /\ o.intent = ticket.intent
  /\ o.urgency \in {"any", urgency}
  /\ o.keywords = {} \/ o.keywords \cap ticket.text # {}
\* Every condition an override states must hold, and it must state one.
Matches(o) ==
  /\ o.intent \in {"any", ticket.intent}
  /\ o.urgency \in {"any", urgency}
  /\ o.keywords = {} \/ o.keywords \cap ticket.text # {}
  /\ o.intent # "any" \/ o.urgency # "any" \/ o.keywords # {}

ApplyOverride ==
  /\ stage = "override" /\ next <= Len(Overrides)
  /\ Matches(Overrides[next])
  /\ LET o == Overrides[next]
         level == IF o.setUrgency = "none" THEN urgency ELSE o.setUrgency
     IN  /\ queue' = IF o.setQueue = "none" THEN queue ELSE o.setQueue
         /\ urgency' = IF o.minUrgency = "none" THEN level ELSE AtLeast(level, o.minUrgency)
         /\ escalate' = (escalate \/ o.escalate)
  /\ next' = next + 1
  /\ UNCHANGED <<stage, ticket, human>>

SkipOverride ==
  /\ stage = "override" /\ next <= Len(Overrides)
  /\ ~Matches(Overrides[next])
  /\ next' = next + 1
  /\ UNCHANGED <<stage, ticket, urgency, queue, escalate, human>>

\* The graph routes with the tier of its state, which no node ever sets.
RoutedTier == "none"

\* Whether _approval_reasons names any reason.
NeedsApproval(target, level) ==
  \/ ticket.actions \cap GatedActions # {}
  \/ target = "security_escalation"
  \/ \E c \in Conditions : \/ level \in c.urgencies
                           \/ RoutedTier \in c.tiers /\ ticket.actions # {}
                           \/ ticket.confidence < c.below

Escalates(level) == escalate \/ level = "critical"

\* The queue is checked once more before the decision is returned.
Checked(target) == IF target \in Queues THEN target ELSE FallbackQueue

Decide ==
  /\ stage = "override" /\ next > Len(Overrides)
  /\ escalate' = Escalates(urgency)
  /\ queue' = Checked(queue)
  /\ human' = NeedsApproval(queue', urgency)
  /\ stage' = "done"
  /\ UNCHANGED <<ticket, urgency, next>>

Next == Validate \/ SelectQueue \/ ApplyOverride \/ SkipOverride \/ Decide
Spec == Init /\ [][Next]_vars

-----------------------------------------------------------------------------
(* Properties *)

\* The parts of a decision come from the closed vocabularies of the policy.
TypeOK ==
  /\ stage \in {"validate", "select", "override", "done"}
  /\ ticket \in Tickets
  /\ urgency \in Urgencies
  /\ queue \in Queues \cup {"none"}
  /\ escalate \in BOOLEAN /\ human \in BOOLEAN
  /\ next \in 1 .. Len(Overrides) + 1

\* Routing never makes a ticket less urgent than the model found it, in any
\* of its steps.
NeverCalmer == [][Rank[urgency'] >= Rank[urgency]]_vars

\* A decision at critical urgency escalates, wherever in the policy the
\* override that raised the urgency stands (the re-check of route()).
CriticalEscalates == (stage = "done" /\ urgency = "critical") => escalate

=============================================================================
