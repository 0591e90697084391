--------------------------- MODULE MCRoutingEngine ---------------------------
(* RoutingEngine under the shipped policy, for every intent and urgency.    *)
EXTENDS RoutingEngine, ShippedPolicy

MCIntents == DOMAIN ShippedRules
MCTiers == {"none", "standard", "enterprise", "platinum"}
\* Confidence below, at and above the floor; no action, a harmless and a gated one.
MCTickets ==
  [intent : MCIntents, urgency : Urgencies, confidence : {54, 55, 90},
   actions : {{}, {"add_ticket_comment"}, {"issue_refund"}}, text : SUBSET ShippedKeywords,
   tier : {"standard", "enterprise"}]

Compromised == "hacked" \in ticket.text
Security == Compromised \/ ticket.intent = "security_issue"
Doubtful == ticket.confidence < 55

\* README.md:250-253, test_guardrails.py:281-289: compromise language forces security
\* routing at critical urgency, whatever the model classified.
CompromiseForced ==
  Compromised => queue = "security_escalation" /\ urgency = "critical" /\ escalate /\ human

\* README.md:254-255, routing.yaml:94-100: a security issue goes to security and never
\* ranks below high; no other intent ranks below its floor.
FloorsHold ==
  /\ ticket.intent = "security_issue" => queue = "security_escalation"
  /\ ticket.intent \in DOMAIN Floors => Rank[urgency] >= Rank[Floors[ticket.intent]]

\* engine.py:103-106, test_guardrails.py:265-279: urgency language is a floor of high and
\* never makes a ticket critical.
UrgencyNotDoubled ==
  /\ "urgent" \in ticket.text => Rank[urgency] >= Rank["high"]
  /\ urgency = "critical" => Compromised \/ ticket.urgency = "critical"

\* routing.yaml:85-87, test_guardrails.py:248-258: doubt goes to humans, the rest to the
\* queue of its intent.
QueueExplained ==
  ~Security => queue = IF Doubtful THEN "human_triage" ELSE Rules[ticket.intent]

\* README.md:256-259, test_guardrails.py:291-307: a human approves security, critical and
\* doubtful tickets and gated actions, and no ordinary ticket; critical ones escalate.
NotOrdinary ==
  Security \/ Doubtful \/ urgency = "critical" \/ ticket.actions \cap GatedActions # {}
HighValue == ticket.tier \in {"enterprise", "platinum"} /\ ticket.actions # {}
HumansAsked ==
  /\ NotOrdinary => human
  /\ human => NotOrdinary \/ HighValue
  /\ escalate <=> urgency = "critical"

\* The sequence of floors, overrides and re-checks of validate() and route() keeps what
\* the README and the tests promise of a decision.  Three sentences of routing.yaml are
\* not among these promises, because the code does otherwise: "First match wins" (:90;
\* every match applies, so a hacked security issue is critical), "by one level" (:138; low
\* becomes high, as test_guardrails.py:275 has it) and the approval for high-value accounts
\* (:168-170, README.md:259; the tier never reaches the engine).
PromisesKept ==
  stage = "done" =>
    CompromiseForced /\ FloorsHold /\ UrgencyNotDoubled /\ QueueExplained /\ HumansAsked
=============================================================================
