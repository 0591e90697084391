---------------------------- MODULE ShippedPolicy ----------------------------
(* The policy of app/config/policies/routing.yaml, as the constants of      *)
(* RoutingEngine.  Keyword lists are represented by one keyword each.       *)
EXTENDS Naturals, Sequences

ShippedRules ==
  [payment_issue |-> "billing_support", refund_request |-> "billing_support",
   login_issue |-> "account_support", password_reset |-> "account_support",
   technical_issue |-> "technical_support", bug_report |-> "technical_support",
   account_issue |-> "account_support", cancellation |-> "retention",
   feature_request |-> "product_feedback", security_issue |-> "security_escalation",
   general_query |-> "general_support"]
ShippedQueues ==
  {"billing_support", "account_support", "technical_support", "product_feedback",
   "retention", "security_escalation", "general_support", "human_triage"}

ShippedKeywords == {"hacked", "urgent"}
ShippedUrgencyKeywords == {"urgent"}

Any == [intent |-> "any", urgency |-> "any", keywords |-> {}, setQueue |-> "none",
        setUrgency |-> "none", minUrgency |-> "none", escalate |-> FALSE]
SecurityAlwaysEscalates ==
  [Any EXCEPT !.intent = "security_issue", !.setQueue = "security_escalation",
              !.minUrgency = "high"]
CriticalSecurityKeywords ==
  [Any EXCEPT !.keywords = {"hacked"}, !.setQueue = "security_escalation",
              !.setUrgency = "critical"]
CriticalUrgencyEscalates == [Any EXCEPT !.urgency = "critical", !.escalate = TRUE]
ShippedOverrides ==
  <<SecurityAlwaysEscalates, CriticalSecurityKeywords, CriticalUrgencyEscalates>>

ShippedFloors ==
  [security_issue |-> "high", payment_issue |-> "medium", refund_request |-> "medium"]

ShippedGatedActions ==
  {"issue_refund", "account_deletion", "account_closure", "security_escalation",
   "priority_override", "sla_waiver", "bulk_ticket_update"}
ShippedConditions ==
  {[urgencies |-> {}, tiers |-> {"enterprise", "platinum"}, below |-> 0],
   [urgencies |-> {"critical"}, tiers |-> {}, below |-> 0],
   [urgencies |-> {}, tiers |-> {}, below |-> 55]}
=============================================================================
