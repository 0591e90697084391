---------------------------- MODULE MCTicketDesk ----------------------------
(* TicketDesk under the approval policy of routing.yaml.                    *)
EXTENDS TicketDesk, ShippedPolicy

CONSTANTS r1, r2, t1, t2

MCAutoApproved ==
  {"get_ticket", "get_customer", "get_customer_history", "add_ticket_comment", "assign_queue",
   "update_priority"}
MCQueues == {"security_escalation", "billing_support", "human_triage"}
MCUrgencies == {"low", "medium", "high", "critical"}

\* A critical ticket, an ordinary one, and the fallback without classification.
MCDecisions ==
  {[queue |-> "security_escalation", urgency |-> "critical", escalate |-> TRUE, human |-> TRUE],
   [queue |-> "billing_support", urgency |-> "high", escalate |-> FALSE, human |-> FALSE],
   [queue |-> "human_triage", urgency |-> "medium", escalate |-> FALSE, human |-> TRUE]}

\* An agent of the ticket system resolves a ticket.
MCUpdates == {[queue |-> "human_triage", priority |-> "low", status |-> "resolved"]}
=============================================================================
