---------------------------- MODULE ApprovalGate ----------------------------
(* What the ticket tools promise of high-risk actions: none is performed    *)
(* before a human has recorded an approval of it, and none is undone.       *)
EXTENDS Naturals

CONSTANT HighRisk    \* actions of the policy that are never unattended

VARIABLES
  approved,    \* the actions a human has approved
  performed    \* how often each action was performed

gateVars == <<approved, performed>>

Init == approved = {} /\ performed = [a \in HighRisk |-> 0]

Approve(a) == approved' = approved \cup {a} /\ UNCHANGED performed

Perform(a) ==
  /\ a \in approved
  /\ performed' = [performed EXCEPT ![a] = @ + 1]
  /\ UNCHANGED approved

Next == \E a \in HighRisk : Approve(a) \/ Perform(a)
Spec == Init /\ [][Next]_gateVars
=============================================================================
