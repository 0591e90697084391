------------------------- MODULE RoutingEngineProofs -------------------------
(* Theorems about RoutingEngine for every policy start-up accepts, and      *)
(* about the decisions of the shipped policy for every classified ticket.   *)
EXTENDS MCRoutingEngine, TLAPS

\* What the policy's validation guarantees of the override that is considered.
LEMMA OverrideTyped ==
  ASSUME NEW i \in 1 .. Len(Overrides)
  PROVE  /\ Overrides[i] \in Override
         /\ Overrides[i].setQueue \in Queues \cup {"none"}
         /\ Overrides[i].setUrgency \in Urgencies \cup {"none"}
         /\ Overrides[i].minUrgency \in Urgencies \cup {"none"}
         /\ Overrides[i].escalate \in BOOLEAN
<1>1. Overrides[i] \in Override
  BY PolicyAssumption DEF PolicyAssumption
<1> QED  BY <1>1 DEF Override

\* A classified ticket has the parts of its type.
LEMMA TicketTyped ==
  ASSUME ticket \in Tickets
  PROVE  ticket.intent \in Intents /\ ticket.urgency \in Urgencies
BY TicketAssumption DEF TicketAssumption, Ticket

\* Raising a level to a floor yields one of the two.
LEMMA AtLeastTyped ==
  ASSUME NEW level \in Urgencies, NEW floor \in Urgencies
  PROVE  AtLeast(level, floor) \in Urgencies
BY DEF AtLeast

\* The validated urgency is an urgency.
LEMMA UrgedTyped ==
  ASSUME NEW level \in Urgencies, ticket \in Tickets
  PROVE  Urged(Floored(level)) \in Urgencies
<1>1. Floored(level) \in Urgencies
  BY AtLeastTyped, PolicyAssumption DEF PolicyAssumption, Floored
<1>2. "high" \in Urgencies
  BY DEF Urgencies
<1> QED  BY <1>1, <1>2, AtLeastTyped DEF Urged

\* The number of overrides.
LEMMA OverrideCount == Len(Overrides) \in Nat
BY PolicyAssumption DEF PolicyAssumption

\* For every accepted policy and every classified ticket, every part of the
\* decision stays within the policy's vocabularies, through all overrides.
THEOREM TypeCorrect == Spec => []TypeOK
<1>1. Init => TypeOK
  <2> SUFFICES ASSUME Init PROVE TypeOK  OBVIOUS
  <2>1. ticket \in Tickets /\ next = 1 /\ urgency = ticket.urgency
    BY DEF Init
  <2>2. urgency \in Urgencies  BY <2>1, TicketTyped
  <2>3. next \in 1 .. Len(Overrides) + 1  BY <2>1, OverrideCount
  <2>4. /\ stage = "validate" /\ queue = "none"
        /\ escalate = FALSE /\ human = FALSE
    BY DEF Init
  <2> QED  BY <2>1, <2>2, <2>3, <2>4 DEF TypeOK
<1>2. TypeOK /\ [Next]_vars => TypeOK'
  <2> SUFFICES ASSUME TypeOK, [Next]_vars PROVE TypeOK'  OBVIOUS
  <2>1. CASE Validate
    <3>1. urgency' \in Urgencies  BY <2>1, UrgedTyped DEF Validate, TypeOK
    <3> QED  BY <2>1, <3>1 DEF Validate, TypeOK
  <2>2. CASE SelectQueue
    <3>1. FirstQueue \in Queues
      BY PolicyAssumption, TicketTyped DEF PolicyAssumption, FirstQueue, TypeOK
    <3> QED  BY <2>2, <3>1 DEF SelectQueue, TypeOK
  <2>3. CASE ApplyOverride
    <3>1. next \in 1 .. Len(Overrides)
      BY <2>3, OverrideCount DEF ApplyOverride, TypeOK
    <3> DEFINE o == Overrides[next]
               level == IF o.setUrgency = "none" THEN urgency ELSE o.setUrgency
    <3>2. /\ o.setQueue \in Queues \cup {"none"}
          /\ o.setUrgency \in Urgencies \cup {"none"}
          /\ o.minUrgency \in Urgencies \cup {"none"}
          /\ o.escalate \in BOOLEAN
      BY <3>1, OverrideTyped
    <3>3. /\ queue' = IF o.setQueue = "none" THEN queue ELSE o.setQueue
          /\ urgency' = IF o.minUrgency = "none" THEN level ELSE AtLeast(level, o.minUrgency)
          /\ escalate' = (escalate \/ o.escalate)
          /\ next' = next + 1
          /\ UNCHANGED <<stage, ticket, human>>
      BY <2>3 DEF ApplyOverride
    <3> HIDE DEF o
    <3>4. level \in Urgencies  BY <3>2 DEF TypeOK
    <3> HIDE DEF level
    <3>5. urgency' \in Urgencies  BY <3>2, <3>3, <3>4, AtLeastTyped
    <3>6. queue' \in Queues \cup {"none"}  BY <3>2, <3>3 DEF TypeOK
    <3>7. next' \in 1 .. Len(Overrides) + 1
      BY <3>1, <3>3, OverrideCount DEF TypeOK
    <3>8. escalate' \in BOOLEAN  BY <3>2, <3>3 DEF TypeOK
    <3> QED  BY <3>3, <3>5, <3>6, <3>7, <3>8 DEF TypeOK
  <2>4. CASE SkipOverride
    BY <2>4, OverrideCount DEF SkipOverride, TypeOK
  <2>5. CASE Decide
    <3>1. queue' \in Queues
      BY <2>5, PolicyAssumption DEF PolicyAssumption, Decide, Checked, TypeOK
    <3>2. escalate' \in BOOLEAN  BY <2>5 DEF Decide, Escalates, TypeOK
    <3>3. human' \in BOOLEAN  BY <2>5 DEF Decide, NeedsApproval
    <3> QED  BY <2>5, <3>1, <3>2, <3>3 DEF Decide, TypeOK
  <2>6. CASE UNCHANGED vars
    BY <2>6 DEF vars, TypeOK
  <2> QED  BY <2>1, <2>2, <2>3, <2>4, <2>5, <2>6 DEF Next
<1> QED  BY <1>1, <1>2, PTL DEF Spec

\* The same for the escalation of critical tickets: no order of overrides and
\* no urgency they set leaves a critical decision without escalation.
THEOREM CriticalIsEscalated == Spec => []CriticalEscalates
<1>1. Init => CriticalEscalates
  BY DEF Init, CriticalEscalates
<1>2. CriticalEscalates /\ [Next]_vars => CriticalEscalates'
  BY DEF CriticalEscalates, Next, vars, Validate, SelectQueue, ApplyOverride, SkipOverride,
         Decide, Escalates
<1> QED  BY <1>1, <1>2, PTL DEF Spec

\* A decision names a queue of the policy, whatever the classification said.
DefinedQueue == stage = "done" => queue \in Queues

\* The queue of a decision that stands is one of the policy, for every policy
\* and every ticket (the last check of route()).
THEOREM QueueIsDefined == Spec => []DefinedQueue
<1>1. Init => DefinedQueue
  BY DEF Init, DefinedQueue
<1>2. DefinedQueue /\ [Next]_vars => DefinedQueue'
  BY PolicyAssumption DEF PolicyAssumption, DefinedQueue, Next, vars, Validate, SelectQueue,
         ApplyOverride, SkipOverride, Decide, Checked
<1> QED  BY <1>1, <1>2, PTL DEF Spec
-----------------------------------------------------------------------------
(* Urgency never falls *)

\* A policy lowers nothing: an override that sets an urgency sets one at least
\* as high as every urgency it accepts.  Start-up does not check it, the
\* shipped policy keeps it.
LowersNothing ==
  \A i \in 1 .. Len(Overrides) :
    Overrides[i].setUrgency # "none" =>
      \A u \in Urgencies :
        Overrides[i].urgency \in {"any", u} => Rank[Overrides[i].setUrgency] >= Rank[u]

\* The order of the urgencies.
LEMMA Ranks ==
  /\ Rank["low"] = 0 /\ Rank["medium"] = 1 /\ Rank["high"] = 2 /\ Rank["critical"] = 3
  /\ \A u \in Urgencies : Rank[u] \in Nat
  /\ \A u, v \in Urgencies : Rank[u] = Rank[v] => u = v
BY DEF Rank, Urgencies

\* Raising a level to a floor yields the higher of the two.
LEMMA AtLeastRaises ==
  ASSUME NEW level \in Urgencies, NEW floor \in Urgencies
  PROVE  /\ Rank[AtLeast(level, floor)] >= Rank[level]
         /\ Rank[AtLeast(level, floor)] >= Rank[floor]
BY Ranks DEF AtLeast

\* Neither validation nor an override that sets or raises the urgency takes back
\* what the model, a floor or an earlier override had raised it to, under every
\* policy whose overrides lower nothing.
THEOREM UrgencyNeverFalls ==
  ASSUME LowersNothing
  PROVE  Spec => NeverCalmer
<1>1. ASSUME TypeOK, [Next]_vars PROVE [Rank[urgency'] >= Rank[urgency]]_vars
  <2> SUFFICES Rank[urgency'] >= Rank[urgency]  OBVIOUS
  <2>0. urgency \in Urgencies /\ ticket \in Tickets  BY <1>1 DEF TypeOK
  <2>1. CASE Validate
    <3>1. ticket.intent \in DOMAIN Floors => Floors[ticket.intent] \in Urgencies
      BY PolicyAssumption DEF PolicyAssumption
    <3>2. Floored(urgency) \in Urgencies /\ Rank[Floored(urgency)] >= Rank[urgency]
      <4>1. CASE ticket.intent \in DOMAIN Floors
        <5>1. Floored(urgency) = AtLeast(urgency, Floors[ticket.intent])  BY <4>1 DEF Floored
        <5> QED  BY <2>0, <3>1, <4>1, <5>1, AtLeastRaises, AtLeastTyped
      <4>2. CASE ticket.intent \notin DOMAIN Floors
        BY <2>0, <4>2, Ranks DEF Floored
      <4> QED  BY <4>1, <4>2
    <3>3. "high" \in Urgencies  BY DEF Urgencies
    <3>4. /\ Urged(Floored(urgency)) \in Urgencies
          /\ Rank[Urged(Floored(urgency))] >= Rank[Floored(urgency)]
      <4> DEFINE floored == Floored(urgency)
      <4>1. floored \in Urgencies  BY <3>2
      <4> HIDE DEF floored
      <4>2. /\ AtLeast(floored, "high") \in Urgencies
            /\ Rank[AtLeast(floored, "high")] >= Rank[floored]
        BY <3>3, <4>1, AtLeastRaises, AtLeastTyped
      <4>3. Urged(floored) \in Urgencies /\ Rank[Urged(floored)] >= Rank[floored]
        BY <4>1, <4>2, Ranks DEF Urged
      <4> QED  BY <4>3 DEF floored
    <3> QED  BY <2>0, <2>1, <3>2, <3>4, Ranks DEF Validate
  <2>2. CASE ApplyOverride
    <3>1. next \in 1 .. Len(Overrides)
      BY <1>1, <2>2, OverrideCount DEF ApplyOverride, TypeOK
    <3> DEFINE o == Overrides[next]
               level == IF o.setUrgency = "none" THEN urgency ELSE o.setUrgency
    <3>2. /\ o.setUrgency \in Urgencies \cup {"none"}
          /\ o.minUrgency \in Urgencies \cup {"none"}
      BY <3>1, OverrideTyped
    <3>3. o.urgency \in {"any", urgency}  BY <2>2 DEF ApplyOverride, Matches
    <3>4. urgency' = IF o.minUrgency = "none" THEN level ELSE AtLeast(level, o.minUrgency)
      BY <2>2 DEF ApplyOverride
    <3>5. level \in Urgencies /\ Rank[level] >= Rank[urgency]
      BY <2>0, <3>1, <3>2, <3>3, Ranks DEF LowersNothing
    <3> HIDE DEF o, level
    <3>6. o.minUrgency # "none" => /\ AtLeast(level, o.minUrgency) \in Urgencies
                                   /\ Rank[AtLeast(level, o.minUrgency)] >= Rank[level]
      BY <3>2, <3>5, AtLeastRaises, AtLeastTyped
    <3> QED  BY <2>0, <3>4, <3>5, <3>6, Ranks
  <2>3. CASE UNCHANGED urgency
    BY <2>0, <2>3, Ranks
  <2> QED
    BY <1>1, <2>1, <2>2, <2>3 DEF Next, vars, SelectQueue, SkipOverride, Decide
<1> QED  BY <1>1, TypeCorrect, PTL DEF Spec, NeverCalmer

-----------------------------------------------------------------------------
(* The shipped policy *)

\* routing.yaml is in force, with the default floor of the confidence.  Nothing
\* is said of the tickets: any of the type may come.
ShippedInForce ==
  /\ Rules = ShippedRules /\ Queues = ShippedQueues /\ FallbackQueue = "human_triage"
  /\ Floors = ShippedFloors /\ Overrides = ShippedOverrides
  /\ UrgencyKeywords = ShippedUrgencyKeywords
  /\ Conditions = ShippedConditions /\ ConfidenceFloor = 55

\* The floors and the overrides, part by part.
LEMMA ShippedFloorsAre ==
  /\ DOMAIN ShippedFloors = {"security_issue", "payment_issue", "refund_request"}
  /\ ShippedFloors["security_issue"] = "high"
  /\ ShippedFloors["payment_issue"] = "medium"
  /\ ShippedFloors["refund_request"] = "medium"
BY DEF ShippedFloors

\* The three overrides, in their order.
LEMMA ShippedOverridesAre ==
  /\ Len(ShippedOverrides) = 3
  /\ ShippedOverrides[1] = SecurityAlwaysEscalates
  /\ ShippedOverrides[2] = CriticalSecurityKeywords
  /\ ShippedOverrides[3] = CriticalUrgencyEscalates
BY DEF ShippedOverrides

\* Security issues go to security, at high urgency or more.
LEMMA FirstOverride ==
  /\ SecurityAlwaysEscalates.intent = "security_issue"
  /\ SecurityAlwaysEscalates.urgency = "any" /\ SecurityAlwaysEscalates.keywords = {}
  /\ SecurityAlwaysEscalates.setQueue = "security_escalation"
  /\ SecurityAlwaysEscalates.setUrgency = "none"
  /\ SecurityAlwaysEscalates.minUrgency = "high" /\ SecurityAlwaysEscalates.escalate = FALSE
BY DEF SecurityAlwaysEscalates, Any

\* Compromise language makes a ticket critical and goes to security.
LEMMA SecondOverride ==
  /\ CriticalSecurityKeywords.intent = "any" /\ CriticalSecurityKeywords.urgency = "any"
  /\ CriticalSecurityKeywords.keywords = {"hacked"}
  /\ CriticalSecurityKeywords.setQueue = "security_escalation"
  /\ CriticalSecurityKeywords.setUrgency = "critical"
  /\ CriticalSecurityKeywords.minUrgency = "none" /\ CriticalSecurityKeywords.escalate = FALSE
BY DEF CriticalSecurityKeywords, Any

\* What is critical escalates.
LEMMA ThirdOverride ==
  /\ CriticalUrgencyEscalates.intent = "any" /\ CriticalUrgencyEscalates.urgency = "critical"
  /\ CriticalUrgencyEscalates.keywords = {}
  /\ CriticalUrgencyEscalates.setQueue = "none" /\ CriticalUrgencyEscalates.setUrgency = "none"
  /\ CriticalUrgencyEscalates.minUrgency = "none" /\ CriticalUrgencyEscalates.escalate = TRUE
BY DEF CriticalUrgencyEscalates, Any

\* The shipped policy lowers nothing, so UrgencyNeverFalls applies to it.
LEMMA ShippedLowersNothing ==
  ASSUME ShippedInForce
  PROVE  LowersNothing
<1>1. Overrides[1].setUrgency = "none" /\ Overrides[3].setUrgency = "none"
  BY ShippedOverridesAre, FirstOverride, ThirdOverride DEF ShippedInForce
<1>2. Overrides[2].setUrgency = "critical"
  BY ShippedOverridesAre, SecondOverride DEF ShippedInForce
<1>3. \A u \in Urgencies : Rank["critical"] >= Rank[u]
  BY Ranks DEF Urgencies
<1>4. 1 .. Len(Overrides) = 1 .. 3
  BY ShippedOverridesAre DEF ShippedInForce
<1>5. \A i \in 1 .. 3 : i = 1 \/ i = 2 \/ i = 3  OBVIOUS
<1> QED  BY <1>1, <1>2, <1>3, <1>4, <1>5 DEF LowersNothing

\* What the urgency and the queue are between two steps: after the validation,
\* and behind each of the three overrides.
Validated == Urged(Floored(ticket.urgency))
Secured == IF ticket.intent = "security_issue" THEN AtLeast(Validated, "high") ELSE Validated
Settled == IF Compromised THEN "critical" ELSE Secured
SecuredQueue == IF ticket.intent = "security_issue" THEN "security_escalation" ELSE FirstQueue
SettledQueue == IF Compromised THEN "security_escalation" ELSE SecuredQueue

\* The inductive invariant behind PromisesKept: how far the decision is.
DecidedSoFar ==
  /\ stage \in {"validate", "select"} => next = 1
  /\ stage = "validate" => urgency = ticket.urgency
  /\ stage = "select" => urgency = Validated
  /\ stage = "override" =>
       /\ next \in 1 .. 4
       /\ next = 1 => urgency = Validated /\ queue = FirstQueue
       /\ next = 2 => urgency = Secured /\ queue = SecuredQueue
       /\ next > 2 => urgency = Settled /\ queue = SettledQueue
  /\ stage # "done" /\ next < 4 => ~escalate
  /\ stage = "override" /\ next = 4 => (escalate <=> urgency = "critical")

\* The urgency behind the last override: no floor is undercut, and nothing but the model
\* and compromise language makes a ticket critical.
LEMMA SettledUrgency ==
  ASSUME ShippedInForce, ticket \in Tickets
  PROVE  /\ Compromised => Settled = "critical"
         /\ ticket.intent \in DOMAIN Floors => Rank[Settled] >= Rank[Floors[ticket.intent]]
         /\ "urgent" \in ticket.text => Rank[Settled] >= Rank["high"]
         /\ Settled = "critical" => Compromised \/ ticket.urgency = "critical"
<1> DEFINE level == ticket.urgency
           floored == Floored(level)
           floor == Floors[ticket.intent]
<1>1. level \in Urgencies  BY TicketTyped
<1>2. ticket.intent \in DOMAIN Floors => floor \in {"medium", "high"}
  BY ShippedFloorsAre DEF ShippedInForce
<1>3. floored = IF ticket.intent \in DOMAIN Floors THEN AtLeast(level, floor) ELSE level
  BY DEF Floored
<1>4. Validated = IF "urgent" \in ticket.text THEN AtLeast(floored, "high") ELSE floored
  BY DEF Validated, Urged, ShippedInForce, ShippedUrgencyKeywords
<1>5. Secured = IF ticket.intent = "security_issue" THEN AtLeast(Validated, "high") ELSE Validated
  BY DEF Secured
<1> HIDE DEF level, floored, floor
<1>6. /\ floored \in Urgencies /\ (floored = "critical" => level = "critical")
      /\ ticket.intent \in DOMAIN Floors => Rank[floored] >= Rank[floor]
  BY <1>1, <1>2, <1>3, Ranks DEF AtLeast, Urgencies
<1>7. /\ Validated \in Urgencies /\ (Validated = "critical" => floored = "critical")
      /\ Rank[Validated] >= Rank[floored]
      /\ "urgent" \in ticket.text => Rank[Validated] >= Rank["high"]
  BY <1>4, <1>6, Ranks DEF AtLeast, Urgencies
<1>8. /\ Secured \in Urgencies /\ (Secured = "critical" => Validated = "critical")
      /\ Rank[Secured] >= Rank[Validated]
  BY <1>5, <1>7, Ranks DEF AtLeast, Urgencies
<1>9. /\ ticket.intent \in DOMAIN Floors => Rank[Secured] >= Rank[floor]
      /\ "urgent" \in ticket.text => Rank[Secured] >= Rank["high"]
      /\ Secured = "critical" => level = "critical"
  BY <1>2, <1>6, <1>7, <1>8, Ranks DEF Urgencies
<1>10. /\ ticket.intent \in DOMAIN Floors => Rank["critical"] >= Rank[floor]
       /\ Rank["critical"] >= Rank["high"]
  BY <1>2, Ranks
<1> QED  BY <1>9, <1>10 DEF Settled, level, floor

\* For every ticket, the shipped policy's sequence of floors, keywords, overrides
\* and re-checks keeps the promises: no override hides another, and none reads an
\* urgency too early.
THEOREM PromisesAreKept ==
  ASSUME ShippedInForce
  PROVE  Spec => []PromisesKept
<1>1. Init => DecidedSoFar /\ PromisesKept
  BY DEF Init, DecidedSoFar, PromisesKept
<1>2. ASSUME TypeOK, DecidedSoFar, PromisesKept, [Next]_vars
      PROVE  DecidedSoFar' /\ PromisesKept'
  <2>0. Len(Overrides) = 3
    BY ShippedOverridesAre DEF ShippedInForce
  <2>1. CASE Validate
    BY <1>2, <2>1 DEF Validate, DecidedSoFar, PromisesKept, Validated, Urged, Floored
  <2>2. CASE SelectQueue
    <3>1. stage' = "override" /\ next' = 1 /\ UNCHANGED <<ticket, urgency, escalate>>
      BY <1>2, <2>2 DEF SelectQueue, DecidedSoFar
    <3>2. urgency' = Validated /\ queue' = FirstQueue /\ ~escalate
      BY <1>2, <2>2 DEF SelectQueue, DecidedSoFar
    <3>3. Validated' = Validated /\ FirstQueue' = FirstQueue
      BY <3>1 DEF Validated, Urged, Floored, FirstQueue, BelowFloor
    <3> QED  BY <3>1, <3>2, <3>3 DEF DecidedSoFar, PromisesKept
  <2>3. CASE ApplyOverride \/ SkipOverride
    <3>1. /\ stage = "override" /\ stage' = "override" /\ next \in 1 .. 3 /\ next' = next + 1
          /\ ticket' = ticket
      BY <1>2, <2>0, <2>3 DEF ApplyOverride, SkipOverride, DecidedSoFar
    <3>2. /\ Validated' = Validated /\ FirstQueue' = FirstQueue
          /\ Secured' = Secured /\ Settled' = Settled
          /\ SecuredQueue' = SecuredQueue /\ SettledQueue' = SettledQueue
      BY <3>1 DEF Validated, Urged, Floored, FirstQueue, BelowFloor, Secured, Settled,
                  SecuredQueue, SettledQueue, Compromised
    <3>3. CASE next = 1
      <4>1. Overrides[next] = SecurityAlwaysEscalates
        BY <3>3, ShippedOverridesAre DEF ShippedInForce
      <4>2. Matches(Overrides[next]) <=> ticket.intent = "security_issue"
        BY <4>1, FirstOverride DEF Matches
      <4>3. urgency = Validated /\ queue = FirstQueue /\ ~escalate
        BY <1>2, <3>1, <3>3 DEF DecidedSoFar
      <4>4. urgency' = Secured /\ queue' = SecuredQueue /\ ~escalate'
        <5>1. CASE ticket.intent = "security_issue"
          <6>1. ApplyOverride  BY <2>3, <4>2, <5>1 DEF SkipOverride
          <6>2. queue' = "security_escalation" /\ urgency' = AtLeast(urgency, "high") /\ ~escalate'
            BY <4>1, <4>3, <6>1, FirstOverride DEF ApplyOverride
          <6> QED  BY <4>3, <5>1, <6>2 DEF Secured, SecuredQueue
        <5>2. CASE ~(ticket.intent = "security_issue")
          <6>1. SkipOverride  BY <2>3, <4>2, <5>2 DEF ApplyOverride
          <6> QED  BY <4>3, <5>2, <6>1 DEF SkipOverride, Secured, SecuredQueue
        <5> QED  BY <5>1, <5>2
      <4> QED  BY <3>1, <3>2, <3>3, <4>4 DEF DecidedSoFar, PromisesKept
    <3>4. CASE next = 2
      <4>1. Overrides[next] = CriticalSecurityKeywords
        BY <3>4, ShippedOverridesAre DEF ShippedInForce
      <4>2. Matches(Overrides[next]) <=> Compromised
        BY <4>1, SecondOverride DEF Matches, Compromised
      <4>3. urgency = Secured /\ queue = SecuredQueue /\ ~escalate
        BY <1>2, <3>1, <3>4 DEF DecidedSoFar
      <4>4. urgency' = Settled /\ queue' = SettledQueue /\ ~escalate'
        <5>1. CASE Compromised
          <6>1. ApplyOverride  BY <2>3, <4>2, <5>1 DEF SkipOverride
          <6>2. queue' = "security_escalation" /\ urgency' = "critical" /\ ~escalate'
            BY <4>1, <4>3, <6>1, SecondOverride DEF ApplyOverride
          <6> QED  BY <4>3, <5>1, <6>2 DEF Settled, SettledQueue
        <5>2. CASE ~(Compromised)
          <6>1. SkipOverride  BY <2>3, <4>2, <5>2 DEF ApplyOverride
          <6> QED  BY <4>3, <5>2, <6>1 DEF SkipOverride, Settled, SettledQueue
        <5> QED  BY <5>1, <5>2
      <4> QED  BY <3>1, <3>2, <3>4, <4>4 DEF DecidedSoFar, PromisesKept
    <3>5. CASE next = 3
      <4>1. Overrides[next] = CriticalUrgencyEscalates
        BY <3>5, ShippedOverridesAre DEF ShippedInForce
      <4>2. Matches(Overrides[next]) <=> urgency = "critical"
        BY <4>1, ThirdOverride DEF Matches
      <4>3. urgency = Settled /\ queue = SettledQueue /\ ~escalate
        BY <1>2, <3>1, <3>5 DEF DecidedSoFar
      <4>4. urgency' = Settled /\ queue' = SettledQueue /\ (escalate' <=> urgency' = "critical")
        <5>1. CASE urgency = "critical"
          <6>1. ApplyOverride  BY <2>3, <4>2, <5>1 DEF SkipOverride
          <6>2. queue' = queue /\ urgency' = urgency /\ escalate'
            BY <4>1, <4>3, <6>1, ThirdOverride DEF ApplyOverride
          <6> QED  BY <4>3, <5>1, <6>2
        <5>2. CASE ~(urgency = "critical")
          <6>1. SkipOverride  BY <2>3, <4>2, <5>2 DEF ApplyOverride
          <6> QED  BY <4>3, <5>2, <6>1 DEF SkipOverride
        <5> QED  BY <5>1, <5>2
      <4> QED  BY <3>1, <3>2, <3>5, <4>4 DEF DecidedSoFar, PromisesKept
    <3> QED  BY <3>1, <3>3, <3>4, <3>5
  <2>4. CASE Decide
    <3>1. /\ stage' = "done" /\ UNCHANGED <<ticket, urgency>>
          /\ urgency = Settled /\ queue = SettledQueue
          /\ escalate <=> urgency = "critical"
      BY <1>2, <2>0, <2>4 DEF Decide, DecidedSoFar
    <3>2. ticket \in Tickets /\ ticket.intent \in Intents
      BY <1>2, TicketTyped DEF TypeOK
    <3>3. queue \in Queues
      <4>1. FirstQueue \in Queues
        BY <3>2, PolicyAssumption DEF PolicyAssumption, FirstQueue
      <4>2. "security_escalation" \in Queues  BY DEF ShippedInForce, ShippedQueues
      <4> QED  BY <3>1, <4>1, <4>2 DEF SettledQueue, SecuredQueue
    <3>4. queue' = queue  BY <2>4, <3>3 DEF Decide, Checked
    <3>5. queue = IF Security THEN "security_escalation"
                  ELSE IF Doubtful THEN "human_triage" ELSE Rules[ticket.intent]
      BY <3>1 DEF SettledQueue, SecuredQueue, FirstQueue, BelowFloor, ShippedInForce, Security,
                  Doubtful
    <3>6. escalate' = (urgency = "critical")
      BY <1>2, <2>4, <3>1 DEF Decide, Escalates, TypeOK
    <3>7. queue = "security_escalation" <=> Security
      <4>1. ASSUME ~Security PROVE Rules[ticket.intent] # "security_escalation"
        <5>1. DOMAIN ShippedRules = MCIntents  BY DEF MCIntents
        <5>2. ticket.intent \in MCIntents
          BY <3>2, <5>1, PolicyAssumption DEF PolicyAssumption, ShippedInForce
        <5> QED  BY <4>1, <5>2 DEF MCIntents, ShippedRules, ShippedInForce, Security
      <4> QED  BY <3>5, <4>1
    <3>8. human' = NotOrdinary
      <4>1. (\E c \in Conditions : \/ urgency \in c.urgencies
                                   \/ RoutedTier \in c.tiers /\ ticket.actions # {}
                                   \/ ticket.confidence < c.below)
              <=> urgency = "critical" \/ ticket.confidence < 55
        <5>1. ticket.confidence \in 0 .. 100
          BY <3>2, TicketAssumption DEF TicketAssumption, Ticket
        <5> QED  BY <5>1 DEF ShippedInForce, ShippedConditions, RoutedTier
      <4> QED  BY <2>4, <3>4, <3>7, <4>1 DEF Decide, NeedsApproval, NotOrdinary, Doubtful
    <3>9. /\ Compromised' = Compromised /\ Security' = Security /\ Doubtful' = Doubtful
          /\ NotOrdinary' = NotOrdinary
      BY <3>1 DEF Compromised, Security, Doubtful, NotOrdinary
    <3>10. CompromiseForced' /\ HumansAsked'
      BY <3>1, <3>2, <3>4, <3>5, <3>6, <3>8, <3>9, SettledUrgency
         DEF CompromiseForced, HumansAsked, NotOrdinary, Security
    <3>11. FloorsHold' /\ UrgencyNotDoubled' /\ QueueExplained'
      BY <3>1, <3>2, <3>4, <3>5, <3>9, SettledUrgency
         DEF FloorsHold, UrgencyNotDoubled, QueueExplained, Security
    <3> QED  BY <3>1, <3>10, <3>11 DEF DecidedSoFar, PromisesKept
  <2>5. CASE UNCHANGED vars
    BY <1>2, <2>5 DEF vars, DecidedSoFar, PromisesKept, CompromiseForced, FloorsHold,
                      UrgencyNotDoubled, QueueExplained, HumansAsked, NotOrdinary, HighValue,
                      Security, Doubtful, Validated, Secured,
                      Settled, SecuredQueue, SettledQueue, Compromised, Urged, Floored,
                      FirstQueue, BelowFloor
  <2> QED  BY <1>2, <2>1, <2>2, <2>3, <2>4, <2>5 DEF Next
<1> QED  BY <1>1, <1>2, TypeCorrect, PTL DEF Spec
=============================================================================
