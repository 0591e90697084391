-------------------------- MODULE AgentGraphProofs --------------------------
(* Theorems about AgentGraph, for every value of its constants: the type   *)
(* invariant, the identity of the evidence handles over all loops and runs *)
(* of a thread, what the budget bounds, what the evidence may hold and what *)
(* answers and responses rest on.                                          *)
EXTENDS AgentGraph, SetFacts, SequenceTheorems

-----------------------------------------------------------------------------
(* What one retrieval collects *)

\* A retrieval runs at most two queries.
LEMMA PendingType ==
  ASSUME queries \in Seq(QueryText)
  PROVE  Len(Pending) \in 0 .. 2
<1> DEFINE all == IF queries = <<>> THEN <<input.request>> ELSE queries
<1>1. PICK T : all \in Seq(T)
  <2>1. CASE queries = <<>>
    <3>1. all \in Seq({input.request})
      BY <2>1
    <3> QED
      BY <3>1
  <2>2. CASE queries # <<>>
    BY <2>2
  <2> QED
    BY <2>1, <2>2
<1>2. Len(all) \in Nat
  BY <1>1
<1>3. Pending = IF Len(all) > 2 THEN <<all[Len(all) - 1], all[Len(all)]>> ELSE all
  BY DEF Pending
<1> HIDE DEF all
<1> SUFFICES ASSUME NEW n \in Nat, n = Len(all)
             PROVE  Len(Pending) \in 0 .. 2
  BY <1>2
<1>4. CASE n > 2
  <2>1. Pending = <<all[Len(all) - 1], all[Len(all)]>>
    BY <1>3, <1>4
  <2> QED
    BY <2>1
<1>5. CASE n \in 0 .. 2
  <2>1. Pending = all
    BY <1>3, <1>5
  <2> QED
    BY <1>5, <2>1
<1> QED
  BY <1>4, <1>5

\* What the calls of a retrieval collect is a list of passages.
LEMMA CollectedType ==
  ASSUME queries \in Seq(QueryText),
         NEW found \in [1 .. Len(Pending) -> [internal : Outcomes("internal"),
                                               official : Outcomes("official")]]
  PROVE  Collected(found) \in Seq(Passages)
<1>1. ASSUME NEW c \in Channels, NEW o \in Outcomes(c)
      PROVE  o.hits \in Seq(Passages)
  <2>1. PassagesOf(c) \subseteq Passages
    BY PassageAssumption DEF PassagesOf
  <2>2. CASE o.hits = <<>>
    BY <2>2
  <2>3. CASE o.hits # <<>>
    <3>1. PICK n \in 0 .. MaxHits : o.hits \in [1 .. n -> PassagesOf(c)]
      BY <2>3 DEF Outcomes
    <3>2. n \in Nat /\ o.hits \in [1 .. n -> Passages]
      BY <2>1, <3>1, BoundAssumption
    <3> QED
      BY <3>1, <3>2
  <2> QED
    BY <2>2, <2>3
<1>2. ASSUME NEW i \in 1 .. Len(Pending)
      PROVE  found[i].internal.hits \o found[i].official.hits \in Seq(Passages)
  <2>1. found[i].internal \in Outcomes("internal") /\ found[i].official \in Outcomes("official")
    OBVIOUS
  <2>2. found[i].internal.hits \in Seq(Passages) /\ found[i].official.hits \in Seq(Passages)
    BY <1>1, <2>1 DEF Channels
  <2> QED
    BY <2>2
<1>3. Len(Pending) \in 0 .. 2
  BY PendingType
<1>4. CASE Len(Pending) = 0
  BY <1>4 DEF Collected
<1>5. CASE Len(Pending) = 1
  BY <1>2, <1>5 DEF Collected
<1>6. CASE Len(Pending) = 2
  BY <1>2, <1>6 DEF Collected
<1> QED
  BY <1>3, <1>4, <1>5, <1>6

\* The handle counter is a natural number no handle exceeds.
LEMMA CounterBounds ==
  ASSUME NEW known \in SUBSET Evidence, IsFiniteSet(known)
  PROVE  HandleCounter(known) \in Nat /\ \A e \in known : e.handle <= HandleCounter(known)
<1> DEFINE handles == {e.handle : e \in known}
           handleOf == [e \in known |-> e.handle]
<1>1. handles \in SUBSET Nat
  BY DEF Evidence
<1>2. IsFiniteSet(handles)
  <2>1. handleOf \in Surjection(known, handles)
    BY DEF Surjection
  <2> QED
    BY <2>1, FS_Surjection
<1>3. CASE known = {}
  BY <1>3 DEF HandleCounter
<1>4. CASE known # {}
  <2>1. handles # {}
    BY <1>4
  <2>2. Max(handles) \in handles /\ \A h \in handles : h <= Max(handles)
    BY <1>1, <1>2, <2>1, MaxNat
  <2> QED
    BY <1>1, <1>4, <2>2 DEF HandleCounter
<1> QED
  BY <1>3, <1>4

\* Records that are not known yet get natural handles beyond the counter, in
\* such a way that no two of them share one.
LEMMA RegisteredFresh ==
  ASSUME NEW known \in SUBSET Evidence, IsFiniteSet(known),
         NEW list \in Seq(Passages)
  PROVE  /\ Registered(known, list) \subseteq Evidence
         /\ IsFiniteSet(Registered(known, list))
         /\ \A e \in Registered(known, list) :
              /\ e.handle > HandleCounter(known)
              /\ e.passage \in {list[i] : i \in DOMAIN list}
              /\ e.passage \notin Quarantine(list)
              /\ \A f \in known : f.passage # e.passage
         /\ \A e, f \in Registered(known, list) :
              e.handle = f.handle <=> e.passage = f.passage
<1> DEFINE rejected == {e.passage : e \in known} \cup Quarantine(list)
           seen == {list[i] : i \in DOMAIN list}
           fresh == seen \ rejected
           upTo(p) == {list[i] : i \in 1 .. FirstAt(list, p)} \ rejected
           item(p) == [handle |-> HandleCounter(known) + Cardinality(upTo(p)), passage |-> p,
                       copies |-> Cardinality({i \in DOMAIN list : list[i] = p})]
<1>1. Registered(known, list) = {item(p) : p \in fresh}
  BY DEF Registered
<1>2. HandleCounter(known) \in Nat
  BY CounterBounds
<1>3. ASSUME NEW p \in seen
      PROVE  /\ FirstAt(list, p) \in DOMAIN list
             /\ list[FirstAt(list, p)] = p
             /\ \A j \in DOMAIN list : list[j] = p => FirstAt(list, p) <= j
  <2>1. PICK k \in DOMAIN list : list[k] = p
    OBVIOUS
  <2>2. \E i \in DOMAIN list : list[i] = p /\ \A j \in DOMAIN list : list[j] = p => i <= j
    BY <2>1, FirstPosition
  <2> QED
    BY <2>2 DEF FirstAt
<1>4. ASSUME NEW p \in fresh
      PROVE  /\ IsFiniteSet(upTo(p)) /\ p \in upTo(p)
             /\ Cardinality(upTo(p)) \in Nat \ {0}
  <2>1. FirstAt(list, p) \in 1 .. Len(list)
    BY <1>3
  <2>2. IsFiniteSet({list[i] : i \in 1 .. FirstAt(list, p)})
    BY <2>1, FiniteRange
  <2>3. IsFiniteSet(upTo(p))
    BY <2>2, FS_Subset
  <2>4. p \in upTo(p)
    BY <1>3, <2>1
  <2> HIDE DEF upTo
  <2> QED
    BY <2>3, <2>4, FS_CardinalityType, FS_EmptySet
<1>5. ASSUME NEW p \in fresh, NEW q \in fresh, FirstAt(list, p) < FirstAt(list, q)
      PROVE  Cardinality(upTo(p)) < Cardinality(upTo(q))
  <2>1. FirstAt(list, p) \in 1 .. Len(list) /\ FirstAt(list, q) \in 1 .. Len(list)
    BY <1>3
  <2>2. upTo(p) \subseteq upTo(q)
    BY <1>5, <2>1
  <2>3. q \notin upTo(p)
    <3> SUFFICES ASSUME NEW i \in 1 .. FirstAt(list, p), list[i] = q
                 PROVE  FALSE
      OBVIOUS
    <3>1. i \in DOMAIN list
      BY <2>1
    <3>2. FirstAt(list, q) <= i
      BY <1>3, <3>1
    <3> QED
      BY <1>5, <2>1, <3>2
  <2>4. IsFiniteSet(upTo(q)) /\ q \in upTo(q) /\ Cardinality(upTo(q)) \in Nat
    BY <1>4
  <2>5. Cardinality(upTo(p)) \in Nat
    BY <1>4
  <2> HIDE DEF upTo
  <2>6. upTo(p) # upTo(q)
    BY <2>3, <2>4
  <2>7. Cardinality(upTo(p)) <= Cardinality(upTo(q)) /\ Cardinality(upTo(p)) # Cardinality(upTo(q))
    BY <2>2, <2>4, <2>6, FS_Subset
  <2> QED
    BY <2>4, <2>5, <2>7
<1>6. ASSUME NEW p \in fresh, NEW q \in fresh, p # q
      PROVE  Cardinality(upTo(p)) # Cardinality(upTo(q))
  <2>1. /\ FirstAt(list, p) \in Nat /\ FirstAt(list, q) \in Nat
        /\ FirstAt(list, p) # FirstAt(list, q)
    BY <1>3, <1>6
  <2>2. Cardinality(upTo(p)) \in Nat /\ Cardinality(upTo(q)) \in Nat
    BY <1>4
  <2>3. CASE FirstAt(list, p) < FirstAt(list, q)
    <3>1. Cardinality(upTo(p)) < Cardinality(upTo(q))
      BY <1>5, <2>3
    <3> HIDE DEF upTo
    <3> QED
      BY <2>2, <3>1
  <2>4. CASE FirstAt(list, q) < FirstAt(list, p)
    <3>1. Cardinality(upTo(q)) < Cardinality(upTo(p))
      BY <1>5, <2>4
    <3> HIDE DEF upTo
    <3> QED
      BY <2>2, <3>1
  <2> QED
    BY <2>1, <2>3, <2>4
<1>7. ASSUME NEW p \in fresh
      PROVE  item(p) \in Evidence /\ item(p).handle > HandleCounter(known)
  <2>1. IsFiniteSet({i \in DOMAIN list : list[i] = p})
    <3>1. IsFiniteSet(1 .. Len(list))
      BY FS_Interval
    <3> QED
      BY <3>1, FS_Subset
  <2>2. Cardinality({i \in DOMAIN list : list[i] = p}) \in Nat
    BY <2>1, FS_CardinalityType
  <2>3. p \in Passages
    OBVIOUS
  <2> HIDE DEF upTo
  <2> QED
    BY <1>2, <1>4, <2>2, <2>3 DEF Evidence
<1>8. IsFiniteSet({item(p) : p \in fresh})
  <2>1. IsFiniteSet(fresh)
    <3>1. Len(list) \in 0 .. Len(list)
      OBVIOUS
    <3>2. IsFiniteSet({list[i] : i \in 1 .. Len(list)})
      BY <3>1, FiniteRange
    <3> QED
      BY <3>2, FS_Subset
  <2> HIDE DEF item, fresh
  <2>2. [p \in fresh |-> item(p)] \in Surjection(fresh, {item(p) : p \in fresh})
    BY DEF Surjection
  <2> QED
    BY <2>1, <2>2, FS_Surjection
<1>9. ASSUME NEW p \in fresh, NEW q \in fresh
      PROVE  item(p).handle = item(q).handle <=> item(p).passage = item(q).passage
  <2>1. Cardinality(upTo(p)) \in Nat /\ Cardinality(upTo(q)) \in Nat
    BY <1>4
  <2>2. p # q => Cardinality(upTo(p)) # Cardinality(upTo(q))
    BY <1>6
  <2> HIDE DEF upTo
  <2> QED
    BY <1>2, <2>1, <2>2
<1>10. ASSUME NEW p \in fresh
       PROVE  /\ item(p).passage \in seen /\ item(p).passage \notin Quarantine(list)
              /\ \A f \in known : f.passage # item(p).passage
  OBVIOUS
<1> HIDE DEF item, fresh
<1>11. Registered(known, list) \subseteq Evidence
  BY <1>1, <1>7
<1>12. \A e \in Registered(known, list) :
         /\ e.handle > HandleCounter(known)
         /\ e.passage \in seen /\ e.passage \notin Quarantine(list)
         /\ \A f \in known : f.passage # e.passage
  BY <1>1, <1>7, <1>10
<1>13. \A e, f \in Registered(known, list) : e.handle = f.handle <=> e.passage = f.passage
  BY <1>1, <1>9
<1> QED
  BY <1>1, <1>8, <1>11, <1>12, <1>13

-----------------------------------------------------------------------------
(* Type correctness *)

\* TypeOK needs the evidence to be finite, for its counter to be defined, and
\* the request to be one, for the queries built from it to be texts.
TypeInv ==
  /\ TypeOK
  /\ IsFiniteSet(evidence)
  /\ node # "idle" => input.request \in Requests

LEMMA TypeInvInit == Init => TypeInv
<1> SUFFICES ASSUME Init
             PROVE  TypeInv
  OBVIOUS
<1>1. InputType /\ PlanType /\ EvidenceType /\ BudgetType
  BY DEF Init, InputType, PlanType, EvidenceType, BudgetType, NoInput
<1>2. AnswerType /\ TriageType /\ AuditType
  BY DEF Init, AnswerType, TriageType, AuditType, NoAnswer, NoDecision
<1>3. <<>> \in Seq(QueryText)
  OBVIOUS
<1>4. GradeType
  BY <1>3 DEF Init, GradeType, Gap
<1> QED
  BY <1>1, <1>2, <1>3, <1>4, FS_EmptySet DEF Init, TypeInv, TypeOK, Nodes

\* What an action leaves alone keeps its type.
LEMMA Frames ==
  /\ UNCHANGED inputVars => input' = input
  /\ InputType /\ UNCHANGED inputVars => InputType'
  /\ PlanType /\ UNCHANGED planVars => PlanType'
  /\ UNCHANGED evidenceVars => evidence' = evidence
  /\ EvidenceType /\ UNCHANGED evidenceVars => EvidenceType'
  /\ GradeType /\ UNCHANGED gradeVars => GradeType'
  /\ BudgetType /\ UNCHANGED budgetVars => BudgetType'
  /\ AnswerType /\ UNCHANGED answerVars => AnswerType'
  /\ TriageType /\ UNCHANGED triageVars => TriageType'
  /\ AuditType /\ UNCHANGED auditVars => AuditType'
<1>1. UNCHANGED inputVars => input' = input
  BY DEF inputVars
<1>2. InputType /\ UNCHANGED inputVars => InputType'
  BY DEF InputType, inputVars
<1>3. PlanType /\ UNCHANGED planVars => PlanType'
  BY DEF PlanType, planVars
<1>4. UNCHANGED evidenceVars => evidence' = evidence
  BY DEF evidenceVars
<1>5. EvidenceType /\ UNCHANGED evidenceVars => EvidenceType'
  BY DEF EvidenceType, evidenceVars
<1>6. GradeType /\ UNCHANGED gradeVars => GradeType'
  BY DEF GradeType, gradeVars
<1>7. BudgetType /\ UNCHANGED budgetVars => BudgetType'
  BY DEF BudgetType, budgetVars
<1>8. AnswerType /\ UNCHANGED answerVars => AnswerType'
  BY DEF AnswerType, answerVars
<1>9. TriageType /\ UNCHANGED triageVars => TriageType'
  BY DEF TriageType, triageVars
<1>10. AuditType /\ UNCHANGED auditVars => AuditType'
  BY DEF AuditType, auditVars
<1> QED
  BY <1>1, <1>2, <1>3, <1>4, <1>5, <1>6, <1>7, <1>8, <1>9, <1>10

LEMMA TypeInvStep == TypeInv /\ [Next]_vars => TypeInv'
<1> SUFFICES ASSUME TypeInv, [Next]_vars
             PROVE  TypeInv'
  OBVIOUS
<1> USE Frames DEF TypeInv, TypeOK
<1>1. ASSUME NEW endpoint \in Endpoints, NEW request \in Requests, NEW ticket \in BOOLEAN,
             StartRun(endpoint, request, ticket)
      PROVE  TypeInv'
  <2> USE <1>1 DEF StartRun
  <2>1. InputType' /\ input'.request \in Requests
    BY DEF InputType
  <2>2. PlanType'
    BY DEF PlanType, Workflow
  <2>3. GradeType' /\ BudgetType'
    <3>1. <<>> \in Seq(QueryText)
      OBVIOUS
    <3> QED
      BY <3>1 DEF InitialState, GradeType, BudgetType, Gap
  <2>4. TriageType'
    BY DEF InitialState, TriageType, NoDecision
  <2>5. AnswerType'
    BY DEF InitialState, AnswerType, NoAnswer
  <2> QED
    BY <2>1, <2>2, <2>3, <2>4, <2>5 DEF Nodes
<1>2. ASSUME NEW plan \in Plans,
             Understand(plan)
      PROVE  TypeInv'
  <2> USE <1>2 DEF Understand
  <2>1. plan \in Plan
    BY ModelAssumption
  <2>2. PlanType' /\ node' \in Nodes
    BY <2>1 DEF PlanType, Plan, Workflow, AfterUnderstand, Nodes
  <2>3. queries' \in Seq(QueryText)
    <3>1. plan.queries \in Seq(QueryText)
      BY <2>1 DEF Plan
    <3>2. <<input.request>> \in Seq(QueryText)
      BY DEF QueryText
    <3> QED
      BY <3>1, <3>2
  <2> QED
    BY <2>2, <2>3
<1>3. ASSUME UnderstandFails
      PROVE  TypeInv'
  <2> USE <1>3 DEF UnderstandFails
  <2>1. PlanType' /\ node' \in Nodes
    BY DEF PlanType, Workflow, AfterUnderstand, Nodes
  <2>2. queries' \in Seq(QueryText)
    <3>1. input.request \in QueryText
      BY DEF QueryText
    <3> QED
      BY <3>1
  <2>3. AuditType'
    BY DEF AuditType, Stages
  <2> QED
    BY <2>1, <2>2, <2>3
<1>4. ASSUME Retrieve
      PROVE  TypeInv'
  <2>1. PICK found \in [1 .. Len(Pending) -> [internal : Outcomes("internal"),
                                               official : Outcomes("official")]] :
          /\ evidence' = evidence \cup Registered(evidence, Collected(found))
          /\ quarantined' = quarantined \cup Quarantine(Collected(found))
          /\ errors' = errors \cup FailedChannels(found)
          /\ invocations' = invocations
               \cup {[tool |-> c, ok |-> TRUE] : c \in CalledWith(found, "ok")}
               \cup {[tool |-> c, ok |-> FALSE] : c \in CalledWith(found, "failed")}
    BY <1>4 DEF Retrieve
  <2>2. evidence \in SUBSET Evidence /\ Collected(found) \in Seq(Passages)
    BY CollectedType DEF EvidenceType
  <2>3. /\ Registered(evidence, Collected(found)) \subseteq Evidence
        /\ IsFiniteSet(Registered(evidence, Collected(found)))
    BY <2>2, RegisteredFresh
  <2>4. EvidenceType' /\ IsFiniteSet(evidence')
    <3>1. Quarantine(Collected(found)) \subseteq Passages
      BY PassageAssumption DEF Quarantine
    <3>2. IsFiniteSet(evidence')
      BY <2>1, <2>3, FS_Union
    <3> QED
      BY <2>1, <2>3, <3>1, <3>2 DEF EvidenceType
  <2>5. AuditType'
    <3>1. FailedChannels(found) \subseteq Channels
      BY DEF FailedChannels
    <3>2. \A status : CalledWith(found, status) \subseteq Channels
      BY DEF CalledWith
    <3>3. errors' \subseteq Stages \cup Channels
      BY <2>1, <3>1 DEF AuditType
    <3> DEFINE Called(status) == CalledWith(found, status)
    <3>4. invocations' = invocations \cup {[tool |-> c, ok |-> TRUE] : c \in Called("ok")}
                                     \cup {[tool |-> c, ok |-> FALSE] : c \in Called("failed")}
      BY <2>1
    <3>5. Called("ok") \subseteq ToolNames /\ Called("failed") \subseteq ToolNames
      BY <3>2 DEF ToolNames
    <3> HIDE DEF Called
    <3>6. /\ {[tool |-> c, ok |-> TRUE] : c \in Called("ok")} \subseteq [tool : ToolNames, ok : BOOLEAN]
          /\ {[tool |-> c, ok |-> FALSE] : c \in Called("failed")}
               \subseteq [tool : ToolNames, ok : BOOLEAN]
      <4>1. ASSUME NEW S \in SUBSET ToolNames, NEW b \in BOOLEAN
            PROVE  {[tool |-> c, ok |-> b] : c \in S} \subseteq [tool : ToolNames, ok : BOOLEAN]
        OBVIOUS
      <4> QED
        BY <3>5, <4>1
    <3>7. invocations \subseteq [tool : ToolNames, ok : BOOLEAN]
      BY DEF AuditType
    <3>8. invocations' \subseteq [tool : ToolNames, ok : BOOLEAN]
      BY ONLY <3>4, <3>6, <3>7
    <3> QED
      BY <3>3, <3>8 DEF AuditType
  <2>6. BudgetType'
    BY <1>4, PendingType DEF Retrieve, BudgetType, SpendToolCalls, SpendIteration, CallsPerQuery
  <2> QED
    BY <1>4, <2>4, <2>5, <2>6 DEF Retrieve, Nodes
<1>5. ASSUME GradeNothing
      PROVE  TypeInv'
  BY <1>5 DEF GradeNothing, GradeType, Gap, AfterGrade, Nodes
<1>6. ASSUME NEW assessment \in Assessments,
             Grade(assessment)
      PROVE  TypeInv'
  <2>1. assessment \in Assessment
    BY ModelAssumption
  <2>2. GradeType'
    BY <1>6, <2>1 DEF Grade, GradeType, Assessment
  <2> QED
    BY <1>6, <2>2 DEF Grade, AfterGrade, Nodes
<1>7. ASSUME GradeFails
      PROVE  TypeInv'
  <2>1. AuditType' /\ GradeType'
    BY <1>7 DEF GradeFails, AuditType, GradeType, Stages
  <2> QED
    BY <1>7, <2>1 DEF GradeFails, AfterGrade, Nodes
<1>8. ASSUME Refine
      PROVE  TypeInv'
  <2>1. Reworded \in Seq(QueryText)
    <3>1. CASE refined # <<>>
      BY <3>1 DEF Reworded, GradeType
    <3>2. CASE refined = <<>>
      <4>1. input.request \in Requests /\ missing \in Gap
        BY <1>8 DEF Refine, GradeType
      <4>2. input.request \in QueryText /\ <<input.request, missing>> \in QueryText
        BY <4>1 DEF QueryText
      <4> DEFINE text == IF missing = "" THEN input.request ELSE <<input.request, missing>>
      <4>3. Reworded = <<text>>
        BY <3>2 DEF Reworded
      <4>4. text \in QueryText
        BY <4>2
      <4> HIDE DEF text
      <4> QED
        BY <4>3, <4>4
    <3> QED
      BY <3>1, <3>2
  <2>2. \A i \in Untried : Reworded[i] \in QueryText
    BY <2>1 DEF Untried
  <2>3. queries' \in Seq(QueryText)
    <3>1. PICK i \in Untried :
            \/ queries' = Append(queries, Reworded[i])
            \/ \E j \in Untried : queries' = queries \o <<Reworded[i], Reworded[j]>>
      BY <1>8 DEF Refine
    <3>2. CASE queries' = Append(queries, Reworded[i])
      BY <2>2, <3>2
    <3>3. CASE \E j \in Untried : queries' = queries \o <<Reworded[i], Reworded[j]>>
      <4>1. PICK j \in Untried : queries' = queries \o <<Reworded[i], Reworded[j]>>
        BY <3>3
      <4>2. <<Reworded[i], Reworded[j]>> \in Seq(QueryText)
        BY <2>2
      <4> QED
        BY <4>1, <4>2
    <3> QED
      BY <3>1, <3>2, <3>3
  <2> QED
    BY <1>8, <2>3 DEF Refine, Nodes
<1>9. ASSUME RefineGivesUp
      PROVE  TypeInv'
  BY <1>9 DEF RefineGivesUp, GradeType, Nodes
<1>10. ASSUME NEW found \in BOOLEAN,
              DetectConflicts(found)
       PROVE  TypeInv'
  BY <1>10 DEF DetectConflicts, AnswerType, Nodes
<1>11. ASSUME DetectConflictsFails
       PROVE  TypeInv'
  <2>1. AuditType' /\ AnswerType'
    BY <1>11 DEF DetectConflictsFails, AuditType, AnswerType, Stages
  <2> QED
    BY <1>11, <2>1 DEF DetectConflictsFails, Nodes
<1>12. ASSUME Insufficient
       PROVE  TypeInv'
  <2>1. AuditType' /\ AnswerType'
    BY <1>12 DEF Insufficient, AuditType, AnswerType, Stages
  <2> QED
    BY <1>12, <2>1 DEF Insufficient, Nodes
<1>13. ASSUME NEW cited \in SUBSET Citable, NEW declined \in BOOLEAN,
              NEW confidence \in {0, 1},
              Synthesize(cited, declined, confidence)
       PROVE  TypeInv'
  <2>1. Resolved(cited) \subseteq Citation
    BY DEF Resolved, EvidenceType, Evidence, Citation
  <2>2. AnswerType'
    BY <1>13, <2>1 DEF Synthesize, AnswerType
  <2> QED
    BY <1>13, <2>2 DEF Synthesize, Nodes
<1>14. ASSUME Classify
       PROVE  TypeInv'
  BY <1>14 DEF Classify, TriageType, Nodes
<1>15. ASSUME ClassifyFails
       PROVE  TypeInv'
  <2>1. AuditType' /\ TriageType'
    BY <1>15 DEF ClassifyFails, AuditType, TriageType, Stages
  <2> QED
    BY <1>15, <2>1 DEF ClassifyFails, Nodes
<1>16. ASSUME NEW escalate \in BOOLEAN, NEW human \in BOOLEAN,
              Route(escalate, human)
       PROVE  TypeInv'
  BY <1>16 DEF Route, TriageType, Nodes
<1>17. ASSUME RouteUnclassified
       PROVE  TypeInv'
  BY <1>17 DEF RouteUnclassified, FallbackDecision, TriageType, Nodes
<1>18. ASSUME Act
       PROVE  TypeInv'
  <2>1. AuditType'
    <3>1. CASE decision.made /\ input.ticket
      <4> DEFINE used == TicketActions \ (IF decision.escalate THEN {} ELSE {"create_escalation"})
      <4>1. PICK ok \in [used -> BOOLEAN] :
              invocations' = invocations \cup {[tool |-> t, ok |-> ok[t]] : t \in DOMAIN ok}
        BY <1>18, <3>1 DEF Act
      <4> QED
        BY <1>18, <4>1 DEF Act, AuditType, ToolNames
    <3>2. CASE ~(decision.made /\ input.ticket)
      BY <1>18, <3>2 DEF Act, AuditType
    <3> QED
      BY <3>1, <3>2
  <2> QED
    BY <1>18, <2>1 DEF Act, Nodes
<1>19. ASSUME Respond
       PROVE  TypeInv'
  BY <1>19 DEF Respond, ResponseKind, Nodes
<1>20. CASE UNCHANGED vars
  BY <1>20 DEF vars
<1> QED
  BY <1>1, <1>2, <1>3, <1>4, <1>5, <1>6, <1>7, <1>8, <1>9, <1>10, <1>11, <1>12, <1>13,
     <1>14, <1>15, <1>16, <1>17, <1>18, <1>19, <1>20 DEF Next, Step

\* In every state of every run of a thread, each field has the type
\* AgentState declares for it (state.py).
THEOREM TypeCorrect == Spec => []TypeOK
<1>1. TypeInv => TypeOK
  BY DEF TypeInv
<1> QED
  BY <1>1, TypeInvInit, TypeInvStep, PTL DEF Spec

LEMMA TypeInvAlways == Spec => []TypeInv
  BY TypeInvInit, TypeInvStep, PTL DEF Spec

-----------------------------------------------------------------------------
(* The budget *)

\* BudgetBound is not inductive: a retrieval must know that the grader let it
\* start below the caps, or that it is the first of its run.
BelowCaps == iterations < MaxIterations /\ toolCalls < MaxToolCalls
Unspent == iterations = 0 /\ toolCalls = 0
BudgetInv ==
  /\ BudgetBound
  /\ node = "understand" => Unspent
  /\ node \in {"retrieve", "refine"} => Unspent \/ BelowCaps

LEMMA BudgetInvInit == Init => BudgetInv
<1>1. Init => node = "idle" /\ iterations = 0 /\ toolCalls = 0
  BY DEF Init
<1> QED
  BY <1>1 DEF BudgetInv, BudgetBound

\* Every action but Retrieve keeps the budget or resets it, so only the
\* actions that lead to a retrieval matter.
LEMMA BudgetInvStep == TypeInv /\ BudgetInv /\ [Next]_vars => BudgetInv'
<1> SUFFICES ASSUME TypeInv, BudgetInv, [Next]_vars
             PROVE  BudgetInv'
  OBVIOUS
<1> USE BudgetAssumption DEF BudgetInv, BudgetBound, Unspent, BelowCaps, budgetVars
<1>1. ASSUME NEW endpoint \in Endpoints, NEW request \in Requests, NEW ticket \in BOOLEAN,
             StartRun(endpoint, request, ticket)
      PROVE  BudgetInv'
  <2>1. node' = "understand" /\ iterations' = 0 /\ toolCalls' = 0
    BY <1>1 DEF StartRun, InitialState
  <2> QED
    BY <2>1
<1>2. ASSUME NEW plan \in Plans, Understand(plan)
      PROVE  BudgetInv'
  BY <1>2 DEF Understand, AfterUnderstand
<1>3. ASSUME UnderstandFails
      PROVE  BudgetInv'
  BY <1>3 DEF UnderstandFails, AfterUnderstand
<1>4. ASSUME Retrieve
      PROVE  BudgetInv'
  <2>1. queries \in Seq(QueryText) /\ iterations \in Nat /\ toolCalls \in Nat
    BY DEF TypeInv, TypeOK, BudgetType
  <2>2. Len(Pending) \in {0, 1, 2} /\ CallsPerQuery \in {0, 1, 2}
    BY <2>1, PendingType DEF CallsPerQuery
  <2>3. Len(Pending) * CallsPerQuery \in 0 .. 4
    <3> SUFFICES ASSUME NEW m \in {0, 1, 2}, NEW n \in {0, 1, 2}
                 PROVE  m * n \in 0 .. 4
      BY <2>2
    <3> QED
      OBVIOUS
  <2>4. /\ node = "retrieve" /\ node' = "grade"
        /\ iterations' = iterations + 1
        /\ toolCalls' = toolCalls + Len(Pending) * CallsPerQuery
    BY <1>4 DEF Retrieve, SpendIteration, SpendToolCalls
  <2> QED
    BY <2>1, <2>3, <2>4
<1>5. ASSUME GradeNothing \/ GradeFails \/ \E assessment \in Assessments : Grade(assessment)
      PROVE  BudgetInv'
  <2>1. PICK enough \in BOOLEAN : node' = AfterGrade(enough) /\ UNCHANGED budgetVars
    <3>1. \A assessment \in Assessments : assessment.sufficient \in BOOLEAN
      BY ModelAssumption DEF Assessment
    <3> QED
      BY <1>5, <3>1 DEF GradeNothing, GradeFails, Grade
  <2>2. iterations \in Nat /\ toolCalls \in Nat
    BY DEF TypeInv, TypeOK, BudgetType
  <2> QED
    BY <2>1, <2>2 DEF AfterGrade
<1>6. ASSUME Refine \/ RefineGivesUp
      PROVE  BudgetInv'
  BY <1>6 DEF Refine, RefineGivesUp
<1>7. ASSUME \/ \E found \in BOOLEAN : DetectConflicts(found)
             \/ DetectConflictsFails
             \/ Insufficient
             \/ \E cited \in SUBSET Citable, declined \in BOOLEAN, confidence \in {0, 1} :
                  Synthesize(cited, declined, confidence)
      PROVE  BudgetInv'
  BY <1>7 DEF DetectConflicts, DetectConflictsFails, Insufficient, Synthesize
<1>8. ASSUME \/ Classify
             \/ ClassifyFails
             \/ \E escalate, human \in BOOLEAN : Route(escalate, human)
             \/ RouteUnclassified
             \/ Act
             \/ Respond
      PROVE  BudgetInv'
  BY <1>8 DEF Classify, ClassifyFails, Route, RouteUnclassified, Act, Respond
<1>9. CASE UNCHANGED vars
  BY <1>9 DEF vars
<1> QED
  BY <1>1, <1>2, <1>3, <1>4, <1>5, <1>6, <1>7, <1>8, <1>9 DEF Next, Step

\* The budget bounds the loop of every run (Budget, _after_grade): one
\* retrieval is never checked, and one that was allowed to start overruns the
\* cap on tool calls by at most three.
THEOREM BudgetBounded == Spec => []BudgetBound
<1>1. BudgetInv => BudgetBound
  BY DEF BudgetInv
<1> QED
  BY <1>1, TypeInvAlways, BudgetInvInit, BudgetInvStep, PTL DEF Spec

-----------------------------------------------------------------------------
(* The evidence *)

LEMMA OnlyRetrieveCollects == [Next]_vars => Retrieve \/ UNCHANGED evidenceVars
<1> USE DEF evidenceVars
<1>1. ASSUME NEW endpoint \in Endpoints, NEW request \in Requests, NEW ticket \in BOOLEAN,
             StartRun(endpoint, request, ticket)
      PROVE  UNCHANGED evidenceVars
  BY <1>1 DEF StartRun
<1>2. ASSUME Step, ~Retrieve
      PROVE  UNCHANGED evidenceVars
  BY <1>2 DEF Step, Understand, UnderstandFails, GradeNothing, Grade, GradeFails, Refine,
     RefineGivesUp, DetectConflicts, DetectConflictsFails, Insufficient, Synthesize,
     Classify, ClassifyFails, Route, RouteUnclassified, Act, Respond
<1>3. UNCHANGED vars => UNCHANGED evidenceVars
  BY DEF vars
<1> QED
  BY <1>1, <1>2, <1>3 DEF Next

LEMMA RetrieveCollects ==
  ASSUME TypeInv, Retrieve
  PROVE  \E list \in Seq(Passages) :
           /\ evidence' = evidence \cup Registered(evidence, list)
           /\ quarantined' = quarantined \cup Quarantine(list)
<1>1. PICK found \in [1 .. Len(Pending) -> [internal : Outcomes("internal"),
                                             official : Outcomes("official")]] :
        /\ evidence' = evidence \cup Registered(evidence, Collected(found))
        /\ quarantined' = quarantined \cup Quarantine(Collected(found))
  BY DEF Retrieve
<1>2. Collected(found) \in Seq(Passages)
  BY CollectedType DEF TypeInv, TypeOK
<1> QED
  BY <1>1, <1>2

LEMMA HandlesInit == Init => HandlesIdentify
  BY DEF Init, HandlesIdentify

LEMMA HandlesStep == TypeInv /\ HandlesIdentify /\ [Next]_vars => HandlesIdentify'
<1> SUFFICES ASSUME TypeInv, HandlesIdentify, [Next]_vars
             PROVE  HandlesIdentify'
  OBVIOUS
<1>1. CASE Retrieve
  <2>1. PICK list \in Seq(Passages) : evidence' = evidence \cup Registered(evidence, list)
    BY <1>1, RetrieveCollects
  <2>2. evidence \in SUBSET Evidence /\ IsFiniteSet(evidence)
    BY DEF TypeInv, TypeOK, EvidenceType
  <2> DEFINE new == Registered(evidence, list)
             counter == HandleCounter(evidence)
  <2>3. /\ new \subseteq Evidence
        /\ \A e \in new : e.handle > counter /\ \A f \in evidence : f.passage # e.passage
        /\ \A e, f \in new : e.handle = f.handle <=> e.passage = f.passage
    BY <2>2, RegisteredFresh
  <2>4. counter \in Nat /\ \A e \in evidence : e.handle <= counter
    BY <2>2, CounterBounds
  <2> HIDE DEF new, counter
  <2>5. ASSUME NEW e \in evidence, NEW f \in new
        PROVE  e.handle # f.handle /\ e.passage # f.passage
    <3>1. e.handle \in Nat /\ f.handle \in Nat
      BY <2>2, <2>3 DEF Evidence
    <3>2. e.handle <= counter /\ f.handle > counter /\ e.passage # f.passage
      BY <2>3, <2>4
    <3> QED
      BY <2>4, <3>1, <3>2
  <2>6. evidence' = evidence \cup new
    BY <2>1 DEF new
  <2> QED
    BY <2>3, <2>5, <2>6 DEF HandlesIdentify
<1>2. CASE UNCHANGED evidenceVars
  BY <1>2 DEF HandlesIdentify, evidenceVars
<1> QED
  BY <1>1, <1>2, OnlyRetrieveCollects

\* Over all loops and all runs of a thread one handle names one passage and
\* one passage has one handle (EvidenceRegistry, "stable handles").
THEOREM HandlesStable == Spec => []HandlesIdentify
  BY TypeInvAlways, HandlesInit, HandlesStep, PTL DEF Spec

\* EvidenceScreened relates the evidence to everything quarantined so far, of
\* which it must be known that the scan reported it.
ScreenInv ==
  EnableScanning => /\ quarantined \subseteq Malicious
                    /\ \A e \in evidence : e.passage \notin Malicious

LEMMA ScreenInvInit == Init => ScreenInv
  BY DEF Init, ScreenInv

LEMMA ScreenInvStep == TypeInv /\ ScreenInv /\ [Next]_vars => ScreenInv'
<1> SUFFICES ASSUME TypeInv, ScreenInv, [Next]_vars
             PROVE  ScreenInv'
  OBVIOUS
<1>1. CASE Retrieve
  <2>1. PICK list \in Seq(Passages) :
          /\ evidence' = evidence \cup Registered(evidence, list)
          /\ quarantined' = quarantined \cup Quarantine(list)
    BY <1>1, RetrieveCollects
  <2>2. evidence \in SUBSET Evidence /\ IsFiniteSet(evidence)
    BY DEF TypeInv, TypeOK, EvidenceType
  <2>3. \A e \in Registered(evidence, list) :
          e.passage \in {list[i] : i \in DOMAIN list} /\ e.passage \notin Quarantine(list)
    BY <2>2, RegisteredFresh
  <2>4. EnableScanning => Quarantine(list) = {list[i] : i \in DOMAIN list} \cap Malicious
    BY DEF Quarantine
  <2> QED
    BY <2>1, <2>3, <2>4 DEF ScreenInv
<1>2. CASE UNCHANGED evidenceVars
  BY <1>2 DEF ScreenInv, evidenceVars
<1> QED
  BY <1>1, <1>2, OnlyRetrieveCollects

\* A passage the injection scan reported is in the evidence of no prompt, in
\* this run or a later one of the thread (screen_evidence).
THEOREM EvidenceIsScreened == Spec => []EvidenceScreened
<1>1. ScreenInv => EvidenceScreened
  BY DEF ScreenInv, EvidenceScreened
<1> QED
  BY <1>1, TypeInvAlways, ScreenInvInit, ScreenInvStep, PTL DEF Spec

-----------------------------------------------------------------------------
(* The answer *)

LEMMA CitationsInit == Init => CitationsGrounded
<1>1. Init => answer = NoAnswer
  BY DEF Init
<1> QED
  BY <1>1 DEF CitationsGrounded, NoAnswer

\* Evidence is only ever added, so a citation stays grounded; the two actions
\* that write an answer ground theirs.
LEMMA CitationsStep == TypeInv /\ CitationsGrounded /\ [Next]_vars => CitationsGrounded'
<1> SUFFICES ASSUME TypeInv, CitationsGrounded, [Next]_vars
             PROVE  CitationsGrounded'
  OBVIOUS
<1>1. evidence \subseteq evidence'
  <2>1. Retrieve => evidence \subseteq evidence'
    BY DEF Retrieve
  <2> QED
    BY <2>1, OnlyRetrieveCollects DEF evidenceVars
<1>2. ASSUME NEW endpoint \in Endpoints, NEW request \in Requests, NEW ticket \in BOOLEAN,
             StartRun(endpoint, request, ticket)
      PROVE  CitationsGrounded'
  <2>1. answer' = NoAnswer
    BY <1>2 DEF StartRun, InitialState
  <2> QED
    BY <2>1 DEF CitationsGrounded, NoAnswer
<1>3. ASSUME Insufficient
      PROVE  CitationsGrounded'
  <2>1. answer'.status = "insufficient" /\ answer'.citations = {} /\ answer'.confidence = 0
    BY <1>3 DEF Insufficient, TypeInv, TypeOK, AnswerType
  <2> QED
    BY <2>1 DEF CitationsGrounded
<1>4. ASSUME NEW cited \in SUBSET Citable, NEW declined \in BOOLEAN,
             NEW confidence \in {0, 1},
             Synthesize(cited, declined, confidence)
      PROVE  CitationsGrounded'
  <2> DEFINE citations == IF declined THEN {} ELSE Resolved(cited)
  <2>1. /\ answer'.citations = citations
        /\ answer'.status = (IF citations = {} THEN "insufficient" ELSE "answered")
        /\ answer'.confidence = (IF citations = {} THEN 0 ELSE confidence)
    BY <1>4 DEF Synthesize
  <2>2. \A c \in citations : \E e \in evidence : e.handle = c.handle /\ e.passage = c.passage
    BY DEF Resolved
  <2> HIDE DEF citations
  <2> QED
    BY <1>1, <2>1, <2>2 DEF CitationsGrounded
<1>5. ASSUME UNCHANGED answer
      PROVE  CitationsGrounded'
  BY <1>1, <1>5 DEF CitationsGrounded
<1>6. ASSUME Step
      PROVE  \/ UNCHANGED answer
             \/ Insufficient
             \/ \E cited \in SUBSET Citable, declined \in BOOLEAN, confidence \in {0, 1} :
                  Synthesize(cited, declined, confidence)
  BY <1>6 DEF Step, answerVars, Understand, UnderstandFails, Retrieve, GradeNothing, Grade,
     GradeFails, Refine, RefineGivesUp, DetectConflicts, DetectConflictsFails, Classify,
     ClassifyFails, Route, RouteUnclassified, Act, Respond
<1>7. CASE UNCHANGED vars
  BY <1>5, <1>7 DEF vars, answerVars
<1> QED
  BY <1>2, <1>3, <1>4, <1>5, <1>6, <1>7 DEF Next

\* Every citation of an answer is the evidence record of its handle, and an
\* answer without citations is flagged and claims no confidence
\* (CitationValidator, _synthesize).
THEOREM CitationsAreGrounded == Spec => []CitationsGrounded
  BY TypeInvAlways, CitationsInit, CitationsStep, PTL DEF Spec

\* What the grader decided holds until the answer is written.
Exhausted == iterations >= MaxIterations \/ toolCalls >= MaxToolCalls
GradedInv ==
  /\ node = "understand" => iterations = 0
  /\ node \in {"detect_conflicts", "synthesize"} => iterations = 0 \/ sufficient \/ Exhausted
  /\ node \notin {"respond", "idle"} => answer.status = "empty"
  /\ StopsShortOnlyExhausted

LEMMA GradedInvInit == Init => GradedInv
<1>1. Init => node = "idle" /\ answer = NoAnswer
  BY DEF Init
<1> QED
  BY <1>1 DEF GradedInv, StopsShortOnlyExhausted, NoAnswer

LEMMA GradedInvStep == TypeInv /\ GradedInv /\ [Next]_vars => GradedInv'
<1> SUFFICES ASSUME TypeInv, GradedInv, [Next]_vars
             PROVE  GradedInv'
  OBVIOUS
<1> USE DEF GradedInv, StopsShortOnlyExhausted, Exhausted, budgetVars, gradeVars, answerVars
<1>1. ASSUME NEW endpoint \in Endpoints, NEW request \in Requests, NEW ticket \in BOOLEAN,
             StartRun(endpoint, request, ticket)
      PROVE  GradedInv'
  <2>1. node' = "understand" /\ iterations' = 0 /\ answer'.status = "empty"
    BY <1>1 DEF StartRun, InitialState, NoAnswer
  <2> QED
    BY <2>1
<1>2. ASSUME NEW plan \in Plans, Understand(plan)
      PROVE  GradedInv'
  BY <1>2 DEF Understand, AfterUnderstand
<1>3. ASSUME UnderstandFails
      PROVE  GradedInv'
  BY <1>3 DEF UnderstandFails, AfterUnderstand
<1>4. ASSUME Retrieve
      PROVE  GradedInv'
  <2>1. node = "retrieve" /\ node' = "grade" /\ UNCHANGED answer
    BY <1>4 DEF Retrieve
  <2> QED
    BY <2>1
<1>5. ASSUME GradeNothing \/ GradeFails \/ \E assessment \in Assessments : Grade(assessment)
      PROVE  GradedInv'
  <2>1. /\ node = "grade" /\ UNCHANGED <<answer, budgetVars>>
        /\ node' = AfterGrade(sufficient')
    <3>1. GradeNothing => node' = AfterGrade(sufficient') /\ sufficient' = FALSE
      BY DEF GradeNothing
    <3>2. GradeFails => node' = AfterGrade(sufficient') /\ sufficient' = TRUE
      BY DEF GradeFails
    <3> QED
      BY <1>5, <3>1, <3>2 DEF GradeNothing, GradeFails, Grade
  <2>2. node' \in {"detect_conflicts", "refine"}
    BY <2>1 DEF AfterGrade
  <2>3. node' = "detect_conflicts" => sufficient' \/ Exhausted
    BY <2>1 DEF AfterGrade
  <2> QED
    BY <2>1, <2>2, <2>3
<1>6. ASSUME Refine \/ RefineGivesUp
      PROVE  GradedInv'
  BY <1>6 DEF Refine, RefineGivesUp
<1>7. ASSUME DetectConflictsFails \/ \E found \in BOOLEAN : DetectConflicts(found)
      PROVE  GradedInv'
  BY <1>7 DEF DetectConflicts, DetectConflictsFails
<1>8. ASSUME \/ Insufficient
             \/ \E cited \in SUBSET Citable, declined \in BOOLEAN, confidence \in {0, 1} :
                  Synthesize(cited, declined, confidence)
      PROVE  GradedInv'
  <2>1. node = "synthesize" /\ node' = "respond" /\ UNCHANGED <<sufficient, budgetVars>>
    BY <1>8 DEF Insufficient, Synthesize
  <2> QED
    BY <2>1
<1>9. ASSUME \/ Classify
             \/ ClassifyFails
             \/ \E escalate, human \in BOOLEAN : Route(escalate, human)
             \/ RouteUnclassified
             \/ Act
      PROVE  GradedInv'
  <2>1. /\ node' \in {"route", "act", "respond"} /\ UNCHANGED <<answer, sufficient, budgetVars>>
        /\ node \notin {"respond", "idle"}
    BY <1>9 DEF Classify, ClassifyFails, Route, RouteUnclassified, Act
  <2> QED
    BY <2>1
<1>10. ASSUME Respond
       PROVE  GradedInv'
  BY <1>10 DEF Respond
<1>11. CASE UNCHANGED vars
  BY <1>11 DEF vars
<1> QED
  BY <1>1, <1>2, <1>3, <1>4, <1>5, <1>6, <1>7, <1>8, <1>9, <1>10, <1>11 DEF Next, Step

\* A run that looped stops short of sufficient evidence only because its
\* budget is used up (_after_grade, "Out of budget").
THEOREM StopsOnlyExhausted == Spec => []StopsShortOnlyExhausted
<1>1. GradedInv => StopsShortOnlyExhausted
  BY DEF GradedInv
<1> QED
  BY <1>1, TypeInvAlways, GradedInvInit, GradedInvStep, PTL DEF Spec

-----------------------------------------------------------------------------
(* The response and the reported failures *)

\* Only the branch a run took has written anything when the response is built.
BranchInv ==
  /\ node \notin {"idle", "respond"} => answer.status = "empty" /\ response = "none"
  /\ node \notin {"idle", "respond", "act"} => ~decision.made
  /\ node = "act" => decision.made
  /\ node = "respond" => response = "none" /\ (decision.made <=> answer.status = "empty")
  /\ OneBranchPerRun

LEMMA BranchInvInit == Init => BranchInv
<1>1. Init => node = "idle" /\ response = "none"
  BY DEF Init
<1> QED
  BY <1>1 DEF BranchInv, OneBranchPerRun

LEMMA BranchInvStep == TypeInv /\ BranchInv /\ [Next]_vars => BranchInv'
<1> SUFFICES ASSUME TypeInv, BranchInv, [Next]_vars
             PROVE  BranchInv'
  OBVIOUS
<1> USE DEF BranchInv, OneBranchPerRun, answerVars, triageVars
<1>1. ASSUME NEW endpoint \in Endpoints, NEW request \in Requests, NEW ticket \in BOOLEAN,
             StartRun(endpoint, request, ticket)
      PROVE  BranchInv'
  <2>1. node' = "understand" /\ answer' = NoAnswer /\ decision' = NoDecision /\ response' = "none"
    BY <1>1 DEF StartRun, InitialState
  <2> QED
    BY <2>1 DEF NoAnswer, NoDecision
<1>2. ASSUME \/ UnderstandFails \/ \E plan \in Plans : Understand(plan)
             \/ Retrieve
             \/ GradeNothing \/ GradeFails \/ \E assessment \in Assessments : Grade(assessment)
             \/ Refine \/ RefineGivesUp
             \/ DetectConflictsFails \/ \E found \in BOOLEAN : DetectConflicts(found)
             \/ Classify \/ ClassifyFails
      PROVE  BranchInv'
  <2>1. /\ UNCHANGED <<answer, decision, response>>
        /\ node \notin {"idle", "respond", "act"}
        /\ node' \notin {"idle", "respond", "act"}
    BY <1>2 DEF UnderstandFails, Understand, AfterUnderstand, Retrieve, GradeNothing, GradeFails,
       Grade, AfterGrade, Refine, RefineGivesUp, DetectConflictsFails, DetectConflicts,
       Classify, ClassifyFails
  <2> QED
    BY <2>1
<1>3. ASSUME Insufficient
      PROVE  BranchInv'
  <2>1. answer'.status = "insufficient" /\ UNCHANGED <<decision, response>>
    BY <1>3 DEF Insufficient, TypeInv, TypeOK, AnswerType
  <2>2. node = "synthesize" /\ node' = "respond"
    BY <1>3 DEF Insufficient
  <2> QED
    BY <2>1, <2>2
<1>4. ASSUME NEW cited \in SUBSET Citable, NEW declined \in BOOLEAN,
             NEW confidence \in {0, 1},
             Synthesize(cited, declined, confidence)
      PROVE  BranchInv'
  <2>1. answer'.status # "empty" /\ UNCHANGED <<decision, response>>
    BY <1>4 DEF Synthesize
  <2>2. node = "synthesize" /\ node' = "respond"
    BY <1>4 DEF Synthesize
  <2> QED
    BY <2>1, <2>2
<1>5. ASSUME RouteUnclassified \/ \E escalate, human \in BOOLEAN : Route(escalate, human)
      PROVE  BranchInv'
  <2>1. decision'.made /\ UNCHANGED <<answer, response>>
    BY <1>5 DEF Route, RouteUnclassified, FallbackDecision
  <2>2. node = "route" /\ node' = "act"
    BY <1>5 DEF Route, RouteUnclassified
  <2> QED
    BY <2>1, <2>2
<1>6. ASSUME Act
      PROVE  BranchInv'
  <2>1. UNCHANGED <<answer, decision, response>> /\ node = "act" /\ node' = "respond"
    BY <1>6 DEF Act
  <2> QED
    BY <2>1
<1>7. ASSUME Respond
      PROVE  BranchInv'
  <2>1. UNCHANGED <<answer, decision>> /\ node = "respond" /\ node' = "idle"
    BY <1>7 DEF Respond
  <2> QED
    BY <2>1
<1>8. CASE UNCHANGED vars
  BY <1>8 DEF vars
<1> QED
  BY <1>1, <1>2, <1>3, <1>4, <1>5, <1>6, <1>7, <1>8 DEF Next, Step

\* Every response rests on exactly one branch of its own run: a decision or an
\* answer, never both and never one an earlier run of the thread left
\* (initial_state, _after_understand).
THEOREM OneBranch == Spec => []OneBranchPerRun
<1>1. BranchInv => OneBranchPerRun
  BY DEF BranchInv
<1> QED
  BY <1>1, TypeInvAlways, BranchInvInit, BranchInvStep, PTL DEF Spec

LEMMA ReportedInit == Init => SearchFailuresReported
  BY DEF Init, SearchFailuresReported

\* Errors are only ever added, and the ticket tools are not search channels.
LEMMA ReportedStep == SearchFailuresReported /\ [Next]_vars => SearchFailuresReported'
<1> SUFFICES ASSUME SearchFailuresReported, [Next]_vars
             PROVE  SearchFailuresReported'
  OBVIOUS
<1> USE DEF SearchFailuresReported, auditVars
<1>1. CASE Retrieve
  <2>1. PICK found \in [1 .. Len(Pending) -> [internal : Outcomes("internal"),
                                               official : Outcomes("official")]] :
          /\ errors' = errors \cup FailedChannels(found)
          /\ invocations' = invocations
               \cup {[tool |-> c, ok |-> TRUE] : c \in CalledWith(found, "ok")}
               \cup {[tool |-> c, ok |-> FALSE] : c \in CalledWith(found, "failed")}
    BY <1>1 DEF Retrieve
  <2>2. CalledWith(found, "failed") = FailedChannels(found)
    BY DEF CalledWith, FailedChannels
  <2>3. ASSUME NEW i \in invocations', i.tool \in Channels, ~i.ok
        PROVE  i.tool \in errors'
    <3>1. CASE i \in invocations
      BY <2>1, <2>3, <3>1
    <3>2. CASE i \in {[tool |-> c, ok |-> TRUE] : c \in CalledWith(found, "ok")}
      BY <2>3, <3>2
    <3>3. CASE i \in {[tool |-> c, ok |-> FALSE] : c \in CalledWith(found, "failed")}
      BY <2>1, <2>2, <3>3
    <3> QED
      BY <2>1, <3>1, <3>2, <3>3
  <2> QED
    BY <2>3
<1>2. CASE Act
  <2>1. errors' = errors
    BY <1>2 DEF Act
  <2>2. \A i \in invocations' : i \in invocations \/ i.tool \in TicketActions
    BY <1>2 DEF Act
  <2>3. TicketActions \cap Channels = {}
    BY DEF TicketActions, Channels
  <2> QED
    BY <2>1, <2>2, <2>3
<1>3. ASSUME Step, ~Retrieve, ~Act
      PROVE  invocations' = invocations /\ errors \subseteq errors'
  BY <1>3 DEF Step, Understand, UnderstandFails, GradeNothing, Grade, GradeFails, Refine,
     RefineGivesUp, DetectConflicts, DetectConflictsFails, Insufficient, Synthesize,
     Classify, ClassifyFails, Route, RouteUnclassified, Respond
<1>4. ASSUME NEW endpoint \in Endpoints, NEW request \in Requests, NEW ticket \in BOOLEAN,
             StartRun(endpoint, request, ticket)
      PROVE  invocations' = invocations /\ errors \subseteq errors'
  BY <1>4 DEF StartRun
<1>5. UNCHANGED vars => invocations' = invocations /\ errors \subseteq errors'
  BY DEF vars
<1> QED
  BY <1>1, <1>2, <1>3, <1>4, <1>5 DEF Next

\* A search that failed is an error of the thread from then on (_retrieve).
THEOREM FailedSearchesReported == Spec => []SearchFailuresReported
  BY ReportedInit, ReportedStep, PTL DEF Spec
=============================================================================
