SPECIFICATION Spec
CONSTANTS
  r1 = r1
  r2 = r2
  t1 = t1
  t2 = t2
  TicketIds = {t1, t2}
  Seeded = {t1}
  Runs = {r1, r2}
  Queues <- MCQueues
  Urgencies <- MCUrgencies
  Decisions <- MCDecisions
  RequiredForActions <- ShippedGatedActions
  AutoApprovedActions <- MCAutoApproved
  Updates <- MCUpdates
  MaxRefunds = 1
INVARIANTS
  TypeOK
  DecisionShown
  ReportedIsDone
PROPERTY GateRespected
CHECK_DEADLOCK FALSE
