SPECIFICATION Spec
CONSTANTS
  r1 = r1
  r2 = r2
  t1 = t1
  t2 = t2
  t3 = t3
  i1 = i1
  o1 = o1
  o2 = o2
  Requests <- MCRequests
  Topics <- MCTopics
  Missing <- MCMissing
  Passages <- MCPassages
  InternalPassages <- MCInternal
  Malicious <- MCMalicious
  EnableScanning = TRUE
  MaxIterations = 1
  MaxToolCalls = 4
  MaxHits = 1
  Plans <- MCThreadPlans
  Assessments <- MCThreadAssessments
  MaxRuns = 2
INVARIANTS
  HandlesIdentify
  EvidenceScreened
  OneBranchPerRun
CHECK_DEADLOCK FALSE
