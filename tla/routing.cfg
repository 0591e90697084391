SPECIFICATION Spec
CONSTANTS
  Intents <- MCIntents
  Queues <- ShippedQueues
  Rules <- ShippedRules
  FallbackQueue = "human_triage"
  Floors <- ShippedFloors
  Overrides <- ShippedOverrides
  Keywords <- ShippedKeywords
  UrgencyKeywords <- ShippedUrgencyKeywords
  GatedActions <- ShippedGatedActions
  Conditions <- ShippedConditions
  ConfidenceFloor = 55
  Tiers <- MCTiers
  Tickets <- MCTickets
INVARIANTS
  TypeOK
  PromisesKept
PROPERTIES
  NeverCalmer
CHECK_DEADLOCK FALSE
