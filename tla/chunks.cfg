SPECIFICATION Spec
CONSTANTS
  Inputs <- MCInputs
  Sizes <- MCSizes
INVARIANTS
  TypeOK
  ProvenanceTrue
  NothingLost
  ChunkCeiling
  RepeatsTail
CHECK_DEADLOCK FALSE
