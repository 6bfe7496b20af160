SPECIFICATION Spec
CONSTANTS
  NumStages = 3
  NumPartitions <- ChainPartitions
  Parents <- ChainParents
  RangeSort = {1}
  NumRunners = 2
  MaxAttempts = 2
  MaxRecoveries = 2
INVARIANTS
  AttemptBound
  SnapshotCurrent
  NoStaleFailure
  InductiveInv
PROPERTIES
  Termination
