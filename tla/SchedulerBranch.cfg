SPECIFICATION Spec
CONSTANTS
  NumStages = 5
  NumPartitions <- BranchPartitions
  Parents <- BranchParents
  RangeSort = {2}
  NumRunners = 2
  MaxAttempts = 2
  MaxRecoveries = 1
INVARIANTS
  TypeOK
  LineageConsistent
  SharedBounds
  AttemptsFresh
  SuccessComplete
PROPERTIES
  RepairSelective
  ImplementsLineage
