SPECIFICATION Spec
CONSTANTS
  NumStages = 3
  NumPartitions <- ChainPartitions
  Parents <- ChainParents
  RangeSort = {2}
  NumRunners = 2
  MaxAttempts = 2
  MaxRecoveries = 1
INVARIANT
  SampledBeforeDispatch
