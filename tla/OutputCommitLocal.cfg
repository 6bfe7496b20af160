SPECIFICATION Spec
CONSTANTS
  Jobs = {j1}
  NumPartitions = 2
  AttemptBound = 2
  ObjectStore = FALSE
  NoJob = NoJob
INVARIANTS
  CommittedReadable
  IInv
CHECK_DEADLOCK FALSE
