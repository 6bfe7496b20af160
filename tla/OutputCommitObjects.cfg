SPECIFICATION Spec
CONSTANTS
  Jobs = {j1, j2}
  NumPartitions = 1
  AttemptBound = 2
  ObjectStore = TRUE
  NoJob = NoJob
SYMMETRY JobSymmetry
INVARIANTS
  TypeOK
  CommittedReadable
  ReportsTrue
PROPERTIES
  CommitStable
  ImplementsCommit
CHECK_DEADLOCK FALSE
