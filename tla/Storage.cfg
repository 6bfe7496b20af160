SPECIFICATION StorageSpec
CONSTANTS
    Programs <- MCPrograms
    Workers = 2
    Parts = 3
    MapStages = 2
    MaxRecoveries = 1
    NumParts = 2
    MaxCheckpoints = 2
    MaxCalls = 3
    MaxDiskErrors = 1
INVARIANTS AccumulatorsOnce StoredExact
PROPERTY ForgottenIsReleased
CHECK_DEADLOCK FALSE
