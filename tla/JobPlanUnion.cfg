SPECIFICATION Spec
CONSTANTS
    Programs <- UnionPrograms
    Files <- MCFiles
    MaxRecordBytes = 3
    MaxAttempts = 2
    MaxChanges = 1
INVARIANT
    RequiredReached
