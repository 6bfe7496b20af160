SPECIFICATION Spec
CONSTANTS
    Programs <- MCPrograms
    Files <- MCFiles
    MaxRecordBytes = 3
    MaxAttempts = 2
    MaxChanges = 2
INVARIANTS
    PlanSound
    TaskInputsCovered
    InputExact
