CONSTANTS
    Uploads <- MCUploads
    MaxRetry = 1
    Stores = {FALSE}
    Resumable <- AnyPhase
    MaxRuns = 2
    MaxEdits = 0
SPECIFICATION Spec
CHECK_DEADLOCK FALSE
INVARIANTS
    ReadyMeansIndexed
