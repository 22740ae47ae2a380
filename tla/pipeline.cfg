CONSTANTS
    Uploads <- MCUploads
    MaxRetry = 5
    Stores = {TRUE, FALSE}
    Resumable <- NotFailed
    MaxRuns = 3
    MaxEdits = 2
SPECIFICATION FairSpec
CHECK_DEADLOCK FALSE
INVARIANTS
    TypeOK
    CheckpointsComplete
    ReadyMeansIndexed
    IndexCoherent
    FailClosed
PROPERTIES
    EveryRunReports
    NoStepRepeated
    PollNeverRegresses
    RunEnds
    ImplementsLifecycle
