CONSTANTS
    Uploads <- MCUploads
    Requests <- MCRequests
    MaxRetry = 2
    Stores = {TRUE}
    Resumable <- OnlyPending
    MaxRuns = 1
    MaxEdits = 1
SPECIFICATION ServiceSpec
CHECK_DEADLOCK FALSE
INVARIANTS
    ServiceTypeOK
    AcknowledgedIsDurable
    RunFindsItsRows
    RejectedLeavesNothing
    UnauthenticatedGets401
    ErrorNeverPublishes
    ClosedIsSettled
PROPERTIES
    PollsConsistent
    KeepsPromise
    AcknowledgedSettles
