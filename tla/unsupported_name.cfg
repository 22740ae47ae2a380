CONSTANTS
    Uploads <- MCUploads
    Requests <- MCRequests
    MaxRetry = 1
    Stores = {TRUE}
    Resumable <- OnlyPending
    MaxRuns = 1
    MaxEdits = 0
SPECIFICATION ServiceSpec
CHECK_DEADLOCK FALSE
INVARIANTS
    UnsupportedIsRefused
