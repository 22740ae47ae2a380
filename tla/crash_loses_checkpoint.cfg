CONSTANTS
    Uploads <- MCUploads
    MaxRetry = 1
    Stores = {TRUE}
    Resumable <- NotFailed
    MaxRuns = 2
    MaxEdits = 0
SPECIFICATION Spec
CHECK_DEADLOCK FALSE
PROPERTIES
    CrashKeepsCheckpoint
