\* One worker, one document: the user deletes it while it is being ingested.
SPECIFICATION Spec
CONSTANTS
    Docs = {d1}
    Workers = {w1}
    NoDoc = NoDoc
    NChunks = 1
    MaxAttempts = 3
    MaxQueueDepth = 1
    MaxCrashes = 0
    LeaseCoversWork = TRUE
    BlobErrors = FALSE
CHECK_DEADLOCK FALSE
INVARIANT
    DeletedLeavesNoRow
