\* Two workers, one document: a lease lapses between fail_job's SELECT and its UPDATE.
SPECIFICATION Spec
CONSTANTS
    Docs = {d1}
    Workers = {w1, w2}
    NoDoc = NoDoc
    NChunks = 1
    MaxAttempts = 3
    MaxQueueDepth = 1
    MaxCrashes = 0
    LeaseCoversWork = FALSE
    BlobErrors = FALSE
CHECK_DEADLOCK FALSE
INVARIANT
    QueuedHasBudget
