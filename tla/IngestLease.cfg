\* Two workers, two documents, leases that outlive the work.
SPECIFICATION AdmissionSpec
CONSTANTS
    Docs = {d1, d2}
    Workers = {w1, w2}
    NoDoc = NoDoc
    NChunks = 1
    MaxAttempts = 2
    MaxQueueDepth = 1
    MaxCrashes = 1
    LeaseCoversWork = TRUE
    BlobErrors = FALSE
SYMMETRY FullSymmetry
CHECK_DEADLOCK FALSE
CONSTRAINT OneMishap
INVARIANTS
    ExclusiveIngest
    QueuedHasBudget
    DeadLetterReported
    DepthBounded
PROPERTY
    ImplementsLifecycle
