\* Fairness of the workers and of time: two workers, one document, two kills.
SPECIFICATION FairSpec
CONSTANTS
    Docs = {d1}
    Workers = {w1, w2}
    NoDoc = NoDoc
    NChunks = 2
    MaxAttempts = 2
    MaxQueueDepth = 1
    MaxCrashes = 2
    LeaseCoversWork = TRUE
    BlobErrors = TRUE
CHECK_DEADLOCK FALSE
INVARIANT
    DoneMeansIndexed
PROPERTIES
    JobSettles
    DocumentSettles
