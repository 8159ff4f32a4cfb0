\* Two workers, one document, leases that may lapse under a live worker.
SPECIFICATION Spec
CONSTANTS
    Docs = {d1}
    Workers = {w1, w2}
    NoDoc = NoDoc
    NChunks = 2
    MaxAttempts = 3
    MaxQueueDepth = 1
    MaxCrashes = 1
    LeaseCoversWork = FALSE
    BlobErrors = TRUE
SYMMETRY WorkerSymmetry
CHECK_DEADLOCK FALSE
INVARIANTS
    TypeOK
    TokensFence
    ListedDocumentHasFile
    JobHasDocument
