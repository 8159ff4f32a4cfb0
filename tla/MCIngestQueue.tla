--------------------------- MODULE MCIngestQueue ---------------------------
EXTENDS IngestQueue, TLC

\* Workers are interchangeable; used only where no liveness is checked.
WorkerSymmetry == Permutations(Workers)

\* So are uploads: nothing orders doc_keys but the order they are enqueued in.
FullSymmetry == Permutations(Workers) \cup Permutations(Docs)
=============================================================================
