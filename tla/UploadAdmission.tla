-------------------------- MODULE UploadAdmission --------------------------
(***************************************************************************)
(* How far uploads overshoot MAX_QUEUE_DEPTH: the queue with a history of  *)
(* how many upload handlers were ever at work at once.                     *)
(***************************************************************************)
EXTENDS IngestQueue

VARIABLES
    crowd,   \* the most uploads that were between check and enqueue (history)
    revived  \* how often a job that was already done was queued again (history)

admissionVars == <<vars, crowd, revived>>

InFlight == {d \in Docs : upload[d] \in {"admitted", "saved", "created"}}

Revives == \E d \in Docs : jobStatus[d] = "done" /\ jobStatus'[d] = "queued"

AdmissionInit == Init /\ crowd = 0 /\ revived = 0

AdmissionNext ==
    /\ Next
    /\ crowd' = IF Cardinality(InFlight') > crowd THEN Cardinality(InFlight') ELSE crowd
    /\ revived' = IF Revives THEN revived + 1 ELSE revived

AdmissionSpec == AdmissionInit /\ [][AdmissionNext]_admissionVars

\* The queue is never longer than its limit by more than the uploads that shared
\* the gap between upload_doc's depth check and its enqueue with another one, and
\* the done jobs that fail_job queued again because complete_job's answer was
\* lost; otherwise, whatever workers requeue and retry, uploads that never overlap
\* never exceed it (routes_documents.py, "Backpressure").
DepthBounded == Pending # {} => Cardinality(Pending) < MaxQueueDepth + crowd + revived
=============================================================================
