----------------------- MODULE UploadAdmissionProofs -----------------------
(***************************************************************************)
(* The ingest queue exceeds its limit only by the uploads that overlapped  *)
(* and the done jobs queued again, as long as leases outlive the work.     *)
(***************************************************************************)
EXTENDS UploadAdmission, IngestLeaseProofs, FiniteSetTheorems

\* An upload in flight already counts for the queue it will be in.
AdmissionInv ==
    /\ crowd \in Nat /\ revived \in Nat
    /\ Cardinality(InFlight) <= crowd
    /\ IF crowd = 0 THEN \A d \in Docs : upload[d] # "accepted"
       ELSE Cardinality(Pending) + Cardinality(InFlight) < MaxQueueDepth + crowd + revived

\* Both sets are finite.
LEMMA Counts ==
    /\ IsFiniteSet(Pending) /\ IsFiniteSet(InFlight)
    /\ Cardinality(Pending) \in Nat /\ Cardinality(InFlight) \in Nat
  <1>1. Pending \subseteq Docs /\ InFlight \subseteq Docs
    BY DEF Pending, InFlight
  <1> QED BY <1>1, DocsAssumption, FS_Subset, FS_CardinalityType

\* Neither set grows in a step, and no upload is accepted in it.
Shrinks ==
    /\ Pending' \subseteq Pending /\ InFlight' \subseteq InFlight
    /\ \A d \in Docs : upload'[d] = "accepted" => upload[d] = "accepted"

\* A job that was done is queued again.
Regrows ==
    /\ Revives /\ upload' = upload
    /\ \E d \in Docs : Pending' \subseteq Pending \cup {d}

\* Workers only requeue jobs that are still pending or already done, and no
\* upload is theirs.
LEMMA WorkersShrink ==
    ASSUME QueueInv, LeaseInv, NEW w \in Workers,
           WorkerStep(w) \/ Tick(w) \/ Raise(w) \/ Crash(w)
    PROVE  Shrinks \/ Regrows
  <1> USE DEF Shrinks, Pending, InFlight, web
  <1>0. /\ held[w] \in Docs \cup {NoDoc} /\ jobStatus \in [Docs -> JobStatuses]
        /\ pc[w] \in BusySteps => held[w] \in Docs /\ held[w] # NoDoc
    BY DocsAssumption DEF QueueInv, TypeOK, TypeWorker, TypeJobs, HeldWhenBusy
  <1>1. UNCHANGED upload
    BY DEF WorkerStep, ClaimStep, IngestStep, FailStep, Claim, ClaimNothing, Reap, ReapMark,
           CheckExists, Sweep, OpenBlob, ReportReading, Upsert, ClearChunks, InsertChunk,
           ReportIndexing, MarkReady, CompleteJob, FailRead, Requeue, Bury, MarkFailed,
           Restart, Tick, Raise, Crash
  <1>2. ASSUME NEW d \in Docs, Claim(w, d) PROVE Pending' \subseteq Pending
    BY <1>2, <1>0 DEF Claim, Claimable, JobStatuses
  <1>3. CASE Reap(w)
    BY <1>3, <1>0, <1>1 DEF Reap, Exhausted
  <1>4. CASE Requeue(w)
    <2>1. held[w] \in Docs /\ held[w] # NoDoc /\ pc[w] = "requeue"
      BY <1>4, <1>0 DEF Requeue, BusySteps, FailSteps
    <2>2. jobStatus[held[w]] \in {"none", "processing", "done"}
      <3>1. CASE docRow[held[w]] = "own"
        BY <2>1, <3>1 DEF LeaseInv, Holder, Leased
      <3>2. CASE docRow[held[w]] # "own"
        BY <2>1, <3>2 DEF QueueInv, TableInv, JobHasDocument
      <3> QED BY <3>1, <3>2
    <2>3. CASE jobStatus[held[w]] = "done"
      <3>1. jobStatus' = [jobStatus EXCEPT ![held[w]] = "queued"]
        BY <1>4, <2>3 DEF Requeue, SetJobStatus
      <3>2. Pending' \subseteq Pending \cup {held[w]} /\ upload' = upload
        BY <1>0, <1>1, <2>1, <3>1
      <3>3. Revives
        BY <1>0, <2>1, <2>3, <3>1 DEF Revives
      <3> QED BY <2>1, <3>2, <3>3 DEF Regrows
    <2>4. CASE jobStatus[held[w]] # "done"
      BY <1>4, <1>0, <1>1, <2>1, <2>2, <2>4 DEF Requeue, SetJobStatus
    <2> QED BY <2>3, <2>4
  <1>5. CASE CompleteJob(w)
    BY <1>5, <1>0, <1>1 DEF CompleteJob, SetJobStatus
  <1>6. CASE Bury(w)
    BY <1>6, <1>0, <1>1 DEF Bury, SetJobStatus
  <1>7. CASE \/ ClaimNothing(w) \/ ReapMark(w) \/ CheckExists(w) \/ Sweep(w) \/ OpenBlob(w)
             \/ ReportReading(w) \/ Upsert(w) \/ ClearChunks(w) \/ InsertChunk(w)
             \/ ReportIndexing(w) \/ MarkReady(w) \/ FailRead(w) \/ MarkFailed(w)
             \/ Restart(w) \/ Tick(w) \/ Raise(w) \/ Crash(w)
    <2>1. UNCHANGED jobStatus
      BY <1>7 DEF jobs, ClaimNothing, ReapMark, CheckExists, Sweep, OpenBlob, ReportReading,
            Upsert, ClearChunks, InsertChunk, ReportIndexing, MarkReady, FailRead, MarkFailed,
            Restart, Tick, Raise, Crash
    <2> QED BY <2>1, <1>1
  <1> QED BY <1>1, <1>2, <1>3, <1>4, <1>5, <1>6, <1>7
          DEF WorkerStep, ClaimStep, IngestStep, FailStep

\* Of the handlers' steps only two make a set larger.
LEMMA HandlersShrink ==
    ASSUME QueueInv, NEW d \in Docs, WebStep(d) \/ Lapse(d), ~Admit(d), ~Enqueue(d)
    PROVE  Shrinks
  BY DEF Shrinks, Pending, InFlight, web, jobs, QueueInv, TypeOK, TypeJobs, TypeWeb, WebStep,
         Refuse, SaveBlob, CreatePending, DeleteRow, DeleteBlob, BreakUpload, BreakDelete, Lapse

LEMMA AdmitStep ==
    ASSUME QueueInv, NEW d \in Docs, Admit(d)
    PROVE  Shrinks \/ (Pending' = Pending /\ Cardinality(Pending) < MaxQueueDepth)
  BY DEF Shrinks, Pending, InFlight, jobs, QueueInv, TypeOK, TypeWeb, Admit

LEMMA EnqueueStep ==
    ASSUME QueueInv, NEW d \in Docs, Enqueue(d)
    PROVE  d \in InFlight /\ InFlight' \subseteq InFlight \ {d} /\ Pending' \subseteq Pending \cup {d}
  BY DEF Pending, InFlight, jobs, QueueInv, TypeOK, TypeJobs, TypeWeb, Enqueue

LEMMA AdmissionStep ==
    ASSUME QueueInv, LeaseInv, AdmissionInv, AdmissionNext
    PROVE  AdmissionInv'
  <1> USE CountsAssumption
  <1> DEFINE p == Cardinality(Pending)
             f == Cardinality(InFlight)
  <1>1. p \in Nat /\ f \in Nat /\ p' \in Nat /\ f' \in Nat
    <2>1. IsFiniteSet(Pending') /\ IsFiniteSet(InFlight')
      <3>1. Pending' \subseteq Docs /\ InFlight' \subseteq Docs
        BY DEF Pending, InFlight
      <3> QED BY <3>1, DocsAssumption, FS_Subset
    <2> QED BY <2>1, Counts, FS_CardinalityType
  <1>2. /\ crowd \in Nat /\ crowd' \in Nat /\ crowd <= crowd' /\ f' <= crowd'
        /\ revived \in Nat /\ revived' \in Nat /\ revived <= revived'
        /\ Revives => revived' = revived + 1
    BY <1>1 DEF AdmissionNext, AdmissionInv
  <1>3. ASSUME Shrinks PROVE AdmissionInv'
    <2>1. p' <= p /\ f' <= f
      BY <1>3, Counts, FS_Subset DEF Shrinks
    <2>2. crowd = 0 => crowd' = 0 /\ \A d \in Docs : upload'[d] # "accepted"
      BY <1>1, <1>3, <2>1 DEF Shrinks, AdmissionInv, AdmissionNext
    <2> HIDE DEF p, f
    <2> QED BY <1>1, <1>2, <2>1, <2>2 DEF AdmissionInv, p, f
  <1>4. ASSUME NEW d \in Docs, Admit(d) PROVE AdmissionInv'
    <2>1. CASE Shrinks
      BY <2>1, <1>3
    <2>2. CASE Pending' = Pending /\ Cardinality(Pending) < MaxQueueDepth
      <3>1. \A e \in Docs : upload'[e] = "accepted" => upload[e] = "accepted"
        BY <1>4 DEF Admit, QueueInv, TypeOK, TypeWeb
      <3>2. crowd' = 0 => crowd = 0
        BY <1>2
      <3> QED BY <1>1, <1>2, <2>2, <3>1, <3>2 DEF AdmissionInv
    <2> QED BY <1>4, <2>1, <2>2, AdmitStep
  <1>5. ASSUME NEW d \in Docs, Enqueue(d) PROVE AdmissionInv'
    <2>1. d \in InFlight /\ InFlight' \subseteq InFlight \ {d} /\ Pending' \subseteq Pending \cup {d}
      BY <1>5, EnqueueStep
    <2>2. f' <= f - 1
      <3>1. IsFiniteSet(InFlight \ {d}) /\ Cardinality(InFlight \ {d}) = f - 1
        BY <2>1, Counts, FS_RemoveElement
      <3> QED BY <3>1, <2>1, FS_Subset
    <2>3. p' <= p + 1
      <3>1. /\ IsFiniteSet(Pending \cup {d})
            /\ Cardinality(Pending \cup {d}) = p \/ Cardinality(Pending \cup {d}) = p + 1
        BY Counts, FS_AddElement
      <3>2. p' <= Cardinality(Pending \cup {d})
        BY <3>1, <2>1, FS_Subset
      <3> QED BY <3>1, <3>2, <1>1
    <2>4. crowd > 0 /\ p + f < MaxQueueDepth + crowd + revived
      BY <1>1, <1>2, <2>1, <2>2 DEF AdmissionInv
    <2>5. p' + f' < MaxQueueDepth + crowd' + revived'
      BY <1>1, <1>2, <2>2, <2>3, <2>4
    <2> QED BY <1>2, <2>4, <2>5 DEF AdmissionInv
  <1>6. ASSUME Regrows PROVE AdmissionInv'
    <2>1. PICK d \in Docs : Pending' \subseteq Pending \cup {d}
      BY <1>6 DEF Regrows
    <2>2. p' <= p + 1
      <3>1. /\ IsFiniteSet(Pending \cup {d})
            /\ Cardinality(Pending \cup {d}) = p \/ Cardinality(Pending \cup {d}) = p + 1
        BY Counts, FS_AddElement
      <3>2. p' <= Cardinality(Pending \cup {d})
        BY <3>1, <2>1, FS_Subset
      <3> QED BY <3>1, <3>2, <1>1
    <2>3. f' = f /\ revived' = revived + 1
      BY <1>2, <1>6 DEF Regrows, InFlight
    <2>4. crowd > 0
      BY <1>2, <1>6 DEF Regrows, Revives, AdmissionInv, QueueInv, TableInv, UploadOrder
    <2>5. p + f < MaxQueueDepth + crowd + revived
      BY <1>2, <2>4 DEF AdmissionInv
    <2>6. p' + f' < MaxQueueDepth + crowd' + revived'
      BY <1>1, <1>2, <2>2, <2>3, <2>5
    <2> QED BY <1>2, <2>4, <2>6 DEF AdmissionInv
  <1>7. \/ \E d \in Docs : WebStep(d) \/ Lapse(d)
        \/ \E w \in Workers : WorkerStep(w) \/ Tick(w) \/ Raise(w) \/ Crash(w)
    BY DEF AdmissionNext, Next
  <1> QED BY <1>3, <1>4, <1>5, <1>6, <1>7, WorkersShrink, HandlersShrink

LEMMA AdmissionStart == AdmissionInit => AdmissionInv
  <1> SUFFICES ASSUME AdmissionInit PROVE AdmissionInv OBVIOUS
  <1>1. /\ Pending = {} /\ InFlight = {} /\ crowd = 0 /\ revived = 0
        /\ \A d \in Docs : upload[d] # "accepted"
    BY DEF AdmissionInit, Init, Pending, InFlight
  <1> QED BY <1>1, FS_EmptySet DEF AdmissionInv

\* For any workers, documents and retries: with leases that outlive the work, the
\* queue exceeds MAX_QUEUE_DEPTH at most by the uploads that overlapped one another
\* (upload_doc's depth check, made before the body is read) and by the done jobs
\* that were queued again (process_job, when complete_job's answer is lost).
THEOREM QueueDepthAlwaysBounded ==
    ASSUME LeaseCoversWork PROVE AdmissionSpec => []DepthBounded
  <1>1. QueueInv /\ AdmissionInv => DepthBounded
    <2> SUFFICES ASSUME QueueInv, AdmissionInv, Pending # {}
                 PROVE  Cardinality(Pending) < MaxQueueDepth + crowd + revived
      BY DEF DepthBounded
    <2>1. crowd # 0
      BY DEF AdmissionInv, Pending, QueueInv, TableInv, UploadOrder
    <2> QED BY <2>1, Counts, CountsAssumption DEF AdmissionInv
  <1>2. QueueInv /\ LeaseInv /\ AdmissionInv /\ [AdmissionNext]_admissionVars => AdmissionInv'
    <2>1. CASE UNCHANGED admissionVars
      BY <2>1 DEF admissionVars, vars, jobs, web, AdmissionInv, Pending, InFlight
    <2> QED BY <2>1, AdmissionStep
  <1>3. AdmissionInit => Init
    BY DEF AdmissionInit
  <1>4. [AdmissionNext]_admissionVars => [Next]_vars
    BY DEF AdmissionNext, admissionVars
  <1>5. AdmissionSpec => []LeaseInv /\ []QueueInv
    <2>1. AdmissionSpec => Spec
      BY <1>3, <1>4, PTL DEF AdmissionSpec, Spec
    <2> QED BY <2>1, LeaseInvariant, PTL
  <1> QED BY <1>1, <1>2, <1>5, AdmissionStart, PTL DEF AdmissionSpec
=============================================================================
