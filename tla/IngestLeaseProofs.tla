------------------------- MODULE IngestLeaseProofs -------------------------
(***************************************************************************)
(* What the ingest queue guarantees as long as VISIBILITY_TIMEOUT_S        *)
(* exceeds the slowest ingest (LeaseCoversWork), whatever else happens; in *)
(* the end, that it implements DocumentLifecycle.                          *)
(***************************************************************************)
EXTENDS IngestQueueProofs

\* The chunk rows of a document after n of them were written.
FirstRows(n) == [i \in 1..NChunks |-> IF i <= n THEN 1 ELSE 0]

LEMMA NoRows == FirstRows(0) = NoChunks
  BY DEF FirstRows, NoChunks

LEMMA AllRows == FirstRows(NChunks) = OneOfEach
  BY DEF FirstRows, OneOfEach

LEMMA OneMoreRow ==
    ASSUME NEW n \in 0..NChunks, n < NChunks
    PROVE  [FirstRows(n) EXCEPT ![n + 1] = FirstRows(n)[n + 1] + 1] = FirstRows(n + 1)
  <1> DEFINE f == FirstRows(n)
             g == FirstRows(n + 1)
  <1>1. f \in [1..NChunks -> Nat] /\ g \in [1..NChunks -> Nat]
    BY DEF FirstRows
  <1>2. n + 1 \in 1..NChunks /\ f[n + 1] = 0 /\ g[n + 1] = 1
    BY CountsAssumption DEF FirstRows
  <1>3. \A i \in 1..NChunks : i # n + 1 => f[i] = g[i]
    BY CountsAssumption DEF FirstRows
  <1> HIDE DEF f, g
  <1>4. [f EXCEPT ![n + 1] = f[n + 1] + 1] = g
    BY <1>1, <1>2, <1>3
  <1> QED BY <1>4 DEF f, g

\* A worker that holds the job of a document that still exists holds an
\* unlapsed lease, or has just dead-lettered the job itself, or fails a job
\* whose completion it was not told of.
Leased(d) == jobStatus[d] = "processing" /\ ~lapsed[d]
Failing == {"failRead", "requeue", "bury"}

Holder(w) ==
    held[w] # NoDoc /\ docRow[held[w]] = "own" =>
        IF pc[w] = "markFailed" THEN jobStatus[held[w]] = "failed"
        ELSE Leased(held[w]) \/ (pc[w] \in Failing /\ jobStatus[held[w]] = "done")

\* What the holder has done so far is what the tables show.
Progress(w) ==
    held[w] # NoDoc /\ docRow[held[w]] = "own" =>
        /\ pc[w] = "requeue" => attempts[held[w]] < MaxAttempts
        /\ pc[w] \in {"exists", "open", "reading", "upsert", "clear"} => written[w] = 0
        /\ pc[w] \in {"clear", "insert"} => target[w] = "own"
        /\ pc[w] = "insert" => chunks[held[w]] = FirstRows(written[w])
        /\ pc[w] = "ready" => written[w] = NChunks /\ chunks[held[w]] = OneOfEach
        /\ pc[w] = "complete" => Indexed(held[w])
        /\ cause[w] = "storage" => BlobErrors
        /\ pc[w] \in {"failRead", "requeue", "bury", "markFailed"} => cause[w] # "none"

\* The reaper marks documents of jobs that nobody will run again; a worker
\* without a job has caught nothing.
Reaper(w) ==
    /\ held[w] = NoDoc => cause[w] = "none" /\ written[w] = 0
    /\ reaped[w] # {} => pc[w] = "reapMark"
    /\ \A d \in reaped[w] : upload[d] = "accepted" /\ jobStatus[d] \in {"none", "failed"}

Reported(d) == docStatus[d] = "failed" \/ AboutToMark(d) \/ crashes > 0 \/ BlobErrors

\* The part of the invariant that is about one job.
Job(d) ==
    /\ jobStatus[d] = "queued" => attempts[d] < MaxAttempts
    /\ jobStatus[d] = "done" => Indexed(d)
    /\ jobStatus[d] = "failed" => Reported(d)

LeaseInv ==
    /\ ExclusiveIngest
    /\ \A w \in Workers : Holder(w) /\ Progress(w) /\ Reaper(w)
    /\ \A d \in Docs : Job(d)

\* A step leaves the rows of d, and what worker w knows, as they were.
SameRows(d) ==
    /\ docRow'[d] = docRow[d] /\ docStatus'[d] = docStatus[d] /\ docStage'[d] = docStage[d]
    /\ chunkCount'[d] = chunkCount[d] /\ chunks'[d] = chunks[d]
    /\ jobStatus'[d] = jobStatus[d] /\ attempts'[d] = attempts[d] /\ lapsed'[d] = lapsed[d]
SameWorker(w) ==
    /\ pc'[w] = pc[w] /\ held'[w] = held[w] /\ target'[w] = target[w]
    /\ written'[w] = written[w] /\ cause'[w] = cause[w] /\ reaped'[w] = reaped[w]

\* Nobody who still marks a document d may find its job back in the queue.
SettledKept(d) ==
    upload[d] = "accepted" /\ jobStatus[d] \in {"none", "failed"} =>
        upload'[d] = "accepted" /\ jobStatus'[d] \in {"none", "failed"}

\* A step outside the workers that writes the rows of one document, which
\* no worker holds or which it deletes, needs a look at that document alone.
LEMMA RowStep ==
    ASSUME QueueInv, LeaseInv, NEW d \in Docs, Job(d)',
           \A w \in Workers : SameWorker(w) /\ (held[w] = d => docRow'[d] # "own"),
           \A e \in Docs \ {d} : SameRows(e) /\ upload'[e] = upload[e],
           SettledKept(d), crashes > 0 => crashes' > 0
    PROVE  LeaseInv'
  <1> USE DEF SameRows, SameWorker, LeaseInv, Leased
  <1>0. \A w \in Workers : held[w] # NoDoc => held[w] \in Docs
    BY DEF QueueInv, TypeOK, TypeWorker
  <1>1. ExclusiveIngest'
    BY DEF ExclusiveIngest
  <1>2. ASSUME NEW w \in Workers PROVE Holder(w)' /\ Progress(w)'
    BY <1>0 DEF Holder, Progress, Indexed
  <1>3. ASSUME NEW w \in Workers PROVE Reaper(w)'
    BY DEF Reaper, SettledKept, QueueInv, TypeOK, TypeWorker
  <1>4. ASSUME NEW e \in Docs \ {d} PROVE Job(e)'
    BY DEF Job, Indexed, Reported, AboutToMark
  <1> QED BY <1>1, <1>2, <1>3, <1>4

LEMMA LeaseOfWebStep ==
    ASSUME LeaseCoversWork, QueueInv, LeaseInv, NEW d \in Docs, WebStep(d) \/ Lapse(d)
    PROVE  LeaseInv'
  <1> USE DEF tables, jobs, worker, web
  <1>0. \A w \in Workers : SameWorker(w)
    BY DEF WebStep, Admit, Refuse, SaveBlob, CreatePending, Enqueue, DeleteRow, DeleteBlob,
           BreakUpload, BreakDelete, Lapse, SameWorker
  <1>1. crashes > 0 => crashes' > 0
    BY CountsAssumption
       DEF WebStep, Admit, Refuse, SaveBlob, CreatePending, Enqueue, DeleteRow, DeleteBlob,
           BreakUpload, BreakDelete, Lapse, QueueInv, TypeOK
  <1>2. upload[d] # "accepted" =>
            /\ \A w \in Workers : held[w] # d
            /\ jobStatus[d] = "none" /\ attempts[d] < MaxAttempts
    BY CountsAssumption, DocsAssumption DEF QueueInv, HeldOrder, TableInv, UploadOrder
  <1>3. \A e \in Docs \ {d} : SameRows(e) /\ upload'[e] = upload[e]
    BY DEF WebStep, Admit, Refuse, SaveBlob, CreatePending, Enqueue, DeleteRow, DeleteBlob,
           BreakUpload, BreakDelete, Lapse, SameRows, QueueInv, TypeOK, TypeTables, TypeJobs, TypeWeb
  <1>4. CASE Admit(d) \/ Refuse(d) \/ SaveBlob(d) \/ CreatePending(d) \/ BreakUpload(d)
    <2>1. upload[d] # "accepted" /\ jobStatus'[d] = jobStatus[d]
      BY <1>4 DEF Admit, Refuse, SaveBlob, CreatePending, BreakUpload
    <2> QED BY <1>0, <1>1, <1>2, <1>3, <2>1, RowStep DEF SettledKept, Job
  <1>5. CASE Enqueue(d)
    <2>1. upload[d] # "accepted" /\ attempts'[d] = attempts[d] /\ jobStatus'[d] \in {"none", "queued"}
      BY <1>2, <1>5 DEF Enqueue, QueueInv, TypeOK, TypeJobs
    <2> QED BY <1>0, <1>1, <1>2, <1>3, <2>1, RowStep DEF SettledKept, Job
  <1>6. CASE DeleteRow(d)
    <2>1. jobStatus'[d] = "none" /\ docRow'[d] # "own" /\ upload' = upload
      BY <1>6 DEF DeleteRow, QueueInv, TypeOK, TypeTables, TypeJobs
    <2> QED BY <1>0, <1>1, <1>3, <2>1, RowStep DEF SettledKept, Job
  <1>7. CASE DeleteBlob(d) \/ BreakDelete(d)
    <2>1. docRow[d] # "own" /\ jobStatus[d] = "none" /\ UNCHANGED <<docRow, jobStatus, upload>>
      BY <1>7 DEF DeleteBlob, BreakDelete, QueueInv, TableInv, RemovalOrder, JobHasDocument
    <2> QED BY <1>0, <1>1, <1>3, <2>1, RowStep DEF SettledKept, Job
  <1>8. CASE Lapse(d)
    <2>1. /\ jobStatus[d] = "processing" /\ UNCHANGED jobStatus
          /\ \A w \in Workers : held[w] # d
      BY <1>8 DEF Lapse, Busy
    <2> QED BY <1>0, <1>1, <1>3, <2>1, RowStep DEF SettledKept, Job
  <1> QED BY <1>4, <1>5, <1>6, <1>7, <1>8 DEF WebStep

\* A step of a worker inside process_job needs a look at itself and at the
\* document it holds: no other worker holds that one.
LEMMA HeldStep ==
    ASSUME QueueInv, LeaseInv, NEW w \in Workers, NEW d \in Docs, held[w] = d, pc[w] \in BusySteps,
           \A v \in Workers \ {w} : SameWorker(v),
           \A e \in Docs \ {d} : SameRows(e),
           held'[w] \in {d, NoDoc}, held'[w] = NoDoc => cause'[w] = "none" /\ written'[w] = 0,
           reaped'[w] = {},
           UNCHANGED upload, SettledKept(d), crashes > 0 => crashes' > 0,
           Holder(w)', Progress(w)', Job(d)'
    PROVE  LeaseInv'
  <1> USE DEF SameRows, SameWorker, LeaseInv, Leased
  <1>0. /\ \A v \in Workers : held[v] # NoDoc => held[v] \in Docs
        /\ \A v \in Workers \ {w} : held[v] # d
        /\ reaped[w] = {}
    BY StepNames, DocsAssumption DEF QueueInv, TypeOK, TypeWorker, ExclusiveIngest, Reaper
  <1>1. ExclusiveIngest'
    BY <1>0 DEF ExclusiveIngest
  <1>2. ASSUME NEW v \in Workers \ {w} PROVE Holder(v)' /\ Progress(v)'
    BY <1>0 DEF Holder, Progress, Indexed
  <1>3. ASSUME NEW v \in Workers PROVE Reaper(v)'
    BY <1>0 DEF Reaper, SettledKept, QueueInv, TypeOK, TypeWorker
  <1>4. ASSUME NEW e \in Docs \ {d} PROVE Job(e)'
    <2>1. \A v \in Workers : e \in reaped[v] \/ (pc[v] = "markFailed" /\ held[v] = e) =>
                             e \in reaped'[v] \/ (pc'[v] = "markFailed" /\ held'[v] = e)
      BY <1>0
    <2> QED BY <2>1 DEF Job, Indexed, Reported, AboutToMark
  <1> QED BY <1>1, <1>2, <1>3, <1>4

LEMMA LeaseOfHeldStep ==
    ASSUME LeaseCoversWork, QueueInv, LeaseInv, NEW w \in Workers,
           IngestStep(w) \/ FailStep(w) \/ Tick(w) \/ Raise(w)
    PROVE  LeaseInv'
  <1> USE DEF tables, jobs, web, worker, ingest, Keep, Goto, Leased, Failing
  <1>1. pc[w] \in BusySteps
    BY StepNames
       DEF IngestStep, FailStep, CheckExists, Sweep, OpenBlob, ReportReading, Upsert, ClearChunks,
           InsertChunk, ReportIndexing, MarkReady, CompleteJob, FailRead, Requeue, Bury, MarkFailed,
           Tick, Raise
  <1>2. PICK d \in Docs : held[w] = d
    BY <1>1, StepNames DEF QueueInv, HeldWhenBusy
  <1>3. d # NoDoc /\ upload[d] = "accepted" /\ reaped[w] = {}
    BY <1>1, <1>2, StepNames, DocsAssumption DEF QueueInv, HeldOrder, LeaseInv, Reaper
  <1>4. \A v \in Workers \ {w} : SameWorker(v)
    BY DEF IngestStep, FailStep, CheckExists, Sweep, OpenBlob, ReportReading, Upsert, ClearChunks,
           InsertChunk, ReportIndexing, MarkReady, CompleteJob, FailRead, Requeue, Bury, MarkFailed,
           Tick, Raise, Leave, Catch, SameWorker, QueueInv, TypeOK, TypeWorker
  <1>5. UNCHANGED <<upload, crashes>>
    BY DEF IngestStep, FailStep, CheckExists, Sweep, OpenBlob, ReportReading, Upsert, ClearChunks,
           InsertChunk, ReportIndexing, MarkReady, CompleteJob, FailRead, Requeue, Bury, MarkFailed,
           Tick, Raise
  <1>6. \A e \in Docs \ {d} : SameRows(e)
    BY <1>2
       DEF IngestStep, FailStep, CheckExists, Sweep, OpenBlob, ReportReading, Upsert, ClearChunks,
           InsertChunk, ReportIndexing, MarkReady, CompleteJob, FailRead, Requeue, Bury, MarkFailed,
           Tick, Raise, WriteStage, SetDocStatus, SetJobStatus, SameRows,
           QueueInv, TypeOK, TypeTables, TypeJobs
  <1>7. /\ docRow[d] = "own" /\ pc[w] # "markFailed" =>
              Leased(d) \/ (pc[w] \in Failing /\ jobStatus[d] = "done")
        /\ docRow[d] # "own" => jobStatus[d] = "none"
        /\ pc[w] # "markFailed" => jobStatus[d] \in {"none", "processing", "done"}
        /\ pc[w] = "markFailed" => jobStatus[d] \in {"none", "failed"}
        /\ jobStatus[d] = "done" => Indexed(d)
    BY <1>2, <1>3 DEF LeaseInv, Holder, Leased, Job, QueueInv, TableInv, JobHasDocument
  \* A step that stays inside process_job and leaves the job alone, and the
  \* rows too if it is done.
  <1>8. ASSUME pc[w] # "markFailed", pc'[w] # "markFailed" \/ jobStatus[d] = "none",
               pc[w] \in Failing => pc'[w] \in Failing \/ jobStatus[d] = "none",
               pc[w] \in Failing => SameRows(d),
               UNCHANGED <<held, reaped, jobStatus, lapsed>>,
               docRow'[d] = "own" => docRow[d] = "own", Progress(w)'
        PROVE  LeaseInv'
    <2>1. Holder(w)' /\ SettledKept(d)
      BY <1>2, <1>3, <1>5, <1>7, <1>8
         DEF Holder, Leased, Failing, SettledKept, QueueInv, TableInv, JobHasDocument
    <2>2. jobStatus[d] = "done" => SameRows(d)
      BY <1>7, <1>8 DEF Leased
    <2>3. Job(d)'
      BY <1>7, <1>8, <2>2 DEF Job, SameRows, Indexed
    <2> QED BY <2>1, <2>3, <1>1, <1>2, <1>3, <1>4, <1>5, <1>6, <1>8, <2>1, HeldStep
  \* A step that leaves process_job.
  <1>9. ASSUME NEW s, Leave(w, s), Job(d)', SettledKept(d)
        PROVE  LeaseInv'
    <2>1. held'[w] = NoDoc /\ reaped'[w] = {} /\ cause'[w] = "none" /\ written'[w] = 0
      BY <1>9 DEF Leave, QueueInv, TypeOK, TypeWorker
    <2>2. Holder(w)' /\ Progress(w)'
      BY <2>1 DEF Holder, Progress
    <2> QED BY <1>1, <1>2, <1>4, <1>5, <1>6, <1>9, <2>1, <2>2, HeldStep
  <1>p. docRow[d] = "own" =>
            /\ pc[w] = "requeue" => attempts[d] < MaxAttempts
            /\ pc[w] \in {"exists", "open", "reading", "upsert", "clear"} => written[w] = 0
            /\ pc[w] \in {"clear", "insert"} => target[w] = "own"
            /\ pc[w] = "insert" => chunks[d] = FirstRows(written[w])
            /\ pc[w] = "ready" => written[w] = NChunks /\ chunks[d] = OneOfEach
            /\ pc[w] = "complete" => Indexed(d)
            /\ cause[w] = "storage" => BlobErrors
            /\ pc[w] \in {"failRead", "requeue", "bury", "markFailed"} => cause[w] # "none"
    BY <1>2, <1>3 DEF LeaseInv, Progress
  <1>t. /\ pc \in [Workers -> Steps] /\ cause \in [Workers -> {"none", "storage", "error"}]
        /\ target \in [Workers -> RowKinds] /\ written \in [Workers -> 0..NChunks]
        /\ docRow \in [Docs -> RowKinds] /\ chunks \in [Docs -> [1..NChunks -> Nat]]
        /\ docStatus \in [Docs -> DocStatuses] /\ docStage \in [Docs -> Stages]
        /\ chunkCount \in [Docs -> Nat] /\ jobStatus \in [Docs -> JobStatuses]
    BY DEF QueueInv, TypeOK, TypeWorker, TypeTables, TypeJobs
  <1>10. CASE CheckExists(w)
    <2>1. Progress(w)'
      BY <1>10, <1>2, <1>p, <1>t DEF CheckExists, Progress
    <2> QED BY <1>10, <1>8, <1>t, <2>1 DEF CheckExists
  <1>11. CASE Sweep(w)
    <2>1. jobStatus[d] = "none" /\ jobStatus' = jobStatus
      BY <1>11, <1>2, <1>3, <1>7 DEF Sweep, QueueInv, HeldOrder
    <2> QED BY <1>11, <1>5, <1>9, <2>1 DEF Sweep, Job, SettledKept
  <1>12. CASE OpenBlob(w)
    <2>1. docRow[d] = "own" => d \in blobs
      BY DEF QueueInv, TableInv, ListedDocumentHasFile
    <2>2. Progress(w)'
      BY <1>12, <1>2, <1>p, <1>t, <2>1 DEF OpenBlob, Catch, Progress
    <2> QED BY <1>12, <1>8, <1>t, <2>2 DEF OpenBlob, Catch
  <1>13. CASE ReportReading(w)
    <2>1. Progress(w)'
      BY <1>13, <1>2, <1>p, <1>t DEF ReportReading, Progress
    <2> QED BY <1>13, <1>8, <1>t, <2>1 DEF ReportReading
  <1>14. CASE Upsert(w)
    <2>1. docRow'[d] = "own" => docRow[d] = "own" /\ target'[w] = "own"
      BY <1>14, <1>2, <1>t DEF Upsert
    <2>2. Progress(w)'
      BY <1>14, <1>2, <1>p, <1>t, <2>1 DEF Upsert, Progress
    <2> QED BY <1>14, <1>8, <1>t, <2>1, <2>2 DEF Upsert
  <1>15. CASE ClearChunks(w)
    <2>1. docRow[d] = "own" => chunks'[d] = FirstRows(0) /\ target[w] = "own" /\ written[w] = 0
      BY <1>15, <1>2, <1>p, <1>t, NoRows DEF ClearChunks
    <2>2. Progress(w)'
      BY <1>15, <1>2, <1>p, <1>t, <2>1 DEF ClearChunks, Progress
    <2> QED BY <1>15, <1>8, <1>t, <2>2 DEF ClearChunks
  <1>16. CASE Tick(w)
    <2>1. Progress(w)'
      BY <1>16, <1>2, <1>p, <1>t DEF Tick, Progress
    <2> QED BY <1>16, <1>8, <2>1 DEF Tick
  <1>17. CASE InsertChunk(w)
    <2>1. CASE docRow[d] = target[w]
      <3>1. docRow[d] = "own" => chunks'[d] = FirstRows(written[w] + 1)
        <4>1. /\ written[w] \in 0..NChunks /\ written[w] < NChunks /\ pc[w] = "insert"
              /\ chunks' = [chunks EXCEPT ![d] = [chunks[d] EXCEPT ![written[w] + 1] = @ + 1]]
          BY <1>17, <1>2, <1>t, <2>1 DEF InsertChunk
        <4>2. chunks'[d] = [chunks[d] EXCEPT ![written[w] + 1] = chunks[d][written[w] + 1] + 1]
          BY <1>t, <4>1
        <4> QED BY <1>p, <4>1, <4>2, OneMoreRow
      <3>2. Progress(w)'
        BY <1>17, <1>2, <1>p, <1>t, <2>1, <3>1 DEF InsertChunk, Progress
      <3> QED BY <1>17, <1>2, <1>8, <2>1, <3>2 DEF InsertChunk
    <2>2. CASE docRow[d] # target[w]
      <3>1. Progress(w)'
        BY <1>17, <1>2, <1>p, <1>t, <2>2 DEF InsertChunk, Catch, Progress
      <3> QED BY <1>17, <1>2, <1>8, <1>t, <2>2, <3>1 DEF InsertChunk, Catch
    <2> QED BY <2>1, <2>2
  <1>18. CASE ReportIndexing(w)
    <2>1. Progress(w)'
      BY <1>18, <1>2, <1>p, <1>t, AllRows DEF ReportIndexing, Progress
    <2> QED BY <1>18, <1>8, <1>t, <2>1 DEF ReportIndexing
  <1>19. CASE MarkReady(w)
    <2>1. docRow[d] = "own" => Indexed(d)'
      BY <1>19, <1>2, <1>p, <1>t DEF MarkReady, SetDocStatus, Indexed
    <2>2. Progress(w)'
      BY <1>19, <1>2, <1>p, <1>t, <2>1 DEF MarkReady, Progress
    <2> QED BY <1>19, <1>8, <1>t, <2>2 DEF MarkReady
  <1>20. CASE CompleteJob(w)
    <2>1. Job(d)' /\ SettledKept(d)
      BY <1>20, <1>2, <1>3, <1>5, <1>7, <1>p, <1>t
         DEF CompleteJob, SetJobStatus, Job, SettledKept, Indexed
    <2>2. CASE Leave(w, "idle")
      BY <1>9, <2>1, <2>2
    <2>3. CASE Catch(w, "error")
      <3>1. /\ pc'[w] = "failRead" /\ held'[w] = d /\ reaped'[w] = {} /\ cause'[w] = "error"
            /\ docRow' = docRow /\ pc[w] = "complete"
            /\ jobStatus'[d] = IF jobStatus[d] = "none" THEN "none" ELSE "done"
        BY <1>20, <1>2, <1>3, <1>t, <2>3 DEF CompleteJob, Catch, SetJobStatus
      <3>2. Holder(w)' /\ Progress(w)'
        BY <1>7, <3>1 DEF Holder, Leased, Failing, Progress
      <3> QED BY <1>1, <1>2, <1>3, <1>4, <1>5, <1>6, <2>1, <3>1, <3>2, HeldStep
    <2> QED BY <1>20, <2>2, <2>3 DEF CompleteJob
  <1>21. CASE Raise(w)
    <2>1. Progress(w)'
      BY <1>21, <1>2, <1>t DEF Raise, Catch, Progress
    <2> QED BY <1>21, <1>8, <1>t, <2>1, StepNames DEF Raise, Catch, IngestSteps
  <1>22. CASE FailRead(w)
    <2>1. CASE jobStatus[d] = "none"
      <3>1. CASE Leave(w, "idle")
        BY <1>22, <1>5, <1>9, <2>1, <3>1 DEF FailRead, Job, SettledKept
      <3>2. CASE ~Leave(w, "idle")
        <4>1. Progress(w)'
          BY <1>22, <1>2, <1>p, <1>t, <2>1, <3>2 DEF FailRead, Progress
        <4> QED BY <1>22, <1>2, <1>8, <2>1, <3>2, <4>1 DEF FailRead, SameRows
      <3> QED BY <3>1, <3>2
    <2>2. CASE jobStatus[d] # "none"
      <3>1. Progress(w)'
        BY <1>22, <1>2, <1>p, <1>t, <2>2 DEF FailRead, Progress
      <3> QED BY <1>22, <1>2, <1>8, <1>t, <2>2, <3>1 DEF FailRead, SameRows
    <2> QED BY <2>1, <2>2
  <1>23. CASE Requeue(w)
    <2>1. Job(d)' /\ SettledKept(d)
      BY <1>23, <1>2, <1>3, <1>5, <1>7, <1>p, <1>t DEF Requeue, SetJobStatus, Job, SettledKept
    <2> QED BY <1>23, <1>9, <2>1 DEF Requeue
  <1>24. CASE Bury(w)
    <2>0. /\ UNCHANGED <<docRow, docStatus, upload, crashes>>
          /\ jobStatus'[d] = IF jobStatus[d] = "none" THEN "none" ELSE "failed"
          /\ jobStatus[d] # "failed"
      BY <1>24, <1>2, <1>5, <1>7, <1>t DEF Bury, SetJobStatus
    <2>1. CASE cause[w] = "error"
      <3>1. /\ pc'[w] = "markFailed" /\ held'[w] = d /\ reaped'[w] = {} /\ cause'[w] = cause[w]
        BY <1>24, <1>2, <1>3, <1>t, <2>1 DEF Bury
      <3>2. Progress(w)' /\ Holder(w)'
        BY <1>2, <1>7, <1>24, <2>0, <2>1, <3>1 DEF Bury, Progress, Holder
      <3>3. Job(d)' /\ SettledKept(d)
        BY <2>0, <3>1 DEF Job, Reported, AboutToMark, SettledKept
      <3> QED BY <1>1, <1>2, <1>3, <1>4, <1>5, <1>6, <3>1, <3>2, <3>3, HeldStep
    <2>2. CASE cause[w] # "error"
      <3>1. jobStatus[d] # "none" => BlobErrors
        BY <1>24, <1>2, <1>7, <1>p, <1>t, <2>2 DEF Bury
      <3>2. Job(d)' /\ SettledKept(d)
        BY <2>0, <3>1 DEF Job, Reported, SettledKept
      <3> QED BY <1>24, <1>9, <2>2, <3>2 DEF Bury
    <2> QED BY <2>1, <2>2
  <1>25. CASE MarkFailed(w)
    <2>1. jobStatus' = jobStatus /\ (docRow[d] = "own" => docStatus'[d] = "failed")
      BY <1>25, <1>2, <1>t DEF MarkFailed, SetDocStatus
    <2>2. Job(d)' /\ SettledKept(d)
      BY <1>25, <1>5, <1>7, <2>1 DEF MarkFailed, Job, Reported, SettledKept
    <2> QED BY <1>25, <1>9, <2>2 DEF MarkFailed
  <1> QED BY <1>10, <1>11, <1>12, <1>13, <1>14, <1>15, <1>16, <1>17, <1>18, <1>19, <1>20, <1>21,
             <1>22, <1>23, <1>24, <1>25 DEF IngestStep, FailStep

LEMMA LeaseOfIdleStep ==
    ASSUME LeaseCoversWork, QueueInv, LeaseInv, NEW w \in Workers,
           ClaimStep(w) \/ Crash(w) \/ Restart(w)
    PROVE  LeaseInv'
  <1> USE DEF tables, jobs, web, worker, ingest, Goto, Leased, Failing
  <1>1. /\ \A v \in Workers : held[v] # NoDoc => held[v] \in Docs
        /\ \A d \in Docs : d # NoDoc
        /\ pc[w] \notin BusySteps => held[w] = NoDoc /\ cause[w] = "none" /\ written[w] = 0
    BY DocsAssumption DEF QueueInv, TypeOK, TypeWorker, HeldWhenBusy, LeaseInv, Reaper
  <1>2. \A v \in Workers \ {w} : SameWorker(v)
    BY DEF ClaimStep, Claim, ClaimNothing, Reap, ReapMark, Crash, Restart, Leave,
           SameWorker, QueueInv, TypeOK, TypeWorker
  <1>t. /\ pc \in [Workers -> Steps] /\ reaped \in [Workers -> SUBSET Docs]
        /\ held \in [Workers -> Docs \cup {NoDoc}] /\ jobStatus \in [Docs -> JobStatuses]
        /\ attempts \in [Docs -> 0..MaxAttempts] /\ docStatus \in [Docs -> DocStatuses]
        /\ lapsed \in [Docs -> BOOLEAN] /\ cause \in [Workers -> {"none", "storage", "error"}]
        /\ written \in [Workers -> 0..NChunks]
    BY DEF QueueInv, TypeOK, TypeWorker, TypeTables, TypeJobs
  <1>e. LeaseInv' <=> /\ ExclusiveIngest'
                      /\ \A v \in Workers : Holder(v)' /\ Progress(v)' /\ Reaper(v)'
                      /\ \A d \in Docs : Job(d)'
    BY DEF LeaseInv
  <1>3. ASSUME NEW d \in Docs, Claim(w, d) PROVE LeaseInv'
    <2>1. pc[w] = "idle" /\ jobStatus[d] \in {"queued", "processing"} /\ \A v \in Workers : held[v] # d
      BY <1>3, <1>1 DEF Claim, Claimable, LeaseInv, Holder, QueueInv, TableInv, JobHasDocument
    <2>2. /\ pc'[w] = "exists" /\ held'[w] = d /\ jobStatus'[d] = "processing" /\ ~lapsed'[d]
          /\ UNCHANGED <<docRow, docStatus, docStage, chunkCount, chunks, upload, cause, written,
                         reaped, crashes>>
          /\ \A e \in Docs \ {d} : SameRows(e)
      BY <1>3, <1>t DEF Claim, SameRows
    <2>3. pc[w] \notin BusySteps /\ reaped[w] = {}
      BY <2>1, StepNames DEF LeaseInv, Reaper
    <2>4. ExclusiveIngest'
      BY <1>1, <1>2, <2>1, <2>2 DEF ExclusiveIngest, SameWorker, LeaseInv
    <2>5. ASSUME NEW v \in Workers PROVE Holder(v)' /\ Progress(v)' /\ Reaper(v)'
      <3>1. CASE v = w
        BY <1>1, <2>2, <2>3, <3>1 DEF Holder, Progress, Reaper
      <3>2. CASE v # w
        BY <1>1, <1>2, <1>t, <2>1, <2>2, <3>2
           DEF SameWorker, SameRows, LeaseInv, Holder, Progress, Reaper, Indexed
      <3> QED BY <3>1, <3>2
    <2>6. ASSUME NEW e \in Docs PROVE Job(e)'
      <3>1. CASE e = d
        BY <2>2, <3>1 DEF Job
      <3>2. CASE e # d
        BY <1>2, <2>1, <2>2, <3>2 DEF SameWorker, SameRows, LeaseInv, Job, Indexed, Reported, AboutToMark
      <3> QED BY <3>1, <3>2
    <2> QED BY <1>e, <2>4, <2>5, <2>6
  \* The worker holds nothing before and after, and no other worker notices.
  <1>4. ASSUME pc[w] \notin BusySteps, pc'[w] \notin BusySteps, UNCHANGED <<held, cause, written, target>>
        PROVE  ExclusiveIngest' /\ Holder(w)' /\ Progress(w)'
    BY <1>1, <1>4 DEF LeaseInv, ExclusiveIngest, Holder, Progress
  <1>5. CASE ClaimNothing(w)
    <2>1. pc[w] \notin BusySteps /\ pc'[w] = "reap" /\ pc[w] = "idle"
      BY <1>5, <1>t, StepNames DEF ClaimNothing
    <2>2. ExclusiveIngest' /\ Holder(w)' /\ Progress(w)'
      BY <1>4, <1>5, <2>1, StepNames DEF ClaimNothing
    <2>3. ASSUME NEW v \in Workers PROVE Holder(v)' /\ Progress(v)' /\ Reaper(v)'
      BY <1>1, <1>2, <1>5, <2>1, <2>2
         DEF ClaimNothing, SameWorker, LeaseInv, Holder, Progress, Reaper, Indexed
    <2>4. ASSUME NEW e \in Docs PROVE Job(e)'
      BY <1>2, <1>5, <2>1 DEF ClaimNothing, SameWorker, LeaseInv, Job, Indexed, Reported, AboutToMark
    <2> QED BY <1>e, <2>2, <2>3, <2>4
  <1>6. CASE Reap(w)
    <2>1. /\ pc[w] = "reap" /\ pc[w] \notin BusySteps /\ pc'[w] \in {"idle", "reapMark"}
          /\ reaped'[w] = Exhausted /\ (Exhausted # {} => pc'[w] = "reapMark")
          /\ \A e \in Docs : jobStatus'[e] = IF e \in Exhausted THEN "failed" ELSE jobStatus[e]
      BY <1>6, <1>t, StepNames DEF Reap
    <2>2. /\ UNCHANGED <<docRow, docStatus, docStage, chunkCount, chunks, attempts, lapsed, upload,
                         held, target, cause, written, crashes>>
          /\ reaped[w] = {}
      BY <1>6, <2>1 DEF Reap, LeaseInv, Reaper
    <2>3. /\ Exhausted \subseteq Docs
          /\ \A e \in Exhausted : /\ jobStatus[e] = "processing" /\ lapsed[e] /\ upload[e] = "accepted"
                                   /\ docRow[e] = "own" /\ \A v \in Workers : held[v] # e
      BY <1>1 DEF Exhausted, QueueInv, TableInv, UploadOrder, JobHasDocument, LeaseInv, Holder
    <2>4. ExclusiveIngest' /\ Holder(w)' /\ Progress(w)'
      BY <1>4, <2>1, <2>2, StepNames
    <2>5. ASSUME NEW v \in Workers PROVE Holder(v)' /\ Progress(v)' /\ Reaper(v)'
      <3>1. CASE v = w
        BY <1>1, <2>1, <2>2, <2>3, <2>4, <3>1 DEF Reaper
      <3>2. CASE v # w
        BY <1>1, <1>2, <1>t, <2>1, <2>2, <2>3, <3>2
           DEF SameWorker, LeaseInv, Holder, Progress, Reaper, Indexed
      <3> QED BY <3>1, <3>2
    <2>6. ASSUME NEW e \in Docs PROVE Job(e)'
      <3>1. CASE e \in Exhausted
        BY <2>1, <3>1 DEF Job, Reported, AboutToMark
      <3>2. CASE e \notin Exhausted
        BY <1>2, <2>1, <2>2, <3>2 DEF SameWorker, LeaseInv, Job, Indexed, Reported, AboutToMark
      <3> QED BY <3>1, <3>2
    <2> QED BY <1>e, <2>4, <2>5, <2>6
  <1>7. CASE ReapMark(w)
    <2>1. PICK d \in reaped[w] :
            /\ SetDocStatus(d, "failed")
            /\ reaped' = [reaped EXCEPT ![w] = @ \ {d}]
            /\ pc' = [pc EXCEPT ![w] = IF reaped[w] = {d} THEN "idle" ELSE "reapMark"]
      BY <1>7 DEF ReapMark
    <2>2. /\ d \in Docs /\ upload[d] = "accepted" /\ jobStatus[d] \in {"none", "failed"}
          /\ pc[w] = "reapMark" /\ pc[w] \notin BusySteps /\ pc'[w] \in {"idle", "reapMark"}
          /\ reaped'[w] = reaped[w] \ {d} /\ (reaped'[w] # {} => pc'[w] = "reapMark")
      BY <1>7, <1>t, <2>1, StepNames DEF ReapMark, LeaseInv, Reaper
    <2>3. /\ UNCHANGED <<docRow, docStage, chunkCount, chunks, jobStatus, attempts, lapsed, upload,
                         held, target, cause, written, crashes>>
          /\ \A e \in Docs \ {d} : docStatus'[e] = docStatus[e]
          /\ docRow[d] = "own" => docStatus'[d] = "failed"
      BY <1>7, <1>t, <2>1, <2>2 DEF ReapMark, SetDocStatus
    <2>4. ExclusiveIngest' /\ Holder(w)' /\ Progress(w)'
      BY <1>4, <2>2, <2>3, StepNames
    <2>5. ASSUME NEW v \in Workers PROVE Holder(v)' /\ Progress(v)' /\ Reaper(v)'
      <3>1. CASE v = w
        BY <1>1, <1>t, <2>2, <2>3, <2>4, <3>1 DEF LeaseInv, Reaper
      <3>2. CASE v # w
        BY <1>1, <1>2, <1>t, <2>2, <2>3, <3>2
           DEF SameWorker, LeaseInv, Holder, Progress, Reaper, Indexed
      <3> QED BY <3>1, <3>2
    <2>6. ASSUME NEW e \in Docs PROVE Job(e)'
      <3>1. CASE e = d
        BY <2>2, <2>3, <3>1 DEF Job, Reported, QueueInv, TableInv, JobHasDocument
      <3>2. CASE e # d
        BY <1>2, <2>2, <2>3, <3>2 DEF SameWorker, LeaseInv, Job, Indexed, Reported, AboutToMark
      <3> QED BY <3>1, <3>2
    <2> QED BY <1>e, <2>4, <2>5, <2>6
  <1>8. CASE Crash(w) \/ Restart(w)
    <2>1. /\ pc'[w] \in {"down", "idle"} /\ held'[w] = NoDoc /\ cause'[w] = "none"
          /\ written'[w] = 0 /\ reaped'[w] = {}
          /\ UNCHANGED <<docRow, docStatus, docStage, chunkCount, chunks, jobStatus, attempts, lapsed,
                         upload>>
      BY <1>8, <1>t DEF Crash, Restart, Leave
    <2>2. crashes' > 0 \/ (crashes' = crashes /\ reaped[w] = {} /\ pc[w] = "down")
      BY <1>8, CountsAssumption DEF Crash, Restart, LeaseInv, Reaper, QueueInv, TypeOK
    <2>3. ExclusiveIngest'
      BY <1>1, <1>2, <2>1 DEF SameWorker, LeaseInv, ExclusiveIngest
    <2>4. ASSUME NEW v \in Workers PROVE Holder(v)' /\ Progress(v)' /\ Reaper(v)'
      <3>1. CASE v = w
        BY <2>1, <3>1 DEF Holder, Progress, Reaper
      <3>2. CASE v # w
        BY <1>1, <1>2, <2>1, <3>2 DEF SameWorker, LeaseInv, Holder, Progress, Reaper, Indexed
      <3> QED BY <3>1, <3>2
    <2>5. ASSUME NEW e \in Docs PROVE Job(e)'
      BY <1>2, <2>1, <2>2 DEF SameWorker, LeaseInv, Job, Indexed, Reported, AboutToMark
    <2> QED BY <1>e, <2>3, <2>4, <2>5
  <1> QED BY <1>3, <1>5, <1>6, <1>7, <1>8 DEF ClaimStep

LEMMA LeaseInit == Init => LeaseInv
  BY DEF Init, LeaseInv, ExclusiveIngest, Holder, Progress, Reaper, Job

LEMMA LeaseStutter ==
    ASSUME LeaseInv, UNCHANGED vars
    PROVE  LeaseInv'
  BY DEF vars, tables, jobs, web, worker, LeaseInv, ExclusiveIngest, Holder, Leased, Progress,
         Reaper, Job, Indexed, Reported, AboutToMark

LEMMA LeaseInvariant == ASSUME LeaseCoversWork PROVE Spec => [](QueueInv /\ LeaseInv)
  <1>1. QueueInv /\ LeaseInv /\ [Next]_vars => LeaseInv'
    <2> SUFFICES ASSUME QueueInv, LeaseInv, [Next]_vars PROVE LeaseInv'
      OBVIOUS
    <2>1. CASE \E d \in Docs : WebStep(d) \/ Lapse(d)
      BY <2>1, LeaseOfWebStep
    <2>2. CASE \E w \in Workers : WorkerStep(w) \/ Tick(w) \/ Raise(w) \/ Crash(w)
      BY <2>2, LeaseOfHeldStep, LeaseOfIdleStep DEF WorkerStep
    <2>3. CASE UNCHANGED vars
      BY <2>3, LeaseStutter
    <2> QED BY <2>1, <2>2, <2>3 DEF Next
  <1> QED BY <1>1, LeaseInit, QueueInvariant, PTL DEF Spec

\* No document is ever ingested by two workers at once.
THEOREM IngestAlwaysExclusive == ASSUME LeaseCoversWork PROVE Spec => []ExclusiveIngest
  BY LeaseInvariant, PTL DEF LeaseInv

\* A done job always has a ready document whose chunk rows are the whole PDF.
THEOREM DoneAlwaysMeansIndexed == ASSUME LeaseCoversWork PROVE Spec => []DoneMeansIndexed
  <1>1. LeaseInv => DoneMeansIndexed
    BY DEF LeaseInv, Job, DoneMeansIndexed
  <1> QED BY <1>1, LeaseInvariant, PTL

\* A queued job can always be claimed again.
THEOREM QueuedAlwaysHasBudget == ASSUME LeaseCoversWork PROVE Spec => []QueuedHasBudget
  <1>1. LeaseInv => QueuedHasBudget
    BY DEF LeaseInv, Job, QueuedHasBudget
  <1> QED BY <1>1, LeaseInvariant, PTL

\* Unless a process was killed or the blob store failed, the user learns of a
\* dead-lettered job.
THEOREM DeadLetterAlwaysReported == ASSUME LeaseCoversWork PROVE Spec => []DeadLetterReported
  <1>1. LeaseInv => DeadLetterReported
    BY DEF LeaseInv, Job, Reported, DeadLetterReported
  <1> QED BY <1>1, LeaseInvariant, PTL

(***************************************************************************)
(* The document lifecycle that the queue implements                        *)
(***************************************************************************)
SameView(d) == PhaseOf(d)' = PhaseOf(d) /\ IndexOf(d)' = IndexOf(d)

\* What a step may do to one document, seen from the lifecycle.
Submitted(d) == PhaseOf(d) = "absent" /\ PhaseOf(d)' = "pending" /\ IndexOf(d)' = IndexOf(d)
Published(d) == PhaseOf(d) = "pending" /\ PhaseOf(d)' = "indexed" /\ IndexOf(d)' = OneOfEach
GivenUp(d) == PhaseOf(d) = "pending" /\ PhaseOf(d)' = "dead" /\ IndexOf(d)' = IndexOf(d)
Removed(d) ==
    /\ PhaseOf(d) \in {"pending", "indexed", "dead"}
    /\ PhaseOf(d)' = "gone" /\ IndexOf(d)' = NoChunks

LEMMA StutterView ==
    ASSUME \A d \in Docs : SameView(d)
    PROVE  UNCHANGED <<phase, index>>
  BY DEF SameView, phase, index

LEMMA OneDocument ==
    ASSUME NEW d \in Docs, \A e \in Docs \ {d} : SameView(e),
           SameView(d) \/ Submitted(d) \/ Published(d) \/ GivenUp(d) \/ Removed(d)
    PROVE  [Lifecycle!Next]_<<phase, index>>
  <1>1. /\ phase' = [phase EXCEPT ![d] = PhaseOf(d)']
        /\ index' = [index EXCEPT ![d] = IndexOf(d)']
        /\ phase[d] = PhaseOf(d) /\ index[d] = IndexOf(d)
    BY DEF phase, index, SameView
  <1>2. CASE SameView(d)
    BY <1>2, StutterView
  <1>3. CASE Submitted(d)
    <2>1. Lifecycle!Submit(d)
      BY <1>1, <1>3 DEF Submitted, Lifecycle!Submit, index
    <2> QED BY <2>1 DEF Lifecycle!Next
  <1>4. CASE Published(d)
    <2>1. Lifecycle!Publish(d)
      BY <1>1, <1>4 DEF Published, Lifecycle!Publish
    <2> QED BY <2>1 DEF Lifecycle!Next
  <1>5. CASE GivenUp(d)
    <2>1. Lifecycle!GiveUp(d)
      BY <1>1, <1>5 DEF GivenUp, Lifecycle!GiveUp, index
    <2> QED BY <2>1 DEF Lifecycle!Next
  <1>6. CASE Removed(d)
    <2>1. Lifecycle!Remove(d)
      BY <1>1, <1>6 DEF Removed, Lifecycle!Remove
    <2> QED BY <2>1 DEF Lifecycle!Next
  <1> QED BY <1>2, <1>3, <1>4, <1>5, <1>6

\* Most steps leave alone what the lifecycle sees.
LEMMA UnseenStep ==
    ASSUME UNCHANGED <<jobStatus, docRow, chunks, removal, held>>
    PROVE  [Lifecycle!Next]_<<phase, index>>
  BY StutterView DEF SameView, PhaseOf, IndexOf, Finished

\* A step of a worker is not seen on a document that it neither holds nor writes.
LEMMA FarView ==
    ASSUME NEW w \in Workers, NEW e \in Docs, held[w] # e, held'[w] # e,
           \A v \in Workers \ {w} : held'[v] = held[v],
           jobStatus'[e] = jobStatus[e], docRow'[e] = docRow[e],
           chunks'[e] = chunks[e], removal'[e] = removal[e]
    PROVE  SameView(e)
  BY DEF SameView, PhaseOf, IndexOf, Finished

\* Nor on one that is unfinished before and after, and not given up in it.
LEMMA UnfinishedView ==
    ASSUME NEW e \in Docs, ~Finished(e), ~Finished(e)',
           jobStatus[e] = "failed" <=> jobStatus'[e] = "failed",
           docRow[e] = "own" <=> docRow'[e] = "own", removal[e] = "no" <=> removal'[e] = "no"
    PROVE  SameView(e)
  BY DEF SameView, PhaseOf, IndexOf

LEMMA LifecycleOfWebStep ==
    ASSUME QueueInv, NEW d \in Docs, WebStep(d) \/ Lapse(d)
    PROVE  [Lifecycle!Next]_<<phase, index>>
  <1> USE DEF tables, jobs
  <1>w. UNCHANGED held
    BY DEF WebStep, Admit, Refuse, SaveBlob, CreatePending, Enqueue, DeleteRow, DeleteBlob,
           BreakUpload, BreakDelete, Lapse, worker
  <1>t. /\ docRow \in [Docs -> RowKinds] /\ jobStatus \in [Docs -> JobStatuses]
        /\ chunks \in [Docs -> [1..NChunks -> Nat]] /\ removal \in [Docs -> RemovalSteps]
    BY DEF QueueInv, TypeOK, TypeTables, TypeJobs, TypeWeb
  <1>o. /\ upload[d] # "accepted" => jobStatus[d] = "none"
        /\ upload[d] = "saved" => docRow[d] # "own" /\ removal[d] = "no"
        /\ removal[d] # "no" => docRow[d] # "own"
        /\ docRow[d] # "own" => jobStatus[d] = "none"
    BY DEF QueueInv, TableInv, UploadOrder, RemovalOrder, JobHasDocument
  <1>1. CASE Admit(d) \/ Refuse(d) \/ SaveBlob(d) \/ BreakUpload(d) \/ Lapse(d)
    BY <1>w, <1>1, UnseenStep DEF Admit, Refuse, SaveBlob, BreakUpload, Lapse, web
  <1>2. CASE CreatePending(d)
    <2>1. /\ UNCHANGED <<jobStatus, chunks, removal>> /\ docRow' = [docRow EXCEPT ![d] = "own"]
          /\ upload[d] = "saved"
      BY <1>2 DEF CreatePending
    <2>2. Submitted(d) /\ \A e \in Docs \ {d} : SameView(e)
      BY <1>w, <1>t, <1>o, <2>1 DEF Submitted, SameView, PhaseOf, IndexOf, Finished
    <2> QED BY <2>2, OneDocument
  <1>3. CASE Enqueue(d)
    <2>1. CASE docRow[d] = "own"
      <3>1. /\ UNCHANGED <<docRow, chunks, removal>> /\ jobStatus[d] = "none"
            /\ jobStatus' = [jobStatus EXCEPT ![d] = "queued"]
        BY <1>3, <1>o, <2>1 DEF Enqueue
      <3>2. \A e \in Docs : SameView(e)
        BY <1>w, <1>t, <2>1, <3>1 DEF SameView, PhaseOf, IndexOf, Finished
      <3> QED BY <3>2, StutterView
    <2>2. CASE docRow[d] # "own"
      BY <1>w, <1>3, <2>2, UnseenStep DEF Enqueue
    <2> QED BY <2>1, <2>2
  <1>4. CASE DeleteRow(d)
    <2>1. /\ docRow[d] = "own" /\ docRow' = [docRow EXCEPT ![d] = "none"]
          /\ jobStatus' = [jobStatus EXCEPT ![d] = "none"]
          /\ removal' = [removal EXCEPT ![d] = "rowGone"]
          /\ chunks' = [chunks EXCEPT ![d] = NoChunks]
      BY <1>4 DEF DeleteRow
    <2>2. Removed(d) /\ \A e \in Docs \ {d} : SameView(e)
      BY <1>w, <1>t, <2>1 DEF Removed, SameView, PhaseOf, IndexOf, Finished
    <2> QED BY <2>2, OneDocument
  <1>5. CASE DeleteBlob(d) \/ BreakDelete(d)
    <2>1. /\ UNCHANGED <<docRow, jobStatus, chunks>> /\ removal[d] = "rowGone" /\ removal'[d] # "no"
          /\ \A e \in Docs \ {d} : removal'[e] = removal[e]
      BY <1>5, <1>t DEF DeleteBlob, BreakDelete
    <2>2. \A e \in Docs : SameView(e)
      BY <1>w, <2>1 DEF SameView, PhaseOf, IndexOf, Finished
    <2> QED BY <2>2, StutterView
  <1> QED BY <1>1, <1>2, <1>3, <1>4, <1>5 DEF WebStep

LEMMA LifecycleOfWorkerStep ==
    ASSUME LeaseCoversWork, QueueInv, LeaseInv, NEW w \in Workers,
           WorkerStep(w) \/ Tick(w) \/ Raise(w) \/ Crash(w)
    PROVE  [Lifecycle!Next]_<<phase, index>>
  <1> USE DEF tables, jobs, web, worker
  <1>t. /\ docRow \in [Docs -> RowKinds] /\ jobStatus \in [Docs -> JobStatuses]
        /\ chunks \in [Docs -> [1..NChunks -> Nat]] /\ held \in [Workers -> Docs \cup {NoDoc}]
        /\ pc \in [Workers -> Steps]
    BY DEF QueueInv, TypeOK, TypeTables, TypeJobs, TypeWorker
  <1>h. pc[w] \in BusySteps =>
            /\ held[w] \in Docs
            /\ jobStatus[held[w]] = "done" => Indexed(held[w]) /\ pc[w] \in Failing
            /\ jobStatus[held[w]] = "failed" => pc[w] = "markFailed"
            /\ docRow[held[w]] # "own" => jobStatus[held[w]] = "none"
            /\ docRow[held[w]] = "own" /\ pc[w] = "complete" => chunks[held[w]] = OneOfEach
            /\ \A v \in Workers \ {w} : held[v] # held[w]
    BY DocsAssumption
       DEF QueueInv, HeldWhenBusy, LeaseInv, ExclusiveIngest, Holder, Leased, Progress, Job, Indexed,
           TableInv, JobHasDocument
  <1>n. pc[w] \notin BusySteps => held[w] = NoDoc
    BY DEF QueueInv, HeldWhenBusy
  <1>d. NoDoc \notin Docs
    BY DocsAssumption
  <1>o. \A v \in Workers \ {w} : held'[v] = held[v]
    BY <1>t DEF WorkerStep, ClaimStep, IngestStep, FailStep, Claim, ClaimNothing, Reap, ReapMark,
           CheckExists, Sweep, OpenBlob, ReportReading, Upsert, ClearChunks, InsertChunk,
           ReportIndexing, MarkReady, CompleteJob, FailRead, Requeue, Bury, MarkFailed,
           Restart, Tick, Raise, Crash, Leave, Catch, Keep
  <1>1. CASE \E d \in Docs : Claim(w, d)
    <2>1. PICK d \in Docs : Claim(w, d)
      BY <1>1
    <2>2. /\ jobStatus' = [jobStatus EXCEPT ![d] = "processing"] /\ UNCHANGED <<docRow, chunks, removal>>
          /\ jobStatus[d] \in {"queued", "processing"} /\ held' = [held EXCEPT ![w] = d]
          /\ pc[w] = "idle"
      BY <2>1 DEF Claim, Claimable
    <2>3. SameView(d)
      BY <1>t, <2>2, UnfinishedView DEF Finished
    <2>4. \A e \in Docs \ {d} : SameView(e)
      BY <1>t, <1>n, <1>d, <1>o, <2>2, StepNames, FarView
    <2> QED BY <2>3, <2>4, StutterView
  <1>2. CASE Reap(w)
    <2>1. /\ UNCHANGED <<docRow, chunks, removal, held>>
          /\ \A e \in Docs : jobStatus'[e] = IF e \in Exhausted THEN "failed" ELSE jobStatus[e]
      BY <1>2 DEF Reap
    <2>2. Exhausted \subseteq Docs
      BY DEF Exhausted
    <2>3. \A e \in Exhausted : jobStatus[e] = "processing" /\ docRow[e] = "own"
      BY DEF Exhausted, QueueInv, TableInv, JobHasDocument
    <2>4. /\ \A e \in Exhausted : GivenUp(e)
          /\ \A e \in Docs \ Exhausted : SameView(e)
      BY <2>1, <2>2, <2>3 DEF GivenUp, SameView, PhaseOf, IndexOf, Finished
    <2>5. \A e \in Exhausted : phase[e] = "pending"
      BY <2>2, <2>4 DEF GivenUp, phase
    <2>6. phase' = [e \in Docs |-> IF e \in Exhausted THEN "dead" ELSE phase[e]]
      BY <2>2, <2>4 DEF GivenUp, SameView, phase
    <2>7. index' = index
      BY <2>2, <2>4 DEF GivenUp, SameView, index
    <2>8. Lifecycle!GiveUpAll(Exhausted)
      BY <2>5, <2>6, <2>7 DEF Lifecycle!GiveUpAll
    <2> QED BY <2>2, <2>8 DEF Lifecycle!Next
  <1>3. CASE \/ ClaimNothing(w) \/ ReapMark(w) \/ CheckExists(w) \/ OpenBlob(w) \/ ReportReading(w)
             \/ Tick(w) \/ ReportIndexing(w) \/ MarkReady(w) \/ Raise(w)
    <2>1. UNCHANGED <<jobStatus, docRow, chunks, removal, held>>
      BY <1>3 DEF ClaimNothing, ReapMark, CheckExists, OpenBlob, ReportReading, Tick,
                  ReportIndexing, MarkReady, Raise, Catch, Keep
    <2> QED BY <2>1, UnseenStep
  \* A worker that lets go of its job: if that one is done, it is finished now.
  <1>4. CASE Sweep(w) \/ FailRead(w) \/ MarkFailed(w) \/ Crash(w) \/ Restart(w)
    <2>1. UNCHANGED <<jobStatus, docRow, chunks, removal>> /\ held'[w] \in {held[w], NoDoc}
      BY <1>4, <1>t DEF Sweep, FailRead, MarkFailed, Crash, Restart, Leave, Keep
    <2>2. \A e \in Docs \ {held[w]} : SameView(e)
      BY <1>d, <1>o, <2>1, FarView
    <2>3. CASE held[w] \notin Docs
      BY <2>2, <2>3, StutterView
    <2>4. CASE held[w] \in Docs
      <3>0. PICK d \in Docs : held[w] = d
        BY <2>4
      <3>1. ~Finished(d)
        BY <3>0 DEF Finished
      <3>2. CASE ~Finished(d)'
        BY <2>1, <2>2, <3>0, <3>1, <3>2, UnfinishedView, StutterView
      <3>3. CASE Finished(d)'
        <4>1. jobStatus[d] = "done" /\ docRow[d] = "own" /\ chunks[d] = OneOfEach
          BY <1>h, <1>n, <1>d, <2>1, <3>0, <3>3 DEF Finished, Indexed
        <4>2. Published(d)
          BY <2>1, <3>1, <3>3, <4>1 DEF Published, PhaseOf, IndexOf
        <4> QED BY <2>2, <3>0, <4>2, OneDocument
      <3> QED BY <3>2, <3>3
    <2> QED BY <2>3, <2>4
  <1>5. CASE Upsert(w)
    <2>1. /\ held[w] \in Docs /\ UNCHANGED <<jobStatus, chunks, removal, held>>
          /\ docRow' = docRow \/ (docRow[held[w]] = "none" /\ docRow' = [docRow EXCEPT ![held[w]] = "stray"])
      BY <1>5, <1>h, StepNames DEF Upsert, Keep
    <2>2. \A e \in Docs : SameView(e)
      BY <1>t, <2>1 DEF SameView, PhaseOf, IndexOf, Finished
    <2> QED BY <2>2, StutterView
  <1>6. CASE ClearChunks(w) \/ InsertChunk(w)
    <2>1. /\ held[w] \in Docs /\ UNCHANGED <<jobStatus, docRow, removal, held>>
          /\ jobStatus[held[w]] # "done"
          /\ \A e \in Docs \ {held[w]} : chunks'[e] = chunks[e]
      BY <1>6, <1>h, <1>t, StepNames DEF ClearChunks, InsertChunk, Catch, Keep, Failing
    <2>2. \A e \in Docs : SameView(e)
      BY <2>1 DEF SameView, PhaseOf, IndexOf, Finished
    <2> QED BY <2>2, StutterView
  <1>7. CASE CompleteJob(w) \/ Requeue(w) \/ Bury(w)
    <2>1. PICK d \in Docs : held[w] = d
      BY <1>7, <1>h, StepNames DEF CompleteJob, Requeue, Bury
    <2>2. /\ UNCHANGED <<docRow, chunks, removal>> /\ held'[w] \in {d, NoDoc}
          /\ \A e \in Docs \ {d} : jobStatus'[e] = jobStatus[e]
          /\ jobStatus[d] = "none" => jobStatus'[d] = "none"
      BY <1>7, <1>t, <2>1 DEF CompleteJob, Requeue, Bury, SetJobStatus, Leave, Catch, Keep
    <2>3. \A e \in Docs \ {d} : SameView(e)
      BY <1>d, <1>o, <2>1, <2>2, FarView
    <2>4. ~Finished(d)
      BY <2>1 DEF Finished
    <2>5. CASE docRow[d] # "own"
      <3>1. jobStatus[d] = "none"
        BY <1>7, <1>h, <2>1, <2>5, StepNames DEF CompleteJob, Requeue, Bury
      <3>2. SameView(d)
        BY <2>2, <2>4, <3>1, UnfinishedView DEF Finished
      <3> QED BY <2>3, <3>2, StutterView
    <2>6. CASE docRow[d] = "own"
      <3>1. jobStatus[d] # "none" /\ jobStatus[d] # "failed"
        BY <1>7, <1>h, <2>1, <2>6, DocsAssumption, StepNames
           DEF CompleteJob, Requeue, Bury, LeaseInv, Holder, Leased
      <3>2. CASE CompleteJob(w)
        <4>1. jobStatus'[d] = "done" /\ chunks[d] = OneOfEach
          BY <1>h, <1>t, <2>1, <2>6, <3>1, <3>2, StepNames DEF CompleteJob, SetJobStatus
        <4>2. CASE Finished(d)'
          <5>1. Published(d)
            BY <2>2, <2>4, <2>6, <3>1, <4>1, <4>2 DEF Published, PhaseOf, IndexOf
          <5> QED BY <2>3, <5>1, OneDocument
        <4>3. CASE ~Finished(d)'
          BY <2>2, <2>3, <2>4, <3>1, <4>1, <4>3, UnfinishedView, StutterView
        <4> QED BY <4>2, <4>3
      <3>3. CASE Requeue(w)
        <4>1. jobStatus'[d] = "queued"
          BY <1>t, <2>1, <3>1, <3>3 DEF Requeue, SetJobStatus
        <4>2. SameView(d)
          BY <2>2, <2>4, <3>1, <4>1, UnfinishedView DEF Finished
        <4> QED BY <2>3, <4>2, OneDocument
      <3>4. CASE Bury(w)
        <4>1. jobStatus'[d] = "failed"
          BY <1>t, <2>1, <3>1, <3>4 DEF Bury, SetJobStatus
        <4>2. GivenUp(d)
          BY <2>2, <2>4, <2>6, <3>1, <4>1 DEF GivenUp, PhaseOf, IndexOf, Finished
        <4> QED BY <2>3, <4>2, OneDocument
      <3> QED BY <1>7, <3>2, <3>3, <3>4
    <2> QED BY <2>5, <2>6
  <1> QED BY <1>1, <1>2, <1>3, <1>4, <1>5, <1>6, <1>7 DEF WorkerStep, ClaimStep, IngestStep, FailStep

LEMMA LifecycleInit == Init => Lifecycle!Init
  BY DEF Init, Lifecycle!Init, phase, index, PhaseOf, IndexOf, Finished

\* The queue implements the lifecycle: whatever is killed, retried or deleted
\* half way, a document is indexed or given up once and for good, and as a whole.
THEOREM QueueImplementsLifecycle == ASSUME LeaseCoversWork PROVE Spec => ImplementsLifecycle
  <1>1. QueueInv /\ LeaseInv /\ [Next]_vars => [Lifecycle!Next]_<<phase, index>>
    <2> SUFFICES ASSUME QueueInv, LeaseInv, [Next]_vars PROVE [Lifecycle!Next]_<<phase, index>>
      OBVIOUS
    <2>1. CASE \E d \in Docs : WebStep(d) \/ Lapse(d)
      BY <2>1, LifecycleOfWebStep
    <2>2. CASE \E w \in Workers : WorkerStep(w) \/ Tick(w) \/ Raise(w) \/ Crash(w)
      BY <2>2, LifecycleOfWorkerStep
    <2>3. CASE UNCHANGED vars
      BY <2>3, UnseenStep DEF vars, tables, jobs, web, worker
    <2> QED BY <2>1, <2>2, <2>3 DEF Next
  <1> QED BY <1>1, LifecycleInit, LeaseInvariant, PTL
          DEF Spec, ImplementsLifecycle, Lifecycle!Spec, Lifecycle!vars
=============================================================================
