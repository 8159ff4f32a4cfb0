------------------------- MODULE IngestQueueProofs -------------------------
(***************************************************************************)
(* Theorems about the ingest queue, for any uploads, any workers and any   *)
(* number of chunks, attempts and crashes.                                 *)
(***************************************************************************)
EXTENDS IngestQueue, FiniteSetTheorems, TLAPS

(***************************************************************************)
(* A worker holds a job exactly while it is inside process_job.            *)
(***************************************************************************)
HeldWhenBusy ==
    \A w \in Workers : IF pc[w] \in BusySteps THEN held[w] \in Docs ELSE held[w] = NoDoc

LEMMA StepNames ==
    /\ BusySteps = {"exists", "sweep", "open", "reading", "upsert", "clear", "insert",
                    "ready", "complete", "failRead", "requeue", "bury", "markFailed"}
    /\ Steps = {"idle", "reap", "reapMark", "down"} \cup BusySteps
    /\ IngestSteps \subseteq BusySteps
  BY DEF Steps, BusySteps, IngestSteps, FailSteps

\* One more row under one chunk_index.
LEMMA GrownType ==
    ASSUME NEW c \in [1..NChunks -> Nat], NEW i \in 1..NChunks
    PROVE  [c EXCEPT ![i] = c[i] + 1] \in [1..NChunks -> Nat]
  <1>1. c[i] + 1 \in Nat
    OBVIOUS
  <1> QED BY <1>1

LEMMA LeaveType ==
    ASSUME TypeWorker, NEW w \in Workers, NEW s \in Steps, Leave(w, s)
    PROVE  TypeWorker'
  BY CountsAssumption DEF TypeWorker, Leave, Goto, RowKinds

LEMMA CatchType ==
    ASSUME TypeWorker, NEW w \in Workers, NEW k \in {"storage", "error"}, Catch(w, k)
    PROVE  TypeWorker'
  BY CountsAssumption, StepNames DEF TypeWorker, Catch, Goto, RowKinds

LEMMA GotoType ==
    ASSUME TypeWorker, NEW w \in Workers, NEW s \in Steps, Goto(w, s),
           UNCHANGED <<held, token, target, written, cause, reaped>>
    PROVE  TypeWorker'
  BY DEF TypeWorker, Goto

LEMMA LeaveHeld ==
    ASSUME TypeWorker, HeldWhenBusy, NEW w \in Workers, NEW s \in Steps \ BusySteps, Leave(w, s)
    PROVE  HeldWhenBusy'
  BY StepNames DEF TypeWorker, HeldWhenBusy, Leave, Goto

LEMMA GotoHeld ==
    ASSUME TypeWorker, HeldWhenBusy, NEW w \in Workers, NEW s \in Steps, Goto(w, s),
           s \in BusySteps <=> pc[w] \in BusySteps, UNCHANGED held
    PROVE  HeldWhenBusy'
  BY StepNames DEF TypeWorker, HeldWhenBusy, Goto

LEMMA CatchHeld ==
    ASSUME TypeWorker, HeldWhenBusy, NEW w \in Workers, NEW k, pc[w] \in BusySteps, Catch(w, k)
    PROVE  HeldWhenBusy'
  BY StepNames DEF TypeWorker, HeldWhenBusy, Catch, Goto

(***************************************************************************)
(* Type correctness                                                        *)
(***************************************************************************)
LEMMA TypeInit == Init => TypeOK /\ HeldWhenBusy
  BY CountsAssumption, StepNames
     DEF Init, TypeOK, TypeTables, TypeJobs, TypeWeb, TypeWorker, NoChunks, RowKinds,
         DocStatuses, Stages, JobStatuses, UploadSteps, RemovalSteps, HeldWhenBusy

LEMMA TypeOfWebStep ==
    ASSUME TypeOK, HeldWhenBusy, NEW d \in Docs, WebStep(d) \/ Lapse(d)
    PROVE  TypeOK' /\ HeldWhenBusy'
  <1> USE DEF TypeOK, tables, jobs, worker, web
  <1>0. UNCHANGED worker
    BY DEF WebStep, Admit, Refuse, SaveBlob, CreatePending, Enqueue, DeleteRow, DeleteBlob,
           BreakUpload, BreakDelete, Lapse
  <1>w. TypeWorker' /\ HeldWhenBusy'
    BY <1>0 DEF TypeWorker, HeldWhenBusy
  <1>1. CASE Admit(d)
    BY <1>1, <1>w DEF Admit, TypeTables, TypeJobs, TypeWeb, UploadSteps
  <1>2. CASE Refuse(d)
    BY <1>2, <1>w DEF Refuse, TypeTables, TypeJobs, TypeWeb, UploadSteps
  <1>3. CASE SaveBlob(d)
    BY <1>3, <1>w DEF SaveBlob, TypeTables, TypeJobs, TypeWeb, UploadSteps
  <1>4. CASE CreatePending(d)
    <2>1. TypeTables'
      BY <1>4 DEF CreatePending, TypeTables, RowKinds, DocStatuses, Stages
    <2> QED BY <1>4, <1>w, <2>1 DEF CreatePending, TypeJobs, TypeWeb, UploadSteps
  <1>5. CASE Enqueue(d)
    <2>1. TypeJobs'
      BY <1>5 DEF Enqueue, TypeJobs, JobStatuses
    <2> QED BY <1>5, <1>w, <2>1 DEF Enqueue, TypeTables, TypeWeb, UploadSteps
  <1>6. CASE DeleteRow(d)
    <2>1. TypeTables'
      BY <1>6 DEF DeleteRow, TypeTables, RowKinds, DocStatuses, Stages, NoChunks
    <2> QED BY <1>6, <1>w, <2>1 DEF DeleteRow, TypeJobs, JobStatuses, TypeWeb, RemovalSteps
  <1>7. CASE DeleteBlob(d)
    BY <1>7, <1>w DEF DeleteBlob, TypeTables, TypeJobs, TypeWeb, RemovalSteps
  <1>8. CASE BreakUpload(d)
    <2>1. crashes' \in 0..MaxCrashes
      BY <1>8, CountsAssumption DEF BreakUpload
    <2> QED BY <1>8, <1>w, <2>1 DEF BreakUpload, TypeTables, TypeJobs, TypeWeb, UploadSteps
  <1>9. CASE BreakDelete(d)
    <2>1. crashes' \in 0..MaxCrashes
      BY <1>9, CountsAssumption DEF BreakDelete
    <2> QED BY <1>9, <1>w, <2>1 DEF BreakDelete, TypeTables, TypeJobs, TypeWeb, RemovalSteps
  <1>10. CASE Lapse(d)
    BY <1>10, <1>w DEF Lapse, TypeTables, TypeJobs, TypeWeb
  <1> QED BY <1>1, <1>2, <1>3, <1>4, <1>5, <1>6, <1>7, <1>8, <1>9, <1>10 DEF WebStep
LEMMA TypeOfWorkerStep ==
    ASSUME TypeOK, HeldWhenBusy, NEW w \in Workers,
           WorkerStep(w) \/ Tick(w) \/ Raise(w) \/ Crash(w)
    PROVE  TypeOK' /\ HeldWhenBusy'
  <1> USE DEF TypeOK, tables, jobs, worker, web, ingest, Keep
  <1>1. ASSUME NEW d \in Docs, Claim(w, d) PROVE TypeOK' /\ HeldWhenBusy'
    <2>1. attempts[d] + 1 \in 0..MaxAttempts
      BY <1>1, CountsAssumption DEF Claim, Claimable, TypeJobs
    <2>2. TypeJobs'
      BY <1>1, <2>1 DEF Claim, TypeJobs, JobStatuses
    <2>3. TypeWorker'
      BY <1>1, <2>1, StepNames DEF Claim, Goto, TypeJobs, TypeWorker
    <2>4. HeldWhenBusy'
      BY <1>1, StepNames DEF Claim, Goto, HeldWhenBusy, TypeWorker
    <2> QED BY <1>1, <2>2, <2>3, <2>4 DEF Claim, TypeTables, TypeWeb
  <1>2. CASE ClaimNothing(w)
    BY <1>2, StepNames, GotoType, GotoHeld DEF ClaimNothing, TypeTables, TypeJobs, TypeWeb
  <1>3. CASE Reap(w)
    <2>1. TypeJobs'
      BY <1>3 DEF Reap, TypeJobs, JobStatuses
    <2>2. TypeWorker' /\ HeldWhenBusy'
      BY <1>3, StepNames DEF Reap, Exhausted, Goto, TypeWorker, HeldWhenBusy
    <2> QED BY <1>3, <2>1, <2>2 DEF Reap, TypeTables, TypeWeb
  <1>4. CASE ReapMark(w)
    <2>1. TypeTables'
      BY <1>4 DEF ReapMark, SetDocStatus, TypeTables, DocStatuses, TypeWorker
    <2>2. TypeWorker' /\ HeldWhenBusy'
      BY <1>4, StepNames DEF ReapMark, Goto, TypeWorker, HeldWhenBusy
    <2> QED BY <1>4, <2>1, <2>2 DEF ReapMark, TypeJobs, TypeWeb
  <1>5. CASE CheckExists(w)
    BY <1>5, StepNames, GotoType, GotoHeld DEF CheckExists, TypeTables, TypeJobs, TypeWeb
  <1>6. CASE Sweep(w)
    BY <1>6, StepNames, LeaveType, LeaveHeld DEF Sweep, TypeTables, TypeJobs, TypeWeb
  <1>7. CASE OpenBlob(w)
    BY <1>7, StepNames, GotoType, GotoHeld, CatchType, CatchHeld
       DEF OpenBlob, TypeTables, TypeJobs, TypeWeb
  <1>8. ASSUME WriteStage(held[w], "reading") \/ WriteStage(held[w], "chunking")
                 \/ WriteStage(held[w], "embedding") \/ WriteStage(held[w], "indexing"),
               UNCHANGED <<docRow, docStatus, chunkCount, chunks>>
        PROVE  TypeTables'
    BY <1>8 DEF WriteStage, TypeTables, Stages
  <1>9. CASE ReportReading(w)
    BY <1>8, <1>9, StepNames, GotoType, GotoHeld DEF ReportReading, TypeJobs, TypeWeb
  <1>10. CASE Upsert(w)
    <2>1. TypeTables'
      BY <1>10 DEF Upsert, TypeTables, RowKinds, DocStatuses
    <2>2. TypeWorker' /\ HeldWhenBusy'
      BY <1>10, <2>1, StepNames DEF Upsert, Goto, TypeWorker, TypeTables, HeldWhenBusy
    <2> QED BY <1>10, <2>1, <2>2 DEF Upsert, TypeJobs, TypeWeb
  <1>11. CASE ClearChunks(w)
    <2>1. TypeTables'
      BY <1>11 DEF ClearChunks, NoChunks, TypeTables
    <2> QED BY <1>11, <2>1, StepNames, GotoType, GotoHeld DEF ClearChunks, TypeJobs, TypeWeb
  <1>12. CASE Tick(w)
    BY <1>8, <1>12 DEF Tick, TypeJobs, TypeWeb, TypeWorker, HeldWhenBusy
  <1>13. CASE InsertChunk(w)
    <2>0. held[w] \in Docs
      BY <1>13, StepNames DEF InsertChunk, HeldWhenBusy
    <2>1. CASE docRow[held[w]] = target[w]
      <3>1. written[w] + 1 \in 1..NChunks /\ written[w] \in Nat
        BY <1>13, CountsAssumption DEF InsertChunk, TypeWorker
      <3>2. TypeTables'
        <4> DEFINE grown == [chunks[held[w]] EXCEPT ![written[w] + 1] = chunks[held[w]][written[w] + 1] + 1]
        <4>1. grown \in [1..NChunks -> Nat]
          BY <2>0, <3>1, GrownType DEF TypeTables
        <4>2. chunks' = [chunks EXCEPT ![held[w]] = grown]
          BY <1>13, <2>1 DEF InsertChunk
        <4> HIDE DEF grown
        <4>3. chunks' \in [Docs -> [1..NChunks -> Nat]]
          BY <2>0, <4>1, <4>2 DEF TypeTables
        <4> QED BY <1>13, <4>3 DEF InsertChunk, TypeTables
      <3>3. TypeWorker' /\ HeldWhenBusy'
        BY <1>13, <2>1, <3>1, CountsAssumption DEF InsertChunk, TypeWorker, HeldWhenBusy
      <3> QED BY <1>13, <3>2, <3>3 DEF InsertChunk, TypeJobs, TypeWeb
    <2>2. CASE docRow[held[w]] # target[w]
      BY <1>13, <2>2, StepNames, CatchType, CatchHeld DEF InsertChunk, TypeTables, TypeJobs, TypeWeb
    <2> QED BY <2>1, <2>2
  <1>14. CASE ReportIndexing(w)
    BY <1>8, <1>14, StepNames, GotoType, GotoHeld DEF ReportIndexing, TypeJobs, TypeWeb
  <1>15. CASE MarkReady(w)
    <2>0. held[w] \in Docs /\ written[w] \in Nat
      BY <1>15, StepNames, CountsAssumption DEF MarkReady, HeldWhenBusy, TypeWorker
    <2>1. TypeTables'
      BY <1>15, <2>0 DEF MarkReady, SetDocStatus, TypeTables, DocStatuses, Stages
    <2> QED BY <1>15, <2>1, StepNames, GotoType, GotoHeld DEF MarkReady, TypeJobs, TypeWeb
  <1>16. ASSUME NEW d \in Docs, NEW s \in JobStatuses, SetJobStatus(d, s),
                UNCHANGED <<attempts, born, clock>>, lapsed' \in [Docs -> BOOLEAN]
         PROVE  TypeJobs'
    BY <1>16 DEF SetJobStatus, TypeJobs
  <1>17. CASE CompleteJob(w)
    <2>1. TypeJobs'
      BY <1>16, <1>17, StepNames DEF CompleteJob, HeldWhenBusy, TypeJobs, JobStatuses
    <2>2. TypeWorker' /\ HeldWhenBusy'
      BY <1>17, StepNames, LeaveType, LeaveHeld, CatchType, CatchHeld DEF CompleteJob
    <2> QED BY <1>17, <2>1, <2>2 DEF CompleteJob, TypeTables, TypeWeb
  <1>18. CASE Raise(w)
    BY <1>18, StepNames, CatchType, CatchHeld DEF Raise, TypeTables, TypeJobs, TypeWeb
  <1>19. CASE FailRead(w)
    <2>1. TypeWorker' /\ HeldWhenBusy'
      BY <1>19, StepNames, GotoType, GotoHeld, LeaveType, LeaveHeld DEF FailRead
    <2> QED BY <1>19, <2>1 DEF FailRead, TypeTables, TypeJobs, TypeWeb
  <1>20. CASE Requeue(w)
    <2>1. TypeJobs'
      BY <1>16, <1>20, StepNames DEF Requeue, HeldWhenBusy, TypeJobs, JobStatuses
    <2> QED BY <1>20, <2>1, StepNames, LeaveType, LeaveHeld DEF Requeue, TypeTables, TypeWeb
  <1>21. CASE Bury(w)
    <2>1. TypeJobs'
      BY <1>16, <1>21, StepNames DEF Bury, HeldWhenBusy, TypeJobs, JobStatuses
    <2>2. TypeWorker' /\ HeldWhenBusy'
      BY <1>21, StepNames, GotoType, GotoHeld, LeaveType, LeaveHeld DEF Bury
    <2> QED BY <1>21, <2>1, <2>2 DEF Bury, TypeTables, TypeWeb
  <1>22. CASE MarkFailed(w)
    <2>1. TypeTables'
      BY <1>22 DEF MarkFailed, SetDocStatus, TypeTables, DocStatuses
    <2> QED BY <1>22, <2>1, StepNames, LeaveType, LeaveHeld DEF MarkFailed, TypeJobs, TypeWeb
  <1>23. CASE Crash(w)
    BY <1>23, CountsAssumption, StepNames, LeaveType, LeaveHeld DEF Crash, TypeTables, TypeJobs, TypeWeb
  <1>24. CASE Restart(w)
    BY <1>24, StepNames, LeaveType, LeaveHeld DEF Restart, TypeTables, TypeJobs, TypeWeb
  <1> QED BY <1>1, <1>2, <1>3, <1>4, <1>5, <1>6, <1>7, <1>9, <1>10, <1>11, <1>12, <1>13, <1>14,
             <1>15, <1>17, <1>18, <1>19, <1>20, <1>21, <1>22, <1>23, <1>24
          DEF WorkerStep, ClaimStep, IngestStep, FailStep

\* Every table and every worker local keeps its type.
THEOREM TypeCorrect == Spec => [](TypeOK /\ HeldWhenBusy)
  <1>1. Init => TypeOK /\ HeldWhenBusy
    BY TypeInit
  <1>2. (TypeOK /\ HeldWhenBusy) /\ [Next]_vars => (TypeOK /\ HeldWhenBusy)'
    <2> SUFFICES ASSUME TypeOK, HeldWhenBusy, [Next]_vars PROVE (TypeOK /\ HeldWhenBusy)'
      OBVIOUS
    <2>1. CASE Next
      BY <2>1, TypeOfWebStep, TypeOfWorkerStep DEF Next
    <2>2. CASE UNCHANGED vars
      BY <2>2 DEF vars, tables, jobs, web, worker, TypeOK, TypeTables, TypeJobs, TypeWeb,
                  TypeWorker, HeldWhenBusy
    <2> QED BY <2>1, <2>2
  <1> QED BY <1>1, <1>2, PTL DEF Spec

(***************************************************************************)
(* The order in which the handlers write, which is what keeps a job, its   *)
(* document and its PDF together.                                          *)
(***************************************************************************)
\* A job exists only after its upload was accepted, and then as long as its row.
UploadOrder ==
    \A d \in Docs :
        /\ upload[d] # "accepted" => jobStatus[d] = "none" /\ attempts[d] = 0
        /\ upload[d] \in {"new", "admitted", "saved", "rejected"} =>
              docRow[d] # "own" /\ removal[d] = "no"
        /\ upload[d] = "saved" => d \in blobs
        /\ upload[d] = "accepted" /\ docRow[d] = "own" => jobStatus[d] # "none"

RemovalOrder == \A d \in Docs : removal[d] # "no" => docRow[d] # "own"

HeldOrder ==
    \A w \in Workers : held[w] # NoDoc =>
        /\ upload[held[w]] = "accepted"
        /\ pc[w] = "sweep" => docRow[held[w]] # "own"

TableInv == UploadOrder /\ RemovalOrder /\ ListedDocumentHasFile /\ JobHasDocument
QueueInv == TypeOK /\ HeldWhenBusy /\ TableInv /\ HeldOrder /\ TokensFence

\* What a step of a worker may do to its own locals without touching a table.
Stays(w) == UNCHANGED <<held, token>> /\ \E s \in Steps \ {"sweep"} : Goto(w, s)
Leaves(w) == \E s \in Steps \ BusySteps : Leave(w, s)

LEMMA WorkerView ==
    ASSUME QueueInv, NEW w \in Workers, Stays(w) \/ Leaves(w) \/ UNCHANGED <<pc, held, token>>,
           UNCHANGED <<upload, docRow, attempts>>
    PROVE  HeldOrder' /\ TokensFence'
  <1> USE DEF QueueInv, TypeOK, TypeWorker, HeldOrder, TokensFence, Goto
  <1>1. CASE Stays(w)
    BY <1>1 DEF Stays
  <1>2. CASE Leaves(w)
    BY <1>2, StepNames, DocsAssumption DEF Leaves, Leave
  <1>3. CASE UNCHANGED <<pc, held, token>>
    BY <1>3
  <1> QED BY <1>1, <1>2, <1>3

LEMMA TableView ==
    ASSUME TableInv, UNCHANGED <<blobs, docRow, jobStatus, attempts, upload, removal>>
    PROVE  TableInv'
  BY DEF TableInv, UploadOrder, RemovalOrder, ListedDocumentHasFile, JobHasDocument

LEMMA QueueOfWebStep ==
    ASSUME QueueInv, NEW d \in Docs, WebStep(d) \/ Lapse(d)
    PROVE  TableInv' /\ HeldOrder' /\ TokensFence'
  <1> USE DEF QueueInv, TableInv, UploadOrder, RemovalOrder, ListedDocumentHasFile, JobHasDocument,
              HeldOrder, TokensFence, TypeOK, TypeTables, TypeJobs, TypeWeb, TypeWorker,
              tables, jobs, worker
  <1>1. CASE Admit(d)
    BY <1>1 DEF Admit
  <1>2. CASE Refuse(d)
    BY <1>2 DEF Refuse
  <1>3. CASE SaveBlob(d)
    BY <1>3 DEF SaveBlob
  <1>4. CASE CreatePending(d)
    BY <1>4 DEF CreatePending
  <1>5. CASE Enqueue(d)
    BY <1>5 DEF Enqueue
  <1>6. CASE DeleteRow(d)
    BY <1>6 DEF DeleteRow
  <1>7. CASE DeleteBlob(d)
    BY <1>7 DEF DeleteBlob
  <1>8. CASE BreakUpload(d)
    BY <1>8 DEF BreakUpload
  <1>9. CASE BreakDelete(d)
    BY <1>9 DEF BreakDelete
  <1>10. CASE Lapse(d)
    <2>1. UNCHANGED <<blobs, docRow, jobStatus, attempts, upload, removal, pc, held, token>>
      BY <1>10 DEF Lapse, web
    <2> QED BY <2>1
  <1> QED BY <1>1, <1>2, <1>3, <1>4, <1>5, <1>6, <1>7, <1>8, <1>9, <1>10 DEF WebStep

LEMMA QueueOfWorkerStep ==
    ASSUME QueueInv, NEW w \in Workers, WorkerStep(w) \/ Tick(w) \/ Raise(w) \/ Crash(w)
    PROVE  TableInv' /\ HeldOrder' /\ TokensFence'
  <1> USE DEF tables, jobs, worker, web, ingest, Keep
  <1>h. pc[w] \in BusySteps => held[w] \in Docs /\ upload[held[w]] = "accepted"
    BY DocsAssumption DEF QueueInv, HeldWhenBusy, HeldOrder
  <1>1. ASSUME NEW d \in Docs, Claim(w, d) PROVE TableInv' /\ HeldOrder' /\ TokensFence'
    <2>1. jobStatus[d] # "none" /\ upload[d] = "accepted" /\ attempts[d] \in Nat
      BY <1>1, CountsAssumption
         DEF Claim, Claimable, QueueInv, TableInv, UploadOrder, TypeOK, TypeJobs
    <2>2. TableInv'
      BY <1>1, <2>1 DEF Claim, QueueInv, TableInv, UploadOrder, RemovalOrder,
                        ListedDocumentHasFile, JobHasDocument, TypeOK, TypeJobs
    <2>3. HeldOrder'
      BY <1>1, <2>1 DEF Claim, Goto, QueueInv, HeldOrder, TypeOK, TypeWorker
    <2>4. TokensFence'
      BY <1>1, <2>1, CountsAssumption
         DEF Claim, QueueInv, TokensFence, TypeOK, TypeWorker, TypeJobs
    <2> QED BY <2>2, <2>3, <2>4
  <1>2. CASE ClaimNothing(w)
    BY <1>2, WorkerView, TableView, StepNames DEF ClaimNothing, QueueInv, Stays
  <1>3. CASE Reap(w)
    <2>0. \A d \in Docs : jobStatus'[d] = "none" <=> jobStatus[d] = "none"
      BY <1>3 DEF Reap, Exhausted
    <2>1. TableInv'
      BY <1>3, <2>0 DEF Reap, QueueInv, TableInv, UploadOrder, RemovalOrder,
                        ListedDocumentHasFile, JobHasDocument
    <2> QED BY <1>3, <2>1, WorkerView, StepNames DEF Reap, Stays
  <1>4. CASE ReapMark(w)
    BY <1>4, WorkerView, TableView, StepNames DEF ReapMark, QueueInv, Stays
  <1>5. CASE CheckExists(w)
    <2>1. HeldOrder' /\ TokensFence'
      BY <1>5 DEF CheckExists, Goto, QueueInv, HeldOrder, TokensFence, TypeOK, TypeWorker
    <2> QED BY <1>5, <2>1, TableView DEF CheckExists, QueueInv
  <1>6. CASE Sweep(w)
    <2>0. held[w] \in Docs /\ upload[held[w]] = "accepted" /\ docRow[held[w]] # "own"
      BY <1>6, <1>h, StepNames, DocsAssumption DEF Sweep, QueueInv, HeldOrder
    <2>1. TableInv'
      BY <1>6, <2>0 DEF Sweep, QueueInv, TableInv, UploadOrder, RemovalOrder,
                        ListedDocumentHasFile, JobHasDocument
    <2> QED BY <1>6, <2>1, WorkerView, StepNames DEF Sweep, Leaves
  <1>7. CASE OpenBlob(w)
    BY <1>7, WorkerView, TableView, StepNames DEF OpenBlob, QueueInv, Stays, Catch
  <1>8. CASE ReportReading(w)
    BY <1>8, WorkerView, TableView, StepNames DEF ReportReading, QueueInv, Stays
  <1>9. CASE Upsert(w)
    <2>1. \A d \in Docs : docRow'[d] = "own" <=> docRow[d] = "own"
      BY <1>9 DEF Upsert, QueueInv, TypeOK, TypeTables
    <2>2. TableInv'
      BY <1>9, <2>1 DEF Upsert, QueueInv, TableInv, UploadOrder, RemovalOrder,
                        ListedDocumentHasFile, JobHasDocument
    <2>3. HeldOrder' /\ TokensFence'
      BY <1>9, <2>1, DocsAssumption DEF Upsert, Goto, QueueInv, HeldOrder, TokensFence, TypeOK, TypeWorker
    <2> QED BY <2>2, <2>3
  <1>10. CASE ClearChunks(w)
    BY <1>10, WorkerView, TableView, StepNames DEF ClearChunks, QueueInv, Stays
  <1>11. CASE Tick(w)
    BY <1>11, WorkerView, TableView DEF Tick, QueueInv
  <1>12. CASE InsertChunk(w)
    BY <1>12, WorkerView, TableView, StepNames DEF InsertChunk, QueueInv, Stays, Catch
  <1>13. CASE ReportIndexing(w)
    BY <1>13, WorkerView, TableView, StepNames DEF ReportIndexing, QueueInv, Stays
  <1>14. CASE MarkReady(w)
    BY <1>14, WorkerView, TableView, StepNames DEF MarkReady, QueueInv, Stays
  <1>15. ASSUME NEW d \in Docs, NEW s \in JobStatuses \ {"none"}, SetJobStatus(d, s),
                UNCHANGED <<blobs, docRow, attempts, upload, removal>>
         PROVE  TableInv'
    BY <1>15 DEF SetJobStatus, QueueInv, TableInv, UploadOrder, RemovalOrder,
                 ListedDocumentHasFile, JobHasDocument, TypeOK, TypeJobs
  <1>16. CASE CompleteJob(w)
    <2>1. TableInv'
      BY <1>15, <1>16, <1>h, StepNames DEF CompleteJob, JobStatuses
    <2>2. Stays(w) \/ Leaves(w)
      BY <1>16, StepNames DEF CompleteJob, Stays, Leaves, Catch
    <2> QED BY <1>16, <2>1, <2>2, WorkerView DEF CompleteJob
  <1>17. CASE Raise(w)
    BY <1>17, WorkerView, TableView, StepNames DEF Raise, QueueInv, Stays, Catch
  <1>18. CASE FailRead(w)
    BY <1>18, WorkerView, TableView, StepNames DEF FailRead, QueueInv, Stays, Leaves
  <1>19. CASE Requeue(w)
    <2>1. TableInv'
      BY <1>15, <1>19, <1>h, StepNames DEF Requeue, JobStatuses
    <2> QED BY <1>19, <2>1, WorkerView, StepNames DEF Requeue, Leaves
  <1>20. CASE Bury(w)
    <2>1. TableInv'
      BY <1>15, <1>20, <1>h, StepNames DEF Bury, JobStatuses
    <2> QED BY <1>20, <2>1, WorkerView, StepNames DEF Bury, Stays, Leaves
  <1>21. CASE MarkFailed(w)
    BY <1>21, WorkerView, TableView, StepNames DEF MarkFailed, QueueInv, Leaves
  <1>22. CASE Crash(w)
    BY <1>22, WorkerView, TableView, StepNames DEF Crash, QueueInv, Leaves
  <1>23. CASE Restart(w)
    BY <1>23, WorkerView, TableView, StepNames DEF Restart, QueueInv, Leaves
  <1> QED BY <1>1, <1>2, <1>3, <1>4, <1>5, <1>6, <1>7, <1>8, <1>9, <1>10, <1>11, <1>12, <1>13,
             <1>14, <1>16, <1>17, <1>18, <1>19, <1>20, <1>21, <1>22, <1>23
          DEF WorkerStep, ClaimStep, IngestStep, FailStep

LEMMA QueueInvariant == Spec => []QueueInv
  <1>1. Init => QueueInv
    BY TypeInit DEF Init, QueueInv, TableInv, UploadOrder, RemovalOrder, ListedDocumentHasFile,
                    JobHasDocument, HeldOrder, TokensFence
  <1>2. QueueInv /\ [Next]_vars => QueueInv'
    <2> SUFFICES ASSUME QueueInv, [Next]_vars PROVE QueueInv'
      OBVIOUS
    <2>1. CASE Next
      <3>1. TypeOK' /\ HeldWhenBusy'
        BY <2>1, TypeOfWebStep, TypeOfWorkerStep DEF Next, QueueInv
      <3>2. TableInv' /\ HeldOrder' /\ TokensFence'
        BY <2>1, QueueOfWebStep, QueueOfWorkerStep DEF Next
      <3> QED BY <3>1, <3>2 DEF QueueInv
    <2>2. CASE UNCHANGED vars
      <3>1. TypeOK' /\ HeldWhenBusy'
        BY <2>2 DEF vars, tables, jobs, web, worker, QueueInv, TypeOK, TypeTables, TypeJobs,
                    TypeWeb, TypeWorker, HeldWhenBusy
      <3>2. TableInv' /\ HeldOrder' /\ TokensFence'
        BY <2>2 DEF vars, tables, jobs, web, worker, QueueInv, TableInv, UploadOrder, RemovalOrder,
                    ListedDocumentHasFile, JobHasDocument, HeldOrder, TokensFence
      <3> QED BY <3>1, <3>2 DEF QueueInv
    <2> QED BY <2>1, <2>2
  <1> QED BY <1>1, <1>2, PTL DEF Spec

\* Attempt numbers fence workers off from one another, whatever the leases do.
THEOREM TokensAlwaysFence == Spec => []TokensFence
  BY QueueInvariant, PTL DEF QueueInv

\* A document in the user's list always has its PDF in the blob store.
THEOREM ListedDocumentAlwaysHasFile == Spec => []ListedDocumentHasFile
  BY QueueInvariant, PTL DEF QueueInv, TableInv

\* A job never outlives its document.
THEOREM JobAlwaysHasDocument == Spec => []JobHasDocument
  BY QueueInvariant, PTL DEF QueueInv, TableInv

\* A deleted document stays deleted: no worker that was still at its job, however
\* late it reports, brings the user's row or the job back (delete_doc, and the
\* UPDATEs of jobs_repo.py and documents_repo.py, which then affect no row).
RemovedStaysRemoved == \A d \in Docs : removal[d] # "no" => docRow[d] # "own" /\ jobStatus[d] = "none"

\* Nothing of a deleted document's row or job ever returns.
THEOREM RemovedForGood == Spec => []RemovedStaysRemoved
  <1>1. QueueInv => RemovedStaysRemoved
    BY DEF QueueInv, TableInv, RemovalOrder, JobHasDocument, RemovedStaysRemoved
  <1> QED BY <1>1, QueueInvariant, PTL

(***************************************************************************)
(* Chunk rows when leases lapse.  Two workers may then index a document at *)
(* once, and leave rows twice; each attempt adds a row to an index at most *)
(* once, because it inserts the batches in order and never goes back.      *)
(***************************************************************************)
\* Under one chunk_index there are never more rows than attempts at the job
\* (ingest_pdf, insert_chunks), whatever overlaps, lapses or is killed.
RowsWithinAttempts == \A d \in Docs, i \in 1..NChunks : chunks[d][i] <= attempts[d]

BeforeInserting == {"exists", "open", "reading", "upsert", "clear", "insert"}

\* The workers whose attempt may still insert the i-th row of a document.
Owing(d, i) == {w \in Workers : held[w] = d /\ pc[w] \in BeforeInserting /\ written[w] < i}

\* What is inserted and what may still be, together, is paid for by attempts.
RowsInv ==
    \A d \in Docs, i \in 1..NChunks :
        /\ IsFiniteSet(Owing(d, i))
        /\ chunks[d][i] + Cardinality(Owing(d, i)) <= attempts[d]

\* Nobody owes a row who did not before.
NoNewDebt == \A d \in Docs, i \in 1..NChunks : Owing(d, i)' \subseteq Owing(d, i)

NoNewRow == \A d \in Docs, i \in 1..NChunks : chunks'[d][i] <= chunks[d][i]

\* A table that stays, or in which a document's rows are deleted, has no new row.
LEMMA RowsStayOrGo ==
    ASSUME QueueInv, NEW e, chunks' = chunks \/ chunks' = [chunks EXCEPT ![e] = NoChunks]
    PROVE  NoNewRow
  <1> SUFFICES ASSUME NEW d \in Docs, NEW i \in 1..NChunks PROVE chunks'[d][i] <= chunks[d][i]
    BY DEF NoNewRow
  <1>1. chunks[d] \in [1..NChunks -> Nat]
    BY DEF QueueInv, TypeOK, TypeTables
  <1>2. chunks[d][i] \in Nat
    BY <1>1
  <1>3. chunks'[d] = chunks[d] \/ chunks'[d] = NoChunks
    BY DEF QueueInv, TypeOK, TypeTables
  <1>4. NoChunks[i] = 0
    BY DEF NoChunks
  <1> QED BY <1>2, <1>3, <1>4

LEMMA RowsFewer ==
    ASSUME QueueInv, RowsInv, QueueInv', NoNewDebt, NoNewRow, UNCHANGED attempts
    PROVE  RowsInv'
  <1> SUFFICES ASSUME NEW d \in Docs, NEW i \in 1..NChunks
               PROVE  /\ IsFiniteSet(Owing(d, i)')
                      /\ chunks'[d][i] + Cardinality(Owing(d, i)') <= attempts'[d]
    BY DEF RowsInv
  <1>1. IsFiniteSet(Owing(d, i)) /\ chunks[d][i] + Cardinality(Owing(d, i)) <= attempts[d]
    BY DEF RowsInv
  <1>2. /\ IsFiniteSet(Owing(d, i)')
        /\ Cardinality(Owing(d, i)') <= Cardinality(Owing(d, i))
    BY <1>1, FS_Subset DEF NoNewDebt
  <1>3. Cardinality(Owing(d, i)) \in Nat /\ Cardinality(Owing(d, i)') \in Nat
    BY <1>1, <1>2, FS_CardinalityType
  <1>4. /\ chunks[d][i] \in Nat /\ chunks'[d][i] \in Nat /\ attempts[d] \in Nat
        /\ chunks'[d][i] <= chunks[d][i] /\ attempts'[d] = attempts[d]
    BY CountsAssumption DEF QueueInv, TypeOK, TypeTables, TypeJobs, NoNewRow
  <1> QED BY <1>1, <1>2, <1>3, <1>4

\* A worker that does not claim moves on or leaves; it never goes back.
MovesOn(w) ==
    \/ \E s \in Steps : /\ Goto(w, s) /\ UNCHANGED <<held, written>>
                        /\ s \in BeforeInserting => pc[w] \in BeforeInserting
    \/ \E s \in Steps \ BeforeInserting :
          Goto(w, s) /\ (held' = [held EXCEPT ![w] = NoDoc] \/ UNCHANGED held)
                     /\ written' = [written EXCEPT ![w] = 0]
    \/ UNCHANGED <<pc, held, written>>

LEMMA MovingOnOwesNothing ==
    ASSUME QueueInv, NEW w \in Workers, MovesOn(w)
    PROVE  NoNewDebt
  BY DEF MovesOn, Goto, NoNewDebt, Owing, QueueInv, TypeOK, TypeWorker

LEMMA WorkersMoveOn ==
    ASSUME QueueInv, NEW w \in Workers, WorkerStep(w) \/ Tick(w) \/ Raise(w) \/ Crash(w),
           ~ \E d \in Docs : Claim(w, d), ~InsertChunk(w)
    PROVE  MovesOn(w)
  <1> USE StepNames DEF MovesOn, BeforeInserting, Keep, ingest, worker
  <1>1. CASE ClaimNothing(w) \/ Reap(w) \/ ReapMark(w)
    BY <1>1 DEF ClaimNothing, Reap, ReapMark, Goto
  <1>2. CASE CheckExists(w)
    BY <1>2 DEF CheckExists, Goto
  <1>3. CASE OpenBlob(w)
    BY <1>3 DEF OpenBlob, Catch, Goto
  <1>4. CASE ReportReading(w) \/ Upsert(w) \/ ClearChunks(w)
    BY <1>4 DEF ReportReading, Upsert, ClearChunks
  <1>5. CASE ReportIndexing(w) \/ MarkReady(w)
    BY <1>5 DEF ReportIndexing, MarkReady
  <1>6. CASE Sweep(w) \/ Requeue(w) \/ MarkFailed(w) \/ Crash(w) \/ Restart(w)
    BY <1>6 DEF Sweep, Requeue, MarkFailed, Crash, Restart, Leave
  <1>7. CASE Bury(w)
    BY <1>7 DEF Bury, Leave
  <1>8. CASE FailRead(w)
    BY <1>8 DEF FailRead, Leave, Goto
  <1>9. CASE Tick(w) \/ Raise(w)
    BY <1>9 DEF Tick, Raise, Catch
  <1>10. CASE CompleteJob(w)
    BY <1>10 DEF CompleteJob, Leave, Catch
  <1> QED BY <1>1, <1>2, <1>3, <1>4, <1>5, <1>6, <1>7, <1>8, <1>9, <1>10
          DEF WorkerStep, ClaimStep, IngestStep, FailStep

\* Only an insert makes more rows, and only a claim more attempts.
LEMMA WorkersAddNone ==
    ASSUME QueueInv, NEW w \in Workers, WorkerStep(w) \/ Tick(w) \/ Raise(w) \/ Crash(w),
           ~ \E d \in Docs : Claim(w, d), ~InsertChunk(w)
    PROVE  NoNewRow /\ UNCHANGED attempts
  <1> USE DEF tables, jobs
  <1>1. CASE ClearChunks(w)
    BY <1>1, RowsStayOrGo DEF ClearChunks
  <1>2. CASE ~ClearChunks(w)
    <2>1. UNCHANGED <<chunks, attempts>>
      BY <1>2 DEF WorkerStep, ClaimStep, IngestStep, FailStep, ClaimNothing, Reap, ReapMark,
            CheckExists, Sweep, OpenBlob, ReportReading, Upsert, ReportIndexing, MarkReady,
            CompleteJob, FailRead, Requeue, Bury, MarkFailed, Restart, Tick, Raise, Crash
    <2> QED BY <2>1, RowsStayOrGo
  <1> QED BY <1>1, <1>2

LEMMA WebAddsNone ==
    ASSUME QueueInv, NEW d \in Docs, WebStep(d) \/ Lapse(d)
    PROVE  NoNewRow /\ NoNewDebt /\ UNCHANGED attempts
  <1>1. UNCHANGED <<worker, attempts>>
    BY DEF WebStep, Admit, Refuse, SaveBlob, CreatePending, Enqueue, DeleteRow, DeleteBlob,
           BreakUpload, BreakDelete, Lapse, jobs, worker
  <1>2. NoNewDebt
    BY <1>1 DEF NoNewDebt, Owing, worker
  <1>3. CASE DeleteRow(d)
    BY <1>1, <1>2, <1>3, RowsStayOrGo DEF DeleteRow
  <1>4. CASE ~DeleteRow(d)
    <2>1. UNCHANGED chunks
      BY <1>4 DEF WebStep, Admit, Refuse, SaveBlob, CreatePending, Enqueue, DeleteBlob,
           BreakUpload, BreakDelete, Lapse, tables
    <2> QED BY <1>1, <1>2, <2>1, RowsStayOrGo
  <1> QED BY <1>3, <1>4

\* A claim is an attempt more, and one worker more that may insert each row.
LEMMA ClaimPays ==
    ASSUME QueueInv, QueueInv', RowsInv, NEW w \in Workers, NEW e \in Docs, Claim(w, e)
    PROVE  RowsInv'
  <1> SUFFICES ASSUME NEW d \in Docs, NEW i \in 1..NChunks
               PROVE  /\ IsFiniteSet(Owing(d, i)')
                      /\ chunks'[d][i] + Cardinality(Owing(d, i)') <= attempts'[d]
    BY DEF RowsInv
  <1>1. IsFiniteSet(Owing(d, i)) /\ chunks[d][i] + Cardinality(Owing(d, i)) <= attempts[d]
    BY DEF RowsInv
  <1>2. /\ chunks[d][i] \in Nat /\ chunks' = chunks /\ attempts[d] \in Nat
        /\ attempts'[d] = IF d = e THEN attempts[d] + 1 ELSE attempts[d]
    BY CountsAssumption DEF Claim, tables, QueueInv, TypeOK, TypeTables, TypeJobs
  <1>3. Owing(d, i)' \subseteq IF d = e THEN Owing(d, i) \cup {w} ELSE Owing(d, i)
    BY DEF Claim, Goto, ingest, Owing, QueueInv, TypeOK, TypeWorker
  <1>4. /\ IsFiniteSet(Owing(d, i) \cup {w})
        /\ Cardinality(Owing(d, i) \cup {w}) \in {Cardinality(Owing(d, i)), Cardinality(Owing(d, i)) + 1}
    BY <1>1, FS_AddElement
  <1>5. Cardinality(Owing(d, i)) \in Nat
    BY <1>1, FS_CardinalityType
  <1>6. CASE d = e
    <2>1. /\ IsFiniteSet(Owing(d, i)')
          /\ Cardinality(Owing(d, i)') <= Cardinality(Owing(d, i) \cup {w})
      BY <1>3, <1>4, <1>6, FS_Subset
    <2>2. Cardinality(Owing(d, i)') \in Nat
      BY <2>1, FS_CardinalityType
    <2> QED BY <1>1, <1>2, <1>4, <1>5, <1>6, <2>1, <2>2
  <1>7. CASE d # e
    <2>1. /\ IsFiniteSet(Owing(d, i)')
          /\ Cardinality(Owing(d, i)') <= Cardinality(Owing(d, i))
      BY <1>1, <1>3, <1>7, FS_Subset
    <2>2. Cardinality(Owing(d, i)') \in Nat
      BY <2>1, FS_CardinalityType
    <2> QED BY <1>1, <1>2, <1>5, <1>7, <2>1, <2>2
  <1> QED BY <1>6, <1>7

\* An insert adds the row that its worker owed.
LEMMA InsertPays ==
    ASSUME QueueInv, QueueInv', RowsInv, NEW w \in Workers, InsertChunk(w)
    PROVE  RowsInv'
  <1> DEFINE e == held[w]
             j == written[w] + 1
  <1>1. CASE docRow[e] # target[w] /\ Catch(w, "error") /\ UNCHANGED chunks
    <2>1. MovesOn(w)
      BY <1>1, StepNames DEF MovesOn, Catch, BeforeInserting
    <2>2. NoNewRow /\ UNCHANGED attempts
      BY <1>1, RowsStayOrGo DEF InsertChunk, jobs
    <2> QED BY <2>1, <2>2, MovingOnOwesNothing, RowsFewer
  <1>2. CASE /\ docRow[e] = target[w]
             /\ chunks' = [chunks EXCEPT ![e][j] = @ + 1]
             /\ written' = [written EXCEPT ![w] = j]
             /\ Keep
             /\ UNCHANGED <<pc, target>>
    <2> SUFFICES ASSUME NEW d \in Docs, NEW i \in 1..NChunks
                 PROVE  /\ IsFiniteSet(Owing(d, i)')
                        /\ chunks'[d][i] + Cardinality(Owing(d, i)') <= attempts'[d]
      BY DEF RowsInv
    <2>1. /\ IsFiniteSet(Owing(d, i)) /\ chunks[d][i] + Cardinality(Owing(d, i)) <= attempts[d]
          /\ Cardinality(Owing(d, i)) \in Nat
      BY FS_CardinalityType DEF RowsInv
    <2>2. /\ pc[w] = "insert" /\ e \in Docs /\ written[w] \in 0..NChunks /\ j \in 1..NChunks
          /\ attempts' = attempts
      <3>1. pc[w] = "insert" /\ written[w] < NChunks /\ UNCHANGED attempts
        BY DEF InsertChunk, jobs
      <3>2. e \in Docs /\ written[w] \in 0..NChunks
        BY <3>1, StepNames DEF QueueInv, HeldWhenBusy, TypeOK, TypeWorker
      <3> QED BY <3>1, <3>2, CountsAssumption
    <2>3. chunks[d][i] \in Nat /\ attempts[d] \in Nat
      BY CountsAssumption DEF QueueInv, TypeOK, TypeTables, TypeJobs
    <2>4. /\ pc' = pc /\ held' = held
          /\ \A v \in Workers : written'[v] = IF v = w THEN j ELSE written[v]
      BY <1>2 DEF Keep, QueueInv, TypeOK, TypeWorker
    <2>5. Owing(d, i)' \subseteq Owing(d, i)
      <3> SUFFICES ASSUME NEW v \in Workers, v \in Owing(d, i)' PROVE v \in Owing(d, i)
        BY DEF Owing
      <3>1. held[v] = d /\ pc[v] \in BeforeInserting /\ written'[v] < i
        BY <2>4 DEF Owing
      <3>2. written[v] < i
        BY <2>2, <2>4, <3>1
      <3> QED BY <3>1, <3>2 DEF Owing
    <2>6. CASE d = e /\ i = j
      <3>1. w \in Owing(d, i) /\ w \notin Owing(d, i)'
        BY <2>2, <2>4, <2>6 DEF Owing, BeforeInserting
      <3>2. /\ IsFiniteSet(Owing(d, i) \ {w})
            /\ Cardinality(Owing(d, i) \ {w}) = Cardinality(Owing(d, i)) - 1
        BY <2>1, <3>1, FS_RemoveElement
      <3>3. /\ IsFiniteSet(Owing(d, i)')
            /\ Cardinality(Owing(d, i)') <= Cardinality(Owing(d, i)) - 1
        BY <2>5, <3>1, <3>2, FS_Subset
      <3>4. Cardinality(Owing(d, i)') \in Nat
        BY <3>3, FS_CardinalityType
      <3>5. chunks'[d][i] = chunks[d][i] + 1
        BY <1>2, <2>6 DEF QueueInv, TypeOK, TypeTables
      <3> QED BY <2>1, <2>2, <2>3, <3>3, <3>4, <3>5
    <2>7. CASE ~(d = e /\ i = j)
      <3>1. /\ IsFiniteSet(Owing(d, i)')
            /\ Cardinality(Owing(d, i)') <= Cardinality(Owing(d, i))
        BY <2>1, <2>5, FS_Subset
      <3>2. Cardinality(Owing(d, i)') \in Nat
        BY <3>1, FS_CardinalityType
      <3>3. chunks'[d][i] = chunks[d][i]
        BY <1>2, <2>7 DEF QueueInv, TypeOK, TypeTables
      <3> QED BY <2>1, <2>2, <2>3, <3>1, <3>2, <3>3
    <2> QED BY <2>6, <2>7
  <1> QED BY <1>1, <1>2 DEF InsertChunk

\* Overlapping ingests may repeat a row, but no more often than there were attempts.
THEOREM RowsAlwaysWithinAttempts == Spec => []RowsWithinAttempts
  <1>1. Init => RowsInv
    <2> SUFFICES ASSUME Init, NEW d \in Docs, NEW i \in 1..NChunks
                 PROVE  /\ IsFiniteSet(Owing(d, i))
                        /\ chunks[d][i] + Cardinality(Owing(d, i)) <= attempts[d]
      BY DEF RowsInv
    <2>1. Owing(d, i) = {}
      BY DocsAssumption DEF Init, Owing
    <2> QED BY <2>1, FS_EmptySet DEF Init, NoChunks
  <1>2. QueueInv /\ QueueInv' /\ RowsInv /\ [Next]_vars => RowsInv'
    <2> SUFFICES ASSUME QueueInv, QueueInv', RowsInv, [Next]_vars PROVE RowsInv'
      OBVIOUS
    <2>1. ASSUME NEW d \in Docs, WebStep(d) \/ Lapse(d) PROVE RowsInv'
      BY <2>1, WebAddsNone, RowsFewer
    <2>2. ASSUME NEW w \in Workers, WorkerStep(w) \/ Tick(w) \/ Raise(w) \/ Crash(w) PROVE RowsInv'
      <3>1. CASE \E d \in Docs : Claim(w, d)
        BY <3>1, ClaimPays
      <3>2. CASE InsertChunk(w)
        BY <3>2, InsertPays
      <3>3. CASE ~InsertChunk(w) /\ ~ \E d \in Docs : Claim(w, d)
        BY <2>2, <3>3, WorkersMoveOn, MovingOnOwesNothing, WorkersAddNone, RowsFewer
      <3> QED BY <3>1, <3>2, <3>3
    <2>3. CASE UNCHANGED vars
      <3>1. UNCHANGED <<chunks, attempts, pc, held, written>>
        BY <2>3 DEF vars, tables, jobs, worker
      <3> QED BY <3>1 DEF RowsInv, Owing
    <2> QED BY <2>1, <2>2, <2>3 DEF Next
  <1>3. QueueInv /\ RowsInv => RowsWithinAttempts
    <2> SUFFICES ASSUME QueueInv, RowsInv, NEW d \in Docs, NEW i \in 1..NChunks
                 PROVE  chunks[d][i] <= attempts[d]
      BY DEF RowsWithinAttempts
    <2>1. /\ chunks[d][i] + Cardinality(Owing(d, i)) <= attempts[d]
          /\ Cardinality(Owing(d, i)) \in Nat
      BY FS_CardinalityType DEF RowsInv
    <2>2. chunks[d][i] \in Nat /\ attempts[d] \in Nat
      BY CountsAssumption DEF QueueInv, TypeOK, TypeTables, TypeJobs
    <2> QED BY <2>1, <2>2
  <1> QED BY <1>1, <1>2, <1>3, QueueInvariant, PTL DEF Spec

=============================================================================
