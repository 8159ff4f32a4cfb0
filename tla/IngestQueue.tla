---------------------------- MODULE IngestQueue ----------------------------
(***************************************************************************)
(* The crash-safe ingest queue of ChatDoc: the `jobs` and `documents`      *)
(* tables, the chunk rows, the blob store, the upload and delete handlers  *)
(* of the web process, and any number of ingest workers.                   *)
(*                                                                         *)
(* Every connection is opened with autocommit, so each SQL statement is a  *)
(* transaction of its own.  An action is one statement (or one blob-store  *)
(* call) together with the local control that follows it; a worker or a    *)
(* handler may be killed between any two of them.                          *)
(*                                                                         *)
(* An upload mints a fresh doc_key, used as documents.doc_name, as the     *)
(* storage key and as the only link the pipeline has to the row.  `Docs`   *)
(* is the set of those keys.  Under one key there may be the row the       *)
(* upload created ("own", the one jobs.document_id refers to) or, once     *)
(* that one is deleted, a row the pipeline's upsert inserts ("stray").     *)
(***************************************************************************)
EXTENDS Naturals, FiniteSets

CONSTANTS
    Docs,             \* the doc_keys of the uploads
    Workers,          \* the ingest worker processes
    NoDoc,            \* a worker that holds no job
    NChunks,          \* chunk rows that an ingest of one PDF writes
    MaxAttempts,      \* jobs.max_attempts
    MaxQueueDepth,    \* MAX_QUEUE_DEPTH
    MaxCrashes,       \* how many times a process may be killed
    LeaseCoversWork,  \* VISIBILITY_TIMEOUT_S exceeds the slowest ingest
    BlobErrors        \* the blob store may refuse a read of a key it has

ASSUME DocsAssumption == IsFiniteSet(Docs) /\ NoDoc \notin Docs
ASSUME CountsAssumption ==
    /\ NChunks \in Nat \ {0}
    /\ MaxAttempts \in Nat \ {0}
    /\ MaxQueueDepth \in Nat
    /\ MaxCrashes \in Nat
ASSUME FlagsAssumption == LeaseCoversWork \in BOOLEAN /\ BlobErrors \in BOOLEAN

VARIABLES
    blobs,      \* the storage keys that hold a PDF
    docRow,     \* which documents row exists under a doc_key
    docStatus,  \* documents.status
    docStage,   \* documents.stage
    chunkCount, \* documents.chunk_count
    chunks,     \* chunk rows of the document, by chunk_index
    jobStatus,  \* jobs.status
    attempts,   \* jobs.attempts
    lapsed,     \* jobs.visible_at < now()
    born,       \* jobs.created_at, as a rank
    clock,      \* how many jobs were ever enqueued
    upload,     \* where the POST /documents handler of a doc_key is
    removal,    \* where the DELETE /documents handler of a doc_key is
    pc,         \* where a worker is
    held,       \* the doc_key of the job a worker processes
    token,      \* JobRow.attempts of that job as claimed
    target,     \* which row the pipeline's document_id refers to
    written,    \* chunk rows written by this ingest
    cause,      \* what process_job caught
    reaped,     \* documents _reap_exhausted_jobs has still to mark
    crashes

tables == <<docRow, docStatus, docStage, chunkCount, chunks>>
jobs == <<jobStatus, attempts, lapsed, born, clock>>
web == <<upload, removal>>
ingest == <<target, written>>
worker == <<pc, held, token, target, written, cause, reaped>>
vars == <<blobs, tables, jobs, web, worker, crashes>>

(***************************************************************************)
(* Types                                                                   *)
(***************************************************************************)
RowKinds == {"none", "own", "stray"}
DocStatuses == {"none", "processing", "ready", "failed"}
Stages == {"none", "queued", "reading", "chunking", "embedding", "indexing", "done"}
JobStatuses == {"none", "queued", "processing", "done", "failed"}
UploadSteps == {"new", "admitted", "saved", "created", "accepted", "rejected", "broken"}
RemovalSteps == {"no", "rowGone", "done", "broken"}
IngestSteps == {"open", "reading", "upsert", "clear", "insert", "ready", "complete"}
FailSteps == {"failRead", "requeue", "bury", "markFailed"}
BusySteps == {"exists", "sweep"} \cup IngestSteps \cup FailSteps
Steps == {"idle", "reap", "reapMark", "down"} \cup BusySteps

NoChunks == [i \in 1..NChunks |-> 0]
OneOfEach == [i \in 1..NChunks |-> 1]

TypeTables ==
    /\ docRow \in [Docs -> RowKinds]
    /\ docStatus \in [Docs -> DocStatuses]
    /\ docStage \in [Docs -> Stages]
    /\ chunkCount \in [Docs -> Nat]
    /\ chunks \in [Docs -> [1..NChunks -> Nat]]

TypeJobs ==
    /\ jobStatus \in [Docs -> JobStatuses]
    /\ attempts \in [Docs -> 0..MaxAttempts]
    /\ lapsed \in [Docs -> BOOLEAN]
    /\ born \in [Docs -> Nat]
    /\ clock \in Nat

TypeWeb ==
    /\ upload \in [Docs -> UploadSteps]
    /\ removal \in [Docs -> RemovalSteps]

TypeWorker ==
    /\ pc \in [Workers -> Steps]
    /\ held \in [Workers -> Docs \cup {NoDoc}]
    /\ token \in [Workers -> 0..MaxAttempts]
    /\ target \in [Workers -> RowKinds]
    /\ written \in [Workers -> 0..NChunks]
    /\ cause \in [Workers -> {"none", "storage", "error"}]
    /\ reaped \in [Workers -> SUBSET Docs]

TypeOK ==
    /\ blobs \subseteq Docs
    /\ crashes \in 0..MaxCrashes
    /\ TypeTables
    /\ TypeJobs
    /\ TypeWeb
    /\ TypeWorker

Init ==
    /\ blobs = {}
    /\ docRow = [d \in Docs |-> "none"]
    /\ docStatus = [d \in Docs |-> "none"]
    /\ docStage = [d \in Docs |-> "none"]
    /\ chunkCount = [d \in Docs |-> 0]
    /\ chunks = [d \in Docs |-> NoChunks]
    /\ jobStatus = [d \in Docs |-> "none"]
    /\ attempts = [d \in Docs |-> 0]
    /\ lapsed = [d \in Docs |-> FALSE]
    /\ born = [d \in Docs |-> 0]
    /\ clock = 0
    /\ upload = [d \in Docs |-> "new"]
    /\ removal = [d \in Docs |-> "no"]
    /\ pc = [w \in Workers |-> "idle"]
    /\ held = [w \in Workers |-> NoDoc]
    /\ token = [w \in Workers |-> 0]
    /\ target = [w \in Workers |-> "none"]
    /\ written = [w \in Workers |-> 0]
    /\ cause = [w \in Workers |-> "none"]
    /\ reaped = [w \in Workers |-> {}]
    /\ crashes = 0

(***************************************************************************)
(* The web process: POST /documents and DELETE /documents/{id}             *)
(***************************************************************************)
Pending == {d \in Docs : jobStatus[d] \in {"queued", "processing"}}

\* Mutant of Admit: the limit itself is let through.
AdmitAtLimit(d) ==
    /\ upload[d] = "new"
    /\ upload' = [upload EXCEPT ![d] =
                    IF Cardinality(Pending) <= MaxQueueDepth THEN "admitted" ELSE "rejected"]
    /\ UNCHANGED <<blobs, tables, jobs, removal, worker, crashes>>

\* queue_depth() is read before the body is awaited; nothing reserves the slot.
Admit(d) ==
    /\ upload[d] = "new"
    /\ upload' = [upload EXCEPT ![d] =
                    IF Cardinality(Pending) < MaxQueueDepth THEN "admitted" ELSE "rejected"]
    /\ UNCHANGED <<blobs, tables, jobs, removal, worker, crashes>>

\* An oversized body is refused after it was read, before anything is stored.
Refuse(d) ==
    /\ upload[d] = "admitted"
    /\ upload' = [upload EXCEPT ![d] = "rejected"]
    /\ UNCHANGED <<blobs, tables, jobs, removal, worker, crashes>>

SaveBlob(d) ==
    /\ upload[d] = "admitted"
    /\ upload' = [upload EXCEPT ![d] = "saved"]
    /\ blobs' = blobs \cup {d}
    /\ UNCHANGED <<tables, jobs, removal, worker, crashes>>

CreatePending(d) ==
    /\ upload[d] = "saved"
    /\ upload' = [upload EXCEPT ![d] = "created"]
    /\ docRow' = [docRow EXCEPT ![d] = "own"]
    /\ docStatus' = [docStatus EXCEPT ![d] = "processing"]
    /\ docStage' = [docStage EXCEPT ![d] = "queued"]
    /\ UNCHANGED <<blobs, chunkCount, chunks, jobs, removal, worker, crashes>>

\* Mutant of Enqueue: the foreign key is dropped.
EnqueueUnchecked(d) ==
    /\ upload[d] = "created"
    /\ upload' = [upload EXCEPT ![d] = "accepted"]
    /\ jobStatus' = [jobStatus EXCEPT ![d] = "queued"]
    /\ clock' = clock + 1
    /\ born' = [born EXCEPT ![d] = clock']
    /\ UNCHANGED <<attempts, lapsed, blobs, tables, removal, worker, crashes>>

\* jobs.document_id references documents: if the row was deleted meanwhile,
\* the INSERT fails and the handler answers 500.
Enqueue(d) ==
    /\ upload[d] = "created"
    /\ \/ /\ docRow[d] = "own"
          /\ upload' = [upload EXCEPT ![d] = "accepted"]
          /\ jobStatus' = [jobStatus EXCEPT ![d] = "queued"]
          /\ clock' = clock + 1
          /\ born' = [born EXCEPT ![d] = clock']
          /\ UNCHANGED <<attempts, lapsed>>
       \/ /\ docRow[d] # "own"
          /\ upload' = [upload EXCEPT ![d] = "broken"]
          /\ UNCHANGED jobs
    /\ UNCHANGED <<blobs, tables, removal, worker, crashes>>

\* DELETE FROM documents cascades to chunks and jobs.  The row is listed, and
\* so deletable, from the moment create_pending_document commits.
DeleteRow(d) ==
    /\ docRow[d] = "own"
    /\ removal[d] = "no"
    /\ removal' = [removal EXCEPT ![d] = "rowGone"]
    /\ docRow' = [docRow EXCEPT ![d] = "none"]
    /\ docStatus' = [docStatus EXCEPT ![d] = "none"]
    /\ docStage' = [docStage EXCEPT ![d] = "none"]
    /\ chunkCount' = [chunkCount EXCEPT ![d] = 0]
    /\ chunks' = [chunks EXCEPT ![d] = NoChunks]
    /\ jobStatus' = [jobStatus EXCEPT ![d] = "none"]
    /\ UNCHANGED <<blobs, attempts, lapsed, born, clock, upload, worker, crashes>>

DeleteBlob(d) ==
    /\ removal[d] = "rowGone"
    /\ removal' = [removal EXCEPT ![d] = "done"]
    /\ blobs' = blobs \ {d}
    /\ UNCHANGED <<tables, jobs, upload, worker, crashes>>

\* The web process dies (or the store or the database refuses the next call)
\* between two steps of a handler: there is no compensation.
BreakUpload(d) ==
    /\ upload[d] \in {"admitted", "saved", "created"}
    /\ crashes < MaxCrashes
    /\ crashes' = crashes + 1
    /\ upload' = [upload EXCEPT ![d] = "broken"]
    /\ UNCHANGED <<blobs, tables, jobs, removal, worker>>

BreakDelete(d) ==
    /\ removal[d] = "rowGone"
    /\ crashes < MaxCrashes
    /\ crashes' = crashes + 1
    /\ removal' = [removal EXCEPT ![d] = "broken"]
    /\ UNCHANGED <<blobs, tables, jobs, upload, worker>>

(***************************************************************************)
(* A worker's locals                                                       *)
(***************************************************************************)
Goto(w, step) == pc' = [pc EXCEPT ![w] = step]

\* process_job or claim_job returned (or the process is gone): no local survives.
Leave(w, step) ==
    /\ Goto(w, step)
    /\ held' = [held EXCEPT ![w] = NoDoc]
    /\ token' = [token EXCEPT ![w] = 0]
    /\ target' = [target EXCEPT ![w] = "none"]
    /\ written' = [written EXCEPT ![w] = 0]
    /\ cause' = [cause EXCEPT ![w] = "none"]
    /\ reaped' = [reaped EXCEPT ![w] = {}]

\* An exception reaches process_job's except clauses.
Catch(w, kind) ==
    /\ Goto(w, "failRead")
    /\ cause' = [cause EXCEPT ![w] = kind]
    /\ target' = [target EXCEPT ![w] = "none"]
    /\ written' = [written EXCEPT ![w] = 0]
    /\ UNCHANGED <<held, token, reaped>>

Keep == UNCHANGED <<held, token, cause, reaped>>

(***************************************************************************)
(* claim_job and _reap_exhausted_jobs                                      *)
(***************************************************************************)
\* Mutants of Claimable: one attempt too many; the lease is not looked at.
ClaimableOnceMore(d) ==
    /\ jobStatus[d] = "queued" \/ (jobStatus[d] = "processing" /\ lapsed[d])
    /\ attempts[d] <= MaxAttempts
ClaimableUnleased(d) ==
    jobStatus[d] \in {"queued", "processing"} /\ attempts[d] < MaxAttempts

Claimable(d) ==
    /\ \/ jobStatus[d] = "queued"
       \/ jobStatus[d] = "processing" /\ lapsed[d]
    /\ attempts[d] < MaxAttempts

Claim(w, d) ==
    /\ pc[w] = "idle"
    /\ Claimable(d)
    /\ \A e \in Docs : Claimable(e) => born[d] <= born[e]
    /\ jobStatus' = [jobStatus EXCEPT ![d] = "processing"]
    /\ attempts' = [attempts EXCEPT ![d] = @ + 1]
    /\ lapsed' = [lapsed EXCEPT ![d] = FALSE]
    /\ Goto(w, "exists")
    /\ held' = [held EXCEPT ![w] = d]
    /\ token' = [token EXCEPT ![w] = attempts'[d]]
    /\ UNCHANGED <<blobs, tables, born, clock, web, ingest, cause, reaped, crashes>>

\* Mutant of ClaimNothing: claim_job returns None without reaping.
ClaimWithoutReap(w) == pc[w] = "idle" /\ UNCHANGED vars

ClaimNothing(w) ==
    /\ pc[w] = "idle"
    /\ ~ \E d \in Docs : Claimable(d)
    /\ Goto(w, "reap")
    /\ UNCHANGED <<blobs, tables, jobs, web, held, token, ingest, cause, reaped, crashes>>

Exhausted == {d \in Docs : /\ jobStatus[d] = "processing"
                           /\ lapsed[d]
                           /\ attempts[d] >= MaxAttempts}

Reap(w) ==
    /\ pc[w] = "reap"
    /\ jobStatus' = [d \in Docs |-> IF d \in Exhausted THEN "failed" ELSE jobStatus[d]]
    /\ reaped' = [reaped EXCEPT ![w] = Exhausted]
    /\ Goto(w, IF Exhausted = {} THEN "idle" ELSE "reapMark")
    /\ UNCHANGED <<blobs, tables, attempts, lapsed, born, clock, web,
                   held, token, ingest, cause, crashes>>

\* UPDATE documents ... WHERE id = job.document_id: only the upload's own row.
SetDocStatus(d, s) ==
    docStatus' = IF docRow[d] = "own" THEN [docStatus EXCEPT ![d] = s] ELSE docStatus

ReapMark(w) ==
    /\ pc[w] = "reapMark"
    /\ \E d \in reaped[w] :
          /\ SetDocStatus(d, "failed")
          /\ reaped' = [reaped EXCEPT ![w] = @ \ {d}]
          /\ Goto(w, IF reaped[w] = {d} THEN "idle" ELSE "reapMark")
    /\ UNCHANGED <<blobs, docRow, docStage, chunkCount, chunks, jobs, web,
                   held, token, ingest, cause, crashes>>

(***************************************************************************)
(* process_job and ingest_pdf                                              *)
(***************************************************************************)
\* Mutant of CheckExists: it asks for a pending document instead of any.
CheckPending(w) ==
    /\ pc[w] = "exists"
    /\ Goto(w, IF docStatus[held[w]] = "processing" THEN "open" ELSE "sweep")
    /\ Keep
    /\ UNCHANGED <<blobs, tables, jobs, web, ingest, crashes>>

CheckExists(w) ==
    /\ pc[w] = "exists"
    /\ Goto(w, IF docRow[held[w]] = "own" THEN "open" ELSE "sweep")
    /\ Keep
    /\ UNCHANGED <<blobs, tables, jobs, web, ingest, crashes>>

Sweep(w) ==
    /\ pc[w] = "sweep"
    /\ blobs' = blobs \ {held[w]}
    /\ Leave(w, "idle")
    /\ UNCHANGED <<tables, jobs, web, crashes>>

OpenBlob(w) ==
    /\ pc[w] = "open"
    /\ \/ /\ held[w] \in blobs
          /\ Goto(w, "reading")
          /\ Keep
          /\ UNCHANGED ingest
       \/ /\ held[w] \notin blobs \/ BlobErrors
          /\ Catch(w, "storage")
    /\ UNCHANGED <<blobs, tables, jobs, web, crashes>>

\* update_document_stage; the progress writer throttles it and swallows its
\* exceptions, so any tick may be lost.
WriteStage(d, s) ==
    \/ /\ docRow[d] = "own"
       /\ docStage' = [docStage EXCEPT ![d] = s]
    \/ docStage' = docStage

ReportReading(w) ==
    /\ pc[w] = "reading"
    /\ WriteStage(held[w], "reading")
    /\ Goto(w, "upsert")
    /\ Keep
    /\ UNCHANGED <<blobs, docRow, docStatus, chunkCount, chunks, jobs, web, ingest, crashes>>

\* Mutant of Upsert: the row it inserts is the user's again.
UpsertRevives(w) ==
    LET d == held[w] IN
    /\ pc[w] = "upsert"
    /\ docRow' = [docRow EXCEPT ![d] = "own"]
    /\ docStatus' = [docStatus EXCEPT ![d] = "processing"]
    /\ target' = [target EXCEPT ![w] = "own"]
    /\ Goto(w, "clear")
    /\ Keep
    /\ UNCHANGED <<blobs, docStage, chunkCount, chunks, jobs, web, written, crashes>>

\* INSERT ... ON CONFLICT (doc_name): a row under the key is kept as it is,
\* otherwise one is inserted with the schema's defaults (status 'ready', no user).
Upsert(w) ==
    LET d == held[w] IN
    /\ pc[w] = "upsert"
    /\ IF docRow[d] = "none"
       THEN /\ docRow' = [docRow EXCEPT ![d] = "stray"]
            /\ docStatus' = [docStatus EXCEPT ![d] = "ready"]
       ELSE UNCHANGED <<docRow, docStatus>>
    /\ target' = [target EXCEPT ![w] = docRow'[d]]
    /\ Goto(w, "clear")
    /\ Keep
    /\ UNCHANGED <<blobs, docStage, chunkCount, chunks, jobs, web, written, crashes>>

\* Mutant of ClearChunks: rows of an earlier attempt are not deleted.
ClearNothing(w) ==
    /\ pc[w] = "clear"
    /\ Goto(w, "insert")
    /\ Keep
    /\ UNCHANGED <<blobs, tables, jobs, web, ingest, crashes>>

ClearChunks(w) ==
    LET d == held[w] IN
    /\ pc[w] = "clear"
    /\ chunks' = IF docRow[d] = target[w] THEN [chunks EXCEPT ![d] = NoChunks] ELSE chunks
    /\ Goto(w, "insert")
    /\ Keep
    /\ UNCHANGED <<blobs, docRow, docStatus, docStage, chunkCount, jobs, web, ingest, crashes>>

\* The chunker reports "chunking" per page and the batch loop "embedding" per batch.
Tick(w) ==
    /\ pc[w] = "insert"
    /\ \E s \in {"chunking", "embedding"} : WriteStage(held[w], s)
    /\ UNCHANGED <<blobs, docRow, docStatus, chunkCount, chunks, jobs, web, worker, crashes>>

InsertChunk(w) ==
    LET d == held[w]
        i == written[w] + 1
    IN
    /\ pc[w] = "insert"
    /\ written[w] < NChunks
    /\ \/ /\ docRow[d] = target[w]
          /\ chunks' = [chunks EXCEPT ![d][i] = @ + 1]
          /\ written' = [written EXCEPT ![w] = i]
          /\ Keep
          /\ UNCHANGED <<pc, target>>
       \/ /\ docRow[d] # target[w]       \* foreign key violation
          /\ Catch(w, "error")
          /\ UNCHANGED chunks
    /\ UNCHANGED <<blobs, docRow, docStatus, docStage, chunkCount, jobs, web, crashes>>

ReportIndexing(w) ==
    /\ pc[w] = "insert"
    /\ written[w] = NChunks
    /\ WriteStage(held[w], "indexing")
    /\ Goto(w, "ready")
    /\ Keep
    /\ UNCHANGED <<blobs, docRow, docStatus, chunkCount, chunks, jobs, web, ingest, crashes>>

\* Mutant of MarkReady: it insists on the stage that a lost tick never wrote.
MarkReadyInOrder(w) ==
    LET d == held[w] IN
    /\ pc[w] = "ready"
    /\ IF docRow[d] = "own" /\ docStage[d] = "indexing"
       THEN /\ docStatus' = [docStatus EXCEPT ![d] = "ready"]
            /\ docStage' = [docStage EXCEPT ![d] = "done"]
            /\ chunkCount' = [chunkCount EXCEPT ![d] = written[w]]
       ELSE UNCHANGED <<docStatus, docStage, chunkCount>>
    /\ Goto(w, "complete")
    /\ Keep
    /\ UNCHANGED <<blobs, docRow, chunks, jobs, web, ingest, crashes>>

MarkReady(w) ==
    LET d == held[w] IN
    /\ pc[w] = "ready"
    /\ SetDocStatus(d, "ready")
    /\ IF docRow[d] = "own"
       THEN /\ docStage' = [docStage EXCEPT ![d] = "done"]
            /\ chunkCount' = [chunkCount EXCEPT ![d] = written[w]]
       ELSE UNCHANGED <<docStage, chunkCount>>
    /\ Goto(w, "complete")
    /\ Keep
    /\ UNCHANGED <<blobs, docRow, chunks, jobs, web, ingest, crashes>>

\* UPDATE jobs ... WHERE id = job_id: no condition on the status or the holder.
SetJobStatus(d, s) ==
    jobStatus' = IF jobStatus[d] = "none" THEN jobStatus ELSE [jobStatus EXCEPT ![d] = s]

\* complete_job is inside the try block: when its commit goes through but the
\* acknowledgement is lost, the job is done and process_job fails it all the same.
CompleteJob(w) ==
    /\ pc[w] = "complete"
    /\ SetJobStatus(held[w], "done")
    /\ Leave(w, "idle") \/ Catch(w, "error")
    /\ UNCHANGED <<blobs, tables, attempts, lapsed, born, clock, web, crashes>>

\* A page limit, a parse error, an empty text layer, a database error: any
\* step of the try block may raise.
Raise(w) ==
    /\ pc[w] \in IngestSteps
    /\ Catch(w, "error")
    /\ UNCHANGED <<blobs, tables, jobs, web, crashes>>

(***************************************************************************)
(* fail_job: a SELECT, then an UPDATE chosen from what it read             *)
(***************************************************************************)
\* Mutant of FailRead: attempts <= max_attempts.
FailReadOnceMore(w) ==
    /\ pc[w] = "failRead"
    /\ IF jobStatus[held[w]] = "none" THEN Leave(w, "idle")
       ELSE /\ Goto(w, IF attempts[held[w]] <= MaxAttempts THEN "requeue" ELSE "bury")
            /\ Keep
            /\ UNCHANGED ingest
    /\ UNCHANGED <<blobs, tables, jobs, web, crashes>>

FailRead(w) ==
    LET d == held[w]
        giveUp == IF cause[w] = "error" THEN "markFailed" ELSE "idle"
    IN
    /\ pc[w] = "failRead"
    /\ \/ /\ jobStatus[d] = "none"           \* the job row is gone
          /\ IF giveUp = "idle" THEN Leave(w, "idle")
             ELSE Goto(w, giveUp) /\ Keep /\ UNCHANGED ingest
       \/ /\ jobStatus[d] # "none"
          /\ Goto(w, IF attempts[d] < MaxAttempts THEN "requeue" ELSE "bury")
          /\ Keep
          /\ UNCHANGED ingest
    /\ UNCHANGED <<blobs, tables, jobs, web, crashes>>

\* Mutant of Requeue: the attempt that failed is refunded.
RequeueRefunded(w) ==
    LET d == held[w] IN
    /\ pc[w] = "requeue"
    /\ jobStatus[d] # "none"
    /\ jobStatus' = [jobStatus EXCEPT ![d] = "queued"]
    /\ lapsed' = [lapsed EXCEPT ![d] = TRUE]
    /\ attempts' = [attempts EXCEPT ![d] = @ - 1]
    /\ Leave(w, "idle")
    /\ UNCHANGED <<blobs, tables, born, clock, web, crashes>>

Requeue(w) ==
    LET d == held[w] IN
    /\ pc[w] = "requeue"
    /\ SetJobStatus(d, "queued")
    /\ lapsed' = IF jobStatus[d] = "none" THEN lapsed ELSE [lapsed EXCEPT ![d] = TRUE]
    /\ Leave(w, "idle")
    /\ UNCHANGED <<blobs, tables, attempts, born, clock, web, crashes>>

\* Mutant of Bury: nobody calls mark_document_failed.
BuryQuietly(w) ==
    /\ pc[w] = "bury"
    /\ jobStatus' = [jobStatus EXCEPT ![held[w]] = IF @ = "none" THEN @ ELSE "failed"]
    /\ Leave(w, "idle")
    /\ UNCHANGED <<blobs, tables, attempts, lapsed, born, clock, web, crashes>>

Bury(w) ==
    /\ pc[w] = "bury"
    /\ SetJobStatus(held[w], "failed")
    /\ IF cause[w] = "error"
       THEN Goto(w, "markFailed") /\ Keep /\ UNCHANGED ingest
       ELSE Leave(w, "idle")
    /\ UNCHANGED <<blobs, tables, attempts, lapsed, born, clock, web, crashes>>

MarkFailed(w) ==
    /\ pc[w] = "markFailed"
    /\ SetDocStatus(held[w], "failed")
    /\ Leave(w, "idle")
    /\ UNCHANGED <<blobs, docRow, docStage, chunkCount, chunks, jobs, web, crashes>>

(***************************************************************************)
(* Crashes, restarts and the clock                                         *)
(***************************************************************************)
Busy(w, d) == held[w] = d

\* visible_at passes.  If LeaseCoversWork, it never does under a live holder.
Lapse(d) ==
    /\ jobStatus[d] = "processing"
    /\ ~lapsed[d]
    /\ LeaseCoversWork => \A w \in Workers : ~Busy(w, d)
    /\ lapsed' = [lapsed EXCEPT ![d] = TRUE]
    /\ UNCHANGED <<blobs, tables, jobStatus, attempts, born, clock, web, worker, crashes>>

\* SIGKILL, OOM, spin-down, or an exception outside process_job's try block.
Crash(w) ==
    /\ pc[w] # "down"
    /\ crashes < MaxCrashes
    /\ crashes' = crashes + 1
    /\ Leave(w, "down")
    /\ UNCHANGED <<blobs, tables, jobs, web>>

Restart(w) ==
    /\ pc[w] = "down"
    /\ Leave(w, "idle")
    /\ UNCHANGED <<blobs, tables, jobs, web, crashes>>

(***************************************************************************)
(* The specification                                                       *)
(***************************************************************************)
ClaimStep(w) == (\E d \in Docs : Claim(w, d)) \/ ClaimNothing(w) \/ Reap(w) \/ ReapMark(w)
IngestStep(w) ==
    \/ CheckExists(w) \/ Sweep(w) \/ OpenBlob(w) \/ ReportReading(w) \/ Upsert(w)
    \/ ClearChunks(w) \/ InsertChunk(w) \/ ReportIndexing(w) \/ MarkReady(w) \/ CompleteJob(w)
FailStep(w) == FailRead(w) \/ Requeue(w) \/ Bury(w) \/ MarkFailed(w)
WorkerStep(w) == ClaimStep(w) \/ IngestStep(w) \/ FailStep(w) \/ Restart(w)

WebStep(d) ==
    \/ Admit(d) \/ Refuse(d) \/ SaveBlob(d) \/ CreatePending(d) \/ Enqueue(d)
    \/ DeleteRow(d) \/ DeleteBlob(d) \/ BreakUpload(d) \/ BreakDelete(d)

Next ==
    \/ \E d \in Docs : WebStep(d) \/ Lapse(d)
    \/ \E w \in Workers : WorkerStep(w) \/ Tick(w) \/ Raise(w) \/ Crash(w)

Spec == Init /\ [][Next]_vars

\* A live worker keeps running (run_forever), a killed one is restarted by the
\* platform, and time passes.  Nothing is promised of clients, of failures or
\* of progress ticks.
Fairness ==
    /\ \A w \in Workers : WF_vars(WorkerStep(w))
    /\ \A d \in Docs : WF_vars(Lapse(d))

FairSpec == Spec /\ Fairness

(***************************************************************************)
(* Properties that need nothing of the lease                               *)
(***************************************************************************)
\* The attempt number a worker claimed with is a fencing token: no two live
\* workers, however many leases lapsed under them, hold the same one for the
\* same job, and none is ahead of the row (claim_job, jobs_repo.py).
TokensFence ==
    \A w \in Workers : held[w] # NoDoc =>
        /\ token[w] \in 1..attempts[held[w]]
        /\ \A v \in Workers \ {w} : held[v] = held[w] => token[v] # token[w]

\* A listed document always has its PDF: upload stores the blob before the row,
\* delete removes the row before the blob, and a worker sweeps a blob only
\* after it saw the row gone (upload_doc, delete_doc, process_job).
ListedDocumentHasFile == \A d \in Docs : docRow[d] = "own" => d \in blobs

\* A job outlives neither its document nor a delete that overtakes the upload
\* handler between create_pending_document and enqueue_job (ON DELETE CASCADE).
JobHasDocument == \A d \in Docs : jobStatus[d] # "none" => docRow[d] = "own"

(***************************************************************************)
(* Properties that hold as long as a lease outlives the work done under it *)
(* (LeaseCoversWork), whatever is killed and restarted                     *)
(***************************************************************************)
\* No two workers ever process the same document (claim_job's visible_at).
ExclusiveIngest ==
    \A v, w \in Workers : held[v] = held[w] /\ held[v] # NoDoc => v = w

Indexed(d) ==
    /\ docStatus[d] = "ready"
    /\ docStage[d] = "done"
    /\ chunkCount[d] = NChunks
    /\ chunks[d] = OneOfEach

\* Once a job is done its document is ready, and its chunk rows are the whole
\* PDF: every chunk_index once, none left over from a killed or failed attempt.
DoneMeansIndexed == \A d \in Docs : jobStatus[d] = "done" => Indexed(d)

\* fail_job requeues only while there is budget: a queued job can be claimed.
QueuedHasBudget == \A d \in Docs : jobStatus[d] = "queued" => attempts[d] < MaxAttempts

AboutToMark(d) ==
    \E w \in Workers : d \in reaped[w] \/ (pc[w] = "markFailed" /\ held[w] = d)

\* The user learns of a dead-lettered job: unless a process was killed between
\* the two UPDATEs, or the blob store refused the PDF (process_job's
\* StorageError branch, which never calls mark_document_failed), the document
\* of a failed job is failed, or somebody is about to mark it.
DeadLetterReported ==
    \A d \in Docs :
        jobStatus[d] = "failed" =>
            docStatus[d] = "failed" \/ AboutToMark(d) \/ crashes > 0 \/ BlobErrors

\* The queue implements DocumentLifecycle.  A done job counts as indexed once no
\* worker holds it any more: one whose complete_job was not acknowledged does,
\* and still requeues or dead-letters it.
Finished(d) == jobStatus[d] = "done" /\ \A w \in Workers : held[w] # d

PhaseOf(d) ==
    IF Finished(d) THEN "indexed"
    ELSE IF jobStatus[d] = "failed" THEN "dead"
    ELSE IF docRow[d] = "own" THEN "pending"
    ELSE IF removal[d] = "no" THEN "absent" ELSE "gone"
IndexOf(d) == IF Finished(d) THEN chunks[d] ELSE NoChunks

phase == [d \in Docs |-> PhaseOf(d)]
index == [d \in Docs |-> IndexOf(d)]

Lifecycle == INSTANCE DocumentLifecycle WITH Empty <- NoChunks, Whole <- OneOfEach

\* Uploads are indexed or given up once and for good, atomically, and stay
\* removed: every step of the queue is a step of the lifecycle or none.
ImplementsLifecycle == Lifecycle!Spec

\* Every accepted job is eventually done, dead-lettered or deleted: no kill,
\* no retry and no exhausted budget leaves it queued or processing for ever.
JobSettles ==
    \A d \in Docs :
        jobStatus[d] \in {"queued", "processing"} ~> jobStatus[d] \in {"none", "done", "failed"}

\* Unless a process was killed, the client's poll ends: an accepted document
\* does not stay 'processing'.  The one way out is process_job's StorageError
\* branch: about to dead-letter the job on its last attempt, it never calls
\* mark_document_failed, and that document does stay 'processing' for ever.
RefusedForGood(d) ==
    \E w \in Workers : held[w] = d /\ pc[w] = "bury" /\ cause[w] = "storage"

DocumentSettles ==
    \A d \in Docs :
        docStatus[d] = "processing" /\ jobStatus[d] \in {"queued", "processing"}
            ~> docStatus[d] # "processing" \/ RefusedForGood(d) \/ crashes > 0

(***************************************************************************)
(* What the repository says of the code, and the code does not do          *)
(***************************************************************************)
\* api/worker.py: writes after a delete "just affect zero rows on a document
\* that's already gone".  The pipeline's upsert inserts a new row.
DeletedLeavesNoRow == \A d \in Docs : docRow[d] # "stray"
=============================================================================
