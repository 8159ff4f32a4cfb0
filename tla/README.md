# ChatDoc: verification project

ChatDoc answers questions about uploaded financial PDFs. A FastAPI web process
stores uploads and streams answers, ingest workers turn PDFs into chunk rows in
Postgres, a React client polls and reads the stream, and an evaluation harness
runs the same pipeline over benchmark questions under an API quota.

This directory holds TLA+ models of its core logic, the TLC configurations that
check them on small instances, and TLAPS proofs for every instance.

## The system

| Part | State | Operations | Model |
| --- | --- | --- | --- |
| Ingest queue, `api/jobs_repo.py`, `db/schema.sql` | `jobs` rows: status, attempts, visible_at | enqueue, claim, reap, complete, fail | `IngestQueue` |
| Ingest worker, `api/worker.py` | its locals, one claimed job | process_job, run_forever | `IngestQueue` |
| Ingest pipeline, `ingest/pipeline.py`, `ingest/db.py` | `documents` row, `chunks` rows | upsert, clear, insert per batch, progress ticks | `IngestQueue` (chunk contents abstracted) |
| Documents API, `api/routes_documents.py`, `api/documents_repo.py` | where a handler is | upload (depth check, blob, row, job), delete (row, blob) | `IngestQueue` |
| Blob storage, `api/storage.py` | which keys hold a PDF | save, delete, open_local | `IngestQueue` |
| Query stream, `api/routes_query.py`, `eval/gemini_client.py` | generator, worker thread, queue, SSE frames | check, retrieve, generate, poll, gate, send | `QueryStream` |
| Chat page, `ChatPage.tsx`, `queryStream.ts` | turns, abort controller, one loop per question | ask, read, cancel | `ChatPage` |
| Sessions and CSRF, `api/auth.py`, `api/deps.py`, `api/csrf.py`, `api/routes_auth.py` | `users` and `sessions` rows | register, login, check, touch, logout, me, verify | `Sessions` |
| Client auth, `AuthContext.tsx`, `api.ts` | cookies, each tab's user and token | page load, sign in, ask, receive | `Sessions` |
| Eval runners, quota guard, cache, `eval/runner*.py`, `quota_guard.py`, `cache.py` | cached answers, run results, call log, chunk rows | run, resume, back off, ingest on demand | `EvalRunner` |
| PDF chunker, `ingest/chunker.py` | none (pure) | pages to tables, groups, windows | `Chunker` |
| Hybrid retrieval, `ingest/retrieval.py` | none (pure) | fuse, cut, rerank | `Retrieval` |
| Grounding gate, `eval/gate.py`, `eval/normalize.py` | none (pure) | layers L1 to L3, numbers in text, grading | `GroundingGate`, `Figures` |
| Ablation, `eval/ablation.py` | none (pure) | table, risk-coverage sweep | `Ablation` |
| Negatives, `eval/build_negatives.py` | none (pure) | tiers N0 to N2, leak check | `Negatives` |
| Other web pages, embeddings, tracing, scripts, deployment | | | not modelled, see below |

How the parts interact: the upload handler saves a blob, inserts a `documents`
row and enqueues a job that refers to it by foreign key; a worker claims the
job, reads the blob, and writes chunks through the pipeline, which knows the
document only by its `doc_key`; the delete handler removes the row (jobs and
chunks cascade) and then the blob, without telling the worker. Nothing is shared
but the database and the blob store, every connection is opened with
autocommit, and so every single SQL statement is a transaction of its own.
A question needs a ready document: its handler retrieves chunks, a thread of its
own reads the model's stream and posts it into a queue, and the generator takes
it from there, gates the whole and sends frames to the chat page. Every request
carries the browser's two cookies, and a mutating one the tab's CSRF token. The
evaluation harness uses the same pipeline, retrieval and gate, with processes
that share a SQLite file and a daily call budget.

What is hard about it: workers and handlers interleave between any two
statements; a process may be killed anywhere (Render spin-down, OOM); a lease
may lapse under a slow worker; `fail_job` and `upload_doc` are several
statements without a transaction; a document may be deleted at every point of
its ingest. In a query the thread, the generator's poll and the server each
learn of a failure or a disconnect at their own time. On the chat page the loops
of several questions share one abort controller. Tabs share cookies but not
memory, and answers arrive late. Eval runners are killed, resumed and started
twice. And the pure parts turn on edges: windows, rounding, separators, scales.

## Modules

* `IngestQueue` is the detailed specification. One action is one SQL statement
  or one blob-store call, with the local control that follows it.
* `DocumentLifecycle` is what the queue promises of an upload: absent, pending,
  then indexed or dead once and for good, its index published as a whole, and
  gone for ever once removed. `IngestQueue` implements it under the mapping
  `phase`, `index` (`ImplementsLifecycle`).
* `MCIngestQueue` adds the symmetry sets for TLC.
* `IngestQueueProofs` and `IngestLeaseProofs` hold its theorems, the refinement
  among them.
* `UploadAdmission` adds to the queue a history of how many uploads were between
  depth check and enqueue at once, and of how often a done job was queued again;
  `UploadAdmissionProofs` its theorem.
* `QueryStream` is one question as the server answers it, `QueryStreamProofs`
  its theorems. `ChatPage` composes the page with it: several questions, of which
  the latest is answered by a `QueryStream`; `ChatPageProofs` its theorems.
* `Sessions` is the server's tables, the browser's cookies, the tabs' memory and
  the requests between them, `SessionsProofs` its theorems.
* `EvalRunner` is the evaluation harness: processes, shared file, index;
  `EvalRunnerProofs` its theorems.
* `Chunker`, `Figures`, `GroundingGate` (extends `Figures`), `Ablation` (extends
  the gate), `Negatives` and `Retrieval` are pure operators, `Sorting` is Python's
  `sorted()` for those that sort. `EvidenceCases` runs each once on every input of
  a bounded set, and `EvidenceProofs` proves what it checks for any inputs.
* The `MC` modules hold instances: symmetry sets, records, input sets.

### How IngestQueue's state corresponds to the code

`docRow`, `docStatus`, `docStage`, `chunkCount` and `chunks` are the
`documents` and `chunks` tables, by doc_key. A key has the row the upload
inserted ("own", which `jobs.document_id` refers to) or, after that row was
deleted, possibly the one `upsert_document` inserts ("stray"). `chunks[d][i]`
counts the rows with `chunk_index` i. `jobStatus`, `attempts`, `lapsed`
(`visible_at < now()`) and `born` (`created_at`) are the `jobs` row. `upload`
and `removal` are the program counters of the two handlers, `pc` and the other
worker variables the locals of `claim_job`, `process_job`, `ingest_pdf` and
`fail_job`. `token` is a copy of `JobRow.attempts`, which the code only logs.

Abstractions: a progress tick may always be lost (the writer throttles and
swallows exceptions); any step of the try block may raise; a PDF has `NChunks`
chunk rows, inserted one by one; `FOR UPDATE SKIP LOCKED` inside a single UPDATE
is an atomic claim of the oldest claimable job; time is only whether
`visible_at` has passed. Progress counters, error texts and file contents are
left out. `Crash` also stands for an exception outside `process_job`'s try
block, which ends `run_forever`.

`complete_job` is inside that try block: its commit may go through and its
acknowledgement be lost. `process_job` then fails a job that is done, which is
ingested again or, on its last attempt, dead-lettered. The abstract
specification therefore counts a job as indexed (`Finished`) only once no worker
holds it any more; until then it is pending, and nobody but the database knows.

### How QueryStream's state corresponds to the code

`srv` is the program counter of `query` and `event_stream`, `out` the frames
that its current branch still yields (a yield is a step of its own, `Send`, at
which the client may be gone), `text` the chunks in `full_text`. `thread`,
`deltas` and `whole` are the worker: where it is, what it has posted, and
whether the model's stream ended by itself. `queue` and `stop` are the queue
and `stop_event`, `sent` and `link` what the client has of the response: it is
`refused` by an HTTP error, `closed` cleanly, `reset` by an exception in the
generator, or the client is `gone`. `Cancelled` is the part of the ASGI server:
on a disconnect it ends the response's task, at an await or a yield.

Abstractions: a chunk of text is one `"delta"`; heartbeats and padding are
comments and left out; retrieval, building the prompt, JSON validation and the
gate are choices of their outcomes, an exception included where nothing catches
it (`Start`, `Gate`; an empty text never parses); a queue timeout happens while the
queue is empty.

`ChatPage` adds what the page shows (`turns`), whose controller is in
`abortRef`, whether the latest loop runs (`reading`) and how much it has read. A
question may be submitted when the last turn has its outcome, although the loop
of the one before may still wait for `done`: it is then one of the `late` loops,
of which only what the page can see is kept. `Submit` of a later question starts
a new request in `QueryStream`'s variables.

### How Sessions' state corresponds to the code

`accounts` and `row` are the `users` and `sessions` tables, by a session's number
instead of its random token; `jar` the two cookies; `tab` what `AuthContext` and
`api.ts` keep in memory (`user`, `csrfToken`). A request (`req`) carries what the
browser attached when it was sent and is handled one SQL statement at a time:
`Check` or `Purge` is `get_session_user`, `TouchRead` and `TouchWrite` are
`touch_session`, then the route. Its answer may come late, be lost, or come
to a page that was reloaded (`ReceiveAbandoned`). `used` in a row and `signedIn`
are history. "ask" stands for every route behind `get_current_user_id` other than
`me`: it reads (`Read`) or mutates after `verify_csrf` (`Mutate`). With `Ttl` 0 a
session idles out within one tick; times compare the same way.

A `me()` hands out the token that its request came with. If it is answered after
another tab's login, the old token is back in the csrf cookie beside the new session
cookie: the tab that signed in holds a token that no longer matches (the run
`token_drift`), and the tab that loaded shows the old account, holds the token of the
cookie, and acts for the new account. `overtaken` is the history of just that: a
login's cookies came while a `me()` was under way. The runs explore it as everything
else; `ActsAsShown` and `TokenInSync` say that nothing but it breaks them.

### How EvalRunner's state corresponds to the code

`proc` is a runner process (a `pc` between two calls of the cache, the guard or
Postgres), `result`, `cached` and `logged` the three tables of the SQLite file,
`index` the chunk rows by document key. A result records the pages its answer
came from. `Naive` runs are `runner.py`'s, which looks into `llm_cache`; the
others `runner_v2.py`'s, which never does and ingests on demand.

`Prompt` is what the key of `llm_cache` is made of: the question with its excerpts
for a naive run, the record for a gate run (its own for n1), and never the run. Who
finds an answer again is another matter (`Asker`): all naive runs share what the
cache holds, while a gate run only finds its own results. So the model answers a
prompt once for each asker, and once for each process that missed it at the same
time, which is what `AskedOnce` says of "never re-sent".

The guarded call of a gate run ingests, retrieves and asks, and any exception in it
ends the runner (`Error`), as a kill does anywhere (`Kill`). In mid-ingest both leave
the rows that were written, since the connection is in autocommit, and the next runner
takes them for the document. `torn` is the history of the documents this happened to,
or that two runners worked on at once. The token bucket, back-off delays, dry runs
and the call-log rows no decision reads are left out.

### How the pure modules correspond to the code

A page is blocks, headers and tables with vertical positions, a text is its
length; a ranking is a sequence of chunk ids, with scores that are fractions
instead of floats (sums that a float rounds to a tie stay apart, so the order of
near ties is the exact one); a value is in hundredths, a text for figures is a
sequence of digit runs and marks, which is all that the bounded regular
expressions can tell apart. An answer that is graded has numbers, each with the
marks before and after its digits (minus, brackets, and `Word` for a currency or a
word); which of them `_NUMBER_RE` takes, and what `strip` and `float` make of it, is
`NormalizeNumericAnswer`. A replay has splits, the answerable questions and tiers of
negatives, whose margins are pooled into the thresholds of all. In `KeptNegativesRefused`
a page is one chunk, with any scale or none. What a model, a reranker, a search or a
table detector returns is an input.

### Leases

`LeaseCoversWork` is the assumption that `jobs_repo.py` states of
`VISIBILITY_TIMEOUT_S`: a lease does not lapse while the worker that took it is
still alive and at work. Runs with FALSE let it lapse at any time.

## Runs

| Run | Question | Bounds |
| --- | --- | --- |
| `ingest_overlap` | What holds even if leases lapse under live workers? `TokensFence`, `ListedDocumentHasFile`, `JobHasDocument` | 2 workers, 1 document, 2 chunks, 3 attempts, 1 kill, transient blob errors |
| `ingest_lease` | What holds if leases outlive the work? `ExclusiveIngest`, `QueuedHasBudget`, `DeadLetterReported`, `DepthBounded`, `ImplementsLifecycle` | 2 workers, 2 documents, 1 chunk, 2 attempts, queue depth 1, 1 kill or one done job queued again |
| `ingest_liveness` | Does every job end, and the client's poll, but for a dead-lettered StorageError? `JobSettles`, `DocumentSettles`; is a done job wholly indexed? `DoneMeansIndexed` | 2 workers, 1 document, 2 chunks, 2 attempts, 2 kills, transient blob errors |
| `deleted_row` (violation) | Do writes after a delete affect zero rows? | 1 worker, 1 document |
| `late_failure` (violation) | Does `fail_job` requeue only with budget left? | 2 workers, 1 document, lapsing leases |
| `query_stream` | What does the page get of `/query`, whoever fails, cancels or leaves when? `GatedTextIsWhole`, `FramesInOrder`, `CleanEndIsDone`, `AnswerIsOwn`, `ResponseEnds`, `TurnSettles` | 3 questions, 2 chunks each |
| `missing_done` (violation) | Is every stream terminated by `done`? | 3 chunks |
| `torn_down` (violation) | Does a disconnect stop the upstream stream? | 3 chunks |
| `sessions` | Who is served, and for which account? `RevokedStaysRevoked`, `ServedWhileAlive`, `ActsAsShown`, `TokenInSync` | 2 accounts, 2 tabs, 2 requests in flight, 2 tokens, 3 instants, cap of one tick; one tab and one account are followed once time moves |
| `token_drift` (violation) | Does the token stay in sync with the cookie? | as `sessions`, in one instant |
| `eval_harness` | What do budget, cache and index hold over kills and restarts? `BudgetHolds`, `AskedOnce`, `AblatedStaysBlind`, `AnsweredFromWhole` | 2 processes, 5 runs (2 naive, 2 gate, 1 n1) over 2 questions, 2 pages, budget 1, `--max-calls` 1, 1 retry, 1 mishap, 1 midnight; no naive runner beside a gate runner, and after midnight no torn whole document |
| `evidence` | Do the pure parts do what they are for? `PhrasesKeptWhole`, `ParagraphsKept`, `GroupsTight`, `FusionRespectsRankers`, `BestAreServed`, `TruthIsFound`, `PassedIsGrounded`, `KeptNegativesRefused`, `GradedByQuantity`, `ConfigsNested`, `SweepCoversAll` | the input sets of `MCEvidenceCases`, 154,567 inputs |

Why the bounds are enough for the cases that matter: two workers are what a
lost lease, an exclusive ingest and a fencing token are about; two attempts give
one retry and one exhausted budget, three a stale holder of the first and a
live holder of the last; two kills exhaust a budget of two without `fail_job`
ever running; two documents at a depth of one make both uploads pass the check,
or one be refused; two chunks make a partial index. Jobs interact only through
the choice of the oldest. Two chunks of text are enough for none, some and all
of them to be read when a stream ends, fails or is stopped. Three questions let
a late loop meet a later cancel, and two tabs with two requests in flight a stale
token, a late answer and a touch after a logout. Two eval processes overlap, the
budget and the cap of calls are reached, two naive and two gate runs share
questions, and one file is indexed whole and ablated, in two pages, so that an
exception or a kill between them leaves a part. State constraints cut products
of what does not meet: `OneMishap` of a kill and a done job queued again (a kill
of a worker that still doubts its job is explored); `OneOverTime` follows one
tab and one account once time moves, for expiry is about one session and its
late requests, tabs and accounts about cookies and memory; `OneKind` keeps naive
and gate runners, which share the call log only, apart; `WholeOverMidnight`
keeps the midnight from what a torn index leads to, except for the ablated one.
The input sets of `evidence` lie around each edge: texts up to four windows long
with any blank positions, budgets met exactly, ties in every ranking, values
that round up, to even, and across a thousands separator, signs at the digits
and off them, splits with and without the widest margin, figures under a scale
and of two digits. The proofs remove the bounds of what they state.

`CHECK_DEADLOCK FALSE`: with every worker restarted nothing stops, but a
finite set of uploads may all be done, a killed worker in a run without
fairness may stay down, a question is over once its response ended, a page has
asked its last question, sessions are bounded in number and in time, and a case
of `EvidenceCases` is a single step. `eval_harness` does check deadlock.

Fairness (`Fairness`): weak fairness of each worker's next step, because
`run_forever` loops; of the restart, because the platform restarts a killed
container (an inline thread that dies of an exception is only restarted with
its process, so `JobSettles` is about the deployment that restarts); and of
`Lapse`, because time passes. Clients, failures, kills and ticks have none.
`ResponseEnds` assumes that the event loop and the thread go on (`FairSpec`); in
particular that the model's stream delivers, ends or fails some time. The code
sets no timeout on it, so while it hangs the response only sends heartbeats.
`TurnSettles` (`PageSpec`) assumes in addition that the page's loop reads on.
`Sessions` and `EvalRunner` state no fairness: a user may do nothing for ever, and
whether a runner is started again is up to a person.

## Proofs

`IngestQueueProofs`, from the constants' assumptions alone: `TypeCorrect`, then
`QueueInv`, which adds to the type invariant that a worker holds a job exactly
while it is inside `process_job` (`HeldWhenBusy`), what each step of the upload
and delete handlers implies of the tables (`UploadOrder`, `RemovalOrder`), and
that a held job was accepted, and a document about to be swept is gone
(`HeldOrder`). Without these `TokensFence`, `ListedDocumentHasFile` and
`JobHasDocument` are not inductive: a blob is only safe from a sweep because a
deleted row never comes back under its id, which is `RemovedForGood`.

Where leases lapse two ingests of one document may overlap and leave a chunk row
twice, and a job may be done with a part of its rows. What remains is
`RowsAlwaysWithinAttempts`. `RowsInv` counts the workers that may still insert the
i-th row (`Owing`): rows and owing workers together never exceed the attempts, since
only a claim adds to the debt, and it adds an attempt; an insert moves a worker from
one count to the other (`InsertPays`), and all other steps move on (`MovesOn`). This
one and `RemovedForGood` are properties that no run checks; they are stated next to
their proofs.

`IngestLeaseProofs`, assuming `LeaseCoversWork`: `LeaseInv` says that a holder
has an unlapsed lease, or is about to fail a job that it completed itself without
learning so, or has just dead-lettered it (`Holder`), that the
tables show what the holder has done so far (`Progress`: after n inserts the
chunk rows are exactly the first n), that what a reaper still has to mark is
dead-lettered for good (`Reaper`), and the properties themselves per job
(`Job`). From it `ExclusiveIngest`, `DoneMeansIndexed`, `QueuedHasBudget` and
`DeadLetterReported` follow for any uploads, workers, chunks, attempts and kills.
Two lemmas carry the frame conditions: `RowStep` (a step outside the workers
that touches one document) and `HeldStep` (a step of the one holder).

From it also, in the same module, the queue implements `DocumentLifecycle`
(`QueueImplementsLifecycle`). Most steps leave phase and
index alone (`FarView`, `UnfinishedView`). An index is published, by `Progress` with
every row exactly once, when `complete_job` is acknowledged, or when a worker that
did not learn of it is killed before it fails the job; the reaper and `fail_job`
bury only what is not `Finished`, or what is already dead.

`QueryStreamProofs`: `QueueInv` says that the queue holds exactly the chunks not
yet read, then an error if the stream failed (`Backlog`), as long as the
generator still reads; so an `"end"` at its head means that everything was read
and nothing failed. `FrameInv` relates the frames sent to those still to send in
each branch. `GatedTextAlwaysWhole`, `FramesAlwaysInOrder` and
`CleanEndAlwaysDone` follow for any number of chunks.
They are theorems of one question (`Spec`).

`ChatPageProofs` lifts them to every question that a page asks (`PageSpec`,
`EveryQuestionStreams`): a page step is a step of `QueryStream`, leaves its
variables alone, or is the `Submit` that puts them back to its initial state.
`PageInv` adds that the page has read no more than was sent, that a turn which is
still generating has a loop that reads and has read no outcome (`Waiting`), and
that a turn with an answer or a refusal has read it. It gives
`TurnsAnswerTheirOwn`, and `NobodyLeftGenerating`: no turn hangs without a loop.

`UploadAdmissionProofs`, assuming `LeaseCoversWork`: `AdmissionInv` counts the
pending jobs and the uploads past the check together, which stay below the limit
plus the largest crowd. Admitting is only possible below the limit, an enqueue
moves an upload from one count to the other, and by `LeaseInv` a requeue puts back
a job that was pending already or one that its own holder completed, which `revived`
counts (`Regrows`). `QueueDepthAlwaysBounded` follows for any number of uploads.
Where leases lapse, `LeaseInv` is lost, and the argument with it.

`SessionsProofs`: `SessionInv` says where a request of each kind can be and what it
then carries (`StageInv`), that nobody holds a number not yet minted (`FreshInv`),
and that no expiry, in a row or computed and not yet written, lies further than
`Ttl` from the row's last use (`AgeInv`). A touch is a read and a later write, so
without the last two a late write could revive or extend a session: they give
`RevokedForGood` and `NeverServedLate` for any numbers of accounts, tabs and
requests. `TokenInv` holds as long as nothing was `overtaken`: the two cookies are those
of one session (`CookiesPaired`), a tab that shows a user has a token of that user's
(`TabsPaired`), and so has an answer on its way; what a `me()` under way will put in
the jar is there already (`Paired`). `ActsOnlyAsShown` and
`TokensStayInSync` follow without any assumption on users.

`EvalRunnerProofs`: `RunnerInv` bounds what is indexed under a key, in a runner's
hands and in a result, which is `AblatedNeverSees`. `BudgetInv` counts: calls
answered and not logged are those of runners just answered plus the lost ones, and
whoever is past the check passed it while there was room; `BudgetNearlyHolds` adds
up to one call over for each further process. `AskedInv(k)` counts in the same way,
for each key: the answers so far, and the processes that missed the answer but would
find it now (`Again`), are at most as many as there are processes for each asker that
finds it (`Served`), plus those that hold an answer not yet kept, plus the mishaps
(`NeverAskedAgain`). `WholeInv(k)` is about one document that is not `torn`: at
most one gate runner works on it, its rows are none, all, or what that runner has
written so far (`Settled`), and what was retrieved and answered is the whole
(`WholeDocumentAnswers`).

`EvidenceProofs` is about the pure modules: a case is one step, so each theorem is
a lemma about operators.

* The gate: `EveryLayer` (a verdict passes when each requested layer does) gives
  `PassedAlwaysGrounded`, `StricterNeverAnswersMore` and, with `ThresholdsRise` and
  `SweepFalls` on the pooled margins, `SweepAlwaysCoversAll`.
* Figures: `PrintedDigits` and `OccursBetween` give `TruthAlwaysFound`.
  `PassesIfFound` and `FoundIfOverlooked` (each other variant the gate looks for is one
  the leak check looked for) give `KeptPassesJustOverlooked`, with
  `NoVariantOverlooked` (three whole digits and no scale leave nothing to overlook)
  `KeptNegativesAlwaysRefused`. `WhatIsRead` and `SignsTaken` (which marks the regular
  expression and `strip` make a sign) with `MatchIsNear` give `AlwaysGradedByQuantity`.
* Windows: `LongTextsKept` is the step-and-overlap arithmetic of
  `PhrasesAlwaysWhole`.
* Sorting: `SortedInOrder` (a finite set under a strict total order comes out whole,
  once and in order, because the number of predecessors is an injection) and
  `OrderedByPlace` (falling scores with places for ties are such an order). With
  `SumsOrdered` on fractions they give `FusionFollowsRankers` and `BestAlwaysServed`.
* Chunks: the paragraph loop, the sums of lengths and sequences laid end to end are
  computed in order, so what they return takes an induction over 0..n. The library's
  induction theorems take an operator, which the provers cannot instantiate;
  `Stepwise` and `UpTo` argue instead from the least counterexample (`WFMin`, < on Nat
  being well founded), and `Recursion` shows that a recursive function over 0..n exists.
  The loop keeps `Tidy`: the groups closed so far and the one being filled are the
  first i paragraphs, each once and in order, and a group was closed only when the
  next paragraph did not fit or its section changed. `GroupsAlwaysTight` is `Tidy` at
  the end of the loop. With the offsets of the paragraphs in a joined text
  (`OffsetsWithin`) and the windows over it (`PhraseInWindow`) it gives
  `ParagraphsAlwaysKept`.

What they assume of the inputs is in `CasesAssumption`, which TLC evaluates: values
below `MaxValue` (a run of digits has at most `MaxWidth`), rankings without
repetition, scores that are numbers, scale words a factor of two or more apart, and
no digit right before the text of a figure; documents are sequences of pages, with
sequences of blocks and tables, of any number and any lengths. `NegativesAssumption` allows any
threshold of up to three digits, `AblationAssumption` any positive epsilon.

Only model-checked: liveness (`JobSettles`, `DocumentSettles`, `ResponseEnds`,
`TurnSettles`), which is out of the prover's reach. Every invariant and action
property that a passing run checks is also a theorem.

## What the code does not do as it says

See "findings" in `PROJECT.json`: a delete before the pipeline's upsert leaves
a ready document without a user; `fail_job` can requeue a job whose budget is
spent, which is then stuck; an exception in the gate, or in building the prompt,
ends a stream without `done`; a disconnect the server sees first does not stop the
upstream stream; a `me()` answered after another tab's login puts the old CSRF token
back.

Properties that pass state these as their exception, and say that there is no other:

* A `StorageError` is retried, against `worker.py` 113-115 ("rather than retrying a job
  that can never succeed"), and dead-lettered without `mark_document_failed` (112-117):
  that document stays 'processing' and its client polls for ever (`RefusedForGood` in
  `DocumentSettles`).
* `runner_v2.py` records under `llm_cache`'s key but never looks there (177-201), so a
  second gate run pays for every answer again, against `cache.py` 7-9 and `runner.py`
  5-6 ("never re-sent"). The default run id contains the date: "resume tomorrow"
  (`quota_guard.py` 119) works only with `--run-id` (`Askers` in `AskedOnce`).
* An exception or a kill in mid-ingest, or two gate runners on one document, leave a
  part of it, which `ensure_ingested` takes for a document that "already made it into
  Postgres" (`ingest/db.py` 40-53) and serves for good (`torn` in `AnsweredFromWhole`).
* Grading overlooks a sign that does not touch the digits (`normalize.py` 26, 77-83):
  "-$473 million" reads as a gain, and "-(473)" as no number. In the repository's
  data the gold value of financebench_id_00299, "-$473 million", is stored as
  473000000.0, and the right reply "$ (473) million" is graded wrong (`SignCounts` in
  `GradedByQuantity`).
* The leak check knows no scale and wants three digits; the gate takes figures in the
  unit of a scale, and of two digits. A 'negative' whose figure stands on its pages in
  such a form is kept, and its gold value passes L3a (`Overlooked` in
  `KeptNegativesRefused`).
* A job whose `complete_job` is not acknowledged is done and failed: it is queued
  again, counts in the depth, and on its last attempt is dead-lettered (`revived` in
  `DepthBounded`, `Finished` in `ImplementsLifecycle`).
* In the sweep the thresholds are pooled: a split without the widest margin ends with
  coverage 0 (`SweepCoversAll`).

The models showed further behaviours that no text of the repository denies:

* `abortRef` is shared: the late end of one question's stream clears the next
  one's controller, `onCancel` then aborts nothing, and the cancelled turn may
  later show an answer. A connection that breaks after the outcome but before the
  end replaces the answer shown by an error (`ChatPage.tsx` 107-120).
* The gate does not find figures printed with trailing zeros ("12.70"), in
  parentheses, or rounded to one decimal; it does find 577 in "1,577", which is a
  boundary to its pattern.
* With two chunks or more, L1 at threshold 0 refuses nothing: scores are sorted.
* A text block that touches a table's box is dropped from the prose, also where
  it only abuts.

## Not modelled

* Embeddings, tracing, the cross-encoder, Postgres' two searches, PyMuPDF's table
  and header detection: numbers and layout, no control; their results are inputs.
* Scale and currency notes, Markdown, `_clean`: wording.
* The documents page, the progress bar (its state is one `max()`), the PDF
  viewer, the landing page: rendering of polled state.
* `run_retrieval_eval.py`, the analysis scripts, dataset downloads, deployment:
  one pass over data, or configuration.
* Liveness of `EvalRunner` ("re-running completes a run"): its state graph is too
  large to check under fairness within the bounds that make it interesting.
* Query and ingest in one state: a re-ingest during a generation is the query
  model's choice of what retrieval returns.

## Plan

1. (done) The ingest queue, its abstract specification, its safety proofs.
2. (done) `QueryStream` with its proofs, and `ChatPage` over it.
3. (done) `UploadAdmission` with its proof.
4. (done) `Sessions`, `EvalRunner`, and the pure modules, model-checked.
5. (done) Proofs of `Sessions`, `EvalRunner`, `ChatPage` and the pure modules.
6. (done) The paragraph loop as a recursive function, `GroupsTight` and
   `ParagraphsKept` as theorems; what of the ingest properties survives lapsing leases.
7. (done) The cases that premises used to leave out: late page loads, exceptions in
   mid-ingest, the real cache key, signs as text, pooled thresholds, scales against
   the leak check, a lost acknowledgement.
8. Left: the parts under "Not modelled"; first the evaluation of retrieval, whose
   metrics are pure functions of rankings.
