----------------------------- MODULE EvalRunner -----------------------------
(***************************************************************************)
(* The evaluation harness: runs over a list of questions, by the naive     *)
(* runner (eval/runner.py) or by the gate runner (eval/runner_v2.py), the  *)
(* quota guard around each model call, the SQLite file with the cached     *)
(* answers, the run results and the call log, and the chunk rows that the  *)
(* gate runner ingests on demand.  Runners share the file and the daily    *)
(* budget, and are stopped, killed and started again with the same run id. *)
(*                                                                         *)
(* The text of prompts and answers, the token bucket and back-off delays   *)
(* are left out; so are the call_log rows that no decision reads (error,   *)
(* budget_stop, dry_run).  A page stands for the chunks it yields.         *)
(***************************************************************************)
EXTENDS Naturals, Sequences, FiniteSets

CONSTANTS
    Procs,        \* operating-system processes that may run a runner
    Runs,         \* run ids
    Naive,        \* the runs of eval/runner.py; the others are of runner_v2.py
    Ablated,      \* the runs of split n1
    Records,      \* by run, the questions of its split after --limit, in order
    Pages,        \* of the one document that all questions are about
    Evidence,     \* its pages that an n1 question is deprived of
    DailyBudget,  \* --daily-budget
    MaxCalls,     \* --max-calls
    MaxRetries,   \* MAX_RETRIES
    MaxDay,       \* bound on midnights
    MaxMishaps,   \* bound on kills and unusable answers
    None          \* no result

Questions == UNION {{Records[r][i] : i \in DOMAIN Records[r]} : r \in Runs}

ASSUME EvalAssumption ==
    /\ IsFiniteSet(Procs) /\ Procs # {} /\ IsFiniteSet(Pages) /\ IsFiniteSet(Runs)
    /\ Naive \subseteq Runs /\ Ablated \subseteq Runs \ Naive
    /\ \A r \in Runs : Records[r] \in Seq(Questions)
    /\ Evidence \subseteq Pages /\ Pages \subseteq Nat
    /\ \A S \in SUBSET Pages : None # S
    /\ DailyBudget \in Nat /\ MaxCalls \in Nat /\ MaxRetries \in Nat
    /\ MaxDay \in Nat /\ MaxMishaps \in Nat

VARIABLES
    day,        \* the UTC date
    proc,       \* each process: where its runner stands
    result,     \* eval_generations: run -> question -> the pages its answer came from
    cached,     \* llm_cache: prompts with an answer
    logged,     \* today's api_call rows of call_log
    index,      \* chunk rows in Postgres: document key -> pages
    sent,       \* requests the model answered today (history)
    asked,      \* answers the model ever gave, by prompt (history)
    mishaps,    \* kills and unusable answers (history)
    torn        \* documents left half written, or with two runners at work (history)

store == <<result, cached, logged, index>>
history == <<sent, asked, mishaps, torn>>
vars == <<day, proc, store, history>>

\* The pages left out of the document a run serves, and the name it is indexed under.
Excluded(r) == IF r \in Ablated THEN Evidence ELSE {}
DocKeyIgnoringPages(r) == {}
DocKey(r) == Excluded(r)
Whole(r) == Pages \ Excluded(r)

\* The key of llm_cache: a naive prompt is the question and its excerpts; a gate
\* answer is kept under the record of its split.  No key has the run in it.
Prompts == {"excerpts", "record", "n1 record"} \X Questions
Prompt(r, q) ==
    <<IF r \in Naive THEN "excerpts" ELSE IF r \in Ablated THEN "n1 record" ELSE "record", q>>

\* Who finds an answer again: the naive runs look in llm_cache and share it, a gate
\* run looks for its own result only.
Asker(r) == IF r \in Naive THEN Naive ELSE {r}
Askers(k) == {Asker(r) : r \in {s \in Runs : \E i \in DOMAIN Records[s] : Prompt(s, Records[s][i]) = k}}

Off == [pc |-> "off"]
Points == {"next", "lookup", "guard", "ensure", "clear", "insert",
           "retrieve", "asking", "answered", "record"}
Running == [pc : Points, run : Runs, i : Nat, calls : 0..MaxCalls,
            attempt : 0..MaxRetries, todo : SUBSET Pages, ctx : SUBSET Pages]

TypeOK ==
    /\ day \in 0..MaxDay
    /\ proc \in [Procs -> Running \cup {Off}]
    /\ result \in [Runs -> [Questions -> {None} \cup SUBSET Pages]]
    /\ cached \subseteq Prompts
    /\ logged \in Nat /\ sent \in Nat
    /\ index \in [SUBSET Evidence -> SUBSET Pages]
    /\ asked \in [Prompts -> Nat]
    /\ mishaps \in 0..MaxMishaps
    /\ torn \subseteq SUBSET Evidence

Init ==
    /\ day = 0
    /\ proc = [p \in Procs |-> Off]
    /\ result = [r \in Runs |-> [q \in Questions |-> None]]
    /\ cached = {}
    /\ logged = 0 /\ sent = 0
    /\ index = [k \in SUBSET Evidence |-> {}]
    /\ asked = [k \in Prompts |-> 0]
    /\ mishaps = 0
    /\ torn = {}

-----------------------------------------------------------------------------
\* What a running process works on.
Run(p) == proc[p].run
InLoop(p) == proc[p].i <= Len(Records[Run(p)])
Question(p) == Records[Run(p)][proc[p].i]
Result(p) == result[Run(p)][Question(p)]
ThisPrompt(p) == Prompt(Run(p), Question(p))
GateRunners(k) == {p \in Procs : proc[p] # Off /\ proc[p].run \notin Naive /\ DocKey(proc[p].run) = k}

At(p, pc) == proc[p].pc = pc
Goto(p, pc) == proc' = [proc EXCEPT ![p].pc = pc]
Stop(p) == proc' = [proc EXCEPT ![p] = Off]

NextRecord(p) ==
    proc' = [proc EXCEPT ![p].pc = "next", ![p].i = @ + 1,
                         ![p].attempt = 0, ![p].todo = {}, ![p].ctx = {}]

\* Somebody starts a runner, with --run-id, or again with the same one.
Start(p, r) ==
    /\ proc[p] = Off
    /\ proc' = [proc EXCEPT ![p] = [pc |-> "next", run |-> r, i |-> 1, calls |-> 0,
                                    attempt |-> 0, todo |-> {}, ctx |-> {}]]
    /\ torn' = torn \cup {k \in {DocKey(r)} : r \notin Naive /\ GateRunners(k) # {}}
    /\ UNCHANGED <<store, sent, asked, mishaps>>

Finish(p) ==
    /\ At(p, "next") /\ ~InLoop(p)
    /\ Stop(p)
    /\ UNCHANGED <<store, history>>

ResumeForgetful(p) ==
    /\ At(p, "next") /\ InLoop(p)
    /\ Goto(p, IF Run(p) \in Naive THEN "lookup" ELSE "guard")
    /\ UNCHANGED <<store, history>>

\* already_has_run_result.
Resume(p) ==
    /\ At(p, "next") /\ InLoop(p)
    /\ IF Result(p) # None THEN NextRecord(p)
       ELSE Goto(p, IF Run(p) \in Naive THEN "lookup" ELSE "guard")
    /\ UNCHANGED <<store, history>>

\* GenerationCache.record: one transaction for both tables; a hit leaves llm_cache alone.
Save(p, pages) == result' = [result EXCEPT ![Run(p)][Question(p)] = pages]

\* GenerationCache.lookup, and the record of a hit.  The gate runner never looks.
Lookup(p) ==
    /\ At(p, "lookup")
    /\ IF ThisPrompt(p) \in cached
       THEN Save(p, Whole(Run(p))) /\ NextRecord(p)
       ELSE Goto(p, "guard") /\ UNCHANGED result
    /\ UNCHANGED <<cached, logged, index, history>>

Record(p) ==
    /\ At(p, "record")
    /\ Save(p, IF Run(p) \in Naive THEN Whole(Run(p)) ELSE proc[p].ctx)
    /\ cached' = cached \cup {ThisPrompt(p)}
    /\ NextRecord(p)
    /\ UNCHANGED <<logged, index, history>>

-----------------------------------------------------------------------------
\* QuotaGuard.call.
OutOfCalls(p) == proc[p].calls >= MaxCalls
OutOfBudgetLate == logged > DailyBudget
OutOfBudget == logged >= DailyBudget

\* QuotaExceeded: the runner leaves its loop.
BudgetStop(p) ==
    /\ At(p, "guard")
    /\ OutOfCalls(p) \/ OutOfBudget
    /\ Stop(p)
    /\ UNCHANGED <<store, history>>

Admit(p) ==
    /\ At(p, "guard")
    /\ ~OutOfCalls(p) /\ ~OutOfBudget
    /\ Goto(p, IF Run(p) \in Naive THEN "asking" ELSE "ensure")
    /\ UNCHANGED <<store, history>>

\* The call succeeded.  Only now is it counted.
LogCall(p) ==
    /\ At(p, "answered")
    /\ logged' = logged + 1
    /\ proc' = [proc EXCEPT ![p].pc = "record", ![p].calls = @ + 1]
    /\ UNCHANGED <<result, cached, index, history>>

-----------------------------------------------------------------------------
\* generate_for_record, inside the guarded call: ensure_ingested takes a document
\* with any chunk for an ingested one.
EnsureIngested(p) ==
    /\ At(p, "ensure")
    /\ Goto(p, IF index[DocKey(Run(p))] # {} THEN "retrieve" ELSE "clear")
    /\ UNCHANGED <<store, history>>

\* ingest_pdf: the rows of the document are deleted, then written batch by batch.
Clear(p) ==
    /\ At(p, "clear")
    /\ index' = [index EXCEPT ![DocKey(Run(p))] = {}]
    /\ proc' = [proc EXCEPT ![p].pc = "insert", ![p].todo = Whole(Run(p))]
    /\ UNCHANGED <<result, cached, logged, history>>

Write(p, last) ==
    /\ At(p, "insert")
    /\ \E page \in proc[p].todo :
        /\ \A n \in proc[p].todo : page <= n
        /\ index' = [index EXCEPT ![DocKey(Run(p))] = @ \cup {page}]
        /\ proc' = [proc EXCEPT ![p].todo = @ \ {page},
                                ![p].pc = IF last THEN "retrieve" ELSE "insert"]
    /\ UNCHANGED <<result, cached, logged, history>>

InsertFullOnly(p) == Write(p, Cardinality(proc[p].todo) <= 2)
Insert(p) == Write(p, Cardinality(proc[p].todo) = 1)

Retrieve(p) ==
    /\ At(p, "retrieve")
    /\ proc' = [proc EXCEPT ![p].pc = "asking", ![p].ctx = index[DocKey(Run(p))]]
    /\ UNCHANGED <<store, history>>

-----------------------------------------------------------------------------
\* The model's side of a request.
Answered(p) ==
    /\ At(p, "asking")
    /\ sent' = sent + 1
    /\ asked' = [asked EXCEPT ![ThisPrompt(p)] = @ + 1]

Answer(p) ==
    /\ Answered(p)
    /\ Goto(p, "answered")
    /\ UNCHANGED <<store, mishaps, torn>>

RateLimitedLate(p) ==
    /\ At(p, "asking")
    /\ IF proc[p].attempt > MaxRetries THEN Stop(p)
       ELSE proc' = [proc EXCEPT ![p].attempt = @ + 1]
    /\ UNCHANGED <<store, history>>

\* A 429 or a 5xx: the guard calls again, retrieval included, until its retries
\* are used up; then the exception ends the runner.
RateLimited(p) ==
    /\ At(p, "asking")
    /\ IF proc[p].attempt = MaxRetries THEN Stop(p)
       ELSE proc' = [proc EXCEPT ![p].attempt = @ + 1,
                                 ![p].pc = IF Run(p) \in Naive THEN "asking" ELSE "ensure"]
    /\ UNCHANGED <<store, history>>

\* The rows committed so far stay behind (the connection is in autocommit).
Leave(p) ==
    /\ Stop(p)
    /\ torn' = torn \cup {k \in {DocKey(Run(p))} : At(p, "insert") /\ index[k] # {}}

\* Any other exception inside the guarded call, ingestion included, ends the runner.
Calling == {"ensure", "clear", "insert", "retrieve", "asking"}
Error(p) ==
    /\ proc[p].pc \in Calling
    /\ Leave(p)
    /\ UNCHANGED <<store, sent, asked, mishaps>>

\* An answer that is not a GateAnswer: the model did its work, the call fails.
Unusable(p) ==
    /\ Answered(p) /\ Run(p) \notin Naive
    /\ mishaps < MaxMishaps /\ mishaps' = mishaps + 1
    /\ Stop(p)
    /\ UNCHANGED <<store, torn>>

\* The process is killed, or an exception leaves it outside the guarded call.
Kill(p) ==
    /\ proc[p] # Off
    /\ mishaps < MaxMishaps /\ mishaps' = mishaps + 1
    /\ Leave(p)
    /\ UNCHANGED <<store, sent, asked>>

\* UTC midnight: calls_today() counts from zero again.
Midnight ==
    /\ day < MaxDay /\ day' = day + 1
    /\ logged' = 0 /\ sent' = 0
    /\ UNCHANGED <<proc, result, cached, index, asked, mishaps, torn>>

Step(p) ==
    \/ Finish(p) \/ Resume(p) \/ Lookup(p) \/ Record(p)
    \/ BudgetStop(p) \/ Admit(p) \/ LogCall(p)
    \/ EnsureIngested(p) \/ Clear(p) \/ Insert(p) \/ Retrieve(p)

Next ==
    \/ /\ \E p \in Procs : \/ \E r \in Runs : Start(p, r)
                          \/ Step(p)
                          \/ Answer(p) \/ RateLimited(p) \/ Error(p) \/ Unusable(p)
                          \/ Kill(p)
       /\ UNCHANGED day
    \/ Midnight

Spec == Init /\ [][Next]_vars

-----------------------------------------------------------------------------
\* The daily budget is exceeded by at most one call for every runner beside the
\* first, which passed the check together, and one for every answer that a kill
\* or a bad answer kept out of the call log (quota_guard.py 109-148).
BudgetHolds == sent <= DailyBudget + (Cardinality(Procs) - 1) + mishaps

\* "Never re-sent" (cache.py 7-9, runner.py 5-6), as far as the code keeps it: a
\* prompt is answered once for all naive runs together, but once more for each gate
\* run that has it, for llm_cache has the answer and the gate runner does not look
\* (runner_v2.py 177-201).  However often a run is stopped and started again, more
\* answers than that come only from processes that missed it at the same time, and
\* from answers that were lost.
AskedOnce ==
    \A k \in Prompts : asked[k] <= Cardinality(Procs) * Cardinality(Askers(k)) + mishaps

\* An n1 question is never answered from the pages it is deprived of, although
\* the same file is indexed whole for other splits (ablated_doc_key).
AblatedStaysBlind ==
    \A r \in Ablated, q \in Questions :
        result[r][q] # None => result[r][q] \cap Evidence = {}

\* A gate answer comes from the whole document it is asked about, unless a runner
\* was stopped by an exception or killed while it wrote that document's rows, or
\* two runners worked on it at once.  Then the part that was written is served for
\* good: ensure_ingested looks for one chunk, and db.py 40-53 takes it for a document
\* that "already made it into Postgres".
AnsweredFromWhole ==
    \A r \in Runs \ Naive, q \in Questions :
        DocKey(r) \notin torn => result[r][q] \in {None, Whole(r)}
=============================================================================
