-------------------------- MODULE EvalRunnerProofs --------------------------
(***************************************************************************)
(* The evaluation harness, for any number of processes, runs and calls:    *)
(* how far the daily budget can be exceeded, how often one prompt can be   *)
(* answered, and which pages an answer can come from.                      *)
(***************************************************************************)
EXTENDS EvalRunner, FiniteSetTheorems, TLAPS

\* Past the guard's check, and the call is not logged yet.
Spending == {"ensure", "clear", "insert", "retrieve", "asking", "answered"}
Ingesting == {"ensure", "clear", "insert", "retrieve"}

\* Where a runner can be.
Placed(x) == x # Off =>
    /\ x.i >= 1 /\ (x.pc # "next" => x.i <= Len(Records[x.run]))
    /\ x.pc \in Spending => x.calls < MaxCalls
    /\ x.pc = "lookup" => x.run \in Naive
    /\ x.pc \in Ingesting => x.run \notin Naive
    /\ x.todo \subseteq Whole(x.run) /\ x.ctx \subseteq Whole(x.run)

\* No page is indexed, or answers, where it is left out.
IndexInv == \A k \in SUBSET Evidence : index[k] \subseteq Pages \ k
ResultInv == \A r \in Runs, q \in Questions : result[r][q] # None => result[r][q] \subseteq Whole(r)

RunnerInv ==
    /\ TypeOK /\ IndexInv /\ ResultInv
    /\ \A p \in Procs : Placed(proc[p])

\* The quota: answers not in the call log are those just given and those lost; a
\* runner passed the check while the log had room.
Serving(points) == {p \in Procs : proc[p].pc \in points}
BudgetInv ==
    /\ sent <= logged + Cardinality(Serving({"answered"})) + mishaps
    /\ logged + Cardinality(Serving(Spending)) <= DailyBudget + Cardinality(Procs) - 1
    /\ Serving(Spending) # {} => DailyBudget > 0

\* The runners that want an answer to a prompt, and those that hold one.
Wanting == {"guard", "ensure", "clear", "insert", "retrieve", "asking"}
Holding == {"answered", "record"}
For(k, points) == {p \in Procs : proc[p].pc \in points /\ ThisPrompt(p) = k}
Prompted(k) == {r \in Runs : \E i \in DOMAIN Records[r] : Prompt(r, Records[r][i]) = k}
\* A run finds the answer when it looks.
Found(r, k) == IF r \in Naive THEN k \in cached ELSE result[r][k[2]] # None
Served(k) == {Asker(r) : r \in {s \in Prompted(k) : Found(s, k)}}
\* The processes that missed an answer, and would find it now.
Again(k) == {p \in For(k, Wanting \cup Holding) : Found(Run(p), k)}
AskedInv(k) ==
    asked[k] + Cardinality(Again(k)) <=
        Cardinality(Procs) * Cardinality(Served(k)) + Cardinality(For(k, Holding)) + mishaps

\* A document that is not torn: one gate runner at most is at work on it, and its rows
\* are whole, but while they are being written.
GateInv(x, rows) ==
    LET k == DocKey(x.run) IN
    /\ x.pc = "insert" => rows[k] \cup x.todo = Pages \ k
    /\ x.pc = "retrieve" => rows[k] = Pages \ k
    /\ x.pc \in {"asking", "answered", "record"} => x.ctx = Pages \ k
Settled(k) ==
    \/ index[k] \in {{}, Pages \ k}
    \/ \E p \in GateRunners(k) : At(p, "insert")
AnswersWhole(k) == \A r \in Runs \ Naive, q \in Questions :
    DocKey(r) = k => result[r][q] \in {None, Whole(r)}
WholeInv(k) == k \notin torn =>
    /\ \A p, q \in GateRunners(k) : p = q
    /\ \A p \in GateRunners(k) : GateInv(proc[p], index)
    /\ Settled(k)
    /\ AnswersWhole(k)

Move(p) ==
    \/ \E r \in Runs : Start(p, r)
    \/ Step(p) \/ Answer(p) \/ RateLimited(p) \/ Error(p) \/ Unusable(p) \/ Kill(p)

(***************************************************************************)
(* How runners move                                                        *)
(***************************************************************************)
LEMMA Wholes ==
    ASSUME NEW r \in Runs
    PROVE  /\ DocKey(r) \in SUBSET Evidence
           /\ Whole(r) = Pages \ DocKey(r) /\ Whole(r) \in SUBSET Pages
           /\ r \in Naive => Whole(r) = Pages
  BY EvalAssumption DEF DocKey, Whole, Excluded

\* A process that is off has no other state.
LEMMA AtWork ==
    ASSUME NEW x \in Running \cup {Off}
    PROVE  x # Off <=> x \in Running /\ x.pc \in Points
  BY DEF Running, Off, Points

Advanced(x) == [x EXCEPT !.pc = "next", !.i = @ + 1, !.attempt = 0, !.todo = {}, !.ctx = {}]
Fresh(r) == [pc |-> "next", run |-> r, i |-> 1, calls |-> 0, attempt |-> 0, todo |-> {}, ctx |-> {}]

\* The next form of a process, step by step.
Turned(x, pc) == [x EXCEPT !.pc = pc]
Logged(x) == [x EXCEPT !.pc = "record", !.calls = @ + 1]
Cleared(x) == [x EXCEPT !.pc = "insert", !.todo = Whole(x.run)]
Wrote(x, page, pc) == [x EXCEPT !.todo = @ \ {page}, !.pc = pc]
Retrieved(x) == [x EXCEPT !.pc = "asking", !.ctx = index[DocKey(x.run)]]
Retried(x, pc) == [x EXCEPT !.attempt = @ + 1, !.pc = pc]

LEMMA Forms ==
    ASSUME RunnerInv, NEW p \in Procs
    PROVE  LET x == proc[p]  y == proc'[p] IN
           /\ \A r \in Runs : Start(p, r) => y = Fresh(r)
           /\ Finish(p) \/ BudgetStop(p) \/ Error(p) \/ Unusable(p) \/ Kill(p) => y = Off
           /\ Resume(p) => y = Advanced(x) \/ y = Turned(x, IF x.run \in Naive THEN "lookup" ELSE "guard")
           /\ Lookup(p) => y = Advanced(x) \/ y = Turned(x, "guard")
           /\ Record(p) => y = Advanced(x)
           /\ Admit(p) => y = Turned(x, IF x.run \in Naive THEN "asking" ELSE "ensure")
           /\ LogCall(p) => y = Logged(x)
           /\ EnsureIngested(p) => y = Turned(x, "retrieve") \/ y = Turned(x, "clear")
           /\ Clear(p) => y = Cleared(x)
           /\ Retrieve(p) => y = Retrieved(x)
           /\ Answer(p) => y = Turned(x, "answered")
           /\ RateLimited(p) => y = Off \/ (x.attempt # MaxRetries /\
                                   y = Retried(x, IF x.run \in Naive THEN "asking" ELSE "ensure"))
  <1>0. proc \in [Procs -> Running \cup {Off}]
    BY DEF RunnerInv, TypeOK
  <1>1. \A r \in Runs : Start(p, r) => proc'[p] = Fresh(r)
    BY <1>0 DEF Start, Fresh
  <1>2. Finish(p) \/ BudgetStop(p) \/ Error(p) \/ Unusable(p) \/ Kill(p) => proc'[p] = Off
    BY <1>0 DEF Finish, BudgetStop, Error, Unusable, Kill, Leave, Stop
  <1>3. Resume(p) => \/ proc'[p] = Advanced(proc[p])
                     \/ proc'[p] = Turned(proc[p], IF proc[p].run \in Naive THEN "lookup" ELSE "guard")
    BY <1>0 DEF Resume, NextRecord, Goto, Run, Advanced, Turned
  <1>4. Lookup(p) => proc'[p] = Advanced(proc[p]) \/ proc'[p] = Turned(proc[p], "guard")
    BY <1>0 DEF Lookup, NextRecord, Goto, Advanced, Turned
  <1>5. Record(p) => proc'[p] = Advanced(proc[p])
    BY <1>0 DEF Record, NextRecord, Advanced
  <1>6. Admit(p) => proc'[p] = Turned(proc[p], IF proc[p].run \in Naive THEN "asking" ELSE "ensure")
    BY <1>0 DEF Admit, Goto, Run, Turned
  <1>7. LogCall(p) => proc'[p] = Logged(proc[p])
    BY <1>0 DEF LogCall, Logged
  <1>8. EnsureIngested(p) => proc'[p] = Turned(proc[p], "retrieve") \/ proc'[p] = Turned(proc[p], "clear")
    BY <1>0 DEF EnsureIngested, Goto, Turned
  <1>9. Clear(p) => proc'[p] = Cleared(proc[p])
    BY <1>0 DEF Clear, Run, Cleared
  <1>10. Retrieve(p) => proc'[p] = Retrieved(proc[p])
    BY <1>0 DEF Retrieve, Run, Retrieved
  <1>11. Answer(p) => proc'[p] = Turned(proc[p], "answered")
    BY <1>0 DEF Answer, Goto, Turned
  <1>12. RateLimited(p) => proc'[p] = Off \/ (proc[p].attempt # MaxRetries /\
           proc'[p] = Retried(proc[p], IF proc[p].run \in Naive THEN "asking" ELSE "ensure"))
    BY <1>0 DEF RateLimited, Stop, Run, Retried
  <1> QED BY <1>1, <1>2, <1>3, <1>4, <1>5, <1>6, <1>7, <1>8, <1>9, <1>10, <1>11, <1>12

LEMMA InsertForm ==
    ASSUME RunnerInv, NEW p \in Procs, Insert(p)
    PROVE  \E page \in proc[p].todo :
             /\ index' = [index EXCEPT ![DocKey(proc[p].run)] = @ \cup {page}]
             /\ \/ proc'[p] = Wrote(proc[p], page, "retrieve") /\ proc[p].todo = {page}
                \/ proc'[p] = Wrote(proc[p], page, "insert")
  <1>0. proc \in [Procs -> Running \cup {Off}]
    BY DEF RunnerInv, TypeOK
  <1>1. proc[p] \in Running /\ proc[p].todo \subseteq Pages
    BY <1>0, AtWork DEF Insert, Write, At, Points, Running, Off
  <1>2. PICK page \in proc[p].todo :
          /\ index' = [index EXCEPT ![DocKey(proc[p].run)] = @ \cup {page}]
          /\ proc' = [proc EXCEPT ![p].todo = @ \ {page},
                                  ![p].pc = IF Cardinality(proc[p].todo) = 1 THEN "retrieve" ELSE "insert"]
    BY DEF Insert, Write, Run
  <1>3. Cardinality(proc[p].todo) = 1 => proc[p].todo = {page}
    <2>1. IsFiniteSet(proc[p].todo)
      BY <1>1, EvalAssumption, FS_Subset
    <2> QED BY <2>1, <1>2, FS_Singleton
  <1> QED BY <1>0, <1>2, <1>3 DEF Wrote

\* Only its own process moves.
LEMMA Others ==
    ASSUME RunnerInv, NEW p \in Procs, Move(p)
    PROVE  proc' = [q \in Procs |-> IF q = p THEN proc'[p] ELSE proc[q]]
  <1>0. proc \in [Procs -> Running \cup {Off}]
    BY DEF RunnerInv, TypeOK
  <1>1. ASSUME NEW r \in Runs, Start(p, r) PROVE proc' = [q \in Procs |-> IF q = p THEN proc'[p] ELSE proc[q]]
    BY <1>0, <1>1 DEF Start
  <1>2. CASE Finish(p) \/ BudgetStop(p) \/ Error(p) \/ Unusable(p) \/ Kill(p)
    BY <1>0, <1>2 DEF Finish, BudgetStop, Error, Unusable, Kill, Leave, Stop
  <1>3. CASE Resume(p) \/ Lookup(p) \/ Record(p)
    BY <1>0, <1>3 DEF Resume, Lookup, Record, NextRecord, Goto
  <1>4. CASE Admit(p) \/ EnsureIngested(p) \/ Answer(p) \/ LogCall(p)
    BY <1>0, <1>4 DEF Admit, EnsureIngested, Answer, LogCall, Goto
  <1>5. CASE Clear(p) \/ Insert(p) \/ Retrieve(p)
    BY <1>0, <1>5 DEF Clear, Insert, Write, Retrieve
  <1>6. CASE RateLimited(p)
    BY <1>0, <1>6 DEF RateLimited, Stop
  <1> QED BY <1>1, <1>2, <1>3, <1>4, <1>5, <1>6 DEF Move, Step

\* A running process is placed, whatever it does.
LEMMA Shapes ==
    ASSUME NEW x \in Running, Placed(x)
    PROVE  /\ x.pc = "next" /\ x.i <= Len(Records[x.run]) =>
                 \A pc \in {"lookup", "guard"} : (pc = "lookup" => x.run \in Naive) =>
                     Turned(x, pc) \in Running /\ Placed(Turned(x, pc))
           /\ Advanced(x) \in Running /\ Placed(Advanced(x))
           /\ x.pc = "lookup" => Turned(x, "guard") \in Running /\ Placed(Turned(x, "guard"))
           /\ x.pc = "guard" /\ x.calls < MaxCalls =>
                 \A pc \in {"asking", "ensure"} : (pc = "ensure" => x.run \notin Naive) =>
                     Turned(x, pc) \in Running /\ Placed(Turned(x, pc))
           /\ x.pc = "answered" => Logged(x) \in Running /\ Placed(Logged(x))
           /\ x.pc = "ensure" => \A pc \in {"retrieve", "clear"} :
                     Turned(x, pc) \in Running /\ Placed(Turned(x, pc))
           /\ x.pc = "clear" => Cleared(x) \in Running /\ Placed(Cleared(x))
           /\ x.pc = "insert" => \A page \in x.todo, pc \in {"retrieve", "insert"} :
                     Wrote(x, page, pc) \in Running /\ Placed(Wrote(x, page, pc))
           /\ x.pc = "retrieve" /\ RunnerInv => Retrieved(x) \in Running /\ Placed(Retrieved(x))
           /\ x.pc = "asking" => Turned(x, "answered") \in Running /\ Placed(Turned(x, "answered"))
           /\ x.pc = "asking" /\ x.attempt # MaxRetries =>
                 \A pc \in {"asking", "ensure"} : (pc = "ensure" => x.run \notin Naive) =>
                     Retried(x, pc) \in Running /\ Placed(Retried(x, pc))
  <1>0. /\ x.pc \in Points /\ x.run \in Runs /\ x.i \in Nat /\ x.calls \in 0..MaxCalls
        /\ x.attempt \in 0..MaxRetries /\ x.todo \in SUBSET Pages /\ x.ctx \in SUBSET Pages
        /\ x # Off
    BY AtWork DEF Running
  <1>1. Whole(x.run) \in SUBSET Pages /\ Whole(x.run) = Pages \ DocKey(x.run) /\ DocKey(x.run) \in SUBSET Evidence
    BY <1>0, Wholes
  <1>2. MaxCalls \in Nat /\ MaxRetries \in Nat
    BY EvalAssumption
  <1>3. /\ x.i >= 1 /\ (x.pc # "next" => x.i <= Len(Records[x.run]))
        /\ x.pc \in Spending => x.calls < MaxCalls
        /\ x.pc = "lookup" => x.run \in Naive
        /\ x.pc \in Ingesting => x.run \notin Naive
        /\ x.todo \subseteq Whole(x.run) /\ x.ctx \subseteq Whole(x.run)
    BY <1>0 DEF Placed
  <1>4. /\ \A pc \in Points : Turned(x, pc) \in Running
        /\ \A pc \in Points : (/\ pc # "next" => x.i <= Len(Records[x.run])
                               /\ pc \in Spending => x.calls < MaxCalls
                               /\ pc = "lookup" => x.run \in Naive
                               /\ pc \in Ingesting => x.run \notin Naive) => Placed(Turned(x, pc))
    BY <1>0, <1>3 DEF Turned, Running, Placed
  <1>5. Advanced(x) \in Running /\ Placed(Advanced(x))
    <2>1. /\ x.i + 1 \in Nat /\ x.i + 1 >= 1 /\ 0 \in 0..MaxRetries
          /\ "next" \in Points \ (Spending \cup Ingesting \cup {"lookup"})
      BY <1>0, <1>2 DEF Points, Spending, Ingesting
    <2>2. /\ Advanced(x).pc = "next" /\ Advanced(x).run = x.run /\ Advanced(x).i = x.i + 1
          /\ Advanced(x).todo = {} /\ Advanced(x).ctx = {}
      BY DEF Advanced, Running
    <2>3. Advanced(x) \in Running
      BY <2>1, <1>0 DEF Advanced, Running
    <2> QED BY <2>1, <2>2, <2>3 DEF Placed
  <1>6. ASSUME x.pc = "answered"
        PROVE  Logged(x) \in Running /\ Placed(Logged(x))
    <2>1. x.calls + 1 \in 0..MaxCalls /\ "record" \in Points \ (Spending \cup Ingesting \cup {"lookup", "next"})
      BY <1>0, <1>2, <1>3, <1>6 DEF Points, Spending, Ingesting
    <2>2. /\ Logged(x).pc = "record" /\ Logged(x).run = x.run /\ Logged(x).i = x.i
          /\ Logged(x).todo = x.todo /\ Logged(x).ctx = x.ctx
      BY DEF Logged, Running
    <2>3. Logged(x) \in Running
      BY <2>1, <1>0 DEF Logged, Running
    <2> QED BY <2>1, <2>2, <2>3, <1>3, <1>6 DEF Placed
  <1>7. x.pc = "clear" => Cleared(x) \in Running /\ Placed(Cleared(x))
    BY <1>0, <1>1, <1>3 DEF Cleared, Running, Placed, Points, Spending, Ingesting
  <1>8. ASSUME x.pc = "insert", NEW page \in x.todo, NEW pc \in {"retrieve", "insert"}
        PROVE  Wrote(x, page, pc) \in Running /\ Placed(Wrote(x, page, pc))
    BY <1>0, <1>3, <1>8 DEF Wrote, Running, Placed, Points, Spending, Ingesting
  <1>9. x.pc = "retrieve" /\ RunnerInv => Retrieved(x) \in Running /\ Placed(Retrieved(x))
    <2>1. RunnerInv => index[DocKey(x.run)] \subseteq Whole(x.run)
      BY <1>1 DEF RunnerInv, IndexInv
    <2> QED BY <2>1, <1>0, <1>1, <1>3 DEF Retrieved, Running, Placed, Points, Spending, Ingesting
  <1>10. ASSUME x.pc = "asking", x.attempt # MaxRetries, NEW pc \in {"asking", "ensure"},
                pc = "ensure" => x.run \notin Naive
         PROVE  Retried(x, pc) \in Running /\ Placed(Retried(x, pc))
    <2>1. x.attempt + 1 \in 0..MaxRetries /\ pc \in Points /\ pc \notin {"next", "lookup"}
          /\ (pc \in Ingesting => x.run \notin Naive) /\ x.calls < MaxCalls
      BY <1>0, <1>2, <1>3, <1>10 DEF Points, Spending, Ingesting
    <2>2. /\ Retried(x, pc).pc = pc /\ Retried(x, pc).run = x.run /\ Retried(x, pc).i = x.i
          /\ Retried(x, pc).calls = x.calls /\ Retried(x, pc).todo = x.todo /\ Retried(x, pc).ctx = x.ctx
      BY DEF Retried, Running
    <2>3. Retried(x, pc) \in Running
      BY <2>1, <1>0 DEF Retried, Running
    <2> QED BY <2>1, <2>2, <2>3, <1>3, <1>10 DEF Placed
  <1>11. x.pc = "next" /\ x.i <= Len(Records[x.run]) =>
           \A pc \in {"lookup", "guard"} : (pc = "lookup" => x.run \in Naive) =>
             Turned(x, pc) \in Running /\ Placed(Turned(x, pc))
    BY <1>0, <1>4 DEF Points, Spending, Ingesting
  <1>12. x.pc = "lookup" => Turned(x, "guard") \in Running /\ Placed(Turned(x, "guard"))
    BY <1>0, <1>3, <1>4 DEF Points, Spending, Ingesting
  <1>13. x.pc = "guard" /\ x.calls < MaxCalls =>
           \A pc \in {"asking", "ensure"} : (pc = "ensure" => x.run \notin Naive) =>
             Turned(x, pc) \in Running /\ Placed(Turned(x, pc))
    BY <1>0, <1>3, <1>4 DEF Points, Spending, Ingesting
  <1>14. x.pc = "ensure" => \A pc \in {"retrieve", "clear"} : Turned(x, pc) \in Running /\ Placed(Turned(x, pc))
    BY <1>0, <1>3, <1>4 DEF Points, Spending, Ingesting
  <1>15. x.pc = "asking" => Turned(x, "answered") \in Running /\ Placed(Turned(x, "answered"))
    BY <1>0, <1>3, <1>4 DEF Points, Spending, Ingesting
  <1> QED BY <1>5, <1>6, <1>7, <1>8, <1>9, <1>10, <1>11, <1>12, <1>13, <1>14, <1>15

LEMMA Moved ==
    ASSUME RunnerInv, NEW p \in Procs, Move(p)
    PROVE  proc'[p] \in Running \cup {Off} /\ Placed(proc'[p])
  <1>0. proc[p] \in Running \cup {Off} /\ Placed(proc[p])
    BY DEF RunnerInv, TypeOK
  <1>1. ASSUME NEW r \in Runs, Start(p, r) PROVE proc'[p] \in Running /\ Placed(proc'[p])
    <2>1. Fresh(r) \in Running /\ Placed(Fresh(r))
      BY EvalAssumption DEF Fresh, Running, Placed, Points, Spending, Ingesting
    <2> QED BY <1>1, <2>1, Forms
  <1>2. CASE proc'[p] = Off
    BY <1>2 DEF Placed
  <1>3. ASSUME proc'[p] # Off, proc[p] \in Running
        PROVE  ~(\E r \in Runs : Start(p, r)) => proc'[p] \in Running /\ Placed(proc'[p])
    <2> DEFINE x == proc[p]
    <2>0. x \in Running /\ Placed(x) /\ x.run \in Runs
      BY <1>0, <1>3 DEF Running
    <2> HIDE DEF x
    <2>1. CASE Resume(p)
      <3>1. x.pc = "next" /\ x.i <= Len(Records[x.run])
        BY <2>1 DEF Resume, At, InLoop, Run, x
      <3>2. proc'[p] = Advanced(x) \/ proc'[p] = Turned(x, IF x.run \in Naive THEN "lookup" ELSE "guard")
        BY <2>1, Forms DEF x
      <3> QED BY <2>0, <3>1, <3>2, Shapes
    <2>2. CASE Lookup(p)
      <3>1. x.pc = "lookup"
        BY <2>2 DEF Lookup, At, x
      <3>2. proc'[p] = Advanced(x) \/ proc'[p] = Turned(x, "guard")
        BY <2>2, Forms DEF x
      <3> QED BY <2>0, <3>1, <3>2, Shapes
    <2>3. CASE Record(p)
      <3>1. proc'[p] = Advanced(x)
        BY <2>3, Forms DEF x
      <3> QED BY <2>0, <3>1, Shapes
    <2>4. CASE Admit(p)
      <3>1. x.pc = "guard" /\ x.calls < MaxCalls
        BY <2>4, <2>0, EvalAssumption DEF Admit, At, OutOfCalls, x, Running
      <3>2. proc'[p] = Turned(x, IF x.run \in Naive THEN "asking" ELSE "ensure")
        BY <2>4, Forms DEF x
      <3> QED BY <2>0, <3>1, <3>2, Shapes
    <2>5. CASE LogCall(p)
      <3>1. x.pc = "answered" /\ proc'[p] = Logged(x)
        BY <2>5, Forms DEF LogCall, At, x
      <3> QED BY <2>0, <3>1, Shapes
    <2>6. CASE EnsureIngested(p)
      <3>1. x.pc = "ensure" /\ (proc'[p] = Turned(x, "retrieve") \/ proc'[p] = Turned(x, "clear"))
        BY <2>6, Forms DEF EnsureIngested, At, x
      <3> QED BY <2>0, <3>1, Shapes
    <2>7. CASE Clear(p)
      <3>1. x.pc = "clear" /\ proc'[p] = Cleared(x)
        BY <2>7, Forms DEF Clear, At, x
      <3> QED BY <2>0, <3>1, Shapes
    <2>8. CASE Insert(p)
      <3>1. x.pc = "insert"
        BY <2>8 DEF Insert, Write, At, x
      <3>2. PICK page \in x.todo : proc'[p] = Wrote(x, page, "retrieve") \/ proc'[p] = Wrote(x, page, "insert")
        BY <2>8, InsertForm DEF x
      <3> QED BY <2>0, <3>1, <3>2, Shapes
    <2>9. CASE Retrieve(p)
      <3>1. x.pc = "retrieve" /\ proc'[p] = Retrieved(x)
        BY <2>9, Forms DEF Retrieve, At, x
      <3> QED BY <2>0, <3>1, Shapes
    <2>10. CASE Answer(p)
      <3>1. x.pc = "asking" /\ proc'[p] = Turned(x, "answered")
        BY <2>10, Forms DEF Answer, Answered, At, x
      <3> QED BY <2>0, <3>1, Shapes
    <2>11. CASE RateLimited(p)
      <3>1. /\ x.pc = "asking" /\ x.attempt # MaxRetries
            /\ proc'[p] = Retried(x, IF x.run \in Naive THEN "asking" ELSE "ensure")
        BY <2>11, <1>3, Forms DEF RateLimited, At, x
      <3> QED BY <2>0, <3>1, Shapes
    <2>12. ~(Finish(p) \/ BudgetStop(p) \/ Error(p) \/ Unusable(p) \/ Kill(p))
      BY <1>3, Forms
    <2> QED BY <2>1, <2>2, <2>3, <2>4, <2>5, <2>6, <2>7, <2>8, <2>9, <2>10, <2>11, <2>12 DEF Move, Step
  <1>4. proc[p] = Off => (\E r \in Runs : Start(p, r)) \/ proc'[p] = Off
    <2>1. proc[p] = Off => proc[p].pc = "off"
      BY DEF Off
    <2> QED
      BY <2>1, Forms DEF Move, Step, At, Finish, Resume, Lookup, Record, BudgetStop, Admit, LogCall,
           EnsureIngested, Clear, Insert, Write, Retrieve, Answer, Answered, RateLimited, Error, Unusable, Kill
  <1> QED BY <1>0, <1>1, <1>2, <1>3, <1>4

(***************************************************************************)
(* Types, and what is never indexed                                        *)
(***************************************************************************)
\* What a step at work has to do with: its run, its question, its prompt.
LEMMA Concerned ==
    ASSUME RunnerInv, NEW p \in Procs, proc[p].pc \in Points
    PROVE  /\ proc[p] \in Running /\ Placed(proc[p]) /\ proc[p] # Off /\ Run(p) \in Runs
           /\ InLoop(p) \/ ~At(p, "next") => Question(p) \in Questions /\ ThisPrompt(p) \in Prompts
  <1>1. /\ proc[p] \in Running /\ Placed(proc[p]) /\ proc[p] # Off /\ Run(p) \in Runs
    BY AtWork DEF RunnerInv, TypeOK, Points, Off, Running, Run
  <1>2. InLoop(p) \/ ~At(p, "next") => Question(p) \in Questions
    <2>1. InLoop(p) \/ ~At(p, "next") => proc[p].i \in 1..Len(Records[Run(p)])
      <3>1. Records[Run(p)] \in Seq(Questions) /\ proc[p].i \in Nat /\ proc[p].i >= 1
        BY <1>1, EvalAssumption DEF Placed, Running
      <3>2. ~At(p, "next") => proc[p].i <= Len(Records[Run(p)])
        BY <1>1 DEF Placed, At, Run
      <3> QED BY <3>1, <3>2 DEF InLoop
    <2>2. Records[Run(p)] \in Seq(Questions)
      BY <1>1, EvalAssumption
    <2> QED BY <2>1, <2>2 DEF Question
  <1>3. Question(p) \in Questions => ThisPrompt(p) \in Prompts
    BY <1>1 DEF ThisPrompt, Prompt, Prompts
  <1> QED BY <1>1, <1>2, <1>3

\* What a result can become: an answer from pages the run may see.
LEMMA Saved ==
    ASSUME RunnerInv, NEW p \in Procs, Move(p), ~(result' = result /\ cached' = cached)
    PROVE  /\ (At(p, "lookup") /\ Run(p) \in Naive) \/ At(p, "record")
           /\ \E S \in SUBSET Whole(Run(p)) :
                 /\ Save(p, S)
                 /\ S = Whole(Run(p)) \/ (Run(p) \notin Naive /\ S = proc[p].ctx)
           /\ \/ cached' = cached /\ At(p, "lookup")
              \/ cached' = cached \cup {ThisPrompt(p)} /\ At(p, "record")
           /\ proc'[p] = Advanced(proc[p])
  <1>1. (Lookup(p) /\ ~(result' = result /\ cached' = cached)) \/ Record(p)
    BY DEF Move, Step, Start, Finish, BudgetStop, Error, Unusable, Kill, Resume, Lookup, Admit, LogCall,
           EnsureIngested, Clear, Insert, Write, Retrieve, Answer, RateLimited, store
  <1>2. proc[p].pc \in Points
    BY <1>1 DEF Lookup, Record, At, Points
  <1>3. Placed(proc[p]) /\ proc[p] # Off /\ proc \in [Procs -> Running \cup {Off}]
    BY <1>2, Concerned DEF RunnerInv, TypeOK
  <1>4. CASE Record(p)
    <2>1. Save(p, IF Run(p) \in Naive THEN Whole(Run(p)) ELSE proc[p].ctx)
      BY <1>4 DEF Record
    <2>2. proc[p].ctx \subseteq Whole(Run(p))
      BY <1>3 DEF Placed, Run
    <2>3. proc'[p] = Advanced(proc[p]) /\ At(p, "record") /\ cached' = cached \cup {ThisPrompt(p)}
      BY <1>4, Forms DEF Record
    <2>4. CASE Run(p) \in Naive
      BY <2>1, <2>3, <2>4
    <2>5. CASE Run(p) \notin Naive
      BY <2>1, <2>2, <2>3, <2>5
    <2> QED BY <2>4, <2>5
  <1>5. CASE Lookup(p) /\ ~(result' = result /\ cached' = cached)
    <2>1. Save(p, Whole(Run(p))) /\ NextRecord(p) /\ At(p, "lookup") /\ cached' = cached
      BY <1>5 DEF Lookup
    <2>2. Run(p) \in Naive
      BY <2>1, <1>3 DEF Placed, At, Run
    <2>3. proc'[p] = Advanced(proc[p])
      BY <2>1, <1>3 DEF NextRecord, Advanced
    <2> QED BY <2>1, <2>2, <2>3
  <1> QED BY <1>1, <1>4, <1>5

\* What the index can become: the runner's own document, cleared or a page richer.
LEMMA Indexed ==
    ASSUME RunnerInv, NEW p \in Procs, Move(p), index' # index
    PROVE  /\ proc[p].pc \in {"clear", "insert"} /\ Run(p) \notin Naive
           /\ \E S \in SUBSET Whole(Run(p)) : index' = [index EXCEPT ![DocKey(Run(p))] = S]
  <1>1. Clear(p) \/ Insert(p)
    BY DEF Move, Step, Start, Finish, BudgetStop, Error, Unusable, Kill, Resume, Lookup, Record, Admit, LogCall,
           EnsureIngested, Retrieve, Answer, RateLimited, store
  <1>2. proc[p].pc \in {"clear", "insert"}
    BY <1>1 DEF Clear, Insert, Write, At
  <1>3. Placed(proc[p]) /\ proc[p] # Off /\ Run(p) \in Runs
    BY <1>2, Concerned DEF Points
  <1>4. Run(p) \notin Naive /\ proc[p].todo \subseteq Whole(Run(p))
    BY <1>2, <1>3 DEF Placed, Ingesting, Run
  <1>5. CASE Clear(p)
    <2>1. index' = [index EXCEPT ![DocKey(Run(p))] = {}]
      BY <1>5 DEF Clear
    <2> QED BY <2>1, <1>2, <1>4
  <1>6. CASE Insert(p)
    <2>1. PICK page \in proc[p].todo : index' = [index EXCEPT ![DocKey(Run(p))] = @ \cup {page}]
      BY <1>6, InsertForm DEF Run
    <2>2. index[DocKey(Run(p))] \cup {page} \subseteq Whole(Run(p))
      BY <1>3, <1>4, Wholes DEF RunnerInv, IndexInv
    <2>3. index' = [index EXCEPT ![DocKey(Run(p))] = index[DocKey(Run(p))] \cup {page}]
      BY <2>1
    <2> QED BY <2>2, <2>3, <1>2, <1>4
  <1> QED BY <1>1, <1>5, <1>6

LEMMA RunnerStart == Init => RunnerInv
  <1> SUFFICES ASSUME Init PROVE RunnerInv
    OBVIOUS
  <1>1. TypeOK
    <2>1. 0 \in 0..MaxDay /\ 0 \in 0..MaxMishaps /\ 0 \in Nat
      BY EvalAssumption
    <2>2. proc \in [Procs -> Running \cup {Off}] /\ index \in [SUBSET Evidence -> SUBSET Pages]
      BY DEF Init
    <2>3. result \in [Runs -> [Questions -> {None} \cup SUBSET Pages]] /\ asked \in [Prompts -> Nat]
      BY DEF Init
    <2> QED BY <2>1, <2>2, <2>3 DEF Init, TypeOK
  <1>2. IndexInv /\ ResultInv /\ \A p \in Procs : Placed(proc[p])
    BY DEF Init, IndexInv, ResultInv, Placed
  <1> QED BY <1>1, <1>2 DEF RunnerInv

LEMMA RunnerMove ==
    ASSUME RunnerInv, NEW p \in Procs, Move(p), UNCHANGED day
    PROVE  RunnerInv'
  <1>0. TypeOK /\ IndexInv /\ ResultInv /\ \A q \in Procs : Placed(proc[q])
    BY DEF RunnerInv
  <1>1. proc' \in [Procs -> Running \cup {Off}] /\ \A q \in Procs : Placed(proc'[q])
    BY <1>0, Moved, Others DEF TypeOK
  <1>2. result' \in [Runs -> [Questions -> {None} \cup SUBSET Pages]] /\ cached' \subseteq Prompts /\ ResultInv'
    <2>1. CASE result' = result /\ cached' = cached
      BY <2>1, <1>0 DEF TypeOK, ResultInv
    <2>2. CASE ~(result' = result /\ cached' = cached)
      <3>1. proc[p].pc \in Points /\ ~At(p, "next")
        BY <2>2, Saved DEF At, Points
      <3>2. Run(p) \in Runs /\ Question(p) \in Questions /\ ThisPrompt(p) \in Prompts
        BY <3>1, Concerned
      <3>3. PICK S \in SUBSET Whole(Run(p)) : Save(p, S)
        BY <2>2, Saved
      <3>4. S \in SUBSET Pages
        BY <3>2, <3>3, Wholes
      <3>5. cached' \subseteq Prompts
        BY <2>2, <3>2, <1>0, Saved DEF TypeOK
      <3>6. result' = [result EXCEPT ![Run(p)][Question(p)] = S]
        BY <3>3 DEF Save
      <3>7. result \in [Runs -> [Questions -> {None} \cup SUBSET Pages]]
        BY <1>0 DEF TypeOK
      <3>8. result' \in [Runs -> [Questions -> {None} \cup SUBSET Pages]]
        BY <3>2, <3>4, <3>6, <3>7
      <3>9. \A r \in Runs, q \in Questions : result'[r][q] = IF r = Run(p) /\ q = Question(p) THEN S ELSE result[r][q]
        BY <3>6, <3>7
      <3> QED BY <3>3, <3>5, <3>8, <3>9, <1>0 DEF ResultInv
    <2> QED BY <2>1, <2>2
  <1>3. index' \in [SUBSET Evidence -> SUBSET Pages] /\ IndexInv'
    <2>1. CASE index' = index
      BY <2>1, <1>0 DEF TypeOK, IndexInv
    <2>2. CASE index' # index
      <3>1. Run(p) \in Runs
        BY <2>2, Indexed, Concerned DEF Points
      <3>2. PICK S \in SUBSET Whole(Run(p)) : index' = [index EXCEPT ![DocKey(Run(p))] = S]
        BY <2>2, Indexed
      <3>3. S \in SUBSET Pages /\ S \subseteq Pages \ DocKey(Run(p)) /\ DocKey(Run(p)) \in SUBSET Evidence
        BY <3>1, <3>2, Wholes
      <3> QED BY <3>2, <3>3, <1>0 DEF TypeOK, IndexInv
    <2> QED BY <2>1, <2>2
  <1>4. logged' \in Nat /\ sent' \in Nat /\ torn' \subseteq SUBSET Evidence
    <2>1. logged' \in {logged, logged + 1} /\ sent' \in {sent, sent + 1}
      BY DEF Move, Step, Start, Finish, BudgetStop, Error, Unusable, Kill, Resume, Lookup, Record, Admit,
           LogCall, EnsureIngested, Clear, Insert, Write, Retrieve, Answer, Answered, RateLimited, store, history
    <2>2. torn' \subseteq torn \cup SUBSET Evidence
      <3>1. \/ torn' = torn
            \/ \E r \in Runs : \E S \in SUBSET {DocKey(r)} : torn' = torn \cup S
        <4>1. ASSUME NEW r \in Runs, Start(p, r) PROVE \E S \in SUBSET {DocKey(r)} : torn' = torn \cup S
          BY <4>1 DEF Start
        <4>2. ASSUME Error(p) \/ Kill(p) PROVE \E r \in Runs : \E S \in SUBSET {DocKey(r)} : torn' = torn \cup S
          <5>1. proc[p] # Off
            BY <4>2 DEF Error, Kill, Calling, Off
          <5>2. Run(p) \in Runs
            BY <5>1, <1>0, AtWork DEF TypeOK, Running, Run
          <5> QED BY <4>2, <5>2 DEF Error, Kill, Leave
        <4>3. ~(Error(p) \/ Kill(p)) /\ ~(\E r \in Runs : Start(p, r)) => torn' = torn
          BY DEF Move, Step, Finish, BudgetStop, Unusable, Resume, Lookup, Record, Admit,
           LogCall, EnsureIngested, Clear, Insert, Write, Retrieve, Answer, Answered, RateLimited, store, history
        <4> QED BY <4>1, <4>2, <4>3
      <3> QED BY <3>1, Wholes
    <2>3. torn' \subseteq SUBSET Evidence
      BY <2>2, <1>0 DEF TypeOK
    <2>4. logged' \in Nat /\ sent' \in Nat
      BY <2>1, <1>0 DEF TypeOK
    <2> QED BY <2>3, <2>4
  <1>5. mishaps' \in 0..MaxMishaps
    <2>1. mishaps' = mishaps \/ (mishaps < MaxMishaps /\ mishaps' = mishaps + 1)
      BY DEF Move, Step, Start, Finish, BudgetStop, Error, Unusable, Kill, Resume, Lookup, Record, Admit,
           LogCall, EnsureIngested, Clear, Insert, Write, Retrieve, Answer, Answered, RateLimited, store, history
    <2> QED BY <2>1, <1>0, EvalAssumption DEF TypeOK
  <1>6. asked' \in [Prompts -> Nat]
    <2>1. asked' = asked \/ asked' = [asked EXCEPT ![ThisPrompt(p)] = @ + 1]
      BY DEF Move, Step, Start, Finish, BudgetStop, Error, Unusable, Kill, Resume, Lookup, Record, Admit,
           LogCall, EnsureIngested, Clear, Insert, Write, Retrieve, Answer, Answered, RateLimited, store, history
    <2> QED BY <2>1, <1>0 DEF TypeOK
  <1>7. day' \in 0..MaxDay
    BY <1>0 DEF TypeOK
  <1>8. TypeOK'
    BY <1>1, <1>2, <1>3, <1>4, <1>5, <1>6, <1>7 DEF TypeOK
  <1> QED BY <1>1, <1>2, <1>3, <1>8 DEF RunnerInv

LEMMA RunnerStep == RunnerInv /\ [Next]_vars => RunnerInv'
  <1> SUFFICES ASSUME RunnerInv, [Next]_vars PROVE RunnerInv'
    OBVIOUS
  <1>1. ASSUME NEW p \in Procs, Move(p), UNCHANGED day PROVE RunnerInv'
    BY <1>1, RunnerMove
  <1>2. CASE Midnight
    <2>1. day' \in 0..MaxDay
      BY <1>2, EvalAssumption DEF RunnerInv, TypeOK, Midnight
    <2>2. TypeOK'
      BY <2>1, <1>2 DEF RunnerInv, TypeOK, Midnight
    <2> QED BY <2>2, <1>2 DEF RunnerInv, IndexInv, ResultInv, Midnight
  <1>3. CASE UNCHANGED vars
    BY <1>3 DEF RunnerInv, TypeOK, IndexInv, ResultInv, vars, store, history
  <1> QED BY <1>1, <1>2, <1>3 DEF Next, Move

LEMMA RunnerAlways == Spec => []RunnerInv
  BY RunnerStart, RunnerStep, PTL DEF Spec

\* Every variable keeps its type, in every run of the harness.
THEOREM EvalTypeCorrect == Spec => []TypeOK
  <1>1. RunnerInv => TypeOK
    BY DEF RunnerInv
  <1> QED BY <1>1, RunnerAlways, PTL

\* An n1 question is never answered from the pages it is deprived of, whatever is
\* indexed, killed, overlapped or started again: their chunks are kept under a
\* document key of their own (runner_v2.py, ablated_doc_key).
THEOREM AblatedNeverSees == Spec => []AblatedStaysBlind
  <1>1. RunnerInv => AblatedStaysBlind
    <2> SUFFICES ASSUME RunnerInv, NEW r \in Ablated, NEW q \in Questions, result[r][q] # None
                 PROVE  result[r][q] \cap Evidence = {}
      BY DEF AblatedStaysBlind
    <2>1. r \in Runs /\ Whole(r) = Pages \ Evidence
      BY EvalAssumption DEF Whole, Excluded
    <2> QED BY <2>1 DEF RunnerInv, ResultInv
  <1> QED BY <1>1, RunnerAlways, PTL

(***************************************************************************)
(* The daily budget                                                        *)
(***************************************************************************)
\* A set of processes that changes by one process at most.
LEMMA CountMove ==
    ASSUME NEW S \in SUBSET Procs, NEW T \in SUBSET Procs, NEW p \in Procs, S \ {p} = T \ {p}
    PROVE  /\ Cardinality(S) \in Nat /\ Cardinality(T) \in Nat /\ Cardinality(Procs) \in Nat
           /\ Cardinality(S) <= Cardinality(Procs) /\ Cardinality(T) <= Cardinality(Procs)
           /\ (p \in S <=> p \in T) => Cardinality(T) = Cardinality(S)
           /\ p \in S /\ p \notin T => Cardinality(S) = Cardinality(T) + 1
           /\ p \notin S /\ p \in T => Cardinality(T) = Cardinality(S) + 1
  <1>1. IsFiniteSet(Procs) /\ IsFiniteSet(S) /\ IsFiniteSet(T)
    BY EvalAssumption, FS_Subset
  <1>2. Cardinality(S) \in Nat /\ Cardinality(T) \in Nat /\ Cardinality(Procs) \in Nat
    BY <1>1, FS_CardinalityType
  <1>3. Cardinality(S) <= Cardinality(Procs) /\ Cardinality(T) <= Cardinality(Procs)
    BY <1>1, FS_Subset
  <1>4. (p \in S <=> p \in T) => S = T
    OBVIOUS
  <1>5. p \in S /\ p \notin T => Cardinality(S) = Cardinality(T) + 1
    <2>1. p \in S /\ p \notin T => S = T \cup {p}
      OBVIOUS
    <2> QED BY <2>1, <1>1, FS_AddElement
  <1>6. p \notin S /\ p \in T => Cardinality(T) = Cardinality(S) + 1
    <2>1. p \notin S /\ p \in T => T = S \cup {p}
      OBVIOUS
    <2> QED BY <2>1, <1>1, FS_AddElement
  <1> QED BY <1>2, <1>3, <1>4, <1>5, <1>6

\* Where each form leaves a process.
LEMMA Turns ==
    ASSUME NEW x \in Running
    PROVE  /\ \A pc : /\ Turned(x, pc).pc = pc /\ Retried(x, pc).pc = pc /\ \A page : Wrote(x, page, pc).pc = pc
                      /\ Turned(x, pc).run = x.run /\ Turned(x, pc).i = x.i
                      /\ Retried(x, pc).run = x.run /\ Retried(x, pc).i = x.i
                      /\ \A page : Wrote(x, page, pc).run = x.run /\ Wrote(x, page, pc).i = x.i
           /\ Advanced(x).pc = "next" /\ Advanced(x).run = x.run
           /\ Logged(x).pc = "record" /\ Logged(x).run = x.run /\ Logged(x).i = x.i
           /\ Cleared(x).pc = "insert" /\ Cleared(x).run = x.run /\ Cleared(x).i = x.i
           /\ Retrieved(x).pc = "asking" /\ Retrieved(x).run = x.run /\ Retrieved(x).i = x.i
           /\ Off.pc = "off" /\ \A r : Fresh(r).pc = "next" /\ Fresh(r).run = r
  BY DEF Turned, Retried, Wrote, Advanced, Logged, Cleared, Retrieved, Off, Fresh, Running

\* What each step does to the count of calls.
CountsKept == logged' = logged /\ sent' = sent /\ mishaps' = mishaps
LEMMA Counted ==
    ASSUME RunnerInv, NEW p \in Procs, Move(p)
    PROVE  LET before == proc[p].pc  after == proc'[p].pc IN
           \/ after \notin Spending /\ before # "answered" /\ CountsKept
           \/ before \notin Spending /\ after \in Spending \ {"answered"} /\ logged < DailyBudget /\ CountsKept
           \/ before \in Spending \ {"answered"} /\ after \in Spending \ {"answered"} /\ CountsKept
           \/ /\ before \in Spending \ {"answered"} /\ after = "answered"
              /\ sent' = sent + 1 /\ UNCHANGED <<logged, mishaps>>
           \/ /\ before = "answered" /\ after \notin Spending
              /\ logged' = logged + 1 /\ UNCHANGED <<sent, mishaps>>
           \/ /\ before # "answered" /\ after \notin Spending
              /\ sent' = sent + 1 /\ mishaps' = mishaps + 1 /\ UNCHANGED logged
           \/ after \notin Spending /\ mishaps' = mishaps + 1 /\ UNCHANGED <<logged, sent>>
  <1>1. ASSUME NEW r \in Runs, Start(p, r)
        PROVE  proc'[p].pc = "next" /\ proc[p].pc = "off" /\ CountsKept
    <2>1. proc[p].pc = "off"
      BY <1>1 DEF Start, Off
    <2>2. proc'[p] = Fresh(r)
      BY <1>1, Forms
    <2>3. proc'[p].pc = "next"
      BY <2>2 DEF Fresh
    <2> QED BY <2>1, <2>3, <1>1 DEF Start, store, CountsKept
  <1>2. CASE Finish(p) \/ BudgetStop(p) \/ Error(p)
    <2>1. proc'[p].pc = "off" /\ proc[p].pc \in {"next", "guard"} \cup Calling
      BY <1>2, Forms DEF Finish, BudgetStop, Error, At, Off
    <2> QED BY <2>1, <1>2 DEF Finish, BudgetStop, Error, history, store, Spending, Calling, CountsKept
  <1>3. CASE Unusable(p)
    <2>1. proc'[p] = Off /\ proc[p].pc = "asking"
      BY <1>3, Forms DEF Unusable, Answered, At
    <2> QED BY <2>1, <1>3 DEF Unusable, Answered, store, Spending, Off
  <1>4. CASE Kill(p)
    <2>1. proc'[p].pc = "off"
      BY <1>4, Forms DEF Off
    <2> QED BY <2>1, <1>4 DEF Kill, store, Spending
  <1>5. ASSUME proc[p].pc \in Points, Resume(p) \/ Lookup(p) \/ Record(p)
        PROVE  proc'[p].pc \notin Spending /\ proc[p].pc # "answered" /\ CountsKept
    <2>1. proc[p].pc # "answered"
      BY <1>5 DEF Resume, Lookup, Record, At
    <2>2. proc'[p].pc \in {"next", "lookup", "guard"}
      BY <1>5, Forms, Concerned, Turns
    <2> QED BY <2>1, <2>2, <1>5 DEF Resume, Lookup, Record, history, store, Spending, CountsKept
  <1>6. ASSUME proc[p].pc \in Points, Admit(p)
        PROVE  /\ proc[p].pc = "guard" /\ proc'[p].pc \in {"asking", "ensure"}
               /\ logged < DailyBudget /\ CountsKept
    <2>1. proc'[p].pc \in {"asking", "ensure"}
      BY <1>6, Forms, Concerned, Turns
    <2>2. logged < DailyBudget
      BY <1>6, EvalAssumption DEF Admit, OutOfBudget, RunnerInv, TypeOK
    <2> QED BY <2>1, <2>2, <1>6 DEF Admit, At, history, store, CountsKept
  <1>7. ASSUME proc[p].pc \in Points, LogCall(p)
        PROVE  /\ proc[p].pc = "answered" /\ proc'[p].pc = "record"
               /\ logged' = logged + 1 /\ UNCHANGED <<sent, mishaps>>
    <2>1. proc'[p] = Logged(proc[p]) /\ proc[p] \in Running
      BY <1>7, Forms, Concerned
    <2>2. proc'[p].pc = "record"
      BY <2>1, Turns
    <2> QED BY <2>2, <1>7 DEF LogCall, At, history
  <1>8. ASSUME proc[p].pc \in Points, EnsureIngested(p) \/ Clear(p) \/ Retrieve(p)
        PROVE  /\ proc[p].pc \in Spending \ {"answered"} /\ proc'[p].pc \in Spending \ {"answered"}
               /\ CountsKept
    <2>1. proc[p].pc \in {"ensure", "clear", "retrieve"} /\ CountsKept
      BY <1>8 DEF EnsureIngested, Clear, Retrieve, At, history, store, CountsKept
    <2>2. proc'[p].pc \in {"retrieve", "clear", "insert", "asking"}
      BY <1>8, Forms, Concerned, Turns
    <2> QED BY <2>1, <2>2 DEF Spending
  <1>9. ASSUME proc[p].pc \in Points, Insert(p)
        PROVE  proc[p].pc = "insert" /\ proc'[p].pc \in {"retrieve", "insert"} /\ CountsKept
    <2>1. proc[p] \in Running
      BY <1>9, Concerned
    <2>2. PICK page \in proc[p].todo, pc \in {"retrieve", "insert"} : proc'[p] = Wrote(proc[p], page, pc)
      BY <1>9, InsertForm
    <2>3. Wrote(proc[p], page, pc).pc = pc
      BY <2>1 DEF Wrote, Running
    <2> QED BY <2>2, <2>3, <1>9 DEF Insert, Write, At, history, CountsKept
  <1>10. ASSUME proc[p].pc \in Points, Answer(p)
         PROVE  /\ proc[p].pc = "asking" /\ proc'[p].pc = "answered"
                /\ sent' = sent + 1 /\ UNCHANGED <<logged, mishaps>>
    <2>1. proc'[p] = Turned(proc[p], "answered") /\ proc[p] \in Running
      BY <1>10, Forms, Concerned
    <2>2. proc'[p].pc = "answered"
      BY <2>1, Turns
    <2> QED BY <2>2, <1>10 DEF Answer, Answered, At, store
  <1>11. ASSUME proc[p].pc \in Points, RateLimited(p)
         PROVE  proc[p].pc = "asking" /\ proc'[p].pc \in {"off", "asking", "ensure"} /\ CountsKept
    <2>1. proc'[p].pc \in {"off", "asking", "ensure"}
      BY <1>11, Forms, Concerned, Turns
    <2> QED BY <2>1, <1>11 DEF RateLimited, At, history, store, CountsKept
  <1>12. Step(p) \/ Answer(p) \/ RateLimited(p) => proc[p].pc \in Points
    BY DEF Step, Finish, BudgetStop, Resume, Lookup, Record, Admit, LogCall, EnsureIngested, Clear, Insert, Write,
         Retrieve, Answer, Answered, RateLimited, At, Points
  <1>13. CASE Step(p)
    BY <1>2, <1>5, <1>6, <1>7, <1>8, <1>9, <1>12, <1>13 DEF Step, Spending
  <1> QED BY <1>1, <1>2, <1>3, <1>4, <1>10, <1>11, <1>12, <1>13 DEF Move, Spending

LEMMA BudgetMove ==
    ASSUME RunnerInv, BudgetInv, NEW p \in Procs, Move(p)
    PROVE  BudgetInv'
  <1> DEFINE answered == Serving({"answered"})
             spending == Serving(Spending)
             before == proc[p].pc
             after == proc'[p].pc
  <1>1. PICK A \in SUBSET Procs, B \in SUBSET Procs :
          A = {q \in Procs : proc'[q].pc = "answered"} /\ B = {q \in Procs : proc'[q].pc \in Spending}
    OBVIOUS
  <1>2. /\ A \ {p} = answered \ {p} /\ B \ {p} = spending \ {p}
        /\ answered \in SUBSET Procs /\ spending \in SUBSET Procs
        /\ p \in A <=> after = "answered"
        /\ p \in answered <=> before = "answered"
        /\ p \in B <=> after \in Spending
        /\ p \in spending <=> before \in Spending
    BY <1>1, Others DEF Serving
  <1>3. /\ Cardinality(answered) \in Nat /\ Cardinality(A) \in Nat /\ Cardinality(Procs) \in Nat
        /\ (before = "answered" <=> after = "answered") => Cardinality(A) = Cardinality(answered)
        /\ before = "answered" /\ after # "answered" => Cardinality(answered) = Cardinality(A) + 1
        /\ before # "answered" /\ after = "answered" => Cardinality(A) = Cardinality(answered) + 1
    BY <1>2, CountMove
  <1>4. /\ Cardinality(spending) \in Nat /\ Cardinality(B) \in Nat /\ Cardinality(B) <= Cardinality(Procs)
        /\ (before \in Spending <=> after \in Spending) => Cardinality(B) = Cardinality(spending)
        /\ before \in Spending /\ after \notin Spending => Cardinality(spending) = Cardinality(B) + 1
        /\ before \notin Spending /\ after \in Spending => Cardinality(B) = Cardinality(spending) + 1
    BY <1>2, CountMove
  <1>5. logged \in Nat /\ sent \in Nat /\ mishaps \in Nat /\ DailyBudget \in Nat
    BY EvalAssumption DEF RunnerInv, TypeOK
  <1>6. /\ sent <= logged + Cardinality(answered) + mishaps
        /\ logged + Cardinality(spending) <= DailyBudget + Cardinality(Procs) - 1
        /\ spending # {} => DailyBudget > 0
    BY DEF BudgetInv
  <1>7. "answered" \in Spending
    BY DEF Spending
  <1>8. \/ after \notin Spending /\ before # "answered" /\ CountsKept
        \/ before \notin Spending /\ after \in Spending \ {"answered"} /\ logged < DailyBudget /\ CountsKept
        \/ before \in Spending \ {"answered"} /\ after \in Spending \ {"answered"} /\ CountsKept
        \/ /\ before \in Spending \ {"answered"} /\ after = "answered"
           /\ sent' = sent + 1 /\ UNCHANGED <<logged, mishaps>>
        \/ /\ before = "answered" /\ after \notin Spending
           /\ logged' = logged + 1 /\ UNCHANGED <<sent, mishaps>>
        \/ /\ before # "answered" /\ after \notin Spending
           /\ sent' = sent + 1 /\ mishaps' = mishaps + 1 /\ UNCHANGED logged
        \/ after \notin Spending /\ mishaps' = mishaps + 1 /\ UNCHANGED <<logged, sent>>
    BY Counted
  <1>9. B # {} => DailyBudget > 0
    <2>1. B # {} => spending # {} \/ after \in Spending
      BY <1>2
    <2>2. after \in Spending => logged < DailyBudget \/ before \in Spending
      BY <1>8, <1>7
    <2> QED BY <2>1, <2>2, <1>2, <1>5, <1>6
  <1> HIDE DEF answered, spending, before, after
  <1>10. sent' <= logged' + Cardinality(A) + mishaps'
    BY <1>3, <1>5, <1>6, <1>7, <1>8 DEF CountsKept
  <1>11. logged' + Cardinality(B) <= DailyBudget + Cardinality(Procs) - 1
    BY <1>3, <1>4, <1>5, <1>6, <1>7, <1>8 DEF CountsKept
  <1>12. Serving({"answered"})' = A /\ Serving(Spending)' = B
    BY <1>1 DEF Serving, Spending
  <1> QED BY <1>9, <1>10, <1>11, <1>12 DEF BudgetInv

LEMMA BudgetStep == RunnerInv /\ BudgetInv /\ [Next]_vars => BudgetInv'
  <1> SUFFICES ASSUME RunnerInv, BudgetInv, [Next]_vars PROVE BudgetInv'
    OBVIOUS
  <1>1. ASSUME NEW p \in Procs, Move(p) PROVE BudgetInv'
    BY <1>1, BudgetMove
  <1>2. CASE Midnight
    <2>1. /\ Serving({"answered"})' = Serving({"answered"}) /\ Serving(Spending)' = Serving(Spending)
          /\ logged' = 0 /\ sent' = 0 /\ mishaps' = mishaps
      BY <1>2 DEF Midnight, Serving, Spending
    <2>2. /\ Cardinality(Serving({"answered"})) \in Nat /\ Cardinality(Serving(Spending)) \in Nat
          /\ Cardinality(Procs) \in Nat /\ Cardinality(Serving(Spending)) <= Cardinality(Procs)
      <3>1. PICK p \in Procs : TRUE
        BY EvalAssumption
      <3>2. Serving({"answered"}) \in SUBSET Procs /\ Serving(Spending) \in SUBSET Procs
        BY DEF Serving
      <3> QED BY <3>1, <3>2, CountMove
    <2>3. Cardinality(Procs) >= 1
      BY <2>2, EvalAssumption, FS_EmptySet
    <2>4. Serving(Spending) = {} => Cardinality(Serving(Spending)) = 0
      BY FS_EmptySet
    <2>5. mishaps \in Nat /\ DailyBudget \in Nat
      BY EvalAssumption DEF RunnerInv, TypeOK
    <2>6. Serving(Spending) # {} => DailyBudget > 0
      BY DEF BudgetInv
    <2>7. /\ 0 <= 0 + Cardinality(Serving({"answered"})) + mishaps
          /\ 0 + Cardinality(Serving(Spending)) <= DailyBudget + Cardinality(Procs) - 1
      BY <2>2, <2>3, <2>4, <2>5, <2>6
    <2> QED BY <2>1, <2>6, <2>7 DEF BudgetInv
  <1>3. CASE UNCHANGED vars
    BY <1>3 DEF BudgetInv, Serving, Spending, vars, store, history
  <1> QED BY <1>1, <1>2, <1>3 DEF Next, Move

LEMMA BudgetStart == Init => BudgetInv
  <1> SUFFICES ASSUME Init PROVE BudgetInv
    OBVIOUS
  <1>1. Serving({"answered"}) = {} /\ Serving(Spending) = {}
    BY DEF Init, Serving, Spending, Off
  <1>2. Cardinality(Procs) \in Nat /\ Cardinality(Procs) # 0
    BY EvalAssumption, FS_EmptySet, FS_CardinalityType
  <1>3. Cardinality({}) = 0
    BY FS_EmptySet
  <1>4. logged = 0 /\ sent = 0 /\ mishaps = 0 /\ DailyBudget \in Nat
    BY EvalAssumption DEF Init
  <1> QED BY <1>1, <1>2, <1>3, <1>4 DEF BudgetInv

\* The model answers at most the daily budget, one call for every runner beside the
\* first, and one for every answer that was lost: the guard counts a call only
\* when it is over (quota_guard.py 109-148).
THEOREM BudgetNearlyHolds == Spec => []BudgetHolds
  <1>1. RunnerInv /\ BudgetInv => BudgetHolds
    <2> SUFFICES ASSUME RunnerInv, BudgetInv PROVE BudgetHolds
      OBVIOUS
    <2>1. Serving({"answered"}) \subseteq Serving(Spending) /\ Serving(Spending) \subseteq Procs
      BY DEF Serving, Spending
    <2>2. IsFiniteSet(Procs) /\ IsFiniteSet(Serving(Spending))
      BY <2>1, EvalAssumption, FS_Subset
    <2>3. /\ Cardinality(Serving({"answered"})) <= Cardinality(Serving(Spending))
          /\ Cardinality(Serving({"answered"})) \in Nat /\ Cardinality(Serving(Spending)) \in Nat
          /\ Cardinality(Procs) \in Nat
      BY <2>1, <2>2, FS_Subset, FS_CardinalityType
    <2>4. logged \in Nat /\ sent \in Nat /\ mishaps \in Nat /\ DailyBudget \in Nat
      BY EvalAssumption DEF RunnerInv, TypeOK
    <2> QED BY <2>3, <2>4 DEF BudgetInv, BudgetHolds
  <1>2. Spec => []BudgetInv
    BY RunnerAlways, BudgetStart, BudgetStep, PTL DEF Spec
  <1> QED BY <1>1, <1>2, RunnerAlways, PTL

(***************************************************************************)
(* One answer to a prompt                                                  *)
(***************************************************************************)
Task(x) == Prompt(x.run, Records[x.run][x.i])

LEMMA Tasks ==
    ASSUME NEW x, NEW y, x.run = y.run, x.i = y.i
    PROVE  Task(x) = Task(y)
  BY DEF Task

LEMMA Keys ==
    ASSUME NEW k \in Prompts, NEW r \in Prompted(k)
    PROVE  r \in Runs /\ k[2] \in Questions /\ Prompt(r, k[2]) = k
  <1>1. PICK i \in DOMAIN Records[r] : Prompt(r, Records[r][i]) = k
    BY DEF Prompted
  <1>2. r \in Runs /\ Records[r][i] \in Questions
    BY <1>1 DEF Prompted, Questions
  <1>3. k[2] = Records[r][i]
    BY <1>1 DEF Prompt
  <1> QED BY <1>1, <1>2, <1>3

\* Runs that find each other's answers find the same ones.
LEMMA SameAsker ==
    ASSUME NEW k \in Prompts, NEW r \in Prompted(k), NEW s \in Prompted(k), Asker(r) = Asker(s)
    PROVE  Found(r, k) <=> Found(s, k)
  BY DEF Asker, Found

\* A process past the head of its loop has a run that is asked its prompt.
LEMMA AtTask ==
    ASSUME RunnerInv, NEW p \in Procs, proc[p].pc \in Points, InLoop(p) \/ ~At(p, "next")
    PROVE  /\ proc[p] \in Running /\ Task(proc[p]) = ThisPrompt(p) /\ Task(proc[p]) \in Prompts
           /\ proc[p].run \in Prompted(Task(proc[p]))
  <1>1. proc[p] \in Running /\ Placed(proc[p]) /\ proc[p] # Off /\ Run(p) \in Runs /\ ThisPrompt(p) \in Prompts
    BY Concerned
  <1>2. Task(proc[p]) = ThisPrompt(p)
    BY DEF Task, ThisPrompt, Run, Question
  <1>3. proc[p].i \in DOMAIN Records[proc[p].run]
    <2>1. Records[proc[p].run] \in Seq(Questions) /\ proc[p].i \in Nat /\ proc[p].i >= 1
      BY <1>1, EvalAssumption DEF Placed, Running, Run
    <2>2. proc[p].i <= Len(Records[proc[p].run])
      BY <1>1 DEF Placed, InLoop, At, Run
    <2> QED BY <2>1, <2>2
  <1> QED BY <1>1, <1>2, <1>3 DEF Prompted, Task, Run

\* Only a record makes an answer be found, by those who look where it is kept.
LEMMA FoundMove ==
    ASSUME RunnerInv, NEW p \in Procs, Move(p), NEW k \in Prompts, NEW r \in Prompted(k)
    PROVE  Found(r, k)' <=> Found(r, k) \/ (Record(p) /\ ThisPrompt(p) = k /\ Asker(r) = Asker(Run(p)))
  <1>0. r \in Runs /\ k[2] \in Questions /\ Prompt(r, k[2]) = k
    BY Keys
  <1>1. result \in [Runs -> [Questions -> {None} \cup SUBSET Pages]]
    BY DEF RunnerInv, TypeOK
  <1>2. CASE ~Record(p) /\ result' = result /\ cached' = cached
    BY <1>2 DEF Found
  <1>3. CASE ~(Record(p)) /\ ~(result' = result /\ cached' = cached)
    <2>1. At(p, "lookup") /\ Run(p) \in Naive /\ cached' = cached /\ \E S \in SUBSET Whole(Run(p)) : Save(p, S)
      <3>1. Lookup(p)
        BY <1>3 DEF Move, Step, Start, Finish, BudgetStop, Error, Unusable, Kill, Resume, Admit, LogCall,
           EnsureIngested, Clear, Insert, Write, Retrieve, Answer, RateLimited, store
      <3>2. At(p, "lookup") /\ cached' = cached
        BY <3>1 DEF Lookup
      <3>3. ~At(p, "record")
        BY <3>2 DEF At
      <3>4. /\ (At(p, "lookup") /\ Run(p) \in Naive) \/ At(p, "record")
            /\ \E S \in SUBSET Whole(Run(p)) : Save(p, S)
        BY <1>3, Saved
      <3> QED BY <3>2, <3>3, <3>4
    <2>2. r \notin Naive => result'[r] = result[r]
      BY <2>1, <1>0, <1>1 DEF Save
    <2> QED BY <2>1, <2>2, <1>3 DEF Found
  <1>4. CASE Record(p)
    <2>1. At(p, "record") /\ cached' = cached \cup {ThisPrompt(p)}
      BY <1>4 DEF Record
    <2>2. Run(p) \in Runs /\ Question(p) \in Questions /\ ThisPrompt(p) \in Prompts
      BY <2>1, Concerned DEF At, Points
    <2>3. PICK S \in SUBSET Pages : result' = [result EXCEPT ![Run(p)][Question(p)] = S]
      <3>1. proc[p].ctx \subseteq Whole(Run(p)) /\ Whole(Run(p)) \in SUBSET Pages
        BY <2>1, <2>2, Concerned, Wholes DEF At, Points, Placed, Run
      <3>2. CASE Run(p) \in Naive
        BY <3>1, <3>2, <1>4 DEF Record, Save
      <3>3. CASE Run(p) \notin Naive
        BY <3>1, <3>3, <1>4 DEF Record, Save
      <3> QED BY <3>2, <3>3
    <2>4. S # None
      BY <2>3, EvalAssumption
    <2>5. \A s \in Runs, q \in Questions : result'[s][q] = IF s = Run(p) /\ q = Question(p) THEN S ELSE result[s][q]
      BY <2>3, <1>1
    <2>6. ThisPrompt(p) = Prompt(Run(p), Question(p)) /\ ThisPrompt(p)[2] = Question(p)
      BY DEF ThisPrompt, Prompt
    <2>7. CASE r \in Naive
      <3>1. ThisPrompt(p) = k => Run(p) \in Naive
        <4>1. k[1] = "excerpts"
          BY <2>7, <1>0 DEF Prompt
        <4>2. ThisPrompt(p)[1] = IF Run(p) \in Naive THEN "excerpts" ELSE IF Run(p) \in Ablated THEN "n1 record" ELSE "record"
          BY DEF ThisPrompt, Prompt
        <4> QED BY <4>1, <4>2
      <3>2. ThisPrompt(p) = k => Asker(r) = Asker(Run(p))
        BY <3>1, <2>7 DEF Asker
      <3> QED BY <3>2, <2>1, <2>7, <1>4 DEF Found
    <2>8. CASE r \notin Naive
      <3>1. Asker(r) = Asker(Run(p)) <=> r = Run(p)
        <4>1. Asker(r) = {r} /\ (Run(p) \in Naive => Asker(Run(p)) = Naive) /\ (Run(p) \notin Naive => Asker(Run(p)) = {Run(p)})
          BY <2>8 DEF Asker
        <4> QED BY <4>1, <2>8
      <3>2. r = Run(p) => (k = ThisPrompt(p) <=> k[2] = Question(p))
        BY <2>6, <1>0
      <3>3. Found(r, k)' <=> (Found(r, k) \/ (r = Run(p) /\ k[2] = Question(p)))
        BY <2>4, <2>5, <2>8, <1>0 DEF Found
      <3> QED BY <3>1, <3>2, <3>3, <1>4
    <2> QED BY <2>7, <2>8
  <1> QED BY <1>2, <1>3, <1>4

\* A gate runner looks for its result, a naive one for the prompt, before it asks.
LEMMA Missing ==
    ASSUME RunnerInv, NEW p \in Procs,
           \/ Resume(p) /\ InLoop(p) /\ Result(p) = None /\ Run(p) \notin Naive
           \/ Lookup(p) /\ ThisPrompt(p) \notin cached
    PROVE  ~Found(Run(p), Task(proc[p])) /\ proc[p].run \in Prompted(Task(proc[p]))
  <1>1. proc[p].pc \in Points /\ (InLoop(p) \/ ~At(p, "next"))
    BY DEF Resume, Lookup, At, Points
  <1>2. Run(p) \in Runs /\ Question(p) \in Questions /\ ThisPrompt(p) \in Prompts
    BY <1>1, Concerned
  <1>3. Task(proc[p]) = ThisPrompt(p) /\ ThisPrompt(p)[2] = Question(p)
    BY DEF Task, ThisPrompt, Run, Question, Prompt
  <1>4. ASSUME Run(p) \notin Naive, Result(p) = None PROVE ~Found(Run(p), Task(proc[p]))
    BY <1>2, <1>3, <1>4 DEF Found, Result
  <1>5. ASSUME Lookup(p), ThisPrompt(p) \notin cached PROVE ~Found(Run(p), Task(proc[p]))
    <2>1. Run(p) \in Naive
      BY <1>1, <1>5, Concerned DEF Lookup, At, Placed, Run
    <2> QED BY <2>1, <1>2, <1>3, <1>5 DEF Found
  <1>6. proc[p].run \in Prompted(Task(proc[p]))
    BY <1>1, AtTask
  <1> QED BY <1>4, <1>5, <1>6

\* What each step does to answers and to those who wait for them.
AsksKept == asked' = asked /\ mishaps' = mishaps
Asks(k) == asked' = [asked EXCEPT ![k] = @ + 1]
SameTask(x, y) == y.run = x.run /\ Task(y) = Task(x)
LEMMA Asked ==
    ASSUME RunnerInv, NEW p \in Procs, Move(p)
    PROVE  LET x == proc[p]  y == proc'[p]  k == Task(proc[p]) IN
           /\ Record(p) => /\ x.pc \in Holding /\ y.pc \notin Wanting \cup Holding
                           /\ k = ThisPrompt(p) /\ AsksKept
           /\ ~Record(p) =>
              \/ y.pc \notin Wanting \cup Holding /\ x.pc \notin Holding /\ AsksKept
              \/ /\ x.pc \notin Wanting \cup Holding /\ y.pc \in Wanting
                 /\ x.run \in Prompted(k) /\ ~Found(x.run, k) /\ SameTask(x, y) /\ AsksKept
              \/ x.pc \in Wanting /\ y.pc \in Wanting /\ SameTask(x, y) /\ AsksKept
              \/ x.pc \in Wanting /\ y.pc \in Holding /\ SameTask(x, y) /\ Asks(k) /\ mishaps' = mishaps
              \/ x.pc \in Holding /\ y.pc \in Holding /\ SameTask(x, y) /\ AsksKept
              \/ x.pc \in Wanting /\ y.pc \notin Wanting \cup Holding /\ Asks(k) /\ mishaps' = mishaps + 1
              \/ y.pc \notin Wanting \cup Holding /\ mishaps' = mishaps + 1 /\ asked' = asked
  <1> DEFINE x == proc[p]
             y == proc'[p]
             k == Task(proc[p])
  <1>0. k = ThisPrompt(p)
    BY DEF Task, ThisPrompt, Run, Question
  <1>1. ASSUME NEW r \in Runs, Start(p, r)
        PROVE  y.pc \notin Wanting \cup Holding /\ x.pc \notin Holding /\ AsksKept
    <2>1. y = Fresh(r) /\ x = Off
      BY <1>1, Forms DEF Start
    <2> QED BY <2>1, <1>1 DEF Start, store, AsksKept, Fresh, Off, Wanting, Holding
  <1>2. ASSUME Finish(p) \/ BudgetStop(p) \/ Error(p)
        PROVE  y.pc \notin Wanting \cup Holding /\ x.pc \notin Holding /\ AsksKept
    <2>1. y = Off /\ x.pc \in {"next", "guard"} \cup Calling
      BY <1>2, Forms DEF Finish, BudgetStop, Error, At
    <2> QED BY <2>1, <1>2 DEF Finish, BudgetStop, Error, history, store, AsksKept, Off, Calling, Wanting, Holding
  <1>3. ASSUME Unusable(p)
        PROVE  x.pc \in Wanting /\ y.pc \notin Wanting \cup Holding /\ Asks(k) /\ mishaps' = mishaps + 1
    <2>1. y = Off /\ x.pc = "asking"
      BY <1>3, Forms DEF Unusable, Answered, At
    <2> QED BY <2>1, <1>0, <1>3 DEF Unusable, Answered, store, Asks, Off, Wanting, Holding
  <1>4. ASSUME Kill(p)
        PROVE  y.pc \notin Wanting \cup Holding /\ mishaps' = mishaps + 1 /\ asked' = asked
    <2>1. y = Off
      BY <1>4, Forms
    <2> QED BY <2>1, <1>4 DEF Kill, store, Off, Wanting, Holding
  <1>5. ASSUME x \in Running, Resume(p)
        PROVE  \/ y.pc \notin Wanting \cup Holding /\ x.pc \notin Holding /\ AsksKept
               \/ /\ x.pc \notin Wanting \cup Holding /\ y.pc \in Wanting /\ x.run \in Prompted(k)
                  /\ ~Found(x.run, k) /\ SameTask(x, y) /\ AsksKept
    <2>0. proc \in [Procs -> Running \cup {Off}]
      BY DEF RunnerInv, TypeOK
    <2>1. x.pc = "next" /\ InLoop(p) /\ AsksKept
      BY <1>5 DEF Resume, At, history, store, AsksKept
    <2>2. \/ y = Advanced(x) \/ y = Turned(x, "lookup")
          \/ y = Turned(x, "guard") /\ Run(p) \notin Naive /\ Result(p) = None
      BY <1>5, <2>0 DEF Resume, NextRecord, Goto, Advanced, Turned, Run
    <2>3. CASE y = Advanced(x) \/ y = Turned(x, "lookup")
      <3>1. y.pc \in {"next", "lookup"}
        BY <2>3, <1>5, Turns
      <3> QED BY <3>1, <2>1 DEF Wanting, Holding
    <2>4. CASE y = Turned(x, "guard") /\ Run(p) \notin Naive /\ Result(p) = None
      <3>1. y.pc = "guard" /\ y.run = x.run /\ y.i = x.i
        BY <2>4, <1>5, Turns
      <3>2. ~Found(x.run, k) /\ x.run \in Prompted(k)
        BY <2>1, <2>4, <1>5, Missing DEF Run
      <3>3. SameTask(x, y)
        BY <3>1, Tasks DEF SameTask
      <3> QED BY <3>1, <3>2, <3>3, <2>1 DEF Wanting, Holding
    <2> QED BY <2>2, <2>3, <2>4
  <1>6. ASSUME x \in Running, Lookup(p)
        PROVE  \/ y.pc \notin Wanting \cup Holding /\ x.pc \notin Holding /\ AsksKept
               \/ /\ x.pc \notin Wanting \cup Holding /\ y.pc \in Wanting /\ x.run \in Prompted(k)
                  /\ ~Found(x.run, k) /\ SameTask(x, y) /\ AsksKept
    <2>0. proc \in [Procs -> Running \cup {Off}]
      BY DEF RunnerInv, TypeOK
    <2>1. x.pc = "lookup" /\ AsksKept
      BY <1>6 DEF Lookup, At, history, AsksKept
    <2>2. y = Advanced(x) \/ (y = Turned(x, "guard") /\ ThisPrompt(p) \notin cached)
      BY <1>6, <2>0 DEF Lookup, NextRecord, Goto, Advanced, Turned
    <2>3. CASE y = Advanced(x)
      <3>1. y.pc = "next"
        BY <2>3, <1>6, Turns
      <3> QED BY <3>1, <2>1 DEF Wanting, Holding
    <2>4. CASE y = Turned(x, "guard") /\ ThisPrompt(p) \notin cached
      <3>1. y.pc = "guard" /\ y.run = x.run /\ y.i = x.i
        BY <2>4, <1>6, Turns
      <3>2. ~Found(x.run, k) /\ x.run \in Prompted(k)
        BY <2>4, <1>6, Missing DEF Run
      <3>3. SameTask(x, y)
        BY <3>1, Tasks DEF SameTask
      <3> QED BY <3>1, <3>2, <3>3, <2>1 DEF Wanting, Holding
    <2> QED BY <2>2, <2>3, <2>4
  <1>7. ASSUME x \in Running, Record(p)
        PROVE  x.pc \in Holding /\ y.pc \notin Wanting \cup Holding /\ AsksKept
    <2>1. y = Advanced(x)
      BY <1>7, Forms
    <2>2. y.pc = "next"
      BY <2>1, <1>7, Turns
    <2> QED BY <2>2, <1>7 DEF Record, At, history, AsksKept, Wanting, Holding
  <1>8. ASSUME x \in Running, Admit(p) \/ EnsureIngested(p) \/ Clear(p) \/ Retrieve(p) \/ Insert(p)
        PROVE  x.pc \in Wanting /\ y.pc \in Wanting /\ SameTask(x, y) /\ AsksKept
    <2>1. x.pc \in Wanting /\ AsksKept
      BY <1>8 DEF Admit, EnsureIngested, Clear, Retrieve, Insert, Write, At, history, store, AsksKept, Wanting
    <2>2. CASE Insert(p)
      <3>1. PICK page \in x.todo, pc \in {"retrieve", "insert"} : y = Wrote(x, page, pc)
        BY <2>2, InsertForm
      <3>2. y.pc = pc /\ y.run = x.run /\ y.i = x.i
        BY <1>8, <3>1 DEF Wrote, Running
      <3> QED BY <3>2, <2>1, Tasks DEF Wanting, SameTask
    <2>3. CASE Admit(p) \/ EnsureIngested(p)
      <3>1. PICK pc \in {"asking", "ensure", "retrieve", "clear"} : y = Turned(x, pc)
        BY <2>3, Forms
      <3>2. y.pc = pc /\ y.run = x.run /\ y.i = x.i
        BY <1>8, <3>1, Turns
      <3> QED BY <3>2, <2>1, Tasks DEF Wanting, SameTask
    <2>4. CASE Clear(p) \/ Retrieve(p)
      <3>1. y = Cleared(x) \/ y = Retrieved(x)
        BY <2>4, Forms
      <3>2. y.pc \in {"insert", "asking"} /\ y.run = x.run /\ y.i = x.i
        BY <1>8, <3>1, Turns
      <3> QED BY <3>2, <2>1, Tasks DEF Wanting, SameTask
    <2> QED BY <1>8, <2>2, <2>3, <2>4
  <1>9. ASSUME x \in Running, LogCall(p)
        PROVE  x.pc \in Holding /\ y.pc \in Holding /\ SameTask(x, y) /\ AsksKept
    <2>1. y = Logged(x)
      BY <1>9, Forms
    <2>2. y.pc = "record" /\ y.run = x.run /\ y.i = x.i
      BY <2>1, <1>9, Turns
    <2> QED BY <2>2, <1>9, Tasks DEF LogCall, At, history, AsksKept, Holding, SameTask
  <1>10. ASSUME x \in Running, Answer(p)
         PROVE  x.pc \in Wanting /\ y.pc \in Holding /\ SameTask(x, y) /\ Asks(k) /\ mishaps' = mishaps
    <2>1. y = Turned(x, "answered") /\ x.pc = "asking"
      BY <1>10, Forms DEF Answer, Answered, At
    <2>2. y.pc = "answered" /\ y.run = x.run /\ y.i = x.i
      BY <2>1, <1>10, Turns
    <2>3. SameTask(x, y)
      BY <2>2, Tasks DEF SameTask
    <2> QED BY <2>1, <2>2, <2>3, <1>0, <1>10 DEF Answer, Answered, store, Asks, Wanting, Holding
  <1>11. ASSUME x \in Running, RateLimited(p)
         PROVE  \/ y.pc \notin Wanting \cup Holding /\ x.pc \notin Holding /\ AsksKept
                \/ x.pc \in Wanting /\ y.pc \in Wanting /\ SameTask(x, y) /\ AsksKept
    <2>1. x.pc = "asking" /\ AsksKept
      BY <1>11 DEF RateLimited, At, history, store, AsksKept
    <2>2. CASE y = Off
      BY <2>1, <2>2 DEF Off, Wanting, Holding
    <2>3. CASE y # Off
      <3>1. PICK pc \in {"asking", "ensure"} : y = Retried(x, pc)
        BY <2>3, <1>11, Forms
      <3>2. y.pc = pc /\ y.run = x.run /\ y.i = x.i
        BY <3>1, <1>11, Turns
      <3> QED BY <3>2, <2>1, Tasks DEF Wanting, SameTask
    <2> QED BY <2>2, <2>3
  <1>12. Step(p) \/ Answer(p) \/ RateLimited(p) => x \in Running
    <2>1. Step(p) \/ Answer(p) \/ RateLimited(p) => x.pc \in Points
      BY DEF Step, Finish, BudgetStop, Resume, Lookup, Record, Admit, LogCall, EnsureIngested, Clear, Insert, Write,
           Retrieve, Answer, Answered, RateLimited, At, Points
    <2> QED BY <2>1, Concerned
  <1>13. CASE Record(p)
    <2>1. x \in Running
      BY <1>12, <1>13 DEF Step
    <2> QED BY <2>1, <1>0, <1>7, <1>13
  <1>14. CASE ~Record(p)
    <2>1. CASE Step(p)
      BY <1>2, <1>5, <1>6, <1>8, <1>9, <1>12, <1>14, <2>1 DEF Step
    <2>2. CASE Answer(p) \/ RateLimited(p)
      BY <1>10, <1>11, <1>12, <1>14, <2>2
    <2>3. CASE \E r \in Runs : Start(p, r)
      BY <1>1, <1>14, <2>3
    <2>4. CASE Error(p) \/ Unusable(p) \/ Kill(p)
      BY <1>2, <1>3, <1>4, <1>14, <2>4
    <2> QED BY <2>1, <2>2, <2>3, <2>4 DEF Move
  <1> QED BY <1>13, <1>14

LEMMA Times ==
    ASSUME NEW n \in Nat, NEW s \in Nat, NEW c \in Nat
    PROVE  /\ n * s \in Nat /\ n * (s + 1) = n * s + n
           /\ s + 1 <= c => n * s + n <= n * c
  <1>1. n * s \in Nat /\ n * c \in Nat /\ n * (s + 1) = n * s + n
    BY SMT
  <1>2. ASSUME s + 1 <= c PROVE n * s + n <= n * c
    <2>1. PICK d \in Nat : c = (s + 1) + d
      <3>1. c - (s + 1) \in Nat /\ c = (s + 1) + (c - (s + 1))
        BY <1>2
      <3> QED BY <3>1
    <2>2. n * c = n * (s + 1) + n * d /\ n * d \in Nat
      BY <2>1, SMT
    <2> QED BY <1>1, <2>2
  <1> QED BY <1>1, <1>2

LEMMA AskersFinite ==
    ASSUME NEW k
    PROVE  /\ Askers(k) = {Asker(r) : r \in Prompted(k)} /\ IsFiniteSet(Askers(k))
           /\ Served(k) \in SUBSET Askers(k) /\ IsFiniteSet(Served(k))
  <1>1. Askers(k) = {Asker(r) : r \in Prompted(k)}
    BY DEF Askers, Prompted
  <1>2. Askers(k) \in SUBSET (SUBSET Runs)
    BY <1>1, EvalAssumption DEF Asker, Prompted
  <1>3. IsFiniteSet(Askers(k))
    BY <1>2, EvalAssumption, FS_SUBSET, FS_Subset
  <1>4. Served(k) \in SUBSET Askers(k)
    BY <1>1 DEF Served
  <1> QED BY <1>1, <1>3, <1>4, FS_Subset

LEMMA AskedMove ==
    ASSUME RunnerInv, NEW p \in Procs, Move(p), NEW k \in Prompts, AskedInv(k)
    PROVE  AskedInv(k)'
  <1> DEFINE x == proc[p]
             y == proc'[p]
             A == Again(k)
             H == For(k, Holding)
             N == Cardinality(Procs)
             At2(z, points) == z.pc \in points /\ Task(z) = k
             F == {r \in Runs : Found(r, k)'}
  <1>1. PICK B \in SUBSET Procs, G \in SUBSET Procs :
          /\ B = {q \in Procs : At2(proc'[q], Wanting \cup Holding) /\ proc'[q].run \in F}
          /\ G = {q \in Procs : At2(proc'[q], Holding)}
    OBVIOUS
  <1>2. /\ A = {q \in Procs : At2(proc[q], Wanting \cup Holding) /\ Found(proc[q].run, k)}
        /\ H = {q \in Procs : At2(proc[q], Holding)}
    BY DEF Again, For, ThisPrompt, Run, Question, Task
  <1>3. \A q \in Procs : q # p => proc'[q] = proc[q]
    BY Others
  <1>4. \A q \in Procs : At2(proc[q], Wanting \cup Holding) => proc[q].run \in Prompted(k)
    <2> SUFFICES ASSUME NEW q \in Procs, At2(proc[q], Wanting \cup Holding) PROVE proc[q].run \in Prompted(k)
      OBVIOUS
    <2>1. proc[q].pc \in Points /\ ~At(q, "next")
      BY DEF Wanting, Holding, Points, At
    <2> QED BY <2>1, AtTask
  <1>5. /\ G \ {p} = H \ {p} /\ H \in SUBSET Procs
        /\ p \in G <=> At2(y, Holding)
        /\ p \in H <=> At2(x, Holding)
    BY <1>1, <1>2, <1>3
  <1>6. /\ Cardinality(H) \in Nat /\ Cardinality(G) \in Nat /\ N \in Nat
        /\ (p \in H <=> p \in G) => Cardinality(G) = Cardinality(H)
        /\ p \in H /\ p \notin G => Cardinality(H) = Cardinality(G) + 1
        /\ p \notin H /\ p \in G => Cardinality(G) = Cardinality(H) + 1
    BY <1>5, CountMove
  <1>7. asked[k] + Cardinality(A) <= N * Cardinality(Served(k)) + Cardinality(H) + mishaps
    BY DEF AskedInv
  <1>8. /\ asked[k] \in Nat /\ mishaps \in Nat
        /\ \A j \in Prompts : Asks(j) => asked'[k] = IF j = k THEN asked[k] + 1 ELSE asked[k]
        /\ asked' = asked => asked'[k] = asked[k]
    BY EvalAssumption DEF RunnerInv, TypeOK, Asks
  <1>9. Cardinality(Served(k)) \in Nat
    BY AskersFinite, FS_CardinalityType
  <1>10. N * Cardinality(Served(k)) \in Nat /\ N * (Cardinality(Served(k)) + 1) = N * Cardinality(Served(k)) + N
    BY <1>6, <1>9, Times
  <1>11. Again(k)' = B /\ For(k, Holding)' = G
    <2>1. \A q \in Procs : At2(proc'[q], Wanting \cup Holding) => proc'[q].run \in Runs
      <3>1. \A q \in Procs : proc'[q] \in Running \cup {Off}
        BY Moved, <1>3 DEF RunnerInv, TypeOK
      <3> QED BY <3>1 DEF Off, Running, Wanting, Holding
    <2>2. For(k, Holding)' = G
      BY <1>1 DEF For, ThisPrompt, Run, Question, Task, Holding
    <2>3. For(k, Wanting \cup Holding)' = {q \in Procs : At2(proc'[q], Wanting \cup Holding)}
      BY DEF For, ThisPrompt, Run, Question, Task, Wanting, Holding
    <2>4. \A q \in Procs : At2(proc'[q], Wanting \cup Holding) => (Found(Run(q), k)' <=> proc'[q].run \in F)
      BY <2>1 DEF Found, Run
    <2>5. Again(k)' = {q \in For(k, Wanting \cup Holding)' : Found(Run(q), k)'}
      BY DEF Again
    <2> QED BY <1>1, <2>2, <2>3, <2>4, <2>5
  <1>12. A \in SUBSET Procs
    BY <1>2
  <1>13. CASE Record(p) /\ Task(x) = k
    <2>1. /\ At2(x, Holding) /\ y.pc \notin Wanting \cup Holding /\ k = ThisPrompt(p)
          /\ asked' = asked /\ mishaps' = mishaps
      BY <1>13, Asked DEF AsksKept
    <2>2. p \in H /\ p \notin G /\ p \notin B
      BY <2>1, <1>1, <1>5
    <2>3. x.run \in Prompted(k) /\ Run(p) = x.run
      BY <2>1, <1>4 DEF Run
    <2>4. \A r \in Prompted(k) : Found(r, k)' <=> (Found(r, k) \/ Asker(r) = Asker(x.run))
      BY <2>1, <2>3, <1>13, FoundMove
    <2>5. CASE Found(x.run, k)
      <3>1. \A r \in Prompted(k) : Found(r, k)' <=> Found(r, k)
        BY <2>3, <2>4, <2>5, SameAsker
      <3>6. \A q \in Procs : At2(proc[q], Wanting \cup Holding) => (proc[q].run \in F <=> Found(proc[q].run, k))
        BY <3>1, <1>4 DEF Prompted
      <3>2. Served(k)' = Served(k)
        BY <3>1 DEF Served, Prompted
      <3>3. B \ {p} = A \ {p} /\ p \in A
        BY <3>6, <1>1, <1>2, <1>3, <2>1, <2>5
      <3>4. Cardinality(A) = Cardinality(B) + 1 /\ Cardinality(B) \in Nat
        BY <3>3, <2>2, <1>12, CountMove
      <3>5. asked'[k] + Cardinality(B) <= N * Cardinality(Served(k)) + Cardinality(G) + mishaps'
        <4> HIDE DEF A, H, N
        <4> QED BY <3>4, <2>1, <2>2, <1>6, <1>7, <1>8, <1>10
      <3> QED BY <3>2, <3>5, <1>11 DEF AskedInv
    <2>6. CASE ~Found(x.run, k)
      <3>1. Served(k)' = Served(k) \cup {Asker(x.run)}
        <4>1. Served(k)' = {Asker(r) : r \in {s \in Prompted(k) : Found(s, k)'}}
          BY DEF Served, Prompted
        <4> QED BY <4>1, <2>3, <2>4 DEF Served
      <3>2. Asker(x.run) \notin Served(k)
        BY <2>3, <2>6, SameAsker DEF Served
      <3>3. Cardinality(Served(k)') = Cardinality(Served(k)) + 1
        BY <3>1, <3>2, AskersFinite, FS_AddElement
      <3>4. Cardinality(B) <= N - 1 /\ Cardinality(B) \in Nat
        <4>1. B \in SUBSET (Procs \ {p}) /\ IsFiniteSet(Procs \ {p}) /\ Cardinality(Procs \ {p}) = N - 1
          BY <2>2, EvalAssumption, FS_RemoveElement
        <4> QED BY <4>1, FS_Subset, FS_CardinalityType
      <3>5. Cardinality(A) \in Nat
        BY <1>12, EvalAssumption, FS_Subset, FS_CardinalityType
      <3>6. asked'[k] + Cardinality(B) <= N * (Cardinality(Served(k)) + 1) + Cardinality(G) + mishaps'
        <4> HIDE DEF A, H, N
        <4> QED BY <3>4, <3>5, <2>1, <2>2, <1>6, <1>7, <1>8, <1>10
      <3>7. AskedInv(k)' <=> asked'[k] + Cardinality(B) <= N * Cardinality(Served(k)') + Cardinality(G) + mishaps'
        BY <1>11 DEF AskedInv
      <3> QED BY <3>3, <3>6, <3>7
    <2> QED BY <2>5, <2>6
  <1>14. CASE ~(Record(p) /\ Task(x) = k)
    <2>1. \A r \in Prompted(k) : Found(r, k)' <=> Found(r, k)
      <3>1. ThisPrompt(p) = Task(x)
        BY DEF ThisPrompt, Task, Run, Question
      <3> QED BY <3>1, <1>14, FoundMove
    <2>2. Served(k)' = Served(k)
      BY <2>1 DEF Served, Prompted
    <2>3. B \ {p} = A \ {p}
      <3>1. \A q \in Procs : At2(proc[q], Wanting \cup Holding) => (proc[q].run \in F <=> Found(proc[q].run, k))
        BY <2>1, <1>4 DEF Prompted
      <3> QED BY <3>1, <1>1, <1>2, <1>3
    <2>4. /\ Cardinality(A) \in Nat /\ Cardinality(B) \in Nat
          /\ (p \in A <=> p \in B) => Cardinality(B) = Cardinality(A)
          /\ p \in A /\ p \notin B => Cardinality(A) = Cardinality(B) + 1
          /\ p \notin A /\ p \in B => Cardinality(B) = Cardinality(A) + 1
      BY <2>3, <1>12, CountMove
    <2>5. p \in A <=> At2(x, Wanting \cup Holding) /\ Found(x.run, k)
      BY <1>2
    <2>6. p \in B <=> At2(y, Wanting \cup Holding) /\ y.run \in F
      BY <1>1
    <2>7. ASSUME x.run \in Prompted(k) PROVE x.run \in F <=> Found(x.run, k)
      BY <2>1, <2>7 DEF Prompted
    <2>8. ASSUME x.pc \in Wanting \cup Holding
          PROVE  Task(x) \in Prompts /\ x.run \in Prompted(Task(x))
      <3>1. x.pc \in Points /\ ~At(p, "next")
        BY <2>8 DEF Wanting, Holding, Points, At
      <3> QED BY <3>1, AtTask
    <2>9. \/ asked'[k] = asked[k] /\ mishaps' = mishaps /\ (p \in H <=> p \in G) /\ (p \in B => p \in A)
          \/ asked'[k] = asked[k] + 1 /\ mishaps' = mishaps /\ p \notin H /\ p \in G /\ (p \in B => p \in A)
          \/ asked'[k] \in {asked[k], asked[k] + 1} /\ mishaps' = mishaps + 1 /\ p \notin H /\ p \notin G /\ p \notin B
          \/ asked'[k] = asked[k] /\ mishaps' = mishaps + 1 /\ p \notin G /\ p \notin B
      <3>1. CASE Record(p)
        <4>1. x.pc \in Holding /\ y.pc \notin Wanting \cup Holding /\ AsksKept
          BY <3>1, Asked
        <4>2. p \notin H /\ p \notin G /\ p \notin B /\ p \notin A
          BY <4>1, <3>1, <1>5, <1>14, <2>5, <2>6
        <4> QED BY <4>1, <4>2, <1>8 DEF AsksKept
      <3>2. CASE y.pc \notin Wanting \cup Holding /\ x.pc \notin Holding /\ AsksKept
        BY <3>2, <1>5, <1>8, <2>6 DEF AsksKept
      <3>3. CASE /\ x.pc \notin Wanting \cup Holding /\ y.pc \in Wanting
                 /\ x.run \in Prompted(Task(x)) /\ ~Found(x.run, Task(x)) /\ SameTask(x, y) /\ AsksKept
        <4>1. p \notin H /\ p \notin G
          BY <3>3, <1>5 DEF Wanting, Holding
        <4>2. p \notin B
          BY <3>3, <2>6, <2>7 DEF SameTask
        <4> QED BY <4>1, <4>2, <3>3, <1>8 DEF AsksKept
      <3>4. CASE x.pc \in Wanting /\ y.pc \in Wanting /\ SameTask(x, y) /\ AsksKept
        <4>1. (p \in H <=> p \in G)
          BY <3>4, <1>5 DEF Wanting, Holding
        <4>2. p \in B => p \in A
          BY <3>4, <2>5, <2>6, <2>7, <2>8 DEF SameTask
        <4> QED BY <4>1, <4>2, <3>4, <1>8 DEF AsksKept
      <3>5. CASE x.pc \in Wanting /\ y.pc \in Holding /\ SameTask(x, y) /\ Asks(Task(x)) /\ mishaps' = mishaps
        <4>1. p \notin H /\ (p \in G <=> Task(x) = k)
          BY <3>5, <1>5 DEF Wanting, Holding, SameTask
        <4>2. p \in B => p \in A
          BY <3>5, <2>5, <2>6, <2>7, <2>8 DEF SameTask
        <4> QED BY <4>1, <4>2, <3>5, <1>8, <2>8
      <3>6. CASE x.pc \in Holding /\ y.pc \in Holding /\ SameTask(x, y) /\ AsksKept
        <4>1. p \in H <=> p \in G
          BY <3>6, <1>5 DEF SameTask
        <4>2. p \in B => p \in A
          BY <3>6, <2>5, <2>6, <2>7, <2>8 DEF SameTask
        <4> QED BY <4>1, <4>2, <3>6, <1>8 DEF AsksKept
      <3>7. CASE x.pc \in Wanting /\ y.pc \notin Wanting \cup Holding /\ Asks(Task(x)) /\ mishaps' = mishaps + 1
        <4>1. p \notin H /\ p \notin G /\ p \notin B
          BY <3>7, <1>5, <2>6 DEF Wanting, Holding
        <4> QED BY <4>1, <3>7, <1>8, <2>8
      <3>8. CASE y.pc \notin Wanting \cup Holding /\ mishaps' = mishaps + 1 /\ asked' = asked
        BY <3>8, <1>5, <1>8, <2>6
      <3> QED BY <3>1, <3>2, <3>3, <3>4, <3>5, <3>6, <3>7, <3>8, Asked
    <2>10. asked'[k] + Cardinality(B) <= N * Cardinality(Served(k)) + Cardinality(G) + mishaps'
      <3> HIDE DEF A, H, N
      <3> QED BY <2>4, <2>9, <1>6, <1>7, <1>8, <1>10
    <2> QED BY <2>2, <2>10, <1>11 DEF AskedInv
  <1> QED BY <1>13, <1>14

AskInv == \A k \in Prompts : AskedInv(k)

LEMMA AskStart == Init => AskInv
  <1> SUFFICES ASSUME Init, NEW k \in Prompts PROVE AskedInv(k)
    BY DEF AskInv
  <1>1. For(k, Holding) = {} /\ Again(k) = {}
    BY DEF Init, For, Again, Off, Wanting, Holding
  <1>2. Cardinality({}) = 0 /\ Cardinality(Procs) \in Nat /\ Cardinality(Served(k)) \in Nat
    BY EvalAssumption, AskersFinite, FS_EmptySet, FS_CardinalityType
  <1>3. asked[k] = 0 /\ mishaps = 0
    BY DEF Init
  <1>4. Cardinality(Procs) * Cardinality(Served(k)) \in Nat
    BY <1>2, Times
  <1> QED BY <1>1, <1>2, <1>3, <1>4 DEF AskedInv

LEMMA AskStep == RunnerInv /\ AskInv /\ [Next]_vars => AskInv'
  <1> SUFFICES ASSUME RunnerInv, AskInv, [Next]_vars PROVE AskInv'
    OBVIOUS
  <1>1. Prompts' = Prompts
    BY DEF Prompts, Questions
  <1>2. ASSUME NEW p \in Procs, Move(p) PROVE AskInv'
    BY <1>1, <1>2, AskedMove DEF AskInv
  <1>3. CASE Midnight \/ UNCHANGED vars
    <2>1. UNCHANGED <<proc, result, cached, asked, mishaps>>
      BY <1>3 DEF Midnight, vars, store, history
    <2>2. ASSUME NEW k \in Prompts PROVE AskedInv(k)'
      <3>1. Again(k)' = Again(k) /\ For(k, Holding)' = For(k, Holding) /\ Served(k)' = Served(k)
        BY <2>1 DEF Again, For, Served, Found, Prompted, ThisPrompt, Run, Question, Wanting, Holding
      <3> QED BY <2>1, <3>1 DEF AskInv, AskedInv
    <2> QED BY <2>2, <1>1 DEF AskInv
  <1> QED BY <1>2, <1>3 DEF Next, Move

\* A prompt is answered once for all naive runs and once for each gate run that has
\* it, times the processes that missed it at the same moment, and once more for every
\* answer that was lost, however often a run is stopped and started again.
THEOREM NeverAskedAgain == Spec => []AskedOnce
  <1>1. RunnerInv /\ AskInv => AskedOnce
    <2> SUFFICES ASSUME RunnerInv, AskInv, NEW k \in Prompts
                 PROVE  asked[k] <= Cardinality(Procs) * Cardinality(Askers(k)) + mishaps
      BY DEF AskedOnce
    <2> DEFINE N == Cardinality(Procs)
               H == For(k, Holding)
    <2> SUFFICES asked[k] <= N * Cardinality(Askers(k)) + mishaps
      OBVIOUS
    <2>1. IsFiniteSet(Procs) /\ Again(k) \in SUBSET Procs /\ H \in SUBSET Procs
      BY EvalAssumption DEF Again, For
    <2>2. /\ N \in Nat /\ Cardinality(H) \in Nat /\ Cardinality(Again(k)) \in Nat
          /\ Cardinality(H) <= N /\ IsFiniteSet(Again(k))
      BY <2>1, FS_Subset, FS_CardinalityType
    <2>3. asked[k] \in Nat /\ mishaps \in Nat
      BY EvalAssumption DEF RunnerInv, TypeOK
    <2>4. /\ Cardinality(Served(k)) \in Nat /\ Cardinality(Askers(k)) \in Nat
          /\ Cardinality(Served(k)) <= Cardinality(Askers(k))
          /\ Cardinality(Served(k)) = Cardinality(Askers(k)) => Served(k) = Askers(k)
      BY AskersFinite, FS_Subset, FS_CardinalityType
    <2>5. asked[k] + Cardinality(Again(k)) <= N * Cardinality(Served(k)) + Cardinality(H) + mishaps
      BY DEF AskInv, AskedInv
    <2>6. N * Cardinality(Served(k)) \in Nat /\ N * Cardinality(Askers(k)) \in Nat
      BY <2>2, <2>4, Times
    <2>7. CASE Served(k) = Askers(k)
      <3>1. ASSUME NEW p \in H PROVE p \in Again(k)
        <4>1. p \in Procs /\ proc[p].pc \in Holding /\ ThisPrompt(p) = k
          BY <3>1 DEF For
        <4>2. Run(p) \in Prompted(k)
          <5>1. proc[p].pc \in Points /\ ~At(p, "next")
            BY <4>1 DEF Holding, Points, At
          <5> QED BY <5>1, <4>1, AtTask DEF Run
        <4>3. Asker(Run(p)) \in Served(k)
          BY <4>2, <2>7, AskersFinite
        <4>4. PICK s \in Prompted(k) : Found(s, k) /\ Asker(s) = Asker(Run(p))
          BY <4>3 DEF Served
        <4>5. Found(Run(p), k)
          BY <4>2, <4>4, SameAsker
        <4> QED BY <4>1, <4>5 DEF Again, For
      <3>2. Cardinality(H) <= Cardinality(Again(k))
        BY <3>1, <2>2, FS_Subset
      <3>3. N * Cardinality(Served(k)) = N * Cardinality(Askers(k))
        BY <2>7
      <3> HIDE DEF N, H
      <3> QED BY <3>2, <3>3, <2>2, <2>3, <2>5, <2>6
    <2>8. CASE Served(k) # Askers(k)
      <3>1. Cardinality(Served(k)) + 1 <= Cardinality(Askers(k))
        BY <2>4, <2>8
      <3>2. N * Cardinality(Served(k)) + N <= N * Cardinality(Askers(k))
        BY <3>1, <2>2, <2>4, Times
      <3> HIDE DEF N, H
      <3> QED BY <3>2, <2>2, <2>3, <2>5, <2>6
    <2> QED BY <2>7, <2>8
  <1>2. Spec => []AskInv
    BY RunnerAlways, AskStart, AskStep, PTL DEF Spec
  <1> QED BY <1>1, <1>2, RunnerAlways, PTL

(***************************************************************************)
(* Answers from the whole document                                         *)
(***************************************************************************)
\* A runner keeps its run until it is off.
LEMMA SameRun ==
    ASSUME RunnerInv, NEW p \in Procs, Move(p), proc'[p] # Off, ~\E r \in Runs : Start(p, r)
    PROVE  proc[p] \in Running /\ proc'[p].run = proc[p].run
  <1> DEFINE x == proc[p]
             y == proc'[p]
  <1>1. Step(p) \/ Answer(p) \/ RateLimited(p)
    BY Forms DEF Move
  <1>2. x.pc \in Points
    BY <1>1 DEF Step, Finish, BudgetStop, Resume, Lookup, Record, Admit, LogCall, EnsureIngested, Clear, Insert, Write,
         Retrieve, Answer, Answered, RateLimited, At, Points
  <1>3. x \in Running
    BY <1>2, Concerned
  <1>4. CASE Insert(p)
    <2>1. PICK page \in x.todo, pc \in {"retrieve", "insert"} : y = Wrote(x, page, pc)
      BY <1>4, InsertForm
    <2> QED BY <2>1, <1>3 DEF Wrote, Running
  <1>5. CASE ~Insert(p)
    <2>1. \/ y = Advanced(x) \/ y = Logged(x) \/ y = Cleared(x) \/ y = Retrieved(x)
          \/ \E pc \in Points : y = Turned(x, pc) \/ y = Retried(x, pc)
      BY <1>1, <1>5, Forms DEF Step, Points
    <2> QED BY <2>1, <1>3, Turns
  <1> QED BY <1>3, <1>4, <1>5

\* What is torn stays torn.
LEMMA TornStays ==
    ASSUME RunnerInv, NEW p \in Procs, Move(p)
    PROVE  torn \subseteq torn'
  <1>2. Error(p) \/ Kill(p) => torn \subseteq torn'
    BY DEF Error, Kill, Leave
  <1>3. (\E r \in Runs : Start(p, r)) \/ Error(p) \/ Kill(p) \/ torn' = torn
    BY DEF Move, Step, Finish, BudgetStop, Unusable, Resume, Lookup, Record, Admit,
         LogCall, EnsureIngested, Clear, Insert, Write, Retrieve, Answer, Answered, RateLimited, store, history
  <1>1. \A r \in Runs : Start(p, r) => torn \subseteq torn'
    BY DEF Start
  <1> QED BY <1>1, <1>2, <1>3

\* Nobody joins a runner at a document that is not torn.
LEMMA AloneMove ==
    ASSUME RunnerInv, NEW p \in Procs, Move(p), NEW k \in SUBSET Evidence, k \notin torn',
           \A q, s \in GateRunners(k) : q = s
    PROVE  \A q, s \in GateRunners(k)' : q = s
  <1>1. \A q \in Procs : q # p => (q \in GateRunners(k)' <=> q \in GateRunners(k))
    BY Others DEF GateRunners, DocKey, Excluded
  <1>2. GateRunners(k) \subseteq Procs /\ GateRunners(k)' \subseteq Procs
    BY DEF GateRunners
  <1>3. ASSUME NEW r \in Runs, Start(p, r) PROVE p \notin GateRunners(k)' \/ GateRunners(k) = {}
    <2>1. proc'[p] = Fresh(r)
      BY <1>3, Forms
    <2>2. p \in GateRunners(k)' => r \notin Naive /\ DocKey(r) = k
      BY <2>1 DEF GateRunners, Fresh, DocKey, Excluded
    <2>3. r \notin Naive /\ GateRunners(DocKey(r)) # {} => DocKey(r) \in torn'
      BY <1>3 DEF Start
    <2> QED BY <2>2, <2>3
  <1>4. ASSUME ~\E r \in Runs : Start(p, r), p \in GateRunners(k)' PROVE p \in GateRunners(k)
    <2>1. proc'[p] # Off /\ proc'[p].run \notin Naive /\ DocKey(proc'[p].run) = k
      BY <1>4 DEF GateRunners, DocKey, Excluded
    <2>2. proc[p] \in Running /\ proc[p].run \notin Naive /\ DocKey(proc[p].run) = k
      BY <2>1, <1>4, SameRun
    <2> QED BY <2>2, AtWork DEF GateRunners, Running
  <1> QED BY <1>1, <1>2, <1>3, <1>4

\* The gate runner's own step keeps its document in order.
LEMMA GateMove ==
    ASSUME RunnerInv, NEW p \in Procs, Move(p), proc'[p] # Off, p \in Procs, proc[p] # Off,
           NEW k \in SUBSET Evidence, p \in GateRunners(k), GateRunners(k) = {p},
           GateInv(proc[p], index), Settled(k)
    PROVE  GateInv(proc'[p], index')
  <1> DEFINE x == proc[p]
             y == proc'[p]
  <1>1. x \in Running /\ x # Off /\ x.run \notin Naive /\ x.run \in Runs /\ DocKey(x.run) = k
    BY AtWork DEF GateRunners, RunnerInv, TypeOK, Running
  <1>2. Whole(x.run) = Pages \ k /\ index \in [SUBSET Evidence -> SUBSET Pages]
    BY <1>1, Wholes DEF RunnerInv, TypeOK
  <1>4. ASSUME y.pc \notin {"insert", "retrieve", "asking", "answered", "record"} PROVE GateInv(y, index')
    BY <1>4 DEF GateInv
  <1>5. ASSUME NEW r \in Runs, Start(p, r) PROVE FALSE
    BY <1>1, <1>5 DEF Start
  <1>6. CASE Resume(p) \/ Lookup(p) \/ Record(p)
    <2>1. y.pc \in {"next", "lookup", "guard"}
      BY <1>1, <1>6, Forms, Turns
    <2> QED BY <2>1, <1>4
  <1>7. CASE Admit(p) \/ RateLimited(p)
    <2>1. y = Turned(x, "ensure") \/ y = Retried(x, "ensure")
      BY <1>1, <1>7, Forms
    <2>2. y.pc = "ensure"
      BY <1>1, <2>1, Turns
    <2> QED BY <2>2, <1>4
  <1>8. CASE LogCall(p) \/ Answer(p)
    <2>1. x.pc \in {"answered", "asking"} /\ index' = index
      BY <1>8 DEF LogCall, Answer, Answered, At, store
    <2>2. x.ctx = Pages \ k
      BY <2>1, <1>1 DEF GateInv
    <2>3. y = Logged(x) \/ y = Turned(x, "answered")
      BY <1>8, Forms
    <2>4. y.pc \in {"answered", "record"} /\ y.ctx = x.ctx /\ y.run = x.run
      BY <2>3, <1>1 DEF Logged, Turned, Running
    <2> QED BY <2>2, <2>4, <1>1 DEF GateInv
  <1>9. CASE EnsureIngested(p)
    <2>1. x.pc = "ensure" /\ index' = index
      BY <1>9 DEF EnsureIngested, At, store
    <2>2. y = Turned(x, "clear") \/ (y = Turned(x, "retrieve") /\ index[k] # {})
      <3>1. proc \in [Procs -> Running \cup {Off}]
        BY DEF RunnerInv, TypeOK
      <3> QED BY <3>1, <1>1, <1>9 DEF EnsureIngested, Goto, Turned, Run
    <2>3. CASE y = Turned(x, "clear")
      <3>1. y.pc = "clear"
        BY <1>1, <2>3, Turns
      <3> QED BY <3>1, <1>4
    <2>4. CASE y = Turned(x, "retrieve") /\ index[k] # {}
      <3>1. y.pc = "retrieve" /\ y.run = x.run
        BY <1>1, <2>4, Turns
      <3>2. index[k] = Pages \ k
        BY <2>1, <2>4 DEF Settled, At
      <3> QED BY <2>1, <3>1, <3>2, <1>1 DEF GateInv
    <2> QED BY <2>2, <2>3, <2>4
  <1>10. CASE Clear(p)
    <2>1. y = Cleared(x) /\ index' = [index EXCEPT ![k] = {}]
      BY <1>1, <1>10, Forms DEF Clear, Run
    <2>2. y.pc = "insert" /\ y.run = x.run /\ y.todo = Pages \ k
      BY <2>1, <1>1, <1>2 DEF Cleared, Running
    <2>3. index'[k] = {}
      BY <2>1, <1>2
    <2> QED BY <2>2, <2>3, <1>1 DEF GateInv
  <1>11. CASE Insert(p)
    <2>1. PICK page \in x.todo :
            /\ index' = [index EXCEPT ![k] = @ \cup {page}]
            /\ \/ y = Wrote(x, page, "retrieve") /\ x.todo = {page}
               \/ y = Wrote(x, page, "insert")
      BY <1>1, <1>11, InsertForm
    <2>2. index'[k] = index[k] \cup {page}
      BY <2>1, <1>2
    <2>3. index[k] \cup x.todo = Pages \ k
      BY <1>1, <1>11 DEF Insert, Write, At, GateInv
    <2>4. CASE y = Wrote(x, page, "retrieve") /\ x.todo = {page}
      <3>1. y.pc = "retrieve" /\ y.run = x.run
        BY <2>4, <1>1 DEF Wrote, Running
      <3> QED BY <3>1, <2>2, <2>3, <2>4, <1>1 DEF GateInv
    <2>5. CASE y = Wrote(x, page, "insert")
      <3>1. y.pc = "insert" /\ y.run = x.run /\ y.todo = x.todo \ {page}
        BY <2>5, <1>1 DEF Wrote, Running
      <3> QED BY <3>1, <2>2, <2>3, <1>1 DEF GateInv
    <2> QED BY <2>1, <2>4, <2>5
  <1>12. CASE Retrieve(p)
    <2>1. y = Retrieved(x) /\ x.pc = "retrieve"
      BY <1>12, Forms DEF Retrieve, At
    <2>2. y.pc = "asking" /\ y.run = x.run /\ y.ctx = index[k]
      BY <2>1, <1>1 DEF Retrieved, Running
    <2>3. index[k] = Pages \ k
      BY <2>1, <1>1 DEF GateInv
    <2> QED BY <2>2, <2>3, <1>1 DEF GateInv
  <1>13. ~(Finish(p) \/ BudgetStop(p) \/ Error(p) \/ Unusable(p) \/ Kill(p))
    BY Forms
  <1> QED BY <1>5, <1>6, <1>7, <1>8, <1>9, <1>10, <1>11, <1>12, <1>13 DEF Move, Step

\* Where the rows of an untorn document are not whole, somebody is writing them: a
\* runner that leaves them in part tears it.
LEMMA SettledMove ==
    ASSUME RunnerInv, NEW p \in Procs, Move(p), NEW k \in SUBSET Evidence, k \notin torn', Settled(k),
           p \in GateRunners(k)' => GateInv(proc'[p], index')
    PROVE  Settled(k)'
  <1>0. index \in [SUBSET Evidence -> SUBSET Pages] /\ proc \in [Procs -> Running \cup {Off}]
    BY DEF RunnerInv, TypeOK
  <1>1. \A q \in Procs : q # p => proc'[q] = proc[q]
    BY Others
  <1>2. ASSUME NEW q \in GateRunners(k), At(q, "insert"), q # p
        PROVE  Settled(k)'
    <2>1. q \in GateRunners(k)' /\ At(q, "insert")'
      BY <1>1, <1>2 DEF GateRunners, At, DocKey, Excluded
    <2> QED BY <2>1 DEF Settled
  <1>3. ASSUME Insert(p), p \in GateRunners(k) PROVE Settled(k)'
    <2>1. proc[p] \in Running /\ proc[p].run \notin Naive /\ DocKey(proc[p].run) = k
      BY <1>0, <1>3, AtWork DEF GateRunners
    <2>3. PICK page \in proc[p].todo, pc \in {"retrieve", "insert"} : proc'[p] = Wrote(proc[p], page, pc)
      BY <1>3, InsertForm
    <2>4. proc'[p].pc = pc /\ proc'[p].run = proc[p].run
      BY <2>1, <2>3 DEF Wrote, Running
    <2>5. proc'[p] # Off
      BY <2>4 DEF Off
    <2>6. p \in GateRunners(k)' /\ DocKey(proc'[p].run) = k
      BY <2>1, <2>4, <2>5 DEF GateRunners, DocKey, Excluded
    <2>7. CASE pc = "insert"
      BY <2>4, <2>6, <2>7 DEF Settled, At
    <2>8. CASE pc = "retrieve"
      <3>1. index'[k] = Pages \ k
        BY <2>4, <2>6, <2>8 DEF GateInv
      <3> QED BY <3>1 DEF Settled
    <2> QED BY <2>7, <2>8
  <1>4. CASE index' = index
    <2>1. CASE index[k] \in {{}, Pages \ k}
      BY <1>4, <2>1 DEF Settled
    <2>2. ASSUME p \in GateRunners(k), At(p, "insert") PROVE Settled(k)'
      <3>1. proc[p] # Off /\ DocKey(Run(p)) = k
        BY <2>2 DEF GateRunners, Run
      <3>2. Insert(p) \/ Error(p) \/ Kill(p)
        BY <2>2, <3>1 DEF Move, Step, Start, Finish, BudgetStop, Resume, Lookup, Record, Admit, LogCall, EnsureIngested,
             Clear, Retrieve, Answer, Answered, RateLimited, Unusable, At
      <3>3. CASE Error(p) \/ Kill(p)
        <4>1. index[k] # {} => k \in torn'
          BY <2>2, <3>1, <3>3 DEF Error, Kill, Leave
        <4> QED BY <4>1, <1>4 DEF Settled
      <3> QED BY <3>2, <3>3, <2>2, <1>3
    <2> QED BY <2>1, <2>2, <1>2 DEF Settled
  <1>5. CASE index' # index
    <2>1. /\ proc[p].pc \in {"clear", "insert"} /\ Run(p) \notin Naive
          /\ \E S \in SUBSET Whole(Run(p)) : index' = [index EXCEPT ![DocKey(Run(p))] = S]
      BY <1>5, Indexed
    <2>2. proc[p] # Off /\ Run(p) \in Runs
      BY <2>1, Concerned DEF Points
    <2>3. CASE DocKey(Run(p)) # k
      <3>1. index'[k] = index[k]
        BY <1>0, <2>1, <2>3
      <3>2. p \notin GateRunners(k)
        BY <2>3 DEF GateRunners, Run
      <3> QED BY <3>1, <3>2, <1>2 DEF Settled
    <2>4. CASE DocKey(Run(p)) = k /\ Insert(p)
      BY <1>3, <2>1, <2>2, <2>4 DEF GateRunners, Run
    <2>5. CASE DocKey(Run(p)) = k /\ ~Insert(p)
      <3>1. Clear(p)
        BY <1>5, <2>5 DEF Move, Step, Start, Finish, BudgetStop, Error, Unusable, Kill, Resume, Lookup, Record, Admit,
             LogCall, EnsureIngested, Retrieve, Answer, RateLimited, store
      <3>2. index'[k] = {}
        BY <1>0, <2>5, <3>1 DEF Clear
      <3> QED BY <3>2 DEF Settled
    <2> QED BY <2>3, <2>4, <2>5
  <1> QED BY <1>4, <1>5

\* An answer of the gate runner is from the rows it was served.
LEMMA AnswersMove ==
    ASSUME RunnerInv, NEW p \in Procs, Move(p), NEW k \in SUBSET Evidence, AnswersWhole(k),
           p \in GateRunners(k) => GateInv(proc[p], index)
    PROVE  AnswersWhole(k)'
  <1>1. CASE result' = result
    BY <1>1 DEF AnswersWhole, DocKey, Whole, Excluded, Questions
  <1>2. CASE result' # result
    <2>1. (At(p, "lookup") /\ Run(p) \in Naive) \/ At(p, "record")
      BY <1>2, Saved
    <2>2. PICK S \in SUBSET Whole(Run(p)) :
            Save(p, S) /\ (S = Whole(Run(p)) \/ (Run(p) \notin Naive /\ S = proc[p].ctx))
      BY <1>2, Saved
    <2>3. proc[p] # Off /\ Run(p) \in Runs
      BY <2>1, Concerned DEF At, Points
    <2>4. Run(p) \notin Naive /\ DocKey(Run(p)) = k => S = Whole(Run(p))
      <3>1. ASSUME Run(p) \notin Naive, DocKey(Run(p)) = k, S = proc[p].ctx PROVE S = Whole(Run(p))
        <4>1. p \in GateRunners(k) /\ proc[p].pc = "record"
          BY <2>1, <2>3, <3>1 DEF GateRunners, Run, At
        <4>2. proc[p].ctx = Pages \ DocKey(proc[p].run)
          BY <4>1 DEF GateInv
        <4> QED BY <4>2, <3>1, <2>3, Wholes DEF Run
      <3> QED BY <3>1, <2>2
    <2>5. \A r \in Runs, q \in Questions : result'[r][q] = IF r = Run(p) /\ q = Question(p) THEN S ELSE result[r][q]
      BY <2>2 DEF Save, RunnerInv, TypeOK
    <2> SUFFICES ASSUME NEW r \in Runs \ Naive, NEW q \in Questions, DocKey(r) = k
                 PROVE  result'[r][q] \in {None, Whole(r)}
      BY DEF AnswersWhole, DocKey, Whole, Excluded, Questions
    <2> QED BY <2>4, <2>5 DEF AnswersWhole
  <1> QED BY <1>1, <1>2

LEMMA WholeMove ==
    ASSUME RunnerInv, NEW p \in Procs, Move(p), NEW k \in SUBSET Evidence, WholeInv(k)
    PROVE  WholeInv(k)'
  <1> SUFFICES ASSUME k \notin torn' PROVE
        /\ \A q, s \in GateRunners(k)' : q = s
        /\ \A q \in GateRunners(k)' : GateInv(proc'[q], index')
        /\ Settled(k)'
        /\ AnswersWhole(k)'
    BY DEF WholeInv, GateInv, DocKey, Excluded
  <1>1. k \notin torn
    BY TornStays
  <1>2. /\ \A q, s \in GateRunners(k) : q = s
        /\ \A q \in GateRunners(k) : GateInv(proc[q], index)
        /\ Settled(k) /\ AnswersWhole(k)
    BY <1>1 DEF WholeInv
  <1>3. \A q, s \in GateRunners(k)' : q = s
    BY <1>2, AloneMove
  <1>4. ASSUME NEW q \in GateRunners(k)' PROVE GateInv(proc'[q], index')
    <2>0. q \in Procs /\ proc'[q] # Off /\ proc'[q].run \notin Naive /\ DocKey(proc'[q].run) = k
      BY <1>4 DEF GateRunners, DocKey, Excluded
    <2>1. CASE q # p
      <3>1. proc'[q] = proc[q] /\ q \in GateRunners(k)
        BY <2>0, <2>1, Others DEF GateRunners
      <3>2. p \notin GateRunners(k)
        BY <3>1, <2>1, <1>2
      <3>3. index'[k] = index[k]
        <4>1. SUFFICES ASSUME index' # index PROVE index'[k] = index[k]
          OBVIOUS
        <4>2. /\ proc[p].pc \in {"clear", "insert"} /\ Run(p) \notin Naive
              /\ \E S \in SUBSET Whole(Run(p)) : index' = [index EXCEPT ![DocKey(Run(p))] = S]
          BY <4>1, Indexed
        <4>3. proc[p] # Off
          BY <4>2, Concerned DEF Points
        <4>4. DocKey(Run(p)) # k
          BY <4>2, <4>3, <3>2 DEF GateRunners, Run
        <4> QED BY <4>2, <4>4 DEF RunnerInv, TypeOK
      <3>4. GateInv(proc[q], index)
        BY <3>1, <1>2
      <3> QED BY <3>1, <3>3, <3>4, <2>0 DEF GateInv
    <2>2. CASE q = p /\ \E r \in Runs : Start(p, r)
      <3>1. PICK r \in Runs : proc'[p] = Fresh(r)
        BY <2>2, Forms
      <3> QED BY <3>1, <2>2 DEF Fresh, GateInv
    <2>3. CASE q = p /\ ~\E r \in Runs : Start(p, r)
      <3>1. proc[p] \in Running /\ proc[p].run \notin Naive /\ DocKey(proc[p].run) = k
        BY <2>0, <2>3, SameRun
      <3>2. p \in GateRunners(k) /\ proc[p] # Off
        BY <3>1, AtWork DEF GateRunners, Running
      <3>3. GateRunners(k) = {p}
        BY <3>2, <1>2
      <3> QED BY <3>2, <3>3, <2>0, <2>3, <1>2, GateMove
    <2> QED BY <2>1, <2>2, <2>3
  <1>5. Settled(k)'
    BY <1>2, <1>4, SettledMove
  <1>6. AnswersWhole(k)'
    BY <1>2, AnswersMove
  <1> QED BY <1>3, <1>4, <1>5, <1>6

GateRunnerInv == \A k \in SUBSET Evidence : WholeInv(k)

LEMMA GateStart == Init => GateRunnerInv
  <1> SUFFICES ASSUME Init, NEW k \in SUBSET Evidence PROVE WholeInv(k)
    BY DEF GateRunnerInv
  <1>1. GateRunners(k) = {}
    BY DEF Init, GateRunners
  <1>2. Settled(k) /\ AnswersWhole(k)
    BY DEF Init, Settled, AnswersWhole
  <1> QED BY <1>1, <1>2 DEF WholeInv

LEMMA GateStep == RunnerInv /\ GateRunnerInv /\ [Next]_vars => GateRunnerInv'
  <1> SUFFICES ASSUME RunnerInv, GateRunnerInv, [Next]_vars, NEW k \in SUBSET Evidence PROVE WholeInv(k)'
    BY DEF GateRunnerInv
  <1>1. ASSUME NEW p \in Procs, Move(p) PROVE WholeInv(k)'
    BY <1>1, WholeMove DEF GateRunnerInv
  <1>2. CASE Midnight \/ UNCHANGED vars
    <2>1. UNCHANGED <<proc, result, index, torn>>
      BY <1>2 DEF Midnight, vars, store, history
    <2>2. GateRunners(k)' = GateRunners(k)
      BY <2>1 DEF GateRunners, DocKey, Excluded
    <2>3. Settled(k)' = Settled(k) /\ AnswersWhole(k)' = AnswersWhole(k)
      BY <2>1, <2>2 DEF Settled, At, AnswersWhole, DocKey, Whole, Excluded, Questions
    <2>4. \A q : GateInv(proc[q], index)' <=> GateInv(proc[q], index)
      BY <2>1 DEF GateInv, DocKey, Excluded
    <2> QED BY <2>1, <2>2, <2>3, <2>4 DEF GateRunnerInv, WholeInv
  <1> QED BY <1>1, <1>2 DEF Next, Move

\* Unless a runner was stopped while it wrote the document's rows, or two runners were
\* at work on it, every gate answer comes from the whole document: a runner that finds
\* a chunk finds all of them, though ensure_ingested looks for one only.
THEOREM WholeDocumentAnswers == Spec => []AnsweredFromWhole
  <1>1. GateRunnerInv => AnsweredFromWhole
    <2> SUFFICES ASSUME GateRunnerInv, NEW r \in Runs \ Naive, NEW q \in Questions, DocKey(r) \notin torn
                 PROVE  result[r][q] \in {None, Whole(r)}
      BY DEF AnsweredFromWhole
    <2>1. DocKey(r) \in SUBSET Evidence
      BY Wholes
    <2> QED BY <2>1 DEF GateRunnerInv, WholeInv, AnswersWhole
  <1>2. Spec => []GateRunnerInv
    BY RunnerAlways, GateStart, GateStep, PTL DEF Spec
  <1> QED BY <1>1, <1>2, PTL
=============================================================================
