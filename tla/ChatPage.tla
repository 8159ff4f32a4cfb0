------------------------------ MODULE ChatPage ------------------------------
(***************************************************************************)
(* The chat page over the query stream: the turns it shows, the loop of    *)
(* each question that reads its response, and the one abort controller     *)
(* that the questions share.  The latest question's response is            *)
(* QueryStream's; of an earlier one whose loop still runs, only what the   *)
(* page can see is kept, and its server side goes on unobserved.           *)
(*                                                                         *)
(* An abort makes the loop end before the page handles another event, so   *)
(* it is one step with it.  The text of turns and citations is left out.   *)
(***************************************************************************)
EXTENDS QueryStream

CONSTANT MaxTurns   \* bound on the questions asked on one page

ASSUME MaxTurnsAssumption == MaxTurns \in Nat

VARIABLES
    turns,    \* what each turn shows; "cancelled" is an error turn of onCancel
    abortRef, \* the turn whose controller is in abortRef.current, or 0
    reading,  \* the latest question's loop still runs
    read,     \* the frames it has read
    late      \* earlier turns whose loops still run

page == <<turns, abortRef, reading, read, late>>
pageVars == <<vars, page>>

Latest == Len(turns)
Generating == turns # <<>> /\ turns[Latest] = "generating"

PageTypeOK ==
    /\ TypeOK
    /\ turns \in Seq({"generating", "cancelled"} \cup Outcomes)
    /\ abortRef \in {0, Latest}
    /\ reading \in BOOLEAN
    /\ read \in 0..Len(sent)
    /\ late \subseteq 1..(Latest - 1)

PageInit ==
    /\ Init
    /\ turns = <<>> /\ abortRef = 0
    /\ reading = FALSE /\ read = 0 /\ late = {}

\* A new request in the place of the latest.
AskAgain ==
    /\ srv # "idle"
    /\ srv' = "check" /\ out' = <<>> /\ text' = 0
    /\ thread' = "off" /\ deltas' = 0 /\ whole' = FALSE
    /\ queue' = <<>> /\ stop' = FALSE
    /\ sent' = <<>> /\ link' = "open"

\* onSubmit: possible as soon as the last turn has its outcome.
Submit ==
    /\ ~Generating /\ Latest < MaxTurns
    /\ Ask \/ AskAgain
    /\ turns' = Append(turns, "generating")
    /\ abortRef' = Latest + 1
    /\ late' = IF reading THEN late \cup {Latest} ELSE late
    /\ reading' = TRUE /\ read' = 0

\* The loop takes an event: an outcome is shown whatever the turn shows now.
Read ==
    /\ reading /\ read < Len(sent)
    /\ read' = read + 1
    /\ turns' = IF sent[read'] \in Outcomes
                THEN [turns EXCEPT ![Latest] = sent[read']]
                ELSE turns
    /\ UNCHANGED <<vars, abortRef, reading, late>>

\* The response ended: the turn is left as it is.
ReadEnd ==
    /\ reading /\ link = "closed" /\ read = Len(sent)
    /\ reading' = FALSE /\ abortRef' = 0
    /\ UNCHANGED <<vars, turns, read, late>>

\* Mutant: only a response that was refused throws.
BrokenIfRefused ==
    /\ reading /\ link \in {"refused", "reset", "gone"}
    /\ turns' = IF link = "refused" THEN [turns EXCEPT ![Latest] = "error"] ELSE turns
    /\ reading' = FALSE /\ abortRef' = 0
    /\ UNCHANGED <<vars, read, late>>

\* An HTTP error, or a connection that broke: the catch clause, even after the outcome.
Broken ==
    /\ reading /\ link \in {"refused", "reset", "gone"}
    /\ turns' = [turns EXCEPT ![Latest] = "error"]
    /\ reading' = FALSE /\ abortRef' = 0
    /\ UNCHANGED <<vars, read, late>>

\* onCancel, with the loop that ends by the abort; without a controller in
\* abortRef the request and its loop go on.
Cancel ==
    /\ Generating
    /\ turns' = [turns EXCEPT ![Latest] = "cancelled"]
    /\ IF abortRef = 0 THEN UNCHANGED <<vars, reading>>
       ELSE /\ Leave \/ (link # "open" /\ UNCHANGED vars)
            /\ reading' = FALSE
    /\ abortRef' = 0
    /\ UNCHANGED <<read, late>>

\* Mutant: an outcome goes to the last turn.
LateOutcomeLast(i) ==
    /\ i \in late /\ turns[i] = "cancelled"
    /\ \E outcome \in Outcomes : turns' = [turns EXCEPT ![Latest] = outcome]
    /\ UNCHANGED <<vars, abortRef, reading, read, late>>

\* An earlier question that a cancel did not abort gets its outcome.
LateOutcome(i) ==
    /\ i \in late /\ turns[i] = "cancelled"
    /\ \E outcome \in Outcomes : turns' = [turns EXCEPT ![i] = outcome]
    /\ UNCHANGED <<vars, abortRef, reading, read, late>>

\* An earlier question's loop ends, one way or the other; its finally clause
\* clears whichever controller is in abortRef.
LateEnd(i) ==
    /\ i \in late
    /\ \/ UNCHANGED turns
       \/ turns' = [turns EXCEPT ![i] = "error"]
    /\ late' = late \ {i}
    /\ abortRef' = 0
    /\ UNCHANGED <<vars, reading, read>>

LoopStep == Read \/ ReadEnd \/ Broken

PageNext ==
    \/ Submit \/ Cancel \/ LoopStep
    \/ \E i \in 1..MaxTurns : LateOutcome(i) \/ LateEnd(i)
    \/ (Leave \/ ServerStep \/ Cancelled \/ ThreadStep) /\ UNCHANGED page

\* The page's loop reads on, as the server and its thread go on.
PageSpec ==
    /\ PageInit /\ [][PageNext]_pageVars
    /\ WF_pageVars(ServerStep /\ UNCHANGED page)
    /\ WF_pageVars(ThreadStep /\ UNCHANGED page)
    /\ WF_pageVars(LoopStep)

\* A turn shows an answer or a refusal only if the question's own response said
\* so, although loops of earlier questions, whose cancel did not reach them, may
\* still write turns (onSubmit's index, ChatPage.tsx 72-106).
AnswerIsOwn ==
    turns # <<>> /\ turns[Latest] \in {"answer", "refusal"} =>
        \E k \in 1..read : sent[k] = turns[Latest]

\* No turn says "Generating" for ever: a loop that ends without an exception has
\* shown an outcome, which rests on every clean end of the stream having one.
TurnSettles == \A i \in 1..MaxTurns :
    (Latest = i /\ turns[i] = "generating") ~> ~(Latest = i /\ turns[i] = "generating")
=============================================================================
