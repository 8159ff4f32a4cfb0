--------------------------- MODULE ChatPageProofs ---------------------------
(***************************************************************************)
(* The chat page, for any number of questions and text chunks: the stream  *)
(* of each question keeps its promises although the page leaves it for the *)
(* next one, a turn shows only what its own response said, and no loop     *)
(* ends with a turn that still says "Generating".                          *)
(***************************************************************************)
EXTENDS ChatPage, QueryStreamProofs

Shown == {"generating", "cancelled"} \cup Outcomes

\* A turn that waits is being read, and has not been told its outcome.
Waiting == Generating =>
    /\ reading
    /\ \A k \in 1..read : sent[k] \notin Outcomes

PageInv ==
    /\ StreamInv /\ PageTypeOK
    /\ reading => turns # <<>>
    /\ AnswerIsOwn /\ Waiting

StreamStep == (Leave \/ ServerStep \/ Cancelled \/ ThreadStep) /\ UNCHANGED page

(***************************************************************************)
(* The stream under the page                                               *)
(***************************************************************************)
LEMMA AskedAfresh ==
    ASSUME AskAgain
    PROVE  StreamInv' /\ sent' = <<>>
  <1>1. /\ srv' = "check" /\ out' = <<>> /\ text' = 0 /\ thread' = "off" /\ deltas' = 0 /\ whole' = FALSE
        /\ queue' = <<>> /\ stop' = FALSE /\ sent' = <<>> /\ link' = "open"
    BY DEF AskAgain
  <1>2. TypeOK'
    <2>1. queue' \in Seq({"delta", "error", "end"}) /\ deltas' \in 0..NDeltas
      BY <1>1, DeltasAssumption
    <2>2. out' \in Seq(Frames) /\ sent' \in Seq(Frames)
      BY <1>1, Scripts
    <2> QED BY <1>1, <2>1, <2>2 DEF TypeOK, ServerSteps, ThreadSteps, Links
  <1>3. QueueInv'
    BY <1>1 DEF QueueInv
  <1>4. FrameInv'
    BY <1>1 DEF FrameInv, Open
  <1> QED BY <1>1, <1>2, <1>3, <1>4 DEF StreamInv

\* A question's response only grows.
LEMMA SentGrows ==
    ASSUME StreamInv, [Next]_vars
    PROVE  StreamInv' /\ (sent' = sent \/ \E f \in Frames : sent' = Append(sent, f))
  <1>1. StreamInv'
    BY TypeStep, QueueStep, FrameStep DEF StreamInv
  <1>2. CASE Send
    <2>1. Head(out) \in Frames
      BY <1>2 DEF Send, StreamInv, TypeOK
    <2> QED BY <1>1, <1>2, <2>1 DEF Send
  <1>3. CASE ~Send
    BY <1>1, <1>3 DEF Next, Ask, Leave, ServerStep, Check, Retrieve, Start, Poll, TimeOut, Take, Parse, Gate,
         Close, Cancelled, ThreadStep, Call, Pull, UpstreamEnds, PostEnd, vars
  <1> QED BY <1>2, <1>3

LEMMA Grown ==
    ASSUME StreamInv, [Next]_vars
    PROVE  /\ Len(sent) \in Nat /\ Len(sent') \in Nat /\ Len(sent) <= Len(sent')
           /\ \A k \in 1..Len(sent) : sent'[k] = sent[k]
  <1>1. sent \in Seq(Frames)
    BY DEF StreamInv, TypeOK
  <1>2. CASE sent' = sent
    BY <1>1, <1>2
  <1>3. ASSUME NEW f \in Frames, sent' = Append(sent, f)
        PROVE  /\ Len(sent) \in Nat /\ Len(sent') \in Nat /\ Len(sent) <= Len(sent')
               /\ \A k \in 1..Len(sent) : sent'[k] = sent[k]
    BY <1>1, <1>3
  <1> QED BY <1>2, <1>3, SentGrows

(***************************************************************************)
(* The page                                                                *)
(***************************************************************************)
LEMMA PageStart == PageInit => PageInv
  <1> SUFFICES ASSUME PageInit PROVE PageInv
    OBVIOUS
  <1>1. StreamInv
    <2>1. queue \in Seq({"delta", "error", "end"}) /\ deltas \in 0..NDeltas
      BY DeltasAssumption DEF PageInit, Init
    <2>2. out \in Seq(Frames) /\ sent \in Seq(Frames)
      BY Scripts DEF PageInit, Init
    <2>3. TypeOK
      BY <2>1, <2>2 DEF PageInit, Init, TypeOK, ServerSteps, ThreadSteps, Links
    <2>4. QueueInv /\ FrameInv
      BY DEF PageInit, Init, QueueInv, FrameInv, Open
    <2> QED BY <2>3, <2>4 DEF StreamInv
  <1>2. turns = <<>> /\ read = 0 /\ Len(sent) \in Nat /\ abortRef = 0 /\ late = {} /\ reading = FALSE
    BY <1>1 DEF PageInit, StreamInv, TypeOK
  <1>3. turns \in Seq(Shown) /\ Latest = 0
    BY <1>2 DEF Latest
  <1>4. PageTypeOK
    <2>1. 0 \in 0..Len(sent) /\ {} \subseteq 1..(Latest - 1)
      BY <1>2, <1>3
    <2>2. TypeOK
      BY <1>1 DEF StreamInv
    <2> QED BY <1>2, <1>3, <2>1, <2>2 DEF PageTypeOK, Shown
  <1> QED BY <1>1, <1>2, <1>4 DEF PageInv, AnswerIsOwn, Waiting, Generating

\* onSubmit.
LEMMA SubmitStep ==
    ASSUME PageInv, Submit
    PROVE  PageInv'
  <1>1. /\ turns \in Seq(Shown) /\ late \subseteq 1..(Latest - 1) /\ reading \in BOOLEAN
        /\ Latest = Len(turns) /\ Latest \in Nat /\ (reading => Latest # 0)
    BY DEF PageInv, PageTypeOK, Shown, Latest
  <1>2. StreamInv' /\ Len(sent') \in Nat
    <2>1. CASE Ask
      <3>1. [Next]_vars
        BY <2>1 DEF Next
      <3> QED BY <3>1, SentGrows, Grown DEF PageInv
    <2>2. CASE AskAgain
      BY <2>2, AskedAfresh
    <2> QED BY <2>1, <2>2 DEF Submit
  <1>3. /\ turns' = Append(turns, "generating") /\ abortRef' = Latest + 1 /\ reading' = TRUE /\ read' = 0
        /\ late' = IF reading THEN late \cup {Latest} ELSE late
    BY DEF Submit
  <1>4. /\ turns' \in Seq(Shown) /\ Len(turns') = Latest + 1 /\ turns'[Len(turns')] = "generating"
        /\ turns' # <<>>
    BY <1>1, <1>3 DEF Shown
  <1>5. late' \subseteq 1..(Len(turns') - 1)
    <2>1. Len(turns') - 1 = Latest
      BY <1>1, <1>4
    <2>2. late \subseteq 1..Latest /\ (reading => Latest \in 1..Latest)
      BY <1>1
    <2> QED BY <1>3, <2>1, <2>2
  <1>6. Latest' = Len(turns')
    BY DEF Latest
  <1>7. PageTypeOK'
    BY <1>2, <1>3, <1>4, <1>5, <1>6 DEF PageTypeOK, StreamInv, Shown
  <1>8. AnswerIsOwn'
    BY <1>4, <1>6 DEF AnswerIsOwn
  <1>9. Waiting'
    BY <1>3 DEF Waiting
  <1> QED BY <1>2, <1>3, <1>4, <1>7, <1>8, <1>9 DEF PageInv

\* The next event of the response, for the latest turn.
LEMMA ReadStep ==
    ASSUME PageInv, Read
    PROVE  PageInv'
  <1>1. /\ turns \in Seq(Shown) /\ late \subseteq 1..(Latest - 1) /\ Latest = Len(turns) /\ turns # <<>>
        /\ Latest \in 1..Len(turns) /\ read \in Nat /\ Len(sent) \in Nat
    BY DEF PageInv, PageTypeOK, Shown, Latest, Read, StreamInv, TypeOK
  <1>2. /\ read' = read + 1 /\ read' \in 1..Len(sent) /\ UNCHANGED <<vars, abortRef, reading, late>> /\ reading
        /\ turns' = IF sent[read'] \in Outcomes THEN [turns EXCEPT ![Latest] = sent[read']] ELSE turns
    BY <1>1 DEF Read
  <1>3. StreamInv' /\ sent' = sent
    BY <1>2, SentGrows DEF PageInv, vars
  <1>4. turns' \in Seq(Shown) /\ Len(turns') = Len(turns) /\ turns' # <<>>
    <2>1. CASE sent[read'] \in Outcomes
      <3>1. sent[read'] \in Shown
        BY <2>1 DEF Shown
      <3> QED BY <1>1, <1>2, <2>1, <3>1
    <2>2. CASE sent[read'] \notin Outcomes
      BY <1>1, <1>2, <2>2
    <2> QED BY <2>1, <2>2
  <1>5. turns'[Latest] = IF sent[read'] \in Outcomes THEN sent[read'] ELSE turns[Latest]
    BY <1>1, <1>2
  <1>6. Latest' = Latest
    BY <1>4 DEF Latest
  <1>7. PageTypeOK'
    BY <1>2, <1>3, <1>4, <1>6 DEF PageInv, PageTypeOK, StreamInv, Shown
  <1>8. AnswerIsOwn'
    <2>1. turns[Latest] \in {"answer", "refusal"} => \E k \in 1..read : sent[k] = turns[Latest]
      BY <1>1 DEF PageInv, AnswerIsOwn
    <2>2. turns'[Latest] \in {"answer", "refusal"} => \E k \in 1..read' : sent[k] = turns'[Latest]
      BY <2>1, <1>1, <1>2, <1>5
    <2> QED BY <2>2, <1>3, <1>6 DEF AnswerIsOwn
  <1>9. Waiting'
    <2>1. ASSUME turns'[Latest] = "generating" PROVE \A k \in 1..read' : sent[k] \notin Outcomes
      <3>1. sent[read'] \notin Outcomes /\ turns[Latest] = "generating"
        BY <2>1, <1>5 DEF Outcomes
      <3>2. \A k \in 1..read : sent[k] \notin Outcomes
        BY <3>1, <1>1 DEF PageInv, Waiting, Generating
      <3> QED BY <3>1, <3>2, <1>1, <1>2
    <2> QED BY <2>1, <1>2, <1>3, <1>6 DEF Waiting, Generating
  <1> QED BY <1>2, <1>3, <1>4, <1>7, <1>8, <1>9 DEF PageInv

\* The response ended cleanly: its outcome has been read.
LEMMA ReadEndStep ==
    ASSUME PageInv, ReadEnd
    PROVE  PageInv'
  <1>1. /\ UNCHANGED <<vars, turns, read, late>> /\ link = "closed" /\ read = Len(sent)
        /\ reading' = FALSE /\ abortRef' = 0
    BY DEF ReadEnd
  <1>2. StreamInv' /\ sent' = sent /\ Latest' = Latest
    BY <1>1, SentGrows DEF PageInv, vars, Latest
  <1>3. PageTypeOK'
    BY <1>1, <1>2 DEF PageInv, PageTypeOK, StreamInv
  <1>4. AnswerIsOwn'
    BY <1>1, <1>2 DEF PageInv, AnswerIsOwn
  <1>5. ~Generating
    <2>1. Finished(sent) /\ Len(sent) \in Nat
      BY <1>1 DEF PageInv, StreamInv, FrameInv, TypeOK
    <2>2. Len(sent) - 1 \in 1..read /\ sent[Len(sent) - 1] \in Outcomes
      BY <2>1, <1>1 DEF Finished
    <2> QED BY <2>2 DEF PageInv, Waiting
  <1>6. Waiting'
    BY <1>1, <1>2, <1>5 DEF Waiting, Generating
  <1> QED BY <1>1, <1>2, <1>3, <1>4, <1>6 DEF PageInv

\* One turn changes, to an outcome of the page's own or an earlier question's.
LEMMA Overwritten ==
    ASSUME PageInv, NEW i \in 1..Latest, NEW o \in Shown \ {"generating"},
           turns' = [turns EXCEPT ![i] = o], i = Latest => o \in {"cancelled", "error"},
           UNCHANGED read, StreamInv', Len(sent') \in Nat, Len(sent) <= Len(sent'),
           \A k \in 1..Len(sent) : sent'[k] = sent[k],
           abortRef' \in {0, abortRef}, late' \subseteq late, reading' \in BOOLEAN,
           reading' => reading, i # Latest => reading' = reading
    PROVE  PageInv'
  <1>1. turns \in Seq(Shown) /\ Latest = Len(turns) /\ turns # <<>> /\ Latest \in 1..Len(turns)
    BY DEF PageInv, PageTypeOK, Shown, Latest
  <1>2. turns' \in Seq(Shown) /\ Len(turns') = Len(turns) /\ turns' # <<>>
    BY <1>1
  <1>3. Latest' = Latest
    BY <1>2 DEF Latest
  <1>4. turns'[Latest] = IF i = Latest THEN o ELSE turns[Latest]
    BY <1>1
  <1>5. read \in 0..Len(sent) /\ Len(sent) \in Nat
    BY DEF PageInv, PageTypeOK, StreamInv, TypeOK
  <1>6. PageTypeOK'
    <2>1. read' \in 0..Len(sent')
      BY <1>5
    <2> QED BY <1>2, <1>3, <2>1 DEF PageInv, PageTypeOK, StreamInv, Shown
  <1>7. AnswerIsOwn'
    <2>1. turns[Latest] \in {"answer", "refusal"} => \E k \in 1..read : sent[k] = turns[Latest]
      BY <1>1 DEF PageInv, AnswerIsOwn
    <2>2. \A k \in 1..read : sent'[k] = sent[k]
      BY <1>5
    <2>3. turns'[Latest] \in {"answer", "refusal"} => \E k \in 1..read : sent'[k] = turns'[Latest]
      BY <2>1, <2>2, <1>4
    <2> QED BY <2>3, <1>3 DEF AnswerIsOwn
  <1>8. Waiting'
    <2>1. ASSUME turns'[Latest] = "generating"
          PROVE  reading' /\ \A k \in 1..read : sent'[k] \notin Outcomes
      <3>1. turns[Latest] = "generating" /\ i # Latest
        BY <2>1, <1>4
      <3>2. reading /\ \A k \in 1..read : sent[k] \notin Outcomes
        BY <3>1, <1>1 DEF PageInv, Waiting, Generating
      <3>3. \A k \in 1..read : sent'[k] = sent[k]
        BY <1>5
      <3> QED BY <3>1, <3>2, <3>3
    <2> QED BY <2>1, <1>3 DEF Waiting, Generating
  <1> QED BY <1>2, <1>6, <1>7, <1>8 DEF PageInv

\* The response grows while the page does nothing.
LEMMA StreamMoves ==
    ASSUME PageInv, [Next]_vars, UNCHANGED page
    PROVE  PageInv'
  <1>1. StreamInv'
    BY SentGrows DEF PageInv
  <1>2. /\ Len(sent) \in Nat /\ Len(sent') \in Nat /\ Len(sent) <= Len(sent')
        /\ \A k \in 1..Len(sent) : sent'[k] = sent[k]
    BY Grown DEF PageInv
  <1>3. UNCHANGED <<turns, abortRef, reading, read, late>> /\ Latest' = Latest
    BY DEF page, Latest
  <1>4. read \in 0..Len(sent) /\ \A k \in 1..read : k \in 1..Len(sent)
    BY <1>2 DEF PageInv, PageTypeOK
  <1>5. PageTypeOK'
    <2>1. read' \in 0..Len(sent')
      BY <1>2, <1>3, <1>4
    <2> QED BY <1>1, <1>3, <2>1 DEF PageInv, PageTypeOK, StreamInv
  <1>6. AnswerIsOwn'
    BY <1>2, <1>3, <1>4 DEF PageInv, AnswerIsOwn
  <1>7. Waiting'
    BY <1>2, <1>3, <1>4 DEF PageInv, Waiting, Generating
  <1> QED BY <1>1, <1>3, <1>5, <1>6, <1>7 DEF PageInv

LEMMA PageStep == PageInv /\ [PageNext]_pageVars => PageInv'
  <1> SUFFICES ASSUME PageInv, [PageNext]_pageVars PROVE PageInv'
    OBVIOUS
  <1>0. /\ turns \in Seq(Shown) /\ late \subseteq 1..(Latest - 1) /\ reading \in BOOLEAN
        /\ Latest = Len(turns) /\ Latest \in Nat /\ (reading \/ turns # <<>> => Latest \in 1..Latest)
    BY DEF PageInv, PageTypeOK, Shown, Latest
  <1>1. UNCHANGED vars => /\ StreamInv' /\ sent' = sent
                          /\ Len(sent') \in Nat /\ Len(sent) <= Len(sent')
    BY SentGrows, Grown DEF PageInv, vars
  <1>2. CASE Submit
    BY <1>2, SubmitStep
  <1>3. CASE Read
    BY <1>3, ReadStep
  <1>4. CASE ReadEnd
    BY <1>4, ReadEndStep
  <1>5. CASE Broken
    <2>1. /\ turns' = [turns EXCEPT ![Latest] = "error"] /\ reading' = FALSE /\ abortRef' = 0
          /\ UNCHANGED <<vars, read, late>> /\ reading
      BY <1>5 DEF Broken
    <2>2. "error" \in Shown \ {"generating"}
      BY DEF Shown, Outcomes
    <2> QED BY <1>0, <1>1, <2>1, <2>2, Overwritten
  <1>6. CASE Cancel
    <2>1. /\ turns # <<>> /\ turns' = [turns EXCEPT ![Latest] = "cancelled"] /\ abortRef' = 0
          /\ UNCHANGED <<read, late>> /\ (reading' = FALSE \/ reading' = reading)
          /\ UNCHANGED vars \/ Leave
      BY <1>6 DEF Cancel, Generating
    <2>2. [Next]_vars
      BY <2>1 DEF Next
    <2>3. /\ StreamInv' /\ Len(sent') \in Nat /\ Len(sent) <= Len(sent')
          /\ \A k \in 1..Len(sent) : sent'[k] = sent[k]
      BY <2>2, SentGrows, Grown DEF PageInv
    <2>4. "cancelled" \in Shown \ {"generating"}
      BY DEF Shown
    <2>5. reading' \in BOOLEAN /\ (reading' => reading)
      <3>1. CASE reading' = FALSE
        BY <3>1
      <3>2. CASE reading' = reading
        <4>1. reading' => reading
          BY <3>2, Zenon
        <4>2. reading' \in BOOLEAN
          BY <3>2, <1>0, Zenon
        <4> QED BY <4>1, <4>2
      <3> QED BY <2>1, <3>1, <3>2
    <2>7. Latest \in 1..Latest /\ abortRef' \in {0, abortRef} /\ late' \subseteq late /\ read' = read
      BY <1>0, <2>1
    <2>6. turns' = [turns EXCEPT ![Latest] = "cancelled"]
      BY <2>1
    <2> QED BY <2>3, <2>4, <2>5, <2>6, <2>7, Overwritten
  <1>7. ASSUME NEW i \in 1..MaxTurns, LateOutcome(i) PROVE PageInv'
    <2>1. i \in 1..Latest /\ i # Latest
      BY <1>0, <1>7 DEF LateOutcome
    <2>2. PICK o \in Outcomes : turns' = [turns EXCEPT ![i] = o]
      BY <1>7 DEF LateOutcome
    <2>3. UNCHANGED <<vars, abortRef, reading, read, late>>
      BY <1>7 DEF LateOutcome
    <2>4. o \in Shown \ {"generating"}
      BY <2>2 DEF Shown, Outcomes
    <2> QED BY <1>0, <1>1, <2>1, <2>2, <2>3, <2>4, Overwritten
  <1>8. ASSUME NEW i \in 1..MaxTurns, LateEnd(i) PROVE PageInv'
    <2>1. i \in 1..Latest /\ i # Latest /\ late' \subseteq late /\ abortRef' = 0 /\ UNCHANGED <<vars, reading, read>>
      BY <1>0, <1>8 DEF LateEnd
    <2>2. "error" \in Shown \ {"generating"}
      BY DEF Shown, Outcomes
    <2>3. CASE turns' = [turns EXCEPT ![i] = "error"]
      BY <1>0, <1>1, <2>1, <2>2, <2>3, Overwritten
    <2>4. CASE turns' = turns
      <3>1. Latest' = Latest /\ PageTypeOK'
        BY <1>1, <2>1, <2>4 DEF PageInv, PageTypeOK, StreamInv, Latest
      <3> QED BY <1>1, <2>1, <2>4, <3>1 DEF PageInv, AnswerIsOwn, Waiting, Generating
    <2> QED BY <1>8, <2>3, <2>4 DEF LateEnd
  <1>9. CASE StreamStep
    <2>1. [Next]_vars /\ UNCHANGED page
      BY <1>9 DEF StreamStep, Next
    <2> QED BY <2>1, StreamMoves
  <1>10. CASE UNCHANGED pageVars
    <2>1. [Next]_vars /\ UNCHANGED page
      BY <1>10 DEF pageVars
    <2> QED BY <2>1, StreamMoves
  <1> QED
    BY <1>2, <1>3, <1>4, <1>5, <1>6, <1>7, <1>8, <1>9, <1>10 DEF PageNext, LoopStep, StreamStep

LEMMA PageInvariant == PageSpec => []PageInv
  BY PageStart, PageStep, PTL DEF PageSpec

(***************************************************************************)
(* The theorems                                                            *)
(***************************************************************************)
\* Every variable keeps its type: a loop never reads past its response, and only
\* loops of earlier turns are late.
THEOREM PageTypeCorrect == PageSpec => []PageTypeOK
  <1>1. PageInv => PageTypeOK
    BY DEF PageInv
  <1> QED BY <1>1, PageInvariant, PTL

\* The latest turn shows an answer or a refusal only if its own response said so,
\* whatever loops a cancel has not reached (onSubmit, ChatPage.tsx 72-106).
THEOREM TurnsAnswerTheirOwn == PageSpec => []AnswerIsOwn
  <1>1. PageInv => AnswerIsOwn
    BY DEF PageInv
  <1> QED BY <1>1, PageInvariant, PTL

\* No question's loop ends with its turn still generating: a stream that ends
\* without an exception has shown an outcome.  (TurnSettles adds that loops do end.)
THEOREM NobodyLeftGenerating == PageSpec => [](Generating => reading)
  <1>1. PageInv => (Generating => reading)
    BY DEF PageInv, Waiting
  <1> QED BY <1>1, PageInvariant, PTL

\* The stream keeps its promises for every question of a page: what is gated is
\* whole, the frames are in order, and a clean end is told.
THEOREM EveryQuestionStreams ==
    PageSpec => [](GatedTextIsWhole /\ FramesInOrder /\ CleanEndIsDone)
  <1>1. PageInv => GatedTextIsWhole /\ CleanEndIsDone
    BY DEF PageInv, StreamInv, QueueInv, GatedTextIsWhole, FrameInv, Finished, CleanEndIsDone
  <1>2. ASSUME PageInv PROVE FramesInOrder
    <2>1. Len(sent) \in Nat /\ (Open(sent) \/ Told(sent) \/ Finished(sent))
      BY <1>2 DEF PageInv, StreamInv, TypeOK, FrameInv
    <2> SUFFICES ASSUME NEW i \in 1..Len(sent), NEW j \in 1..Len(sent), i < j
                 PROVE  sent[i] # "done" /\ (sent[i] \in Outcomes => sent[j] = "done")
      BY DEF FramesInOrder
    <2>2. CASE Open(sent)
      BY <2>2 DEF Open, Progress, Outcomes
    <2>3. CASE Told(sent)
      BY <2>1, <2>3 DEF Told, Progress, Outcomes
    <2>4. CASE Finished(sent)
      BY <2>1, <2>4 DEF Finished, Progress, Outcomes
    <2> QED BY <2>1, <2>2, <2>3, <2>4
  <1>3. PageInv => FramesInOrder
    BY <1>2
  <1> QED BY <1>1, <1>3, PageInvariant, PTL
=============================================================================
