------------------------- MODULE QueryStreamProofs -------------------------
(***************************************************************************)
(* Safety of the query stream for every number of text chunks: types, what *)
(* may be gated, and the order of the frames.                              *)
(***************************************************************************)
EXTENDS QueryStream, TLAPS

Progress == {"retrieval", "delta"}

(***************************************************************************)
(* What is on its way from the thread to the generator                     *)
(***************************************************************************)
Unread == deltas - text

\* The queue holds the chunks not read yet, and after them "error" if the
\* stream failed.
Backlog ==
    /\ text <= deltas
    /\ Unread <= Len(queue)
    /\ \A i \in 1..Len(queue) : queue[i] = "delta" <=> i <= Unread
    /\ thread \in {"call", "read"} => Len(queue) = Unread
    /\ thread \in {"end", "over"} /\ ~whole =>
          Unread < Len(queue) /\ queue[Unread + 1] = "error"

QueueInv ==
    /\ srv \in {"idle", "check", "retrieve", "start"} =>
          thread = "off" /\ deltas = 0 /\ text = 0 /\ queue = <<>>
    /\ srv \in {"poll", "wait"} => Backlog /\ thread # "off"
    /\ srv \in {"parse", "gate"} => whole /\ text = deltas
    /\ whole => thread \in {"end", "over"}
    /\ stop => srv = "over"

(***************************************************************************)
(* What has been sent                                                      *)
(***************************************************************************)
Open(s) == \A i \in 1..Len(s) : s[i] \in Progress

Told(s) ==
    /\ Len(s) > 0
    /\ s[Len(s)] \in Outcomes
    /\ \A i \in 1..(Len(s) - 1) : s[i] \in Progress

Finished(s) ==
    /\ Len(s) > 1
    /\ s[Len(s)] = "done"
    /\ s[Len(s) - 1] \in Outcomes
    /\ \A i \in 1..(Len(s) - 2) : s[i] \in Progress

\* The rest of the frames, once the generator has nothing else to do.
Endings ==
    {<<o, "done">> : o \in Outcomes} \cup {<<"retrieval", "refusal", "done">>}

FrameInv ==
    /\ srv \in {"idle", "check", "retrieve", "wait", "parse", "gate"} => out = <<>>
    /\ srv \in {"start", "poll"} => out \in {<<>>, <<"retrieval">>, <<"delta">>}
    /\ srv = "idle" <=> link = "none"
    /\ srv # "over" => link \in {"none", "open", "gone"}
    /\ link # "gone" /\ srv # "over" => Open(sent)
    /\ link \in {"refused", "reset", "closed"} => out = <<>>
    /\ link = "closed" => Finished(sent)
    /\ link = "open" /\ srv = "over" =>
          \/ out = <<>> /\ Finished(sent)
          \/ out = <<"done">> /\ Told(sent)
          \/ out \in Endings /\ Open(sent)
    /\ Open(sent) \/ Told(sent) \/ Finished(sent)

StreamInv == TypeOK /\ QueueInv /\ FrameInv

(***************************************************************************)
(* Lemmas on sequences                                                     *)
(***************************************************************************)
\* What a frame more makes of the frames sent (Send).
LEMMA AppendFrame ==
    ASSUME NEW s \in Seq(Frames), NEW f \in Frames
    PROVE  /\ Open(s) /\ f \in Progress => Open(Append(s, f))
           /\ Open(s) /\ f \in Outcomes => Told(Append(s, f))
           /\ Told(s) /\ f = "done" => Finished(Append(s, f))
<1> DEFINE t == Append(s, f)
<1>1. /\ Len(t) = Len(s) + 1
      /\ t[Len(t)] = f
      /\ \A i \in 1..Len(s) : t[i] = s[i]
      /\ Len(s) \in Nat
    OBVIOUS
<1>2. Open(s) /\ f \in Progress => Open(t)
    BY <1>1 DEF Open
<1>3. Open(s) /\ f \in Outcomes => Told(t)
    BY <1>1 DEF Open, Told
<1>4. Told(s) /\ f = "done" => Finished(t)
    BY <1>1 DEF Told, Finished
<1> QED
    BY <1>2, <1>3, <1>4

(***************************************************************************)
(* Types                                                                   *)
(***************************************************************************)
LEMMA Scripts ==
    /\ <<>> \in Seq(Frames)
    /\ <<"retrieval">> \in Seq(Frames) /\ <<"delta">> \in Seq(Frames)
    /\ \A o \in Outcomes : <<o, "done">> \in Seq(Frames)
    /\ <<"retrieval", "refusal", "done">> \in Seq(Frames)
<1>1. {"retrieval", "delta", "done"} \subseteq Frames /\ Outcomes \subseteq Frames
    BY DEF Frames
<1>2. <<>> \in Seq(Frames) /\ <<"retrieval">> \in Seq(Frames) /\ <<"delta">> \in Seq(Frames)
    BY <1>1
<1>3. \A o \in Outcomes : <<o, "done">> \in Seq(Frames)
    BY <1>1
<1>4. <<"retrieval", "refusal", "done">> \in Seq(Frames)
    BY <1>1 DEF Outcomes
<1> QED
    BY <1>2, <1>3, <1>4

LEMMA TypeStep ==
    ASSUME TypeOK, [Next]_vars
    PROVE  TypeOK'
<1> DEFINE Items == {"delta", "error", "end"}
<1> USE DeltasAssumption DEF TypeOK, ServerSteps, ThreadSteps, Links
<1>0. /\ Append(queue, "delta") \in Seq(Items)
      /\ Append(queue, "error") \in Seq(Items)
      /\ Append(queue, "end") \in Seq(Items)
      /\ queue # <<>> => Tail(queue) \in Seq(Items)
    OBVIOUS
<1>1. CASE Ask
    BY <1>1 DEF Ask, model
<1>2. CASE Leave
    BY <1>2 DEF Leave, server, model
<1>3. CASE Check
    BY <1>3, Scripts DEF Check, Yields, model
<1>4. CASE Retrieve
    <2>1. out' \in Seq(Frames)
        BY <1>4, Scripts DEF Retrieve, Yields, Outcomes
    <2> QED
        BY <1>4, <2>1 DEF Retrieve, Yields, model
<1>5. CASE Start
    BY <1>5 DEF Start
<1>6. CASE Poll
    BY <1>6 DEF Poll, model
<1>7. CASE TimeOut
    BY <1>7 DEF TimeOut, model
<1>8. CASE Take
    <2>1. out' \in Seq(Frames)
        BY <1>8, Scripts DEF Take, Yields, Outcomes
    <2>2. text' \in Nat /\ srv' \in ServerSteps
        BY <1>8 DEF Take, Yields
    <2> QED
        BY <1>0, <1>8, <2>1, <2>2 DEF Take, model
<1>9. CASE Parse
    BY <1>9, Scripts DEF Parse, Yields, model, Outcomes
<1>10. CASE Gate
    BY <1>10, Scripts DEF Gate, Yields, model, Outcomes
<1>11. CASE Send
    <2>1. Head(out) \in Frames /\ Tail(out) \in Seq(Frames)
        BY <1>11 DEF Send
    <2>2. Append(sent, Head(out)) \in Seq(Frames)
        BY <2>1
    <2> QED
        BY <1>11, <2>1, <2>2 DEF Send, model
<1>12. CASE Close
    BY <1>12 DEF Close, server, model
<1>13. CASE Cancelled
    BY <1>13, Scripts DEF Cancelled, Yields, model
<1>14. CASE Call
    BY <1>0, <1>14 DEF Call, server
<1>15. CASE Pull
    <2>1. deltas' \in 0..NDeltas /\ thread' \in ThreadSteps
        BY <1>15 DEF Pull
    <2> QED
        BY <1>0, <1>15, <2>1 DEF Pull, server
<1>16. CASE UpstreamEnds
    <2>1. whole' \in BOOLEAN
        BY <1>16 DEF UpstreamEnds
    <2> QED
        BY <1>0, <1>16, <2>1 DEF UpstreamEnds, server
<1>17. CASE PostEnd
    BY <1>0, <1>17 DEF PostEnd, server
<1>18. CASE UNCHANGED vars
    BY <1>18 DEF vars
<1> QED
    BY <1>1, <1>2, <1>3, <1>4, <1>5, <1>6, <1>7, <1>8, <1>9, <1>10, <1>11, <1>12,
       <1>13, <1>14, <1>15, <1>16, <1>17, <1>18 DEF Next, ServerStep, ThreadStep

(***************************************************************************)
(* The queue                                                               *)
(***************************************************************************)
\* Reading the first item of the queue (Take).
LEMMA TakeOne ==
    ASSUME TypeOK, Backlog, thread # "off", queue # <<>>
    PROVE  /\ Len(Tail(queue)) = Len(queue) - 1
           /\ \A i \in 1..Len(Tail(queue)) : Tail(queue)[i] = queue[i + 1]
           /\ Head(queue) = "delta" => Unread > 0
           /\ Head(queue) = "end" => text = deltas /\ thread \in {"end", "over"} /\ whole
<1>1. /\ Head(queue) = queue[1]
      /\ Len(Tail(queue)) = Len(queue) - 1
      /\ \A i \in 1..Len(Tail(queue)) : Tail(queue)[i] = queue[i + 1]
      /\ Len(queue) \in Nat \ {0}
    BY DEF TypeOK
<1>2. Unread \in Nat
    BY DeltasAssumption DEF TypeOK, Backlog, Unread
<1>3. 1 \in 1..Len(queue) /\ (queue[1] = "delta" <=> 1 <= Unread)
    <2>1. 1 \in 1..Len(queue)
        BY <1>1
    <2>2. \A i \in 1..Len(queue) : queue[i] = "delta" <=> i <= Unread
        BY DEF Backlog
    <2> QED
        BY <2>1, <2>2
<1>4. ASSUME Head(queue) = "end"
      PROVE  text = deltas /\ thread \in {"end", "over"} /\ whole
    <2>1. queue[1] # "delta" /\ Len(queue) > 0
        BY <1>1, <1>4
    <2>2. ~(1 <= Unread)
        BY <1>3, <2>1
    <2>3. Unread = 0 /\ Len(queue) # Unread
        BY <1>2, <2>1, <2>2
    <2>4. text = deltas
        BY <2>3, DeltasAssumption DEF Unread, TypeOK
    <2>5. thread \in {"end", "over"}
        BY <2>3 DEF Backlog, TypeOK, ThreadSteps
    <2>6. queue[Unread + 1] # "error"
        BY <1>1, <1>4, <2>3
    <2> QED
        BY <2>4, <2>5, <2>6 DEF Backlog
<1> QED
    BY <1>1, <1>2, <1>3, <1>4

\* Passing on a chunk, or the error or the end after the chunks, keeps Backlog.
LEMMA PutOne ==
    ASSUME TypeOK, TypeOK', Backlog, UNCHANGED <<text, whole>>, thread # "off",
           NEW item \in {"delta", "error", "end"}, queue' = Append(queue, item),
           thread' \in {"read", "end", "over"},
           \/ /\ item = "delta" /\ thread \in {"call", "read"} /\ thread' = "read"
              /\ deltas' = deltas + 1
           \/ /\ item = "error" /\ thread \in {"call", "read"} /\ thread' = "end"
              /\ deltas' = deltas
           \/ /\ item = "end" /\ thread = "end" /\ thread' = "over"
              /\ deltas' = deltas
    PROVE  Backlog'
<1>1. /\ Len(queue') = Len(queue) + 1
      /\ queue'[Len(queue) + 1] = item
      /\ \A i \in 1..Len(queue) : queue'[i] = queue[i]
      /\ Len(queue) \in Nat
    BY DEF TypeOK
<1>2. /\ text \in Nat /\ text' \in Nat
      /\ deltas \in Nat /\ deltas' \in Nat
      /\ text <= deltas /\ Unread <= Len(queue)
    BY DeltasAssumption DEF TypeOK, Backlog
<1>3. \A i \in 1..Len(queue) : queue[i] = "delta" <=> i <= deltas - text
    BY DEF Backlog, Unread
<1>4. CASE item = "delta"
    BY <1>1, <1>2, <1>3, <1>4 DEF Backlog, Unread
<1>5. CASE item = "error"
    BY <1>1, <1>2, <1>3, <1>5 DEF Backlog, Unread
<1>6. CASE item = "end"
    BY <1>1, <1>2, <1>3, <1>6 DEF Backlog, Unread
<1> QED
    BY <1>4, <1>5, <1>6

LEMMA QueueStep ==
    ASSUME TypeOK, TypeOK', QueueInv, [Next]_vars
    PROVE  QueueInv'
<1> USE DEF QueueInv
<1>1. CASE Ask
    BY <1>1 DEF Ask, model
<1>2. CASE Leave
    BY <1>2 DEF Leave, server, model, Backlog, Unread
<1>3. CASE Check
    BY <1>3 DEF Check, Yields, model
<1>4. CASE Retrieve
    BY <1>4 DEF Retrieve, Yields, model
<1>5. CASE Start
    <2>1. Backlog'
        BY <1>5 DEF Start, Backlog, Unread
    <2> QED
        BY <1>5, <2>1 DEF Start
<1>6. CASE Poll
    BY <1>6 DEF Poll, model, Backlog, Unread
<1>7. CASE TimeOut
    BY <1>7 DEF TimeOut, model, Backlog, Unread
<1>8. CASE Take
    <2> DEFINE n == Len(queue)
    <2>0. Backlog /\ thread # "off" /\ queue # <<>> /\ ~stop
        BY <1>8 DEF Take
    <2>1. /\ Len(queue') = n - 1
          /\ \A i \in 1..Len(queue') : queue'[i] = queue[i + 1]
          /\ n \in Nat \ {0} /\ Len(queue') \in Nat
        BY <1>8, <2>0, TakeOne DEF Take, TypeOK
    <2>2. CASE Head(queue) = "delta"
        <3>1. /\ text' = text + 1 /\ srv' = "poll"
              /\ UNCHANGED <<thread, deltas, whole, stop>>
            BY <1>8, <2>2 DEF Take, Yields, model
        <3>2. /\ text \in Nat /\ deltas \in Nat /\ deltas - text > 0
              /\ deltas - text <= n
            BY <2>0, <2>2, TakeOne, DeltasAssumption DEF TypeOK, Unread, Backlog
        <3>3. \A i \in 1..n : queue[i] = "delta" <=> i <= deltas - text
            BY <2>0 DEF Backlog, Unread
        <3>4. Backlog'
            BY <2>0, <2>1, <3>1, <3>2, <3>3 DEF Backlog, Unread
        <3> QED
            BY <2>0, <3>1, <3>4
    <2>3. CASE Head(queue) = "error"
        BY <1>8, <2>0, <2>3 DEF Take, Yields, model
    <2>4. CASE Head(queue) = "end"
        BY <1>8, <2>0, <2>4, TakeOne DEF Take, Yields, model
    <2> QED
        BY <1>8, <2>2, <2>3, <2>4 DEF Take
<1>9. CASE Parse
    BY <1>9 DEF Parse, Yields, model
<1>10. CASE Gate
    BY <1>10 DEF Gate, Yields, model
<1>11. CASE Send
    BY <1>11 DEF Send, model, Backlog, Unread
<1>12. CASE Close
    BY <1>12 DEF Close, server, model, Backlog, Unread
<1>13. CASE Cancelled
    BY <1>13 DEF Cancelled, Yields, model
<1>14. CASE Call
    BY <1>14, PutOne DEF Call, server, Backlog, Unread
<1>15. CASE Pull
    BY <1>15, PutOne DEF Pull, server
<1>16. CASE UpstreamEnds
    BY <1>16, PutOne DEF UpstreamEnds, server, Backlog, Unread
<1>17. CASE PostEnd
    BY <1>17, PutOne DEF PostEnd, server
<1>18. CASE UNCHANGED vars
    BY <1>18 DEF vars, Backlog, Unread
<1> QED
    BY <1>1, <1>2, <1>3, <1>4, <1>5, <1>6, <1>7, <1>8, <1>9, <1>10, <1>11, <1>12,
       <1>13, <1>14, <1>15, <1>16, <1>17, <1>18 DEF Next, ServerStep, ThreadStep

(***************************************************************************)
(* The frames                                                              *)
(***************************************************************************)
LEMMA FrameStep ==
    ASSUME TypeOK, TypeOK', QueueInv, FrameInv, [Next]_vars
    PROVE  FrameInv'
<1> USE DEF FrameInv
<1>1. CASE Ask
    BY <1>1 DEF Ask, model, Open, Told, Finished
<1>2. CASE Leave
    BY <1>2 DEF Leave, server, model, Open, Told, Finished
<1>3. CASE Check
    BY <1>3 DEF Check, Yields, model, Open, Told, Finished
<1>4. CASE Retrieve
    <2>1. /\ <<"error", "done">> \in Endings
          /\ <<"retrieval", "refusal", "done">> \in Endings
        BY DEF Endings, Outcomes
    <2>2. /\ \/ out' \in Endings /\ srv' = "over"
             \/ out' = <<"retrieval">> /\ srv' = "start"
          /\ UNCHANGED <<sent, link>> /\ srv = "retrieve"
        BY <1>4, <2>1 DEF Retrieve, Yields
    <2> QED
        BY <2>2 DEF Open, Told, Finished
<1>5. CASE Start
    BY <1>5 DEF Start, Open, Told, Finished
<1>6. CASE Poll
    BY <1>6 DEF Poll, model, Gone, Open, Told, Finished
<1>7. CASE TimeOut
    BY <1>7 DEF TimeOut, model, Open, Told, Finished
<1>8. CASE Take
    <2>1. /\ \/ out' \in Endings /\ srv' = "over"
             \/ out' = <<"delta">> /\ srv' = "poll"
             \/ out' = <<>> /\ srv' = "parse"
          /\ UNCHANGED <<sent, link>> /\ srv = "wait"
        BY <1>8 DEF Take, Yields, Endings, Outcomes
    <2> QED
        BY <2>1 DEF Open, Told, Finished
<1>9. CASE Parse
    <2>1. /\ \/ out' \in Endings /\ srv' = "over"
             \/ out' = <<>> /\ srv' = "gate"
          /\ UNCHANGED <<sent, link>> /\ srv = "parse"
        BY <1>9 DEF Parse, Yields, Endings, Outcomes
    <2> QED
        BY <2>1 DEF Open, Told, Finished
<1>10. CASE Gate
    <2>1. /\ \/ out' \in Endings /\ UNCHANGED link
             \/ out' = <<>> /\ link' = IF link = "open" THEN "reset" ELSE link
          /\ srv' = "over" /\ UNCHANGED sent /\ srv = "gate"
        BY <1>10 DEF Gate, Yields, Endings, Outcomes
    <2> QED
        BY <2>1 DEF Open, Told, Finished
<1>11. CASE Send
    <2>1. /\ out # <<>> /\ out' = Tail(out)
          /\ sent' = IF link = "gone" THEN sent ELSE Append(sent, Head(out))
          /\ UNCHANGED <<srv, link>>
        BY <1>11 DEF Send, Gone
    <2>2. CASE srv # "over"
        <3>1. srv \in {"start", "poll"} /\ out \in {<<"retrieval">>, <<"delta">>}
            BY <2>1, <2>2 DEF TypeOK, ServerSteps
        <3>2. Tail(out) = <<>> /\ Head(out) \in Progress
            <4>1. CASE out = <<"retrieval">>
                BY <4>1 DEF Progress
            <4>2. CASE out = <<"delta">>
                BY <4>2 DEF Progress
            <4> QED
                BY <3>1, <4>1, <4>2
        <3>3. link # "gone" => Open(sent')
            BY <2>1, <2>2, <3>2, AppendFrame DEF TypeOK, Frames, Progress
        <3> QED
            BY <2>1, <2>2, <3>1, <3>2, <3>3 DEF Open, Told, Finished
    <2>3. CASE srv = "over" /\ link = "gone"
        BY <2>1, <2>3 DEF Open, Told, Finished
    <2>4. CASE srv = "over" /\ link # "gone"
        <3>1. link = "open"
            BY <2>1, <2>4 DEF TypeOK, Links
        <3>2. CASE out = <<"done">> /\ Told(sent)
            <4>1. Tail(out) = <<>> /\ Head(out) = "done"
                BY <3>2
            <4>2. Finished(sent')
                BY <2>1, <3>1, <3>2, <4>1, AppendFrame DEF TypeOK, Frames
            <4> QED
                BY <2>1, <2>4, <3>1, <4>1, <4>2
        <3>3. CASE out \in Endings /\ Open(sent)
            <4>1. CASE out = <<"retrieval", "refusal", "done">>
                <5>1. Tail(out) = <<"refusal", "done">> /\ Head(out) = "retrieval"
                    BY <4>1
                <5>2. Open(sent')
                    BY <2>1, <3>1, <3>3, <5>1, AppendFrame DEF TypeOK, Frames, Progress
                <5>3. Tail(out) \in Endings
                    BY <5>1 DEF Endings, Outcomes
                <5> QED
                    BY <2>1, <2>4, <3>1, <5>2, <5>3
            <4>2. CASE out \in {<<o, "done">> : o \in Outcomes}
                <5>1. PICK o \in Outcomes : out = <<o, "done">>
                    BY <4>2
                <5>2. Tail(out) = <<"done">> /\ Head(out) \in Outcomes
                    BY <5>1
                <5>3. Told(sent')
                    BY <2>1, <3>1, <3>3, <5>2, AppendFrame DEF TypeOK, Frames
                <5> QED
                    BY <2>1, <2>4, <3>1, <5>2, <5>3
            <4> QED
                BY <3>3, <4>1, <4>2 DEF Endings
        <3> QED
            BY <2>1, <2>4, <3>1, <3>2, <3>3
    <2> QED
        BY <2>2, <2>3, <2>4
<1>12. CASE Close
    <2>1. /\ srv = "over" /\ out = <<>> /\ link = "open" /\ link' = "closed"
          /\ UNCHANGED <<srv, out, sent>>
        BY <1>12 DEF Close, server
    <2>2. <<>> \notin Endings /\ <<>> # <<"done">>
        BY DEF Endings
    <2> QED
        BY <2>1, <2>2 DEF Open, Told, Finished
<1>13. CASE Cancelled
    BY <1>13 DEF Cancelled, Yields, model, Gone, Open, Told, Finished
<1>14. CASE ThreadStep \/ UNCHANGED vars
    <2>1. UNCHANGED <<srv, out, sent, link>>
        BY <1>14 DEF ThreadStep, Call, Pull, UpstreamEnds, PostEnd, server, vars
    <2> QED
        BY <2>1 DEF Open, Told, Finished
<1> QED
    BY <1>1, <1>2, <1>3, <1>4, <1>5, <1>6, <1>7, <1>8, <1>9, <1>10, <1>11, <1>12,
       <1>13, <1>14 DEF Next, ServerStep

(***************************************************************************)
(* The theorems                                                            *)
(***************************************************************************)
LEMMA StreamInvariant == Spec => []StreamInv
<1>1. Init => StreamInv
    <2> SUFFICES ASSUME Init PROVE StreamInv
        OBVIOUS
    <2>1. TypeOK
        <3>1. queue \in Seq({"delta", "error", "end"})
            BY DEF Init
        <3>2. out \in Seq(Frames) /\ sent \in Seq(Frames)
            BY Scripts DEF Init
        <3>3. deltas \in 0..NDeltas
            BY DeltasAssumption DEF Init
        <3> QED
            BY <3>1, <3>2, <3>3 DEF Init, TypeOK, ServerSteps, ThreadSteps, Links
    <2>2. QueueInv
        BY DEF Init, QueueInv
    <2>3. FrameInv
        BY DEF Init, FrameInv, Open
    <2> QED
        BY <2>1, <2>2, <2>3 DEF StreamInv
<1>2. StreamInv /\ [Next]_vars => StreamInv'
    BY TypeStep, QueueStep, FrameStep DEF StreamInv
<1> QED
    BY <1>1, <1>2, PTL DEF Spec

\* Every variable keeps its type: the queue carries only what the consumer
\* handles, the generator sends only frames of the protocol.
THEOREM StreamTypeCorrect == Spec => []TypeOK
<1>1. StreamInv => TypeOK
    BY DEF StreamInv
<1> QED
    BY <1>1, StreamInvariant, PTL

\* However the model's stream fails or is stopped, only the whole of what it
\* said is gated.
THEOREM GatedTextAlwaysWhole == Spec => []GatedTextIsWhole
<1>1. StreamInv => GatedTextIsWhole
    BY DEF StreamInv, QueueInv, GatedTextIsWhole
<1> QED
    BY <1>1, StreamInvariant, PTL

\* At every moment the frames sent are progress, then at most one outcome, and
\* then at most one "done".
THEOREM FramesAlwaysInOrder == Spec => []FramesInOrder
<1>1. ASSUME StreamInv
      PROVE  FramesInOrder
    <2> SUFFICES ASSUME NEW i \in 1..Len(sent), NEW j \in 1..Len(sent), i < j
                 PROVE  sent[i] # "done" /\ (sent[i] \in Outcomes => sent[j] = "done")
        BY DEF FramesInOrder
    <2>1. Len(sent) \in Nat
        BY <1>1 DEF StreamInv, TypeOK
    <2>2. CASE Open(sent)
        BY <2>2 DEF Open, Progress, Outcomes
    <2>3. CASE Told(sent)
        BY <2>1, <2>3 DEF Told, Progress, Outcomes
    <2>4. CASE Finished(sent)
        BY <2>1, <2>4 DEF Finished, Progress, Outcomes
    <2> QED
        BY <1>1, <2>2, <2>3, <2>4 DEF StreamInv, FrameInv
<1>2. StreamInv => FramesInOrder
    BY <1>1
<1> QED
    BY <1>2, StreamInvariant, PTL

\* A response that ends cleanly told its outcome, and then "done".
THEOREM CleanEndAlwaysDone == Spec => []CleanEndIsDone
<1>1. StreamInv => CleanEndIsDone
    BY DEF StreamInv, FrameInv, Finished, CleanEndIsDone
<1> QED
    BY <1>1, StreamInvariant, PTL
=============================================================================
