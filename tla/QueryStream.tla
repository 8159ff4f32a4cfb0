---------------------------- MODULE QueryStream ----------------------------
(***************************************************************************)
(* One question to ChatDoc, as the server answers it: the POST /query      *)
(* handler and its event_stream generator, the worker thread that reads    *)
(* the model's stream, the asyncio queue between the two, and the SSE      *)
(* frames the generator sends.  The client may go away, and the model may  *)
(* fail, at any time.                                                      *)
(*                                                                         *)
(* The padding frame and heartbeats are comments that the client skips, so *)
(* they are left out; a delta is one text chunk, whatever it says.         *)
(***************************************************************************)
EXTENDS Naturals, Sequences

CONSTANT NDeltas   \* the most text chunks the model's stream yields

ASSUME DeltasAssumption == NDeltas \in Nat

VARIABLES
    srv,    \* where the handler and its generator are
    out,    \* frames the generator yields next, before it goes on
    text,   \* text chunks in full_text
    thread, \* where the worker thread is
    deltas, \* text chunks the thread has put into the queue
    whole,  \* the model's stream ran to its end
    queue,  \* the asyncio queue between them
    stop,   \* stop_event
    sent,   \* SSE frames the generator has sent
    link    \* the HTTP response: open, ended in one of four ways, or not there yet

server == <<srv, out, text>>
model == <<thread, deltas, whole>>
vars == <<srv, out, text, thread, deltas, whole, queue, stop, sent, link>>

Outcomes == {"answer", "refusal", "error"}
Frames == {"retrieval", "delta", "done"} \cup Outcomes
ServerSteps == {"idle", "check", "retrieve", "start", "poll", "wait", "parse", "gate", "over"}
ThreadSteps == {"off", "call", "read", "end", "over"}
Links == {"none", "open", "refused", "closed", "reset", "gone"}

TypeOK ==
    /\ srv \in ServerSteps
    /\ out \in Seq(Frames)
    /\ text \in Nat
    /\ thread \in ThreadSteps
    /\ deltas \in 0..NDeltas
    /\ whole \in BOOLEAN
    /\ queue \in Seq({"delta", "error", "end"})
    /\ stop \in BOOLEAN
    /\ sent \in Seq(Frames)
    /\ link \in Links

Init ==
    /\ srv = "idle" /\ out = <<>> /\ text = 0
    /\ thread = "off" /\ deltas = 0 /\ whole = FALSE
    /\ queue = <<>> /\ stop = FALSE
    /\ sent = <<>> /\ link = "none"

(***************************************************************************)
(* The client                                                              *)
(***************************************************************************)
Ask ==
    /\ srv = "idle"
    /\ srv' = "check"
    /\ link' = "open"
    /\ UNCHANGED <<out, text, model, queue, stop, sent>>

\* The cancel button, a closed page, or a lost connection.
Leave ==
    /\ link = "open"
    /\ link' = "gone"
    /\ UNCHANGED <<server, model, queue, stop, sent>>

(***************************************************************************)
(* The generator                                                           *)
(***************************************************************************)
Gone == link = "gone"

\* The generator goes on to a step, yielding these frames on the way.
Yields(frames, step) == out' = frames /\ srv' = step

\* Session, CSRF token, document and its status are checked once, up front.
Check ==
    /\ srv = "check"
    /\ \/ Yields(<<>>, "retrieve") /\ UNCHANGED link
       \/ /\ Yields(<<>>, "over")
          /\ link' = IF link = "open" THEN "refused" ELSE link
    /\ UNCHANGED <<text, model, queue, stop, sent>>

\* Mutant: no "done" after the refusal for want of chunks.
RetrieveNothingQuietly ==
    /\ srv = "retrieve"
    /\ \/ Yields(<<"error", "done">>, "over")
       \/ Yields(<<"retrieval", "refusal">>, "over")
       \/ Yields(<<"retrieval">>, "start")
    /\ UNCHANGED <<text, model, queue, stop, sent, link>>

Retrieve ==
    /\ srv = "retrieve"
    /\ \/ Yields(<<"error", "done">>, "over")
       \/ Yields(<<"retrieval", "refusal", "done">>, "over")
       \/ Yields(<<"retrieval">>, "start")
    /\ UNCHANGED <<text, model, queue, stop, sent, link>>

\* The prompt is built and the thread started; what raises there (build_prompt,
\* a thread too many) breaks the response off, as in Gate.
Start ==
    /\ srv = "start" /\ out = <<>>
    /\ \/ srv' = "poll" /\ thread' = "call" /\ UNCHANGED link
       \/ /\ srv' = "over"
          /\ link' = IF link = "open" THEN "reset" ELSE link
          /\ UNCHANGED thread
    /\ UNCHANGED <<out, text, deltas, whole, queue, stop, sent>>

Poll ==
    /\ srv = "poll" /\ out = <<>>
    /\ srv' = IF Gone THEN "over" ELSE "wait"
    /\ stop' = (stop \/ Gone)
    /\ UNCHANGED <<out, text, model, queue, sent, link>>

\* queue.get() with a timeout; a heartbeat may go out when it fires.
TimeOut ==
    /\ srv = "wait" /\ queue = <<>>
    /\ srv' = "poll"
    /\ UNCHANGED <<out, text, model, queue, stop, sent, link>>

\* Mutant: the return after an error is forgotten.
TakeOn ==
    /\ srv = "wait" /\ queue # <<>>
    /\ queue' = Tail(queue)
    /\ \/ /\ Head(queue) = "delta"
          /\ text' = text + 1
          /\ Yields(<<"delta">>, "poll")
       \/ /\ Head(queue) = "error"
          /\ Yields(<<"error", "done">>, "poll")
          /\ UNCHANGED text
       \/ /\ Head(queue) = "end"
          /\ Yields(<<>>, "parse")
          /\ UNCHANGED text
    /\ UNCHANGED <<model, stop, sent, link>>

Take ==
    /\ srv = "wait" /\ queue # <<>>
    /\ queue' = Tail(queue)
    /\ \/ /\ Head(queue) = "delta"
          /\ text' = text + 1
          /\ Yields(<<"delta">>, "poll")
       \/ /\ Head(queue) = "error"
          /\ Yields(<<"error", "done">>, "over")
          /\ UNCHANGED text
       \/ /\ Head(queue) = "end"
          /\ Yields(<<>>, "parse")
          /\ UNCHANGED text
    /\ UNCHANGED <<model, stop, sent, link>>

Parse ==
    /\ srv = "parse"
    /\ \/ text > 0 /\ Yields(<<>>, "gate")
       \/ Yields(<<"error", "done">>, "over")
    /\ UNCHANGED <<text, model, queue, stop, sent, link>>

\* The gate passes, refuses, or raises: nothing catches it there, and the
\* server drops the connection in the middle of the response.
Gate ==
    /\ srv = "gate"
    /\ \/ Yields(<<"answer", "done">>, "over") /\ UNCHANGED link
       \/ Yields(<<"refusal", "done">>, "over") /\ UNCHANGED link
       \/ /\ Yields(<<>>, "over")
          /\ link' = IF link = "open" THEN "reset" ELSE link
    /\ UNCHANGED <<text, model, queue, stop, sent>>

\* A yield; what is sent to a page that has gone is lost.
Send ==
    /\ out # <<>>
    /\ out' = Tail(out)
    /\ sent' = IF Gone THEN sent ELSE Append(sent, Head(out))
    /\ UNCHANGED <<srv, text, model, queue, stop, link>>

\* The generator returned: the response ends cleanly.
Close ==
    /\ srv = "over" /\ out = <<>> /\ link = "open"
    /\ link' = "closed"
    /\ UNCHANGED <<server, model, queue, stop, sent>>

\* Starlette cancels the response's task when the client disconnects, if the
\* generator has not noticed first.  That takes effect at an await or a yield,
\* and no finally clause sets stop_event then.
Cancelled ==
    /\ Gone
    /\ srv \in {"retrieve", "poll", "wait"} \/ out # <<>>
    /\ Yields(<<>>, "over")
    /\ UNCHANGED <<text, model, queue, stop, sent, link>>

(***************************************************************************)
(* The worker thread, around stream_structured                             *)
(***************************************************************************)
Call ==
    /\ thread = "call"
    /\ \/ thread' = "read" /\ UNCHANGED queue
       \/ thread' = "end" /\ queue' = Append(queue, "error")
    /\ UNCHANGED <<server, deltas, whole, stop, sent, link>>

\* A chunk arrives; stop_event is looked at before it is passed on.
Pull ==
    /\ thread = "read"
    /\ \/ /\ stop
          /\ thread' = "end"
          /\ UNCHANGED <<deltas, queue>>
       \/ /\ ~stop /\ deltas < NDeltas
          /\ deltas' = deltas + 1
          /\ queue' = Append(queue, "delta")
          /\ UNCHANGED thread
    /\ UNCHANGED <<server, whole, stop, sent, link>>

\* Mutant: an exception of the stream is swallowed.
UpstreamEndsQuietly ==
    /\ thread = "read"
    /\ thread' = "end"
    /\ whole' \in BOOLEAN
    /\ UNCHANGED <<server, deltas, queue, stop, sent, link>>

\* The model's stream ends, or it fails: a rate limit, a dropped connection.
UpstreamEnds ==
    /\ thread = "read"
    /\ thread' = "end"
    /\ \/ whole' = TRUE /\ UNCHANGED queue
       \/ queue' = Append(queue, "error") /\ UNCHANGED whole
    /\ UNCHANGED <<server, deltas, stop, sent, link>>

\* Mutants: "end" is only posted after an error; "end" is called "done".
PostEndRarely ==
    /\ thread = "end"
    /\ thread' = "over"
    /\ queue' = IF whole THEN queue ELSE Append(queue, "end")
    /\ UNCHANGED <<server, deltas, whole, stop, sent, link>>

PostEndMisnamed ==
    /\ thread = "end"
    /\ thread' = "over"
    /\ queue' = Append(queue, "done")
    /\ UNCHANGED <<server, deltas, whole, stop, sent, link>>

PostEnd ==
    /\ thread = "end"
    /\ thread' = "over"
    /\ queue' = Append(queue, "end")
    /\ UNCHANGED <<server, deltas, whole, stop, sent, link>>

(***************************************************************************)
(* The specification                                                       *)
(***************************************************************************)
ServerStep ==
    \/ Check \/ Retrieve \/ Start \/ Poll \/ TimeOut \/ Take
    \/ Parse \/ Gate \/ Send \/ Close
ThreadStep == Call \/ Pull \/ UpstreamEnds \/ PostEnd

Next == Ask \/ Leave \/ ServerStep \/ Cancelled \/ ThreadStep

Spec == Init /\ [][Next]_vars

\* The event loop and the thread keep running; the model's stream goes on or
\* fails in the end.  Nobody has to ask or to leave.
FairSpec == Spec /\ WF_vars(ServerStep) /\ WF_vars(ThreadStep)

(***************************************************************************)
(* Properties                                                              *)
(***************************************************************************)
\* Only the whole of what the model said is ever parsed and gated: an answer
\* after a failed or stopped stream, or one overtaken by its own end, would be
\* about something else (worker, event_stream).
GatedTextIsWhole == srv = "gate" => whole /\ text = deltas

\* The frames are progress, one outcome, then "done" and nothing after it,
\* wherever the response is broken off (event_stream).
FramesInOrder ==
    \A i, j \in 1..Len(sent) : i < j =>
        /\ sent[i] # "done"
        /\ sent[i] \in Outcomes => sent[j] = "done"

\* A response that ends cleanly ends with an outcome and "done": no client
\* takes a dropped stream for a complete one (event_stream).
CleanEndIsDone ==
    link = "closed" =>
        /\ Len(sent) > 1
        /\ sent[Len(sent)] = "done"
        /\ sent[Len(sent) - 1] \in Outcomes

\* Every response ends, whatever the model's stream does: an error or an end
\* always reaches the consumer loop, which has no other way out (worker).
ResponseEnds == link = "open" ~> link # "open"

\* api/routes_query.py: "then always a terminal `done` event".
DoneAlwaysSent ==
    link \in {"closed", "reset"} => sent # <<>> /\ sent[Len(sent)] = "done"

\* tests/test_query_cancellation.py: "a client disconnect during /query actually
\* tears down the upstream Gemini stream".
UpstreamTornDown == srv = "over" /\ thread = "read" => stop
=============================================================================
