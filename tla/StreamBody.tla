----------------------------- MODULE StreamBody -----------------------------
(***************************************************************************)
(* One streaming request, from the background task that routes it to the   *)
(* last frame of its body: dispatch_streaming_request and the pre-header   *)
(* cancellation, the proxied body (Chat to Chat, Responses to Responses)   *)
(* and the translated one (src/src/server/gateway/stream.rs), and the      *)
(* clean-ups of gateway.rs that end it.                                    *)
(*                                                                         *)
(* The upstream's bytes are chunks of events; an event is one of           *)
(*   comment, keepalive   nothing of the protocol                          *)
(*   created, output      a role or created event, usable output           *)
(*   final, finalUsage    a finish reason or response.completed, without   *)
(*                        and with output tokens                           *)
(*   DONE                 the [DONE] marker                                *)
(*   bad, utf8, failure   bad JSON, bad UTF-8, an error of the provider    *)
(* A poll of the body runs without a pause up to an await, so a client     *)
(* that hangs up finds it at rest, in the await of flush_usage_log or in   *)
(* the one of finalize_stream_error.  Heartbeats change nothing here: they *)
(* are in StreamWatchdog.                                                  *)
(***************************************************************************)
EXTENDS Naturals, Sequences

CONSTANTS
    BodyKinds,   \* subset of {"chat", "responses", "toResponses", "toChat"}
    Chunks,      \* the chunks an upstream may send
    MaxSkipped,  \* stream_max_skipped_bad_frames
    MaxSends,    \* attempts of the routing loop: bound of the model
    MaxChunks    \* chunks of one body: bound of the model

Events == {"comment", "keepalive", "created", "output", "final", "finalUsage",
           "DONE", "bad", "utf8", "failure"}

ASSUME StreamAssumption ==
    /\ BodyKinds \subseteq {"chat", "responses", "toResponses", "toChat"}
    /\ Chunks \subseteq Seq(Events)
    /\ {MaxSkipped, MaxSends, MaxChunks} \subseteq Nat

VARIABLES
    kind,     \* which protocols the body connects
    stage,    \* route, sending, built, handed or closed
    sends,    \* attempts so far
    armed,    \* PreHeaderStreamCancellation holds the contexts
    body,     \* ProxiedStreamState or TranslatedStreamState
    mode,     \* loop, flush, release, fail, failLog or over: where the body awaits
    hasLog,   \* log_context is still in the body
    hasDone,  \* completion_context is still in the body
    chunks,   \* chunks read so far
    logs,     \* statuses of the usage logs written for this request
    held,     \* the request holds its downstream and upstream slot
    client,   \* open or gone
    cleanup,  \* the spawned clean-up: none, or what it still has to do
    seen      \* what the client received

streamVars == <<kind, stage, sends, armed, body, mode, hasLog, hasDone, chunks,
                logs, held, client, cleanup, seen>>

Canonical(k) == k \in {"chat", "toResponses"}
Translated(k) == k \in {"toResponses", "toChat"}

NewBody == [pending |-> <<>>, fin |-> FALSE, term |-> FALSE, usable |-> FALSE,
            tokens |-> FALSE, reason |-> FALSE, closed |-> FALSE,
            skipped |-> 0, stored |-> FALSE, flushed |-> FALSE, err |-> FALSE]

StreamInit ==
    /\ kind \in BodyKinds
    /\ stage = "route" /\ sends = 0 /\ armed = FALSE
    /\ body = NewBody /\ mode = "loop"
    /\ hasLog = FALSE /\ hasDone = FALSE
    /\ chunks = 0 /\ logs = <<>> /\ held = TRUE
    /\ client = "open" /\ cleanup = "none"
    /\ seen = [error |-> FALSE, terminal |-> FALSE, late |-> FALSE]

-----------------------------------------------------------------------------
(* What one event does to the body: drain_usage_from_buffer, drain_buffer.  *)

Pend(b, frames) == [b EXCEPT !.pending = @ \o frames]

\* A frame of bad JSON is dropped once output was seen, up to a budget.
BadFrame(b) ==
    IF ~b.usable
      THEN [b EXCEPT !.err = TRUE]
      ELSE [b EXCEPT !.skipped = @ + 1, !.err = b.skipped + 1 > MaxSkipped]

\* ChatStreamCanonicalizer::finish: it adds the missing terminal if there was
\* output, then the usage it held back.
Synthesized(b) ==
    (IF b.reason THEN <<>> ELSE <<"terminal">>)
       \o (IF b.tokens THEN <<"usage">> ELSE <<>>)

\* StreamTranslator at the end of a chat stream.  The held-back usage makes
\* translate_event close the response; only finish looks at the history.
CloseResponses(b) ==
    IF b.tokens
      THEN Pend([b EXCEPT !.closed = TRUE], <<"terminal">>)
      ELSE Pend([b EXCEPT !.closed = TRUE, !.term = TRUE, !.stored = TRUE],
                <<"terminal">>)

FinishStream(b, k) ==
    LET refused == \/ k = "responses" /\ ~b.term
                   \/ Canonical(k) /\ ~b.reason /\ ~b.usable
        ended == CASE k = "chat" -> Pend(b, Synthesized(b) \o <<"done">>)
                   [] k = "responses" -> b
                   [] k = "toResponses" -> Pend(CloseResponses(b), <<"done">>)
                   [] k = "toChat" ->
                        Pend([b EXCEPT !.closed = TRUE],
                             (IF b.closed THEN <<>> ELSE <<"terminal">>)
                                \o <<"done">>)
    IN IF b.fin THEN b
       ELSE IF refused THEN [b EXCEPT !.err = TRUE]
       ELSE [ended EXCEPT !.fin = TRUE]

DoneMarker(b, k) ==
    LET f == FinishStream(b, k)
    IN IF k = "responses" /\ ~f.err THEN Pend(f, <<"done">>) ELSE f

\* A JSON event that is no failure of the provider.
JsonEvent(b, k, e) ==
    LET final == e \in {"final", "finalUsage"}
        c == [b EXCEPT !.tokens = @ \/ e = "finalUsage",
                       !.usable = @ \/ e = "output",
                       !.reason = @ \/ final]
    IN IF Canonical(k) /\ final /\ b.reason THEN [b EXCEPT !.err = TRUE]
       ELSE
       CASE k = "chat" ->
              Pend([c EXCEPT !.term = @ \/ final],
                   <<IF final THEN "terminal" ELSE e>>)
         [] k = "responses" ->
              Pend([c EXCEPT !.term = @ \/ final, !.stored = @ \/ final],
                   <<IF final THEN "terminal" ELSE e>>)
         [] k = "toResponses" -> Pend(c, IF final THEN <<>> ELSE <<e>>)
         [] k = "toChat" ->
              IF final
                THEN Pend([c EXCEPT !.closed = TRUE],
                          IF b.closed THEN <<>> ELSE <<"terminal">>)
                ELSE Pend(c, <<e>>)

\* Nothing more is read once the loop over the buffer was left.
PushEvent(b, k, e) ==
    IF b.err \/ b.fin THEN b
      ELSE CASE e = "comment" -> Pend(b, <<"comment">>)
             [] e = "keepalive" -> b
             [] e = "bad" -> BadFrame(b)
             [] e \in {"utf8", "failure"} -> [b EXCEPT !.err = TRUE]
             [] e = "DONE" -> DoneMarker(b, k)
             [] e \in {"created", "output", "final", "finalUsage"} -> JsonEvent(b, k, e)

\* The loop over the events of a chunk: the body after the first n of them.
Drain(b, k, chunk) ==
    LET after[n \in 0 .. Len(chunk)] ==
            IF n = 0 THEN b ELSE PushEvent(after[n - 1], k, chunk[n])
    IN after[Len(chunk)]

\* should_emit_empty_response_error
IsEmptyResponse(b) == /\ ~b.flushed /\ (b.fin \/ b.term)
                      /\ ~b.usable /\ ~b.tokens

-----------------------------------------------------------------------------
(* Before the headers: the background task of dispatch_streaming_request.   *)

routeVars == <<kind, client, cleanup, seen>>
bodyVars == <<body, mode, hasLog, hasDone, chunks>>

\* An attempt holds its slots; the cancellation gets a copy of its contexts.
StartAttempt ==
    /\ stage = "route" /\ client = "open" /\ sends < MaxSends
    /\ stage' = "sending" /\ sends' = sends + 1 /\ armed' = TRUE
    /\ UNCHANGED <<routeVars, bodyVars, logs, held>>

\* The attempt fails before usable output: disarm, then the next round, or
\* the error of the request (logged by the routing loop, its slots given up).
AttemptFails ==
    /\ stage = "sending" /\ client = "open"
    /\ armed' = FALSE
    /\ \/ /\ stage' = "route" /\ sends < MaxSends
          /\ UNCHANGED <<logs, held, seen>>
       \/ /\ stage' = "closed" /\ logs' = Append(logs, "error") /\ held' = FALSE
          /\ seen' = [seen EXCEPT !.error = TRUE]
    /\ UNCHANGED <<kind, client, cleanup, sends, bodyVars>>

\* send_to_upstream returns the body, which holds contexts of its own, while
\* the task still waits for complete_attempt with the cancellation armed.
BuildBody ==
    /\ stage = "sending" /\ client = "open"
    /\ stage' = "built" /\ hasLog' = TRUE /\ hasDone' = TRUE
    /\ UNCHANGED <<routeVars, sends, armed, body, mode, chunks, logs, held>>

\* disarm, then tx.send hands the result to the client's connection.
HandOver ==
    /\ stage = "built" /\ client = "open"
    /\ stage' = "handed" /\ armed' = FALSE
    /\ UNCHANGED <<routeVars, sends, bodyVars, logs, held>>

\* tx.closed: cancel the armed contexts, then drop the request, and with it
\* the body it may already have built.
HangUpBeforeHeaders ==
    /\ stage \in {"route", "sending", "built"} /\ client = "open"
    /\ client' = "gone" /\ stage' = "closed" /\ armed' = FALSE
    /\ logs' = IF armed THEN Append(logs, "499") ELSE logs
    /\ held' = FALSE
    /\ cleanup' = IF hasLog THEN "interrupt" ELSE "none"
    /\ hasLog' = FALSE /\ hasDone' = FALSE /\ mode' = "over"
    /\ UNCHANGED <<kind, sends, body, chunks, seen>>

-----------------------------------------------------------------------------
(* The body.                                                                *)

preVars == <<kind, stage, sends, armed>>
Live == stage = "handed" /\ client = "open"
AtLoop == Live /\ mode = "loop"
Reading == /\ AtLoop /\ body.pending = <<>> /\ ~body.fin
           /\ (Translated(kind) => ~IsEmptyResponse(body))

See(frame) ==
    [error |-> seen.error \/ frame = "error",
     terminal |-> seen.terminal \/ frame = "terminal",
     late |-> seen.late \/ seen.error]

\* finish_with_gateway_error: both contexts leave the body for the await of
\* finalize_stream_error; kept is what the client gets before the error frame.
StartFail(b, kept) ==
    /\ mode' = "fail" /\ hasLog' = FALSE /\ hasDone' = FALSE
    /\ body' = [b EXCEPT !.fin = TRUE, !.flushed = TRUE, !.err = FALSE,
                         !.pending = Append(kept, "error")]

\* Mutant: the log context is cloned, not taken.
StartFlushKeepingLog(b) ==
    IF b.flushed
      THEN mode' = "release" /\ body' = b /\ UNCHANGED <<hasLog, hasDone>>
      ELSE /\ mode' = "flush"
           /\ body' = [b EXCEPT !.flushed = TRUE]
           /\ UNCHANGED <<hasLog, hasDone>>

\* flush_usage_log: the log context leaves the body before the await.
StartFlush(b) ==
    IF b.flushed
      THEN mode' = "release" /\ body' = b /\ UNCHANGED <<hasLog, hasDone>>
      ELSE /\ mode' = "flush" /\ hasLog' = FALSE
           /\ body' = [b EXCEPT !.flushed = TRUE]
           /\ UNCHANGED hasDone

Continue(b) == body' = b /\ UNCHANGED <<mode, hasLog, hasDone>>

ReadChunk(c) ==
    /\ Reading /\ chunks < MaxChunks
    /\ chunks' = chunks + 1
    /\ LET d == Drain(body, kind, c)
       IN IF d.err THEN StartFail(d, d.pending)
          ELSE IF Translated(kind) \/ d.pending # <<>> THEN Continue(d)
          ELSE IF IsEmptyResponse(d) THEN StartFail(d, <<>>)
          ELSE IF d.fin THEN StartFlush(d)
          ELSE Continue(d)
    /\ UNCHANGED <<preVars, logs, held, client, cleanup, seen>>

ReadEof ==
    /\ Reading
    /\ LET d == FinishStream(body, kind)
       IN IF d.err THEN StartFail(d, d.pending)
          ELSE IF IsEmptyResponse(d) THEN StartFail(d, <<>>)
          ELSE IF Translated(kind) THEN Continue(d)
          ELSE StartFlush(d)
    /\ UNCHANGED <<preVars, chunks, logs, held, client, cleanup, seen>>

\* A read error, an idle timeout, the maximum duration, or, before the first
\* output, the first-semantic deadline.
ReadFails ==
    /\ Reading
    /\ StartFail(body, <<>>)
    /\ UNCHANGED <<preVars, chunks, logs, held, client, cleanup, seen>>

\* The translated loop looks for an empty response before it delivers.
TranslatedEmpty ==
    /\ AtLoop /\ Translated(kind) /\ IsEmptyResponse(body)
    /\ StartFail(body, <<>>)
    /\ UNCHANGED <<preVars, chunks, logs, held, client, cleanup, seen>>

\* pop_front; the translated loop flushes with the frame in its hand.
Deliver ==
    /\ AtLoop /\ body.pending # <<>>
    /\ (Translated(kind) => ~IsEmptyResponse(body))
    /\ seen' = See(Head(body.pending))
    /\ LET b == [body EXCEPT !.pending = Tail(@)]
       IN IF Translated(kind) /\ b.fin THEN StartFlush(b) ELSE Continue(b)
    /\ UNCHANGED <<preVars, chunks, logs, held, client, cleanup>>

\* The end of the loop: flush, finalize, and no more frames.
EndOfBody ==
    /\ AtLoop /\ body.pending = <<>> /\ body.fin
    /\ IF body.flushed /\ ~hasDone
         THEN mode' = "over" /\ UNCHANGED <<body, hasLog, hasDone>>
         ELSE StartFlush(body)
    /\ UNCHANGED <<preVars, chunks, logs, held, client, cleanup, seen>>

Flushed ==
    /\ Live /\ mode = "flush"
    /\ logs' = Append(logs, "200") /\ mode' = "release"
    /\ UNCHANGED <<preVars, body, hasLog, hasDone, chunks, held, client, cleanup, seen>>

\* The log could not be coordinated: everything is given up for one frame.
FlushFails ==
    /\ Live /\ mode = "flush"
    /\ mode' = "loop" /\ hasDone' = FALSE /\ held' = FALSE
    /\ body' = [body EXCEPT !.pending = <<"error">>]
    /\ UNCHANGED <<preVars, hasLog, chunks, logs, client, cleanup, seen>>

\* finalize_completion
FinalizeCompletion ==
    /\ Live /\ mode = "release"
    /\ mode' = "loop" /\ hasDone' = FALSE
    /\ held' = (held /\ ~hasDone)
    /\ UNCHANGED <<preVars, body, hasLog, chunks, logs, client, cleanup, seen>>

\* finalize_stream_error: release_all and the route's verdict, then the log.
FailRelease ==
    /\ Live /\ mode = "fail"
    /\ mode' = "failLog" /\ held' = FALSE
    /\ UNCHANGED <<preVars, body, hasLog, hasDone, chunks, logs, client, cleanup, seen>>

FailLog ==
    /\ Live /\ mode = "failLog"
    /\ mode' = "loop" /\ logs' = Append(logs, "error")
    /\ UNCHANGED <<preVars, body, hasLog, hasDone, chunks, held, client, cleanup, seen>>

\* Mutant: without a log context there is nothing to clean up.
DropCleanupOfLog ==
    IF ~hasLog THEN "none"
    ELSE IF body.fin \/ body.term THEN "success" ELSE "interrupt"

\* The connection drops the body: Drop for ProxiedStreamState and for
\* TranslatedStreamState spawn a clean-up with the contexts still in it.  In
\* the awaits of an error the contexts are in the dropped future, whose guards
\* give up the slots.
DropCleanup ==
    IF ~hasLog /\ ~hasDone THEN "none"
    ELSE IF body.fin \/ body.term
         THEN (IF hasLog THEN "success" ELSE "successRelease")
         ELSE "interrupt"

HangUp ==
    /\ Live /\ mode # "over"
    /\ client' = "gone" /\ mode' = "over"
    /\ cleanup' = DropCleanup
    /\ hasLog' = FALSE /\ hasDone' = FALSE
    /\ held' = (held /\ mode # "fail")
    /\ UNCHANGED <<preVars, body, chunks, logs, seen>>

\* spawn_stream_terminal_cleanup logs, then releases; the interruption
\* releases, then logs.
Cleanup ==
    /\ cleanup # "none"
    /\ CASE cleanup = "success" ->
              /\ logs' = Append(logs, "200")
              /\ cleanup' = "successRelease" /\ UNCHANGED held
         [] cleanup = "successRelease" ->
              held' = FALSE /\ cleanup' = "none" /\ UNCHANGED logs
         [] cleanup = "interrupt" ->
              held' = FALSE /\ cleanup' = "interruptLog" /\ UNCHANGED logs
         [] cleanup = "interruptLog" ->
              /\ logs' = Append(logs, "499")
              /\ cleanup' = "none" /\ UNCHANGED held
    /\ UNCHANGED <<preVars, body, mode, hasLog, hasDone, chunks, client, seen>>

-----------------------------------------------------------------------------
\* The steps of the gateway, and the upstream's or the client's.
BodyStep ==
    \/ TranslatedEmpty \/ Deliver \/ EndOfBody \/ Flushed
    \/ FinalizeCompletion \/ FailRelease \/ FailLog \/ Cleanup

StreamNext ==
    \/ StartAttempt \/ AttemptFails \/ BuildBody \/ HandOver
    \/ HangUpBeforeHeaders
    \/ \E c \in Chunks : ReadChunk(c)
    \/ ReadEof \/ ReadFails \/ FlushFails \/ HangUp
    \/ BodyStep

\* The client reads its body or hangs up; the watchdog and the first-semantic
\* deadline end every wait for the upstream; every await returns.
StreamFairness ==
    /\ WF_streamVars(BodyStep) /\ WF_streamVars(ReadFails)
    /\ WF_streamVars(StartAttempt) /\ WF_streamVars(AttemptFails)
    /\ WF_streamVars(HandOver)

StreamSpec == StreamInit /\ [][StreamNext]_streamVars /\ StreamFairness

-----------------------------------------------------------------------------
Successes == {i \in DOMAIN logs : logs[i] = "200"}

(* A body that was handed over writes at most one usage log, through flush, *)
(* error, Drop and the spawned clean-up, and exactly one when the client    *)
(* read it to its end and the log could be coordinated.                     *)
HandedLoggedOnce ==
    stage = "handed" =>
        /\ Len(logs) <= 1
        /\ mode = "over" /\ client = "open" =>
               Len(logs) = 1 \/ seen.error

Interrupted == \E i \in DOMAIN logs : logs[i] = "499"

(* The usage log agrees with what the client received.  A success: the      *)
(* client saw no error frame and, if it read the body to its end, it got    *)
(* the terminal event of its protocol, the upstream's or a synthesised one. *)
(* An interruption (499): the client left and had not got the terminal      *)
(* event; a Chat body translated from Responses is excepted, see            *)
(* InterruptedBeforeTerminal.                                               *)
LogTellsEnd ==
    stage = "handed" =>
        /\ Successes # {} =>
               ~seen.error /\ (mode = "over" /\ client = "open" => seen.terminal)
        /\ Interrupted => client = "gone" /\ (kind # "toChat" => ~seen.terminal)

(* stream.rs: a stream dropped after its terminal event ended cleanly.  A   *)
(* Chat body translated from Responses sends its finish chunk without       *)
(* marking it as the terminal event, so a client that got it and leaves     *)
(* before [DONE] is logged as interrupted.                                  *)
InterruptedBeforeTerminal == stage = "handed" /\ Interrupted => ~seen.terminal

(* An error frame is the last frame the client receives, whatever was       *)
(* pending when the stream failed.                                          *)
ErrorIsLast == ~seen.late

(* However a request ends, before its headers or in the middle of a flush,  *)
(* of an error or of a delivery, its two slots come back.                   *)
SlotsComeBack == <>(~held)

(* A completed response the client received can be continued: it is in the  *)
(* response history (ResponseHistoryContext::store_from_completed_event).   *)
HistoryStored ==
    kind \in {"responses", "toResponses"} /\ seen.terminal => body.stored

(* Every body that was handed over and ended leaves a usage log.            *)
EndedLeavesLog ==
    stage = "handed" /\ mode = "over" /\ cleanup = "none" => Len(logs) = 1

(* At most one usage log per request, the armed cancellation included.      *)
LoggedOnce == Len(logs) <= 1

(* What a client and the usage log see of one stream agree: a stream handed *)
(* over is logged once, the log tells how the stream ended, and nothing     *)
(* follows an error frame.                                                  *)
StreamTold == HandedLoggedOnce /\ LogTellsEnd /\ ErrorIsLast
=============================================================================
