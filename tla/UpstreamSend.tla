---------------------------- MODULE UpstreamSend ----------------------------
(***************************************************************************)
(* One call of a provider route, as several requests make it at once: the  *)
(* checks before dispatch, the physical sends with their one correction    *)
(* of a rejected field and their one compaction of an overflowing context, *)
(* the reading of the reply, and the recovery of a route that answers only *)
(* streams, which one request leads while the others wait for it.  The     *)
(* body of a request is told apart by what a retry changes: the field the  *)
(* provider may name, and the context that may overflow.  A send waits for *)
(* its headers under a timeout; the body of a refusal and a JSON reply are *)
(* read without one, an aggregated stream under the stream's watchdog.     *)
(***************************************************************************)
EXTENDS Naturals, FiniteSets

CONSTANTS Senders,       \* requests that call the route
          NoSender

ASSUME SendAssumption == NoSender \notin Senders

VARIABLES sender,     \* each request's call
          flight,     \* the request that leads the recovery of the route
          streamOnly, \* the profile knows that the route answers only streams
          hints,      \* the dialect lesson: the field is left out from now on
          confirmed   \* a request was refused with the field and accepted without

sendVars == <<sender, flight, streamOnly, hints, confirmed>>

Original == [field |-> ~hints, whole |-> TRUE]
NewCall == [at |-> "prepare", mode |-> "json", payload |-> [field |-> TRUE, whole |-> TRUE],
            stripped |-> FALSE, compacted |-> FALSE, role |-> "none", consumed |-> FALSE,
            last |-> FALSE, again |-> FALSE, result |-> "none"]

SendInit ==
    /\ sender = [q \in Senders |-> NewCall] /\ flight = NoSender
    /\ streamOnly = FALSE /\ hints = FALSE /\ confirmed = FALSE

\* Dropping the leader completes the flight and takes it out of the registry.
FlightAfter(q) == IF flight = q THEN NoSender ELSE flight

SignalledOnSuccess(q, p, result) == result = "ok" /\ flight = q /\ sender[p].at = "waiting"

\* The followers p that the end of q's call wakes: those of its flight.
Signalled(q, p, result) == flight = q /\ sender[p].at = "waiting"

\* The call ends with this result; what it was tells nothing any more, but
\* for the body that overflowed.
Ended(q, result) ==
    /\ sender' = [p \in Senders |->
           IF p = q THEN [(IF result = "context_limit" THEN sender[q] ELSE NewCall)
                          EXCEPT !.at = "ended", !.result = result, !.role = "none"]
           ELSE IF Signalled(q, p, result) THEN [sender[p] EXCEPT !.at = "woken"] ELSE sender[p]]
    /\ flight' = FlightAfter(q)

(************************* before the first send ***************************)

\* The model that is not configured, a body that cannot be converted to the
\* route's protocol, a context fallback without an exact profile or with a
\* continuation, a continuation that was not derived, an effort the route
\* cannot express.
RefusedBeforeSend == {"bad_request", "conversion", "context_fallback", "history", "effort"}

Refuse(q) ==
    /\ sender[q].at = "prepare"
    /\ \E why \in RefusedBeforeSend : Ended(q, why)
    /\ UNCHANGED <<streamOnly, hints, confirmed>>

\* select_upstream_attempt_mode of a request that wants no stream.
Mode == IF streamOnly THEN "aggregate" ELSE "json"

\* The body of this call: converted, named for the final model, normalised for
\* the capabilities of the route, without the fields the hints rule out.
Prepared(q, c) == [sender EXCEPT ![q] = [c EXCEPT !.at = "send", !.payload = Original]]

\* begin_stream_only_recovery, for a route whose streams are known to deliver.
Prepare(q) ==
    LET c == sender[q]
        eligible == ~c.consumed /\ c.role = "none" /\ c.mode = "json"
    IN /\ c.at = "prepare"
       /\ \/ ~eligible /\ sender' = Prepared(q, c) /\ UNCHANGED flight
          \/ \* no raw evidence that the route delivers streams
             eligible /\ sender' = Prepared(q, [c EXCEPT !.mode = Mode]) /\ UNCHANGED flight
          \/ /\ eligible /\ flight # NoSender
             /\ sender' = [sender EXCEPT ![q].at = "waiting", ![q].role = "follower"]
             /\ UNCHANGED flight
          \/ \* the registry is full of the flights of other routes
             /\ eligible /\ flight = NoSender
             /\ sender' = Prepared(q, [c EXCEPT !.consumed = TRUE]) /\ UNCHANGED flight
          \/ /\ eligible /\ flight = NoSender
             /\ sender' = Prepared(q, [c EXCEPT !.role = "leader"]) /\ flight' = q
       /\ UNCHANGED <<streamOnly, hints, confirmed>>

\* The flight is over: the follower resolves the route afresh and has this one
\* attempt.
Follow(q) ==
    /\ sender[q].at = "woken"
    /\ sender' = Prepared(q, [sender[q] EXCEPT !.consumed = TRUE, !.last = TRUE, !.mode = Mode])
    /\ UNCHANGED <<flight, streamOnly, hints, confirmed>>

(******************************** sending **********************************)

\* The headers arrive in time: of a refusal or of a reply.
Headers(q) ==
    /\ sender[q].at = "send"
    /\ \E next \in {"refusal", "reply"} : sender' = [sender EXCEPT ![q].at = next]
    /\ UNCHANGED <<flight, streamOnly, hints, confirmed>>

\* reserve_next: the slot of the send is given back and another one asked for.
Resend(q, c) ==
    \/ /\ sender' = [sender EXCEPT ![q] = [c EXCEPT !.at = "send"]] /\ UNCHANGED flight
    \/ Ended(q, "no_capacity")

\* A refusal that names a field, once per call: the field is taken out of the
\* body as it was before the first send.
StripField(q) ==
    LET c == sender[q] IN
    /\ c.at = "refusal" /\ c.payload.field /\ ~c.consumed /\ ~c.stripped
    /\ Resend(q, [c EXCEPT !.stripped = TRUE, !.payload = [field |-> FALSE, whole |-> TRUE]])
    /\ UNCHANGED <<streamOnly, hints, confirmed>>

\* An explicit overflow, once per call: the context is compacted, or the cap of
\* the output halved; a context that cannot shrink is not sent again.
Compact(q) ==
    LET c == sender[q] IN
    /\ c.at = "refusal" /\ ~c.consumed /\ ~c.compacted /\ c.payload.whole
    /\ Resend(q, [c EXCEPT !.compacted = TRUE, !.payload.whole = FALSE])
    /\ UNCHANGED <<streamOnly, hints, confirmed>>

Overflow(q) ==
    /\ sender[q].at = "refusal" /\ (sender[q].consumed \/ sender[q].compacted)
    /\ Ended(q, "context_limit")
    /\ UNCHANGED <<streamOnly, hints, confirmed>>

\* Nothing to compact: the first overflow is final.
OverflowAtOnce(q) ==
    /\ sender[q].at = "refusal" /\ ~sender[q].consumed /\ ~sender[q].compacted
    /\ Ended(q, "context_limit")
    /\ UNCHANGED <<streamOnly, hints, confirmed>>

\* A request that cannot be sent, headers that do not come, any other refusal,
\* a reply that breaks off; a transient failure is tried once more on the same
\* route by a new call.
Fail(q) ==
    LET c == sender[q] IN
    /\ c.at \in {"send", "refusal", "reply"}
    /\ \/ Ended(q, "refused")
       \/ /\ ~c.again /\ ~c.last
          /\ sender' = [sender EXCEPT ![q] = [c EXCEPT !.at = "prepare", !.again = TRUE,
                                                      !.stripped = FALSE, !.compacted = FALSE]]
          /\ UNCHANGED flight
    /\ UNCHANGED <<streamOnly, hints, confirmed>>

(***************************** reading the reply ***************************)

HintsAfter(q) == hints \/ (sender[q].stripped /\ ~sender[q].payload.field)

\* An acceptable reply: the history is stored, the correction that made it
\* acceptable is learnt, and so is the mode of a recovery that succeeded.
Accept(q) ==
    LET c == sender[q] IN
    /\ c.at = "reply"
    /\ hints' = HintsAfter(q)
    /\ confirmed' = (confirmed \/ (c.stripped /\ ~c.payload.field))
    /\ streamOnly' = (streamOnly \/ (c.consumed /\ c.mode = "aggregate" /\ c.role = "leader"))
    /\ Ended(q, "ok")

\* A reply that is no valid body, not a stream where one was asked for, cannot
\* be converted back, or is empty.
Malformed(q) ==
    /\ sender[q].at = "reply"
    /\ Ended(q, "invalid")
    /\ UNCHANGED <<streamOnly, hints, confirmed>>

\* A JSON reply that says itself that it is empty: the leader asks again for a
\* stream, which is its last call.
Recover(q) ==
    LET c == sender[q] IN
    /\ c.at = "reply" /\ c.mode = "json"
    /\ IF c.role = "leader" /\ ~c.consumed
       THEN /\ sender' = [sender EXCEPT ![q] = [c EXCEPT !.at = "prepare", !.mode = "aggregate", !.consumed = TRUE,
                                                        !.again = TRUE, !.stripped = FALSE, !.compacted = FALSE]]
            /\ UNCHANGED flight
       ELSE Ended(q, "empty")
    /\ UNCHANGED <<streamOnly, hints, confirmed>>

\* The client goes away wherever the call stands.
Abandon(q) ==
    /\ sender[q].at # "ended"
    /\ Ended(q, "gone")
    /\ UNCHANGED <<streamOnly, hints, confirmed>>

\* A request of the next client.
NextCall(q) ==
    /\ sender[q].at = "ended"
    /\ sender' = [sender EXCEPT ![q] = NewCall]
    /\ UNCHANGED <<flight, streamOnly, hints, confirmed>>

Progress(q) == \/ Refuse(q) \/ Prepare(q) \/ Follow(q) \/ Headers(q) \/ StripField(q) \/ Compact(q) \/ Overflow(q)
               \/ OverflowAtOnce(q) \/ Fail(q) \/ Accept(q) \/ Malformed(q) \/ Recover(q) \/ Abandon(q)

SendNext == \E q \in Senders : Progress(q) \/ NextCall(q)

\* The body is read without a timeout: response.bytes of a refusal or of a
\* JSON reply.
UntimedRead(q) == \/ sender[q].at = "refusal"
                  \/ sender[q].at = "reply" /\ sender[q].mode = "json"

\* A call that prepares, waits for its headers or aggregates a stream goes on;
\* an untimed read need not end, and a follower waits for its leader.
Driven(q) == sender[q].at # "waiting" /\ ~UntimedRead(q)

SendFairness == \A q \in Senders : WF_sendVars(Driven(q) /\ Progress(q))

SendSpec == SendInit /\ [][SendNext]_sendVars /\ SendFairness

(******************************* properties ********************************)

\* A flight in the registry has a leader that is still under way: nobody can
\* join a flight that no one will end, and one that ends leaves the registry.
FlightHasLeader ==
    /\ flight # NoSender => sender[flight].role = "leader" /\ sender[flight].at # "ended"
    /\ \A q \in Senders : sender[q].role = "leader" /\ sender[q].at # "ended" => flight = q

\* The field is left out of later requests only after the provider accepted a
\* request without it that it had refused with it.
LessonConfirmed == hints => confirmed

\* A follower does not wait for ever, whatever becomes of its leader.  The code
\* does not keep this by itself: follower.wait has no timeout either, and a
\* provider that stalls in the body of its reply to the leader holds it.
FollowersWake == \A q \in Senders : sender[q].at = "waiting" ~> sender[q].at # "waiting"

\* Every body that is read without a timeout arrives or breaks off.
BodiesEnd == \A q \in Senders : []<>(~UntimedRead(q))

\* A call that compacted its context does not give up on the uncompacted one.
\* The code does not keep this: the correction of a field starts again from the
\* body before the compaction.
CompactionKept ==
    \A q \in Senders : sender[q].result = "context_limit" /\ sender[q].compacted
                           => ~sender[q].payload.whole
=============================================================================
