--------------------------- MODULE StreamWatchdog ---------------------------
(***************************************************************************)
(* The watchdog of one upstream stream (StreamWatchdog and                 *)
(* wait_for_upstream_chunk, src/src/server/gateway.rs) and the keepalives  *)
(* of the early stream that wraps its body (early_keepalive_stream,        *)
(* gateway/stream.rs).  The stream is read first until it has usable       *)
(* output (prefetch_first_usable_output, of which the client sees nothing) *)
(* and then handed over as a body.  Only a request whose body was not      *)
(* handed over within 10 ms, and whose route is not captured for           *)
(* troubleshooting, has an early stream around it.  Time is in seconds.  A *)
(* timer that is due fires before the clock moves on, so a chunk may still *)
(* win the race in its last second.                                        *)
(***************************************************************************)
EXTENDS Naturals, FiniteSets

CONSTANTS
    Keepalive,    \* upstream_stream_keepalive_interval_seconds, at least 1
    IdleTimeout,  \* upstream_stream_idle_timeout_seconds
    MaxDuration,  \* upstream_stream_max_duration_seconds
    MaxReads      \* chunks of one stream: bound of the model

ASSUME WatchdogAssumption ==
    /\ {Keepalive, IdleTimeout, MaxDuration} \subseteq Nat \ {0}
    /\ MaxReads \in Nat

VARIABLES
    clock,
    lastData,    \* last_upstream_activity_at
    lastBeat,    \* last_heartbeat_at
    extensions,  \* heartbeat_extensions_since_last_data
    reads,
    wrapped,     \* an early stream is around the body
    handed,      \* the body was handed over: its frames reach the client
    earlyBeat,   \* last_heartbeat_at of the early stream
    silentSince, \* when the client last received anything
    ended        \* no, eof, idle or max

watchdogVars == <<clock, lastData, lastBeat, extensions, reads, wrapped, handed,
                  earlyBeat, silentSince, ended>>

WatchdogInit ==
    /\ clock = 0 /\ lastData = 0 /\ lastBeat = 0 /\ extensions = 0
    /\ reads = 0 /\ earlyBeat = 0 /\ silentSince = 0 /\ ended = "no"
    /\ wrapped \in BOOLEAN /\ handed = ~wrapped

MaxExtensions == IdleTimeout \div Keepalive + 1

HeartbeatDeadline == lastBeat + Keepalive
IdleDeadline == lastData + IdleTimeout + Keepalive * extensions
MaxDeadline == MaxDuration

SmallestOf(S) == CHOOSE x \in S : \A y \in S : x <= y
NextDeadline == SmallestOf({HeartbeatDeadline, IdleDeadline, MaxDeadline})
EarlyDeadline == earlyBeat + Keepalive

\* The client receives a frame, through the early stream if there is one.
Frame == earlyBeat' = clock /\ silentSince' = clock
NoFrame == UNCHANGED <<earlyBeat, silentSince>>

\* A chunk arrives: record_upstream_activity.  It completes a frame for the
\* client, the first of which ends the prefetch, or it yields none: part of a
\* frame, a keepalive of the provider, an event held back, or prefetched.
UpstreamChunk(shown) ==
    /\ ended = "no" /\ reads < MaxReads
    /\ reads' = reads + 1
    /\ lastData' = clock /\ lastBeat' = clock /\ extensions' = 0
    /\ handed' = (handed \/ shown)
    /\ IF shown THEN Frame ELSE NoFrame
    /\ UNCHANGED <<clock, ended, wrapped>>

UpstreamEof ==
    /\ ended = "no"
    /\ ended' = "eof"
    /\ UNCHANGED <<clock, lastData, lastBeat, extensions, reads, wrapped, handed,
                   earlyBeat, silentSince>>

\* Mutant: every heartbeat extends the idle deadline.
UnboundedExtension == extensions' = extensions + 1

\* record_heartbeat: a heartbeat extends the idle deadline, up to a limit.
ExtendIdle ==
    extensions' = IF extensions < MaxExtensions THEN extensions + 1 ELSE extensions

\* sleep_until(next_deadline): the maximum first, then idle, else a heartbeat,
\* of which the prefetch tells the client nothing.
TimerFires ==
    /\ ended = "no" /\ clock >= NextDeadline
    /\ \/ /\ clock >= MaxDeadline
          /\ ended' = "max" /\ NoFrame /\ UNCHANGED <<lastBeat, extensions>>
       \/ /\ clock < MaxDeadline /\ clock >= IdleDeadline
          /\ ended' = "idle" /\ NoFrame /\ UNCHANGED <<lastBeat, extensions>>
       \/ /\ clock < MaxDeadline /\ clock < IdleDeadline
          /\ lastBeat' = clock /\ ExtendIdle
          /\ IF handed THEN Frame ELSE NoFrame
          /\ UNCHANGED ended
    /\ UNCHANGED <<clock, lastData, reads, wrapped, handed>>

\* The early stream's own keepalive, when its body had nothing to give.
EarlyKeepalive ==
    /\ ended = "no" /\ wrapped /\ clock >= EarlyDeadline
    /\ Frame
    /\ UNCHANGED <<clock, lastData, lastBeat, extensions, reads, wrapped, handed, ended>>

WatchdogTick ==
    /\ ended = "no" /\ clock < NextDeadline /\ (wrapped => clock < EarlyDeadline)
    /\ clock' = clock + 1
    /\ UNCHANGED <<lastData, lastBeat, extensions, reads, wrapped, handed,
                   earlyBeat, silentSince, ended>>

WatchdogNext ==
    \/ \E shown \in BOOLEAN : UpstreamChunk(shown)
    \/ UpstreamEof \/ TimerFires \/ EarlyKeepalive \/ WatchdogTick

WatchdogSpec == WatchdogInit /\ [][WatchdogNext]_watchdogVars

-----------------------------------------------------------------------------
(* A silent upstream is given up: keepalives extend its idle deadline, but  *)
(* never beyond one more idle period and one interval.  And while an early  *)
(* stream is around the body, the client is never without a frame for       *)
(* longer than one keepalive interval, prefetched and held-back chunks      *)
(* included.                                                                *)
SilenceBounded ==
    ended = "no" =>
        /\ clock - lastData <= 2 * IdleTimeout + Keepalive
        /\ wrapped => clock - silentSince <= Keepalive

(* gateway.rs: "Heartbeats can bridge at most one idle_timeout period of    *)
(* upstream silence."  The limit rounds down and adds one, so they bridge   *)
(* up to an interval more.                                                  *)
IdleExtendedOnce == ended = "no" => clock - lastData <= 2 * IdleTimeout

(* A body without an early stream has no keepalive of its own: a chunk that *)
(* yields no frame postpones the next heartbeat all the same.               *)
BodyNeverSilent == ended = "no" => clock - silentSince <= Keepalive
=============================================================================
