----------------------------- MODULE RouteRetry -----------------------------
(***************************************************************************)
(* The waits of one request between its routing rounds                     *)
(* (src/src/server/gateway/route_retry.rs): the budget a request has used  *)
(* up and the policy that grants it one more wait or makes it give up.     *)
(* Durations are in units of 100 ms; the jitter is any of its values.      *)
(***************************************************************************)
EXTENDS Integers

CONSTANTS
    RetryEnabled,           \* upstream_route_exhaustion_retry_enabled
    MaxWait, MaxRounds,     \* upstream_route_exhaustion_retry_max_*
    ConcurrencyMaxWait, ConcurrencyMaxRounds,
                            \* upstream_concurrency_recovery_max_*
    AlignmentEnabled,       \* ..._budget_alignment_enabled
    TruncationEnabled,      \* ..._alignment_truncated_enabled
    BusyMaxRounds,          \* upstream_route_half_open_busy_max_rounds
    RateLimitRetryEnabled,  \* upstream_rate_limit_internal_retry_enabled
    BusyRetry,              \* HALF_OPEN_BUSY_RETRY, one second
    MaxJitter               \* MAX_RETRY_JITTER_MS

ASSUME RetryAssumption ==
    /\ {RetryEnabled, AlignmentEnabled, TruncationEnabled,
        RateLimitRetryEnabled} \subseteq BOOLEAN
    /\ {MaxWait, ConcurrencyMaxWait, MaxJitter} \subseteq Nat
    /\ {MaxRounds, ConcurrencyMaxRounds, BusyMaxRounds, BusyRetry}
          \subseteq Nat \ {0}

(* What the health registry knows of the route that recovers first.         *)
NoRecovery == [class |-> "none", delay |-> 0]

Lesser(a, b) == IF a < b THEN a ELSE b
Greater(a, b) == IF a > b THEN a ELSE b

-----------------------------------------------------------------------------
(* RouteRetryBudget.                                                        *)

FreshBudget == [round |-> 1, waited |-> 0, aligned |-> FALSE, busy |-> 0]

Left(limit, b) == Greater(limit - b.waited, 0)
RemainingWait(b) == Left(MaxWait, b)

(* record_wait_time: the backoff before a retry of the same route.          *)
WaitTimeRecorded(b, d) == [b EXCEPT !.waited = @ + d]

(* record_external_wait: the replay round of the common-mode breaker.       *)
ExternalWaitRecorded(b, d) == [b EXCEPT !.waited = @ + d, !.round = @ + 1]

(* record_wait: a half-open-busy wait has a round counter of its own.       *)
WaitRecorded(b, w) ==
    [b EXCEPT !.waited = @ + w.sleep,
              !.aligned = @ \/ w.kind = "aligned",
              !.busy = IF w.kind = "busy" THEN @ + 1 ELSE @,
              !.round = IF w.kind = "busy" THEN @ ELSE @ + 1]

-----------------------------------------------------------------------------
(* RouteRetryPolicy::decide_with_reason.                                    *)

Wait(kind, d) == [kind |-> kind, sleep |-> d, reason |-> "none"]
GiveUpFor(reason) == [kind |-> "none", sleep |-> 0, reason |-> reason]

(* A half-open-busy wait that is never checked against the time budget.     *)
UnboundedBusyDecision(b, jitter) ==
    IF b.busy + 1 > BusyMaxRounds THEN GiveUpFor("half_open_busy_cap")
    ELSE Wait("busy", BusyRetry + jitter)

(* Every candidate is in the exclusive window of somebody's probe.          *)
BusyDecision(b, jitter) ==
    IF b.busy + 1 > BusyMaxRounds THEN GiveUpFor("half_open_busy_cap")
    ELSE IF BusyRetry + jitter > RemainingWait(b) THEN GiveUpFor("wait_budget")
    ELSE Wait("busy", BusyRetry + jitter)

(* A wait of d out of what is left, cut to what is left if that is a second. *)
Fitted(kind, d, left) ==
    IF d <= left THEN Wait(kind, d)
    ELSE IF TruncationEnabled /\ left >= BusyRetry THEN Wait(kind, left)
    ELSE GiveUpFor("wait_budget")

(* At the round cap one wait is left: for a live transient recovery.        *)
CapDecision(b, recovery, pureRate, jitter) ==
    IF /\ AlignmentEnabled /\ ~ b.aligned /\ ~ pureRate
       /\ recovery.class = "transient"
      THEN Fitted("aligned", recovery.delay + jitter, RemainingWait(b))
    ELSE IF b.aligned THEN GiveUpFor("alignment_exhausted")
    ELSE IF AlignmentEnabled /\ recovery = NoRecovery THEN GiveUpFor("no_recovery")
    ELSE GiveUpFor("round_cap")

(* The budget of a concurrency recovery is its own.                         *)
WaitLimit(recovery) ==
    IF recovery.class = "concurrency" THEN ConcurrencyMaxWait ELSE MaxWait
RoundLimit(recovery) ==
    IF recovery.class = "concurrency" THEN ConcurrencyMaxRounds ELSE MaxRounds

Decide(b, temporary, retryAfter, recovery, pureRate, busyOnly, jitter) ==
    IF \/ ~ RetryEnabled
       \/ ~ temporary
       \/ pureRate /\ ~ RateLimitRetryEnabled
      THEN GiveUpFor("none")
    ELSE IF busyOnly THEN BusyDecision(b, jitter)
    ELSE IF b.round >= RoundLimit(recovery)
      THEN CapDecision(b, recovery, pureRate, jitter)
    ELSE Fitted("ordinary",
                (IF recovery = NoRecovery THEN retryAfter ELSE recovery.delay)
                   + jitter,
                Left(WaitLimit(recovery), b))
=============================================================================
