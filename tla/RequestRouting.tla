--------------------------- MODULE RequestRouting ---------------------------
(***************************************************************************)
(* One request through process_gateway_request_inner                       *)
(* (src/src/server/gateway.rs): the checks, the admission, the routing     *)
(* rounds over the candidate routes, each attempt with its health permit,  *)
(* account admission and lease, the common-mode breaker, and the decision  *)
(* at the end of a round.  Health, account and lease tables are other      *)
(* modules: here they answer anything they may answer.  The order of the   *)
(* candidates (rank, weight, rotation) is any order that keeps the keys of *)
(* one upstream together.                                                  *)
(***************************************************************************)
EXTENDS RouteRetry, FiniteSets

CONSTANTS
    Routes,            \* routes that can serve the request
    UpstreamOf,        \* [Routes -> upstream]; a host has one upstream here
    PinnedRoutes,      \* the routes a continuation may use
    Faults,            \* classes of failure the upstreams may show
    Delays,            \* retry-after and recovery delays
    TransientThreshold, \* upstream_common_mode_transient_threshold
    SameHostTransient, \* upstream_common_mode_same_host_transient_enabled
    SameRouteRetryEnabled, LastResortEnabled, SlotQueueEnabled,
    FastFailEnabled, PinEscapeEnabled,
    ReplayBackoff,     \* 500 ms before the round the breaker replays
    SameRouteFloor, SameRouteCeiling, \* 200 ms and 2 s: same-route backoff
    AccountRounds      \* upstream_concurrency_recovery_max_rounds

ASSUME RoutingAssumption ==
    /\ IsFiniteSet(Routes) /\ PinnedRoutes \subseteq Routes
    /\ Faults \subseteq {"transient", "rate", "concurrency", "unsupported",
                        "unclassified"}
    /\ Delays \subseteq Nat /\ Delays # {}
    /\ {TransientThreshold, AccountRounds, ReplayBackoff,
        SameRouteFloor, SameRouteCeiling} \subseteq Nat
    /\ {SameHostTransient, SameRouteRetryEnabled, LastResortEnabled,
        SlotQueueEnabled, FastFailEnabled, PinEscapeEnabled} \subseteq BOOLEAN

NoRoute == "no route"

(* Failure classes: transient stands for TransientServer, EdgeProxyError and *)
(* CapacityUnavailable (which the breaker tells from the other two), rate    *)
(* for RateLimited and KeyQuota, unsupported for the permanent ones and      *)
(* unclassified for an error without a class.                               *)
TransientFamily == {"transient"}
TemporaryClasses == {"transient", "rate", "concurrency"}
LedgerClasses == TemporaryClasses \cup {"unsupported"}

NoEntry == [kind |-> "none", class |-> "none"]
Entry(kind, class) == [kind |-> kind, class |-> class]
NoStreak == [class |-> "none", route |-> NoRoute, count |-> 0]

NoBreaker == [streak |-> NoStreak, tripped |-> FALSE, replayed |-> FALSE]

VARIABLES
    at,       \* where the request is
    client,   \* its active entry, downstream reservation, slot and usage log
    pin,      \* none, pinned or escaped: the continuation constraint
    round,    \* what one routing round keeps: candidates left, ledger, ...
    try,      \* the attempt on the current route
    budget,   \* RouteRetryBudget
    breaker,  \* common_mode, common_mode_tripped, transient_pool_replay_done
    arm,      \* the last-resort probe: armed once, and the route it waits for
    account,  \* the account recovery session: rounds left, a recovery
              \* to wait for, the account (here its route) this request probes
    sent      \* physical_attempt_count > 0

routingVars == <<at, client, pin, round, try, budget, breaker, arm, account, sent>>

FreshRound(todo) ==
    [todo |-> todo, ledger |-> [r \in Routes |-> NoEntry], gate |-> FALSE,
     final |-> FALSE, error |-> "none"]

NoTry == [route |-> NoRoute, permit |-> "none", mode |-> "json",
          retried |-> FALSE, recovery |-> "none",
          failed |-> "none"]

RoutingInit ==
    /\ at = "start"
    /\ \E stream \in BOOLEAN :
          client = [stream |-> stream, active |-> FALSE, reservation |-> "none",
                    slot |-> FALSE, logged |-> FALSE, result |-> "none"]
    /\ pin = "none"
    /\ round = FreshRound({})
    /\ try = NoTry
    /\ budget = FreshBudget
    /\ breaker = NoBreaker
    /\ arm = [armed |-> FALSE, route |-> NoRoute]
    /\ account = [rounds |-> AccountRounds, pending |-> FALSE,
                   active |-> NoRoute]
    /\ sent = FALSE

-----------------------------------------------------------------------------
(* Ending: what every exit leaves behind.                                   *)

(* should_rollback_downstream_reservation: faults of the upstreams only.    *)
RolledBack(result) ==
    result \in TemporaryClasses \cup {"routes_exhausted", "unclassified"}

(* A permit, lease or guard that is still held is given back by its Drop,   *)
(* and the locals of the function are gone.                                 *)
Ended(result, logged, reservation) ==
    /\ at' = "done"
    /\ client' = [client EXCEPT !.active = FALSE, !.reservation = reservation,
                                !.slot = FALSE, !.logged = logged,
                                !.result = result]
    /\ try' = NoTry
    /\ round' = FreshRound({})
    /\ arm' = [armed |-> FALSE, route |-> NoRoute]
    /\ breaker' = NoBreaker
    /\ account' = [rounds |-> 0, pending |-> FALSE, active |-> NoRoute]
    /\ pin' = "none" /\ sent' = FALSE
    /\ UNCHANGED budget

Stopped(result, logged) == Ended(result, logged, client.reservation)

-----------------------------------------------------------------------------
(* Before the routing rounds.                                               *)

Authenticate ==
    /\ at = "start"
    /\ \/ Stopped("unauthorized", FALSE)
       \/ Stopped("missing_model", TRUE)
       \/ /\ at' = "checks"
          /\ client' = [client EXCEPT !.active = TRUE]
          /\ UNCHANGED <<pin, round, try, budget, breaker, arm, account, sent>>

(* An expired key, an address or a model that is not allowed, a model group *)
(* that cannot be resolved, an unknown kind of tool.                        *)
RefuseAccess == at = "checks" /\ Stopped("forbidden", TRUE)

Admit ==
    /\ at = "checks"
    /\ \/ Stopped("downstream_limited", TRUE)
       \/ /\ at' = "history"
          /\ client' = [client EXCEPT !.reservation = "held", !.slot = TRUE]
          /\ UNCHANGED <<pin, round, try, budget, breaker, arm, account, sent>>

(* A history that cannot be loaded is logged.                               *)
LoadHistory ==
    /\ at = "history"
    /\ \/ Stopped("history_error", TRUE)
       \/ /\ at' = "continuation"
          /\ UNCHANGED <<client, pin, round, try, budget, breaker, arm, account, sent>>

(* A continuation must still fit its adapter, tool registry, configuration  *)
(* and probe schema, and identify exactly one contract; a misfit is not     *)
(* logged.                                                                  *)
CheckContinuation ==
    /\ at = "continuation"
    /\ \/ Stopped("history_invalid", FALSE)
       \/ /\ at' = "plan"
          /\ pin' \in {"none", "pinned"}
          /\ UNCHANGED <<client, round, try, budget, breaker, arm, account, sent>>

(* A replay of Claude thinking whose route is gone: the reservation stays.  *)
RefuseReplay ==
    /\ at = "plan"
    /\ Ended("rejected", TRUE,
             IF RolledBack("rejected") THEN "rolled_back" ELSE client.reservation)

(* No route can keep the capabilities: 400, or 503 while the pinned route   *)
(* cools; neither returns the reservation.                                  *)
RefuseCapability ==
    /\ at = "plan"
    /\ \E result \in {"rejected"} \cup (IF pin = "pinned" THEN {"transient"} ELSE {}) :
          Stopped(result, TRUE)

PlanCandidates ==
    /\ at = "plan"
    /\ at' = "round"
    /\ UNCHANGED <<client, pin, round, try, budget, breaker, arm, account, sent>>

-----------------------------------------------------------------------------
(* One routing round.                                                       *)

Candidates == IF pin = "pinned" THEN PinnedRoutes ELSE Routes

BeginRound ==
    /\ at = "round"
    /\ round' = FreshRound(Candidates)
    /\ try' = NoTry
    /\ at' = "pick"
    /\ UNCHANGED <<client, pin, budget, breaker, arm, account, sent>>

Siblings(r) == {x \in Routes : UpstreamOf[x] = UpstreamOf[r]}
MoreKeys(r) == round.todo \cap Siblings(r) # {}

(* The stream-only recovery belongs to the upstream, not to the key.        *)
Kept(r) ==
    IF try.route # NoRoute /\ r \in Siblings(try.route) THEN try.recovery ELSE "none"

AttemptMode(recovery) ==
    IF recovery # "none" THEN {"json"}
    ELSE IF client.stream THEN {"sse"} ELSE {"json", "aggregate"}

PickRoute ==
    /\ at = "pick"
    /\ \E r \in round.todo :
          /\ (try.route # NoRoute /\ MoreKeys(try.route)) => r \in Siblings(try.route)
          /\ round' = [round EXCEPT !.todo = @ \ {r}]
          /\ \/ /\ account.active \notin {NoRoute, r}
                /\ UNCHANGED <<at, try>>
             \/ /\ account.active \in {NoRoute, r}
                /\ \E mode \in AttemptMode(Kept(r)) :
                      try' = [NoTry EXCEPT !.route = r, !.mode = mode,
                                           !.recovery = Kept(r)]
                /\ at' = "reserve"
    /\ UNCHANGED <<client, pin, budget, breaker, arm, account, sent>>

RoundOver ==
    /\ at = "pick"
    /\ round.todo = {}
    /\ at' = "round over"
    /\ try' = NoTry
    /\ UNCHANGED <<client, pin, round, budget, breaker, arm, account, sent>>

(* AttemptLedger: a failure replaces a cooled entry, never the reverse.     *)
Recorded(kind, class, error) ==
    [round EXCEPT
        !.ledger[try.route] =
            IF kind # "failed" /\ @.kind = "failed" THEN @ ELSE Entry(kind, class),
        !.error = error]

(* complete_attempt: the account session is told how the attempt went.      *)
AttemptOver == account' = [account EXCEPT !.active = NoRoute]

(* reserve_route_health, or the early probe the last round armed for the    *)
(* route; a refused probe falls back to the ordinary reservation.           *)
ReserveHealth ==
    /\ at = "reserve"
    /\ arm' = [arm EXCEPT !.route = IF @ = try.route THEN NoRoute ELSE @]
    /\ \/ /\ try' = [try EXCEPT !.permit = "held"]
          /\ at' = "account"
          /\ UNCHANGED round
       \/ /\ arm.route # try.route /\ account.active # try.route
          /\ \E kind \in {"cooled", "busy"}, class \in Faults \cap LedgerClasses :
                round' = Recorded(kind, class, "transient")
          /\ at' = "pick"
          /\ UNCHANGED try
       \/ arm.route = try.route /\ UNCHANGED <<at, round, try>>
    /\ UNCHANGED <<client, pin, budget, breaker, account, sent>>

(* The prober of the account waits for the route instead of skipping it,    *)
(* until its lease or its deadline is lost.                                 *)
ProbeInterrupted ==
    /\ at = "reserve"
    /\ arm.route # try.route /\ account.active = try.route
    /\ round' = [round EXCEPT !.error = "concurrency", !.todo = {}]
    /\ at' = "pick"
    /\ AttemptOver
    /\ UNCHANGED <<client, pin, try, budget, breaker, arm, sent>>

Settled(verdict) == IF try.permit = "held" THEN verdict ELSE try.permit

(* wait_for_account: the deadline of the session, a deferral to another     *)
(* round, ordinary admission, or the probe of the account.                  *)
WaitForAccount ==
    /\ at = "account"
    /\ \/ /\ try' = [try EXCEPT !.permit = Settled("cancelled")]
          /\ round' = [round EXCEPT !.error = "concurrency"]
          /\ AttemptOver
          /\ at' = "pick"
       \/ /\ account.active = NoRoute
          /\ try' = [try EXCEPT !.permit = Settled("cancelled")]
          /\ round' = Recorded("cooled", "concurrency", "concurrency")
          /\ account' = [account EXCEPT !.pending = TRUE]
          /\ at' = "pick"
       \/ at' = "lease" /\ UNCHANGED <<round, try, account>>
       \/ /\ account.active = NoRoute /\ account.rounds > 0
          /\ account' = [rounds |-> account.rounds - 1, pending |-> FALSE,
                         active |-> try.route]
          /\ at' = "lease"
          /\ UNCHANGED <<round, try>>
    /\ UNCHANGED <<client, pin, budget, breaker, arm, sent>>

(* LocalConcurrency: nothing was sent; a prober goes round the loop again,  *)
(* with its permit already given back.                                      *)
SlotRefused ==
    /\ at = "lease"
    /\ try' = [try EXCEPT !.permit = Settled("cancelled")]
    /\ AttemptOver
    /\ \/ account.active = try.route /\ at' = "account" /\ UNCHANGED round
       \/ /\ account.active # try.route
          /\ round' = [Recorded("cooled", "concurrency", "concurrency")
                          EXCEPT !.gate = TRUE]
          /\ at' = "pick"
    /\ UNCHANGED <<client, pin, budget, breaker, arm, sent>>

(* Preparing the body of a chat-only fallback may fail.                     *)
PrepareFails == at = "lease" /\ Stopped("rejected", TRUE)

Send ==
    /\ at = "lease"
    /\ at' = "sent"
    /\ sent' = TRUE
    /\ UNCHANGED <<client, pin, round, try, budget, breaker, arm, account>>

(* next_round: the ledger and the tracker of a round end with it.           *)
NextRound == at' = "round" /\ round' = FreshRound({}) /\ try' = NoTry

-----------------------------------------------------------------------------
(* The answer of the upstream, in the order of the arms of the match.       *)

(* The recovery of an upstream that only streams: one try with an           *)
(* aggregated stream on the same route, with the same permit.               *)
StreamOnlyRetry ==
    /\ at = "sent"
    /\ ~ client.stream /\ try.recovery = "none"
    /\ try' = [try EXCEPT !.recovery = "consumed", !.mode = "aggregate",
                          !.retried = TRUE]
    /\ at' = "account"
    /\ AttemptOver
    /\ UNCHANGED <<client, pin, round, budget, breaker, arm, sent>>

(* A deferred success keeps the permit, the lease and the slot for the stream. *)
Succeed ==
    /\ at = "sent"
    /\ \/ Ended("ok", TRUE, client.reservation)
       \/ /\ client.stream /\ try.mode = "sse"
          /\ at' = "done"
          /\ client' = [client EXCEPT !.result = "streaming"]
          /\ try' = [try EXCEPT !.permit = Settled("stream")]
          /\ AttemptOver
          /\ UNCHANGED <<pin, round, budget, breaker, arm, sent>>

RetriesSameRoute(class) ==
    SameRouteRetryEnabled /\ class = "transient" /\ ~ try.retried
       /\ try.recovery # "final"

SameRouteDelay(d) == 
    Lesser(Lesser(Greater(d, SameRouteFloor), SameRouteCeiling), RemainingWait(budget))

RetrySameRoute ==
    /\ at = "sent"
    /\ RetriesSameRoute("transient")
    /\ \E d \in Delays : budget' = WaitTimeRecorded(budget, SameRouteDelay(d))
    /\ try' = [try EXCEPT !.retried = TRUE]
    /\ at' = "account"
    /\ AttemptOver
    /\ UNCHANGED <<client, pin, round, breaker, arm, sent>>

(* record_route_attempt, the verdict for the permit and the class that the  *)
(* breaker sees; an error without a class is neither recorded nor blamed.   *)
FailureOf(class, verdict) ==
    /\ round' = IF class \in LedgerClasses THEN Recorded("failed", class, class)
                ELSE [round EXCEPT !.error = class]
    /\ \E seen \in {class} \cup (IF class = "transient" THEN {"capacity"} ELSE {}) :
          /\ ~ RetriesSameRoute(seen)
          /\ try' = [try EXCEPT
                        !.permit = Settled(verdict),
                        !.failed = IF class = "unclassified" THEN "none" ELSE seen]

Verdict(class) == IF class = "unclassified" THEN "cancelled" ELSE "failure"

(* should_try_next_key: a failure of the route may differ for the next key. *)
NextKeyFirst(class) ==
    MoreKeys(try.route) /\ try.recovery # "final" /\ class \in LedgerClasses

TryNextKey ==
    /\ at = "sent"
    /\ \E class \in Faults : NextKeyFirst(class) /\ FailureOf(class, "failure")
    /\ at' = "breaker"
    /\ AttemptOver
    /\ UNCHANGED <<client, pin, budget, breaker, arm, sent>>

(* ConcurrencyFull and TooManyRequests: the upstream is marked, the route   *)
(* cooled, and the breaker is not asked.                                    *)
LimitReached ==
    /\ at = "sent"
    /\ \E class \in Faults \cap {"rate", "concurrency"} :
          /\ ~ NextKeyFirst(class)
          /\ round' = Recorded("failed", class, class)
          /\ try' = [try EXCEPT
                        !.permit = Settled(IF try.recovery = "consumed"
                                             THEN "cancelled" ELSE "failure"),
                        !.recovery = IF class = "concurrency" /\ @ = "consumed"
                                       THEN "final" ELSE @]
    /\ at' = "route over"
    /\ AttemptOver
    /\ UNCHANGED <<client, pin, budget, breaker, arm, sent>>

(* The upstream answered, the payload was bad: no other route is tried.     *)
PayloadRejected ==
    /\ at = "sent"
    /\ round' = [round EXCEPT !.error = "rejected", !.todo = {}]
    /\ try' = [try EXCEPT !.permit = Settled("success")]
    /\ at' = "round over"
    /\ AttemptOver
    /\ UNCHANGED <<client, pin, budget, breaker, arm, sent>>

(* A 400 for another reason: the breaker does not see it, and without a     *)
(* class the permit is left to its Drop.                                    *)
BadRequestFailure ==
    /\ at = "sent"
    /\ \E class \in Faults \cap {"unsupported", "unclassified"} :
          /\ ~ NextKeyFirst(class)
          /\ round' = IF class = "unsupported" THEN Recorded("failed", class, class)
                      ELSE [round EXCEPT !.error = class]
          /\ try' = [try EXCEPT !.permit = Settled(IF class = "unsupported"
                                                     THEN "failure" ELSE "dropped")]
    /\ at' = "route over"
    /\ AttemptOver
    /\ UNCHANGED <<client, pin, budget, breaker, arm, sent>>

(* The stream failed before its first output: once more without stream; the *)
(* failure is already reported and the permit gone.                         *)
RetryWithoutStream ==
    /\ at = "sent"
    /\ try.mode = "sse"
    /\ \E class \in {"capacity"} \cup (Faults \ {"rate", "concurrency"}) :
          /\ ~ NextKeyFirst(IF class = "capacity" THEN "transient" ELSE class)
          /\ ~ RetriesSameRoute(class)
          /\ try' = [try EXCEPT !.permit = Settled(Verdict(class)),
                                !.mode = "json", !.retried = TRUE]
    /\ at' = "account"
    /\ AttemptOver
    /\ UNCHANGED <<client, pin, round, budget, breaker, arm, sent>>

(* Everything else: the next route.  A temporary failure after a            *)
(* stream-only recovery is not the route's.                                 *)
OtherFailure ==
    /\ at = "sent"
    /\ \E class \in Faults \cap {"transient", "rate", "unsupported", "unclassified"} :
          /\ ~ NextKeyFirst(class)
          /\ try.mode = "sse" => class \in {"rate", "unsupported"}
          /\ \/ FailureOf(class, Verdict(class))
             \/ /\ class = "transient" /\ try.recovery = "consumed"
                /\ FailureOf(class, "cancelled")
    /\ at' = "breaker"
    /\ AttemptOver
    /\ UNCHANGED <<client, pin, budget, breaker, arm, sent>>

-----------------------------------------------------------------------------
(* The common-mode breaker: the same failure on one route after another.    *)

(* A rejected request never gets here: its status is 400 (PayloadRejected). *)
Threshold(class) == IF class = "transient" THEN TransientThreshold ELSE 0

RouteLocalFault(r) ==
    \/ breaker.streak.route = r
    \/ /\ ~ SameHostTransient
       /\ UpstreamOf[breaker.streak.route] = UpstreamOf[r]

Streak(r, class) ==
    IF breaker.streak.class = class /\ ~ RouteLocalFault(r)
      THEN [breaker.streak EXCEPT !.route = r, !.count = @ + 1]
      ELSE [class |-> class, route |-> r, count |-> 1]

Trips(r, class) ==
    Streak(r, class).count >= Greater(Threshold(class), 2)

(* Not enough evidence yet: the streak grows, restarts or ends.             *)
CountFailure ==
    /\ at = "breaker"
    /\ \/ try.failed = "none" /\ UNCHANGED breaker
       \/ /\ try.failed # "none" /\ Threshold(try.failed) = 0
          /\ breaker' = [breaker EXCEPT !.streak = NoStreak]
       \/ /\ Threshold(try.failed) > 0 /\ ~ Trips(try.route, try.failed)
          /\ breaker' = [breaker EXCEPT !.streak = Streak(try.route, try.failed)]
    /\ at' = "route over"
    /\ UNCHANGED <<client, pin, round, try, budget, arm, account, sent>>

(* The first transient trip reverts the cooldowns and replays one round.    *)
ReplayPool ==
    /\ at = "breaker"
    /\ try.failed = "transient" /\ Threshold("transient") > 0
    /\ Trips(try.route, "transient")
    /\ ~ breaker.replayed
    /\ budget' = ExternalWaitRecorded(budget, Lesser(ReplayBackoff, RemainingWait(budget)))
    /\ breaker' = [streak |-> NoStreak, tripped |-> TRUE, replayed |-> TRUE]
    /\ NextRound
    /\ UNCHANGED <<client, pin, arm, account, sent>>

(* The next trip is the verdict: the rounds are over.                       *)
BreakerTrips ==
    /\ at = "breaker"
    /\ Threshold(try.failed) > 0 /\ Trips(try.route, try.failed)
    /\ breaker.replayed
    /\ breaker' = [breaker EXCEPT !.tripped = TRUE]
    /\ at' = "terminal"
    /\ UNCHANGED <<client, pin, round, try, budget, arm, account, sent>>

(* After a stream-only recovery the round is final.                         *)
RouteOver ==
    /\ at = "route over"
    /\ round' = [round EXCEPT !.final = @ \/ try.recovery # "none",
                              !.todo = IF try.recovery = "final" THEN {} ELSE @]
    /\ try' = [NoTry EXCEPT !.route = try.route, !.recovery = try.recovery]
    /\ at' = "pick"
    /\ UNCHANGED <<client, pin, budget, breaker, arm, account, sent>>

-----------------------------------------------------------------------------
(* The end of a round.                                                      *)

Known == {r \in Routes : round.ledger[r] # NoEntry}
Attempted == {r \in Routes : round.ledger[r].kind = "failed"}
Cooled == Known \ Attempted
AllIn(S, classes) == \A r \in S : round.ledger[r].class \in classes

Terminal == round.error # "rejected" /\ ~ round.final /\ Known # {}
Temporary == \E r \in Known : round.ledger[r].class \in TemporaryClasses
PureConcurrency == Terminal /\ AllIn(Known, {"concurrency"})
PureRate == Known # {} /\ AllIn(Known, {"rate"})
BusyOnly == Known # {} /\ \A r \in Known : round.ledger[r].kind = "busy"

(* The pool softened on a shared outage, by cooldowns or by attempts.       *)
AllSoft ==
    \/ Attempted = {} /\ Cooled # {} /\ AllIn(Cooled, TransientFamily)
    \/ /\ Attempted # {} /\ AllIn(Attempted, TransientFamily)
       /\ Candidates \subseteq Known

(* An arm that forgets that the request had its probe.                      *)
ArmsProbeAgain ==
    RetryEnabled /\ LastResortEnabled /\ Terminal /\ AllSoft

ArmsProbe ==
    RetryEnabled /\ LastResortEnabled /\ Terminal /\ AllSoft /\ ~ arm.armed

ArmLastResort ==
    /\ at = "round over"
    /\ ArmsProbe
    /\ \E r \in Known : arm' = [armed |-> TRUE, route |-> r]
    /\ NextRound
    /\ UNCHANGED <<client, pin, budget, breaker, account, sent>>

QueuesForSlot ==
    PureConcurrency /\ RetryEnabled /\ SlotQueueEnabled /\ round.gate

(* A slot came free: one more round, whatever was waited so far.            *)
SlotFreed ==
    /\ at = "round over"
    /\ ~ ArmsProbe /\ QueuesForSlot
    /\ NextRound
    /\ arm' = [arm EXCEPT !.route = NoRoute]
    /\ UNCHANGED <<client, pin, budget, breaker, account, sent>>

(* The queue was full, skipped or too slow, or the gate fails fast: the     *)
(* request ends with the error of the gate.                                 *)
FastFails ==
    PureConcurrency /\ ~ sent /\ round.gate /\ FastFailEnabled /\ ~ account.pending

LocalGateFails ==
    /\ at = "round over"
    /\ ~ ArmsProbe /\ (QueuesForSlot \/ FastFails)
    /\ round' = [round EXCEPT !.error = "local_gate"]
    /\ at' = "terminal"
    /\ arm' = [arm EXCEPT !.route = NoRoute]
    /\ UNCHANGED <<client, pin, try, budget, breaker, account, sent>>

WaitsForAccount ==
    ~ ArmsProbe /\ ~ QueuesForSlot /\ ~ FastFails /\ PureConcurrency /\ account.pending

(* wait_for_pending_account: admitted as prober, or the session is over.    *)
WaitForPendingAccount ==
    /\ at = "round over"
    /\ WaitsForAccount
    /\ \/ /\ account.rounds > 0
          /\ \E r \in Known :
                account' = [rounds |-> account.rounds - 1, pending |-> FALSE,
                            active |-> r]
          /\ NextRound
       \/ /\ account' = [account EXCEPT !.pending = FALSE]
          /\ at' = "decide"
          /\ UNCHANGED <<round, try>>
       \/ at' = "terminal" /\ UNCHANGED <<account, round, try>>
    /\ arm' = [arm EXCEPT !.route = NoRoute]
    /\ UNCHANGED <<client, pin, budget, breaker, sent>>

NothingToWaitFor ==
    /\ at = "round over"
    /\ ~ ArmsProbe /\ ~ QueuesForSlot /\ ~ FastFails /\ ~ WaitsForAccount
    /\ at' = "decide"
    /\ arm' = [arm EXCEPT !.route = NoRoute]
    /\ UNCHANGED <<client, pin, round, try, budget, breaker, account, sent>>

(* The recovery the registry reports is of a class it may know by now.      *)
Recoveries ==
    {NoRecovery} \cup [class : TemporaryClasses \cup {"capacity"}, delay : Delays]

Decisions ==
    {Decide(budget, Temporary, d, rec, PureRate, Attempted = {} /\ BusyOnly, j) :
        d \in Delays, rec \in Recoveries, j \in {0, MaxJitter}}

WaitForRecovery ==
    /\ at = "decide"
    /\ Terminal
    /\ \E w \in Decisions :
          w.kind # "none" /\ budget' = WaitRecorded(budget, w)
    /\ NextRound
    /\ UNCHANGED <<client, pin, breaker, arm, account, sent>>

EscapeEligible ==
    /\ PinEscapeEnabled /\ pin = "pinned" /\ Terminal /\ ~ PureRate
    /\ Temporary \/ Cardinality({round.ledger[r].class : r \in Known}) > 1

GivesUp == Terminal => \E w \in Decisions : w.kind = "none"

(* The continuation lets go of its route once.                              *)
EscapePin ==
    /\ at = "decide"
    /\ GivesUp /\ EscapeEligible
    /\ pin' = "escaped"
    /\ NextRound
    /\ UNCHANGED <<client, budget, breaker, arm, account, sent>>

StopRouting ==
    /\ at = "decide"
    /\ GivesUp /\ ~ EscapeEligible
    /\ at' = "terminal"
    /\ UNCHANGED <<client, pin, round, try, budget, breaker, arm, account, sent>>

(* The error is the verdict of the breaker, the aggregate of the ledger or  *)
(* the last error; without any, no upstream serves the model.               *)
Aggregates ==
    /\ ~ breaker.tripped /\ round.error # "local_gate" /\ Known # {}
    /\ \/ Cardinality(Known) > 1
       \/ round.error \in (TemporaryClasses \ {"concurrency"}) \cup {"unsupported"}

Fail ==
    /\ at = "terminal"
    /\ LET result == CASE round.error = "none" -> "no_route"
                       [] Aggregates -> "routes_exhausted"
                       [] OTHER -> round.error
       IN Ended(result, TRUE,
                IF RolledBack(result) THEN "rolled_back" ELSE client.reservation)

-----------------------------------------------------------------------------
(* runtime_coordination_unavailable, where the code calls the shared state: *)
(* the request returns at once and its guards are dropped.                  *)
CoordinationLost ==
    /\ at \in {"round", "reserve", "account", "lease", "sent", "breaker", "round over"}
    /\ Stopped("coordination", FALSE)

RoutingStep ==
    \/ Authenticate \/ RefuseAccess \/ Admit \/ LoadHistory \/ CheckContinuation
    \/ RefuseReplay \/ RefuseCapability \/ PlanCandidates
    \/ BeginRound \/ PickRoute \/ RoundOver \/ ReserveHealth \/ ProbeInterrupted
    \/ WaitForAccount
    \/ SlotRefused \/ PrepareFails \/ Send
    \/ StreamOnlyRetry \/ Succeed \/ RetrySameRoute \/ TryNextKey \/ LimitReached
    \/ PayloadRejected \/ BadRequestFailure \/ RetryWithoutStream \/ OtherFailure
    \/ CountFailure \/ ReplayPool \/ BreakerTrips \/ RouteOver
    \/ ArmLastResort \/ SlotFreed \/ LocalGateFails \/ WaitForPendingAccount
    \/ NothingToWaitFor \/ WaitForRecovery \/ EscapePin \/ StopRouting \/ Fail

RoutingNext == RoutingStep \/ CoordinationLost

(* The task of the request runs on, and its timers fire.                    *)
RoutingSpec ==
    RoutingInit /\ [][RoutingNext]_routingVars /\ WF_routingVars(RoutingStep)

-----------------------------------------------------------------------------
(* Properties.                                                              *)

(* However the busy, aligned, truncated, same-route and replay waits of one *)
(* request follow each other, their sum stays within the larger of the two  *)
(* time budgets of decide_with_reason.                                      *)
WaitsWithinBudget == budget.waited <= Greater(MaxWait, ConcurrencyMaxWait)

(* Every request ends, unless the slot queue wakes it again and again: the  *)
(* retry, probe, replay, escape and busy rounds are bounded all together.   *)
EveryRequestEnds ==
    <>[][~ SlotFreed]_routingVars => <>(at = "done")
=============================================================================
