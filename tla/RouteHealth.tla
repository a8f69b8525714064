----------------------------- MODULE RouteHealth -----------------------------
(***************************************************************************)
(* The process-local health registry of virtual routes                     *)
(* (src/src/state/route_health.rs): a circuit breaker per route and per    *)
(* API key with cooldowns, half-open probe leases, an exclusive window in  *)
(* which only the probe may use the route, and a last-resort "early" probe *)
(* of a route that is still cooling.                                       *)
(*                                                                         *)
(* Every public method of the registry runs under one mutex, so it is one  *)
(* action.  What interleaves are the requests: a permit is reserved, the   *)
(* upstream call runs without the lock, and the outcome is reported later, *)
(* possibly after the lease expired, after other requests reported theirs, *)
(* after an operator reset, or by a task spawned from the permit's Drop.   *)
(***************************************************************************)
EXTENDS Integers, FiniteSets

CONSTANTS
    Requests,       \* request slots; each holds at most one permit
    Routes, Keys,   \* RouteHealthKey and KeyHealthKey identities
    Upstreams,
    KeyOf,          \* the key a route belongs to
    UpstreamOf,     \* the upstream a key belongs to
    RouteFailures,  \* the classes reported as RouteOutcome::RouteFailure
    KeyFailures,    \* the classes reported as RouteOutcome::KeyFailure
    RetryAfters,    \* the Retry-After values an upstream may send
    Tunings,        \* the runtime tunings an operator may apply
    ScheduleLen,    \* the backoff curves are flat from this step on
    StreakReset,    \* FAILURE_STREAK_RESET
    BusyRetry,      \* HALF_OPEN_BUSY_RETRY
    HalfOpenStepCap,        \* ROUTE_HALF_OPEN_FAILURE_STEP_CAP
    RouteCapacity, PerUpstreamCapacity,
    MaxClock, MaxGen        \* bounds of the model, see Tick and the guards

None == -1           \* an absent Option<Instant> or Option<Duration>
NoClass == "none"    \* last_failure_class: None
NoRoute == "none"    \* no last-resort probe armed

CapacityClasses == {"RateLimited", "KeyQuota"}
SharedHostClasses == {"TransientServer", "EdgeProxyError"}
TransientFamily == {"TransientServer", "EdgeProxyError", "CapacityUnavailable"}
RouteCooldownClasses ==
    {"CapacityUnavailable", "ConcurrencySaturated", "TransientServer", "Transport",
     "RateLimited", "KeyQuota", "ModelUnsupported", "EdgeProxyError"}
KeyCooldownClasses == {"Credentials", "KeyQuota"}
Classes ==
    RouteCooldownClasses \cup KeyCooldownClasses
        \cup {"FeatureUnsupported", "ProtocolUnsupported", "RequestRejected"}

(* What update_runtime_tuning installs, after its .max(1) normalisation:    *)
(* the half-open lease time and exclusive window, the step cap, the longest *)
(* transient cooldown, the two switches, and the two backoff curves.        *)
Tuning ==
    [ttl : Nat \ {0}, window : Nat, maxStep : Nat \ {0}, transientMax : Nat \ {0},
     capacityCooldown : BOOLEAN, enforced : BOOLEAN,
     routeDelay : [RouteCooldownClasses -> [1 .. ScheduleLen -> Nat]],
     keyDelay : [KeyCooldownClasses -> [1 .. ScheduleLen -> Nat]]]

ASSUME ConstantsAssumption ==
    /\ KeyOf \in [Routes -> Keys]
    /\ UpstreamOf \in [Keys -> Upstreams]
    /\ NoRoute \notin Routes
    /\ RouteFailures \subseteq Classes
    /\ KeyFailures \subseteq Classes
    /\ RetryAfters \subseteq Nat
    /\ Tunings \subseteq Tuning
    /\ ScheduleLen \in Nat \ {0}
    /\ StreakReset \in Nat
    /\ BusyRetry \in Nat
    /\ HalfOpenStepCap \in Nat \ {0}
    /\ RouteCapacity \in Nat
    /\ PerUpstreamCapacity \in Nat
    /\ MaxClock \in Nat
    /\ MaxGen \in Nat

VARIABLES
    now,      \* the monotonic clock
    tuning,   \* the registry's tuning fields
    routes,   \* HashMap<RouteHealthKey, HealthState>
    keys,     \* HashMap<KeyHealthKey, HealthState>
    nextGen,  \* next_generation: the last half-open generation handed out
    permit,   \* the RouteHealthPermit of each request slot
    armed     \* the route each request will probe early, or NoRoute

vars == <<now, tuning, routes, keys, nextGen, permit, armed>>

-----------------------------------------------------------------------------
(* HealthState.  `tracked` says whether the map holds the identity at all.  *)
(* last_failure_status is reporting only, and last_access only orders the   *)
(* eviction candidates of one tier, which the model chooses freely.         *)

Failure == [failures : Nat, class : Classes \cup {NoClass}, at : Int, until : Int]
HalfOpenLease == [gen : Nat, expires : Int, exclusive : Int]
HealthState ==
    [tracked : BOOLEAN, fail : Failure, lease : HalfOpenLease, earlyAt : Int, stateGen : Nat]

NoFailure == [failures |-> 0, class |-> NoClass, at |-> None, until |-> None]
NoLease == [gen |-> 0, expires |-> None, exclusive |-> None]
NoEntry ==
    [tracked |-> FALSE, fail |-> NoFailure, lease |-> NoLease, earlyAt |-> None, stateGen |-> 0]

Entry(fail, lease, earlyAt, stateGen) ==
    [tracked |-> TRUE, fail |-> fail, lease |-> lease, earlyAt |-> earlyAt, stateGen |-> stateGen]

IsActive(s) == s.lease.gen # 0 /\ s.lease.expires > now
IsCooling(s) == s.fail.until > now
Busy(s) == IsActive(s) /\ s.lease.exclusive > now

(* A clear that forgets cooldown_until.                                     *)
ClearKeepsDeadline(s) ==
    [tracked |-> s.tracked,
     fail |-> [failures |-> 0, class |-> NoClass, at |-> None, until |-> s.fail.until],
     lease |-> NoLease, earlyAt |-> None, stateGen |-> s.stateGen]

(* HealthState::clear; only state_generation survives, and whether the map  *)
(* has the entry.                                                           *)
Clear(s) ==
    [tracked |-> s.tracked, fail |-> NoFailure, lease |-> NoLease, earlyAt |-> None,
     stateGen |-> s.stateGen]

IsClear(s) == s.fail = NoFailure /\ s.lease = NoLease /\ s.earlyAt = None

DropLease(s) == [s EXCEPT !.lease = NoLease]

ReleaseHalfOpen(s, g) == IF g # 0 /\ s.lease.gen = g THEN DropLease(s) ELSE s
DropExpiredLease(s) ==
    IF s.lease.gen # 0 /\ s.lease.expires <= now THEN DropLease(s) ELSE s

(* reserve_expired_half_open_{key,route}: an entry whose cooldown has run   *)
(* out and whose lease is free is up for a half-open probe.                 *)
ProbeDue(s) ==
    /\ s.fail.class # NoClass
    /\ s.fail.until # None /\ s.fail.until <= now
    /\ s.lease.gen = 0 \/ s.lease.expires <= now

HalfOpen(s, g, exclusiveUntil) ==
    [s EXCEPT !.lease =
        [gen |-> g, expires |-> now + tuning.ttl, exclusive |-> exclusiveUntil]]

StateGenOf(s) == IF s.tracked THEN s.stateGen ELSE None

Least(a, b) == IF a < b THEN a ELSE b
Greatest(a, b) == IF a < b THEN b ELSE a

NextGeneration(g) == g + 1

-----------------------------------------------------------------------------
(* The failure step and the cooldown it selects.                            *)

Capped(step) == Least(step, tuning.maxStep)

FailureStep(s, class, repeat, shared) ==
    LET escalated == s.fail.failures + 1
        stale == \/ s.fail.at # None /\ now - s.fail.at > StreakReset
                 \/ s.fail.class # class
    IN  IF class = "EdgeProxyError" \/ (shared /\ class \in SharedHostClasses) THEN 1
        ELSE IF stale THEN 1
        ELSE IF repeat THEN Greatest(s.fail.failures, 1)
        ELSE IF s.lease.gen = 0 THEN Capped(escalated)
        ELSE IF class = "ConcurrencySaturated" THEN escalated
        ELSE Capped(Least(escalated, HalfOpenStepCap))

CurveIndex(step) == Least(Greatest(step, 1), ScheduleLen)
RouteCooldown(class, step) == tuning.routeDelay[class][CurveIndex(step)]
KeyCooldown(class, step) == tuning.keyDelay[class][CurveIndex(step)]

(* A Retry-After of an upstream is a lower bound of the cooldown, except    *)
(* for ConcurrencySaturated, where it replaces the local delay.             *)
EffectiveCooldown(class, retry, local) ==
    IF retry = None THEN local
    ELSE IF class = "ConcurrencySaturated" THEN retry
    ELSE Greatest(retry, local)

Cooled(step, class, cooldown) ==
    [failures |-> step, class |-> class, at |-> now, until |-> now + cooldown]

CooledRoute(s, class, retry, repeat, shared) ==
    LET step == FailureStep(s, class, repeat, shared)
        curve == IF shared /\ class \in SharedHostClasses THEN "EdgeProxyError" ELSE class
        cooldown == EffectiveCooldown(class, retry, RouteCooldown(curve, step))
    IN  Entry(Cooled(step, class, cooldown), NoLease, s.earlyAt, s.stateGen + 1)

CooledKey(s, class, retry) ==
    LET step == FailureStep(s, class, FALSE, FALSE)
        cooldown == EffectiveCooldown(class, retry, KeyCooldown(class, step))
    IN  Entry(Cooled(step, class, cooldown), NoLease, s.earlyAt, s.stateGen)

(* E1: the record-only observation of a capacity-class failure; the         *)
(* cooldown, the step and the half-open lease stay as they are.             *)
CapacityObserved(s, class) ==
    Entry([failures |-> s.fail.failures, class |-> class, at |-> now, until |-> s.fail.until],
          s.lease, s.earlyAt, s.stateGen)

-----------------------------------------------------------------------------
(* ensure_{route,key}_capacity.  `up` maps the identities of the table to   *)
(* upstreams.  The result is the set of tables that may remain once room    *)
(* was made for `id`: empty when every candidate holds an active probe.     *)

Tracked(table) == {x \in DOMAIN table : table[x].tracked}

Full(count, capacity) == count >= capacity

(* A victim is chosen by its cooldown alone.                                *)
EvictableWhenWarm(s) == ~IsCooling(s)
Evictable(s) == ~IsActive(s)

MadeRoom(table, id, up) ==
    LET siblings == {x \in Tracked(table) : up[x] = up[id]}
        globalFull == Full(Cardinality(Tracked(table)), RouteCapacity)
        upstreamFull == Full(Cardinality(siblings), PerUpstreamCapacity)
        idle == {x \in IF upstreamFull THEN siblings ELSE Tracked(table) :
                    Evictable(table[x])}
        settled == {x \in idle : ~IsCooling(table[x])}
        victims == IF settled # {} THEN settled ELSE idle
    IN  IF table[id].tracked \/ ~(globalFull \/ upstreamFull) THEN {table}
        ELSE {[table EXCEPT ![x] = NoEntry] : x \in victims}

RouteUpstream == [r \in Routes |-> UpstreamOf[KeyOf[r]]]

(* observe_route_failure_at and observe_key_failure_at, applied to table.   *)
ObservedRoutes(table, r, class, retry, repeat, capacitySole, shared) ==
    LET observeOnly ==
            class \in CapacityClasses /\ (~tuning.capacityCooldown \/ capacitySole)
        Observed(s) == IF observeOnly THEN CapacityObserved(s, class)
                                      ELSE CooledRoute(s, class, retry, repeat, shared)
        room == MadeRoom(table, r, RouteUpstream)
    IN  IF class \notin RouteCooldownClasses
        THEN {[table EXCEPT ![r] = Clear(@)]}
        ELSE IF room = {} THEN {table}
        ELSE {[t EXCEPT ![r] = Observed(@)] : t \in room}

ObservedKeys(table, k, class, retry) ==
    LET observeOnly == class \in CapacityClasses /\ ~tuning.capacityCooldown
        Observed(s) == IF observeOnly THEN CapacityObserved(s, class)
                                      ELSE CooledKey(s, class, retry)
        room == MadeRoom(table, k, UpstreamOf)
    IN  IF class \notin KeyCooldownClasses
        THEN {[table EXCEPT ![k] = Clear(@)]}
        ELSE IF room = {} THEN {table}
        ELSE {[t EXCEPT ![k] = Observed(@)] : t \in room}

-----------------------------------------------------------------------------
(* Permits.  A live permit holds the HealthLease; a dropped one waits for   *)
(* the spawned task that cancels it; a settled one only keeps the identity. *)
(* `since` is the instant of the reservation, kept for the properties.      *)

Permit ==
    [st : {"none", "live", "dropped", "settled"}, route : Routes \cup {NoRoute},
     keyGen : Nat, routeGen : Nat, stateGen : Nat \cup {None}, since : Int]

NoPermit ==
    [st |-> "none", route |-> NoRoute, keyGen |-> 0, routeGen |-> 0,
     stateGen |-> None, since |-> None]

Settled(r) ==
    [st |-> "settled", route |-> r, keyGen |-> 0, routeGen |-> 0,
     stateGen |-> None, since |-> None]

Lease(r, kg, rg) ==
    [st |-> "live", route |-> r, keyGen |-> kg, routeGen |-> rg,
     stateGen |-> StateGenOf(routes[r]), since |-> now]

Init ==
    /\ now = 0
    /\ tuning \in Tunings
    /\ routes = [r \in Routes |-> NoEntry]
    /\ keys = [k \in Keys |-> NoEntry]
    /\ nextGen = 0
    /\ permit = [p \in Requests |-> NoPermit]
    /\ armed = [p \in Requests |-> NoRoute]

(* The gateway arms at most one last-resort probe, on a route its ledger    *)
(* saw cooling or failing with a transient-family class.                    *)
MayArm(p, r, class) ==
    armed' \in IF armed[p] = NoRoute /\ class \in TransientFamily
                 THEN {armed, [armed EXCEPT ![p] = r]} ELSE {armed}

(* reserve() in passthrough mode: admitted whatever the entries say.        *)
ReservePassthrough(p, r) ==
    /\ permit[p].st = "none" /\ armed[p] # r
    /\ ~tuning.enforced
    /\ permit' = [permit EXCEPT ![p] = Lease(r, 0, 0)]
    /\ UNCHANGED <<now, tuning, routes, keys, nextGen, armed>>

(* reserve() refused by the key (Cooling or HalfOpenBusy): nothing changes. *)
ReserveRefusedByKey(p, r) ==
    LET k == KeyOf[r] IN
    /\ permit[p].st = "none" /\ armed[p] # r
    /\ tuning.enforced
    /\ IsCooling(keys[k]) \/ Busy(keys[k])
    /\ MayArm(p, r, keys[k].fail.class)
    /\ UNCHANGED <<now, tuning, routes, keys, nextGen, permit>>

(* reserve() refused by the route, after the key's expired lease was swept. *)
ReserveRefusedByRoute(p, r) ==
    LET k == KeyOf[r] IN
    /\ permit[p].st = "none" /\ armed[p] # r
    /\ tuning.enforced
    /\ ~IsCooling(keys[k]) /\ ~Busy(keys[k])
    /\ IsCooling(routes[r]) \/ Busy(routes[r])
    /\ keys' = [keys EXCEPT ![k] = DropExpiredLease(@)]
    /\ MayArm(p, r, routes[r].fail.class)
    /\ UNCHANGED <<now, tuning, routes, nextGen, permit>>

(* reserve() granted: a half-open generation for the key and for the route  *)
(* where each is due for a probe, otherwise a lease without a generation.   *)
ReserveGranted(p, r) ==
    LET k == KeyOf[r]
        kg == IF ProbeDue(keys[k]) THEN NextGeneration(nextGen) ELSE 0
        last == IF kg # 0 THEN kg ELSE nextGen
        rg == IF ProbeDue(routes[r]) THEN NextGeneration(last) ELSE 0
        exclusive == now + tuning.window
    IN
    /\ permit[p].st = "none" /\ armed[p] # r
    /\ tuning.enforced
    /\ ~IsCooling(keys[k]) /\ ~Busy(keys[k])
    /\ ~IsCooling(routes[r]) /\ ~Busy(routes[r])
    /\ (IF rg # 0 THEN rg ELSE last) <= MaxGen
    /\ keys' = [keys EXCEPT ![k] = IF kg # 0 THEN HalfOpen(@, kg, exclusive)
                                             ELSE DropExpiredLease(@)]
    /\ routes' = [routes EXCEPT ![r] = IF rg # 0 THEN HalfOpen(@, rg, exclusive)
                                                 ELSE DropExpiredLease(@)]
    /\ nextGen' = IF rg # 0 THEN rg ELSE last
    /\ permit' = [permit EXCEPT ![p] = Lease(r, kg, rg)]
    /\ UNCHANGED <<now, tuning, armed>>

Reserve(p, r) ==
    \/ ReservePassthrough(p, r)
    \/ ReserveRefusedByKey(p, r)
    \/ ReserveRefusedByRoute(p, r)
    \/ ReserveGranted(p, r)

-----------------------------------------------------------------------------
(* reserve_route_health_probe: the last-resort probe of a cooling route.    *)

TakeArm(p) == armed' = [armed EXCEPT ![p] = NoRoute]

(* A probe that does not look at the key's own half-open lease.             *)
ProbeKeyUncooled(k) == ~IsCooling(keys[k])

ProbeKeyFree(k) == ~IsCooling(keys[k]) /\ ~IsActive(keys[k])

(* The method unwraps the failure class of a tracked route before it looks  *)
(* at the cooldown: where there is none it panics and the request is lost.  *)
ProbePanics(p) ==
    /\ permit[p].st = "none" /\ armed[p] # NoRoute
    /\ tuning.enforced
    /\ ProbeKeyFree(KeyOf[armed[p]])
    /\ routes[armed[p]].tracked /\ routes[armed[p]].fail.class = NoClass

ProbeSpaced(s) == s.earlyAt = None \/ now - s.earlyAt >= BusyRetry

ProbeGrantable(r) ==
    LET s == routes[r] IN
    /\ ProbeKeyFree(KeyOf[r])
    /\ s.tracked /\ s.fail.class # NoClass
    /\ ~IsActive(s) /\ IsCooling(s) /\ ProbeSpaced(s)

EarlyProbePassthrough(p) ==
    /\ permit[p].st = "none" /\ armed[p] # NoRoute
    /\ ~tuning.enforced
    /\ permit' = [permit EXCEPT ![p] = Lease(armed[p], 0, 0)]
    /\ TakeArm(p)
    /\ UNCHANGED <<now, tuning, routes, keys, nextGen>>

(* Refused, or lost to the panic: either way the arm is spent and the       *)
(* registry is as it was.                                                   *)
EarlyProbeRefused(p) ==
    /\ permit[p].st = "none" /\ armed[p] # NoRoute
    /\ tuning.enforced
    /\ ~ProbeGrantable(armed[p])
    /\ TakeArm(p)
    /\ UNCHANGED <<now, tuning, routes, keys, nextGen, permit>>

EarlyProbeGranted(p) ==
    LET r == armed[p]
        k == KeyOf[r]
        kg == IF ProbeDue(keys[k]) THEN NextGeneration(nextGen) ELSE 0
        rg == NextGeneration(IF kg # 0 THEN kg ELSE nextGen)
        exclusive == Least(Greatest(routes[r].fail.until, now + tuning.window), now + tuning.ttl)
    IN
    /\ permit[p].st = "none" /\ r # NoRoute
    /\ tuning.enforced
    /\ ProbeGrantable(r)
    /\ rg <= MaxGen
    /\ keys' = [keys EXCEPT ![k] = IF kg # 0 THEN HalfOpen(@, kg, now + tuning.window) ELSE @]
    /\ routes' = [routes EXCEPT ![r] = [HalfOpen(@, rg, exclusive) EXCEPT !.earlyAt = now]]
    /\ nextGen' = rg
    /\ permit' = [permit EXCEPT ![p] = Lease(r, kg, rg)]
    /\ TakeArm(p)
    /\ UNCHANGED <<now, tuning>>

EarlyProbe(p) ==
    \/ EarlyProbePassthrough(p)
    \/ EarlyProbeRefused(p)
    \/ EarlyProbeGranted(p)

(* The round ended before the armed route was reached, or the request did.  *)
Disarm(p) ==
    /\ armed[p] # NoRoute
    /\ TakeArm(p)
    /\ UNCHANGED <<now, tuning, routes, keys, nextGen, permit>>

-----------------------------------------------------------------------------
(* finish(lease, outcome) for each outcome.                                 *)

(* Ownership without comparing the generations.                             *)
HoldsAnyProbe(p) == permit[p].routeGen # 0

OwnsRoute(p) == permit[p].routeGen # 0 /\ routes[permit[p].route].lease.gen = permit[p].routeGen

(* clear_route_for_success: by the owner of the probe, or by a lease-less   *)
(* request that saw the same state_generation.                              *)
SuccessClears(p) ==
    LET s == routes[permit[p].route] IN
    /\ s.tracked
    /\ \/ OwnsRoute(p)
       \/ permit[p].routeGen = 0 /\ permit[p].stateGen = s.stateGen

RouteAfterSuccess(p) ==
    LET s == routes[permit[p].route] IN IF SuccessClears(p) THEN Clear(s) ELSE s

KeyAfterSuccess(p) ==
    LET s == keys[KeyOf[permit[p].route]] IN IF permit[p].keyGen # 0 THEN Clear(s) ELSE s

(* reapply_concurrency_probe_delay: an inconclusive probe of a saturated    *)
(* route puts the delay of the current step back.                           *)
Reapplies(p) == OwnsRoute(p) /\ routes[permit[p].route].fail.class = "ConcurrencySaturated"

Reapplied(s) ==
    LET delay == RouteCooldown("ConcurrencySaturated", s.fail.failures) IN
    [DropLease(s) EXCEPT !.fail.until = now + delay]

ReleaseKey(p) ==
    keys' = [keys EXCEPT ![KeyOf[permit[p].route]] = ReleaseHalfOpen(@, permit[p].keyGen)]

StateGenBound(r) == routes[r].stateGen < MaxGen

Finished(p) == permit' = [permit EXCEPT ![p] = NoPermit]

FinishSuccess(p) ==
    LET r == permit[p].route IN
    /\ permit[p].st = "live"
    /\ routes' = [routes EXCEPT ![r] = RouteAfterSuccess(p)]
    /\ keys' = [keys EXCEPT ![KeyOf[r]] = KeyAfterSuccess(p)]
    /\ Finished(p)
    /\ TakeArm(p)
    /\ UNCHANGED <<now, tuning, nextGen>>

FinishRouteFailure(p, class, retry, repeat, capacitySole, shared) ==
    LET r == permit[p].route IN
    /\ permit[p].st = "live" /\ StateGenBound(r)
    /\ ReleaseKey(p)
    /\ routes' \in ObservedRoutes(routes, r, class, retry, repeat, capacitySole, shared)
    /\ Finished(p)
    /\ MayArm(p, r, class)
    /\ UNCHANGED <<now, tuning, nextGen>>

FinishKeyFailure(p, class, retry) ==
    LET r == permit[p].route IN
    /\ permit[p].st = "live"
    /\ routes' = [routes EXCEPT ![r] = ReleaseHalfOpen(@, permit[p].routeGen)]
    /\ keys' \in ObservedKeys(keys, KeyOf[r], class, retry)
    /\ Finished(p)
    /\ UNCHANGED <<now, tuning, nextGen, armed>>

(* A stream that broke before its verdict: class Transport, always.         *)
FinishUncertain(p) ==
    LET r == permit[p].route IN
    /\ permit[p].st = "live" /\ StateGenBound(r)
    /\ ReleaseKey(p)
    /\ IF Reapplies(p)
       THEN routes' = [routes EXCEPT ![r] = Reapplied(@)]
       ELSE routes' \in ObservedRoutes(routes, r, "Transport", None, FALSE, FALSE, FALSE)
    /\ Finished(p)
    /\ UNCHANGED <<now, tuning, nextGen, armed>>

(* An explicit cancellation, or the task spawned by Drop for Permit.        *)
FinishCancelled(p) ==
    LET r == permit[p].route IN
    /\ permit[p].st \in {"live", "dropped"}
    /\ routes' = [routes EXCEPT ![r] =
                    IF Reapplies(p) THEN Reapplied(@)
                                    ELSE ReleaseHalfOpen(@, permit[p].routeGen)]
    /\ ReleaseKey(p)
    /\ Finished(p)
    /\ UNCHANGED <<now, tuning, nextGen, armed>>

DropPermit(p) ==
    /\ permit[p].st = "live"
    /\ permit' = [permit EXCEPT ![p].st = "dropped"]
    /\ UNCHANGED <<now, tuning, routes, keys, nextGen, armed>>

(* settle_healthy: the success of a stream at its first semantic output.    *)
(* Entries the success cleared leave the map.                               *)
SettleHealthy(p) ==
    LET r == permit[p].route
        RemoveCleared(s) == IF s.tracked /\ IsClear(s) THEN NoEntry ELSE s
    IN
    /\ permit[p].st = "live"
    /\ routes' = [routes EXCEPT ![r] = RemoveCleared(RouteAfterSuccess(p))]
    /\ keys' = [keys EXCEPT ![KeyOf[r]] = RemoveCleared(KeyAfterSuccess(p))]
    /\ permit' = [permit EXCEPT ![p] = Settled(r)]
    /\ TakeArm(p)
    /\ UNCHANGED <<now, tuning, nextGen>>

(* Permit::finish on a settled permit: success and cancellation do nothing, *)
(* a failure is observed without a lease.                                   *)
SettledDone(p) ==
    /\ permit[p].st = "settled"
    /\ Finished(p)
    /\ UNCHANGED <<now, tuning, routes, keys, nextGen, armed>>

SettledRouteFailure(p, class, retry, shared) ==
    LET r == permit[p].route IN
    /\ permit[p].st = "settled" /\ StateGenBound(r)
    /\ routes' \in ObservedRoutes(routes, r, class, retry, FALSE, FALSE, shared)
    /\ Finished(p)
    /\ UNCHANGED <<now, tuning, keys, nextGen, armed>>

SettledKeyFailure(p, class, retry) ==
    /\ permit[p].st = "settled"
    /\ keys' \in ObservedKeys(keys, KeyOf[permit[p].route], class, retry)
    /\ Finished(p)
    /\ UNCHANGED <<now, tuning, routes, nextGen, armed>>

-----------------------------------------------------------------------------
(* clear_route_health: an operator's reset, a common-mode verdict of the    *)
(* gateway, or the model/key sync.                                          *)
ClearRouteHealth(r) ==
    /\ routes' = [routes EXCEPT ![r] = Clear(@)]
    /\ UNCHANGED <<now, tuning, keys, nextGen, permit, armed>>

(* retain_routes after a configuration change that keeps the given routes   *)
(* and keys; entries with an active probe stay.                             *)
Reconcile(currentRoutes, currentKeys) ==
    /\ \A r \in currentRoutes : KeyOf[r] \in currentKeys
    /\ routes' = [r \in Routes |->
                    IF r \in currentRoutes \/ IsActive(routes[r]) THEN routes[r] ELSE NoEntry]
    /\ keys' = [k \in Keys |->
                    IF k \in currentKeys \/ IsActive(keys[k]) THEN keys[k] ELSE NoEntry]
    /\ UNCHANGED <<now, tuning, nextGen, permit, armed>>

(* A tuning update that leaves the running leases alone.                    *)
LeaseUnclamped(s, t) == s

(* update_runtime_tuning: live leases, exclusive windows and cooldowns of   *)
(* TransientServer are cut down to the new limits.                          *)
ClampLease(s, t) ==
    [s EXCEPT !.lease = [gen |-> s.lease.gen,
                         expires |-> Least(s.lease.expires, now + t.ttl),
                         exclusive |-> Least(s.lease.exclusive, now + t.window)]]

ClampCooldown(s, t) ==
    IF s.fail.class = "TransientServer"
    THEN [s EXCEPT !.fail.until = Least(@, now + t.transientMax)] ELSE s

UpdateTuning(t) ==
    /\ t # tuning
    /\ tuning' = t
    /\ routes' = [r \in Routes |-> ClampCooldown(ClampLease(routes[r], t), t)]
    /\ keys' = [k \in Keys |-> ClampLease(keys[k], t)]
    /\ UNCHANGED <<now, nextGen, permit, armed>>

Tick ==
    /\ now < MaxClock
    /\ now' = now + 1
    /\ UNCHANGED <<tuning, routes, keys, nextGen, permit, armed>>

Retries == RetryAfters \cup {None}

Attempt(p) ==
    \/ \E r \in Routes : Reserve(p, r)
    \/ EarlyProbe(p)
    \/ Disarm(p)

Report(p) ==
    \/ FinishSuccess(p)
    \/ \E class \in RouteFailures, retry \in Retries, repeat, sole, shared \in BOOLEAN :
            FinishRouteFailure(p, class, retry, repeat, sole, shared)
    \/ \E class \in KeyFailures, retry \in Retries : FinishKeyFailure(p, class, retry)
    \/ FinishUncertain(p)
    \/ FinishCancelled(p)
    \/ DropPermit(p)
    \/ SettleHealthy(p)
    \/ SettledDone(p)
    \/ \E class \in RouteFailures, retry \in Retries, shared \in BOOLEAN :
            SettledRouteFailure(p, class, retry, shared)
    \/ \E class \in KeyFailures, retry \in Retries : SettledKeyFailure(p, class, retry)

Operator ==
    \/ \E r \in Routes : ClearRouteHealth(r)
    \/ \E R \in SUBSET Routes, K \in SUBSET Keys : Reconcile(R, K)
    \/ \E t \in Tunings : UpdateTuning(t)

Next ==
    \/ \E p \in Requests : Attempt(p) \/ Report(p)
    \/ Operator
    \/ Tick

Spec == Init /\ [][Next]_vars

-----------------------------------------------------------------------------
(* Properties.                                                              *)

(* The type of the state: entries, permits and counters keep their shape     *)
(* through every operation of the registry.                                 *)
TypeOK ==
    /\ now \in 0 .. MaxClock
    /\ tuning \in Tunings
    /\ routes \in [Routes -> HealthState]
    /\ keys \in [Keys -> HealthState]
    /\ nextGen \in 0 .. MaxGen
    /\ permit \in [Requests -> Permit]
    /\ armed \in [Requests -> Routes \cup {NoRoute}]

(* Wherever reserve() unwraps a failure class ("cooling/half-open route/key *)
(* health must retain its failure class"), there is one: an entry that has  *)
(* a cooldown deadline or a half-open lease has a class, although successes,*)
(* resets, capacity observations and cancellations all rewrite the entry.   *)
ClassKept(s) ==
    s.fail.until # None \/ s.lease.gen # 0 => s.fail.class # NoClass
ClassRetained ==
    /\ \A r \in Routes : ClassKept(routes[r])
    /\ \A k \in Keys : ClassKept(keys[k])

Holding(p) == permit[p].st \in {"live", "dropped"}

(* Half-open generations are handed out once: no two permits own the same   *)
(* generation, so at most one request can settle a probe of a route.        *)
OwnerUnique ==
    \A p, q \in Requests : p # q =>
        /\ permit[p].routeGen # 0 => permit[p].routeGen # permit[q].routeGen
        /\ permit[p].keyGen # 0 => permit[p].keyGen # permit[q].keyGen

(* A half-open lease belongs to a request that will still report, or the    *)
(* last word on the entry was a capacity failure, which keeps the lease.    *)
RouteLeaseOwned(r) ==
    routes[r].lease.gen # 0 /\ routes[r].fail.class \notin CapacityClasses =>
        \E p \in Requests :
            Holding(p) /\ permit[p].route = r /\ permit[p].routeGen = routes[r].lease.gen
KeyLeaseOwned(k) ==
    keys[k].lease.gen # 0 /\ keys[k].fail.class \notin CapacityClasses =>
        \E p \in Requests :
            Holding(p) /\ KeyOf[permit[p].route] = k /\ permit[p].keyGen = keys[k].lease.gen
LeaseOwned ==
    /\ \A r \in Routes : RouteLeaseOwned(r)
    /\ \A k \in Keys : KeyLeaseOwned(k)

(* Every lease ends within the half-open TTL in force, also right after an  *)
(* operator shortened it.                                                   *)
LeaseWithinTtl ==
    /\ \A r \in Routes : routes[r].lease.expires <= now + tuning.ttl
    /\ \A k \in Keys : keys[k].lease.expires <= now + tuning.ttl

(* A health-class failure never escalates past the largest configured step, *)
(* whichever mix of repeats, half-open failures and tunings came before.    *)
(* ConcurrencySaturated follows its own probe schedule, and a capacity      *)
(* observation keeps the step of the class it overwrites.                   *)
StepExempt == {"ConcurrencySaturated"} \cup CapacityClasses
StepBounded ==
    \A r \in Routes : routes[r].fail.class \notin StepExempt =>
        \E t \in Tunings : routes[r].fail.failures <= t.maxStep

(* The registry never tracks more routes or keys than its two capacities.   *)
TrackedBounded ==
    /\ Cardinality(Tracked(routes)) <= RouteCapacity
    /\ Cardinality(Tracked(keys)) <= RouteCapacity
    /\ \A u \in Upstreams :
        /\ Cardinality({r \in Tracked(routes) : RouteUpstream[r] = u}) <= PerUpstreamCapacity
        /\ Cardinality({k \in Tracked(keys) : UpstreamOf[k] = u}) <= PerUpstreamCapacity

Admits(p, r) == permit[p].st = "none" /\ permit'[p].st = "live" /\ permit'[p].route = r

(* Inside the exclusive window of a route's probe, or of its key's, no      *)
(* other request is admitted to the route while enforcement is on.          *)
ExclusiveWindow ==
    [][\A p \in Requests, r \in Routes :
        Admits(p, r) /\ tuning.enforced => ~Busy(routes[r]) /\ ~Busy(keys[KeyOf[r]])]_vars

(* Probes are exclusive: the generation of one is owned by one request that *)
(* will still report, and nobody else is let through while its window is    *)
(* open (reserve, finish, cancel).                                          *)
ProbeExclusive == [](OwnerUnique /\ LeaseOwned) /\ ExclusiveWindow

(* Neither the capacity bound nor a configuration change removes an entry   *)
(* whose probe is active: only a success settling it does.                  *)
ProbeNeverEvicted ==
    [][\A r \in Routes :
        IsActive(routes[r]) /\ ~routes'[r].tracked =>
            \E p \in Requests : permit'[p].st = "settled" /\ permit'[p].route = r]_vars

(* What makes room when the registry is full: it stays within its bounds,   *)
(* and never at the expense of a running probe (ensure_route_capacity).     *)
CapacitySafe == []TrackedBounded /\ ProbeNeverEvicted

Succeeds(p) ==
    permit[p].st = "live" /\ permit'[p].st \in {"none", "settled"} /\ (FinishSuccess(p) \/ SettleHealthy(p))

(* The success of a probe never wipes a cooldown that was recorded after    *)
(* the probe was granted.                                                   *)
ProbeSuccessKeepsNewer ==
    [][\A p \in Requests :
        LET s == routes[permit[p].route] IN
        Succeeds(p) /\ permit[p].routeGen # 0 =>
            (IsCooling(s) /\ s.fail.at > permit[p].since /\ s.fail.class \notin CapacityClasses
                => routes'[permit[p].route] = s)]_vars

-----------------------------------------------------------------------------
(* Statements of the code's own texts that it does not keep; each is        *)
(* refuted by a run of its own.                                             *)

(* "cooling route health must retain its failure class": a request that     *)
(* reaches the last-resort probe finds a class to unwrap.                   *)
EarlyProbeFindsClass == \A p \in Requests : ~ProbePanics(p)

(* A second caller is kept out "until the first caller finishes": once the  *)
(* owner of a probe has reported, the route's half-open lease is gone.      *)
FinishedProbeFreesRoute ==
    \A r \in Routes : routes[r].lease.gen # 0 =>
        \E p \in Requests :
            Holding(p) /\ permit[p].route = r /\ permit[p].routeGen = routes[r].lease.gen

(* stale_healthy_success_does_not_clear_newer_concurrency_saturation: a     *)
(* request admitted before a failure does not wipe the cooldown with its    *)
(* late success.                                                            *)
StaleSuccessKeepsRoute ==
    [][\A p \in Requests :
        LET s == routes[permit[p].route] IN
        Succeeds(p) => (IsCooling(s) /\ s.fail.at > permit[p].since
                            => routes'[permit[p].route] = s)]_vars

(* "The late finish of an old lease must not break the new lease": the late *)
(* success of an expired key probe leaves a newer key cooldown alone.       *)
StaleSuccessKeepsKey ==
    [][\A p \in Requests :
        LET s == keys[KeyOf[permit[p].route]] IN
        Succeeds(p) => (IsCooling(s) /\ s.fail.at > permit[p].since
                            => keys'[KeyOf[permit[p].route]] = s)]_vars

=============================================================================
