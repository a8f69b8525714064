---------------------------- MODULE RedisHealth ----------------------------
(***************************************************************************)
(* The health of one route and of its key, kept in Redis: the scripts      *)
(* route_health_reserve, _probe, _finish and _observe as                   *)
(* src/src/state/redis_runtime.rs calls them.  Only a finish is retried;   *)
(* the reply of a reservation may be lost, and the request then knows      *)
(* nothing of the half-open lease it was given.  Capacity, retention and   *)
(* the record-only modes are those of RouteHealth and are left out.        *)
(***************************************************************************)
EXTENDS Naturals, FiniteSets

CONSTANTS
    Attempts,      \* routed attempts, each with its own lease id
    Cool,          \* the cooldown of a failure
    HalfOpenTtl,   \* route_health_half_open_ttl_ms
    Exclusive,     \* route_health_half_open_exclusive_window_ms
    MaxStep,       \* transient_route_cooldown_max_step
    MaxObserved,   \* failures seen after a request had settled: bound
    LastMoment     \* bound of the clock

ASSUME RedisHealthAssumption ==
    /\ {Cool, HalfOpenTtl, MaxStep} \subseteq Nat \ {0}
    /\ {Exclusive, MaxObserved, LastMoment} \subseteq Nat

VARIABLES
    moment,      \* TIME of the server
    routeState,  \* the route's hash, steps = 0 when it does not exist
    keyState,    \* the key's hash
    generations, \* the generation counter
    attempts,    \* what each attempt knows
    finishes,    \* finish commands under way: <<attempt, try>>
    finished,    \* finish markers
    twice,       \* a finish changed the state a second time
    observed     \* observations made so far

healthVars == <<moment, routeState, keyState, generations, attempts, finishes,
                finished, twice, observed>>

Healthy == [steps |-> 0, gen |-> 0, until |-> 0, lease |-> "none", leaseUntil |-> 0,
            alone |-> 0, pending |-> FALSE]
NewAttempt == [at |-> "new", keyGen |-> 0, routeGen |-> 0, seenGen |-> 0,
               outcome |-> "none", try |-> 0]

HealthInit ==
    /\ moment = 1 /\ routeState = Healthy /\ keyState = Healthy /\ generations = 0
    /\ attempts = [a \in Attempts |-> NewAttempt]
    /\ finishes = {} /\ finished = {} /\ twice = FALSE /\ observed = 0

-----------------------------------------------------------------------------
(* Reservation.                                                            *)

Leased(st) == st.lease # "none" /\ st.leaseUntil > moment
Blocked(st) ==
    st.steps > 0 /\ (st.until > moment \/ (Leased(st) /\ st.alone > moment))
Unleased(st) == [st EXCEPT !.lease = "none", !.leaseUntil = 0, !.alone = 0]

\* A lease is granted on a failed state that carries no live lease.
Grantable(st) == st.steps > 0 /\ ~Leased(st)
LeaseOn(st, a) ==
    IF Grantable(st)
    THEN [st EXCEPT !.lease = a, !.leaseUntil = moment + HalfOpenTtl,
                    !.alone = moment + Exclusive]
    ELSE st

SmallerOf(x, y) == IF x < y THEN x ELSE y
LargerOf(x, y) == IF x > y THEN x ELSE y

\* The reply reaches the attempt, or is lost and the attempt gives up.
Learn(a, keyGen, routeGen) ==
    \/ attempts' = [attempts EXCEPT ![a] =
                      [@ EXCEPT !.at = "held", !.keyGen = keyGen, !.routeGen = routeGen,
                                !.seenGen = routeState.gen]]
    \/ attempts' = [attempts EXCEPT ![a].at = "lost"]

ReserveRouteHealth(a) ==
    /\ attempts[a].at = "new"
    /\ ~Blocked(keyState) /\ ~Blocked(routeState)
    /\ keyState' = LeaseOn(keyState, a)
    /\ routeState' = LeaseOn(routeState, a)
    /\ Learn(a, IF Grantable(keyState) THEN keyState.gen ELSE 0,
                IF Grantable(routeState) THEN routeState.gen ELSE 0)
    /\ UNCHANGED <<moment, generations, finishes, finished, twice, observed>>

\* The early probe of a route that still cools.
ReserveRouteHealthProbe(a) ==
    /\ attempts[a].at = "new"
    /\ ~(keyState.steps > 0 /\ (keyState.until > moment \/ Leased(keyState)))
    /\ routeState.steps > 0 /\ routeState.until > moment /\ ~Leased(routeState)
    /\ keyState' = LeaseOn(keyState, a)
    /\ routeState' =
        [routeState EXCEPT !.lease = a, !.leaseUntil = moment + HalfOpenTtl,
           !.alone = SmallerOf(moment + HalfOpenTtl,
                               LargerOf(routeState.until, moment + Exclusive))]
    /\ Learn(a, IF keyState.steps > 0 THEN keyState.gen ELSE 0, routeState.gen)
    /\ UNCHANGED <<moment, generations, finishes, finished, twice, observed>>

-----------------------------------------------------------------------------
(* Outcomes.                                                               *)

\* observe: a further step within the streak, a new generation, no lease.
Failed(st, gen) ==
    LET step == SmallerOf(MaxStep, st.steps + 1)
    IN  [Healthy EXCEPT !.steps = step, !.gen = gen, !.until = moment + Cool * step]

\* A lease of this attempt is given back.
GiveBack(st, gen) == IF gen = 0 THEN st ELSE Unleased(st)

\* owns: the lease, its generation and the state's generation.
Owned(st, a, gen) == gen = 0 \/ (st.lease = a /\ st.gen = gen)

\* Mutant: a success without a lease clears whatever it finds.
ClearsAny(r) == TRUE

\* A success without a lease clears only the state it was admitted under.
ClearsSeen(r) == r.routeGen # 0 \/ (r.seenGen # 0 /\ routeState.gen = r.seenGen)

\* What the finish makes of the route and of the key.
RouteAfter(r) ==
    CASE routeState.pending -> Healthy
      [] r.outcome = "success" -> IF ClearsSeen(r) THEN Healthy ELSE routeState
      [] r.outcome = "route_failure" -> Failed(routeState, generations + 1)
      [] OTHER -> GiveBack(routeState, r.routeGen)

KeyAfter(r) ==
    CASE keyState.pending -> Healthy
      [] r.outcome = "success" -> IF r.keyGen # 0 THEN Healthy ELSE keyState
      [] r.outcome = "key_failure" -> Failed(keyState, generations + 1)
      [] OTHER -> GiveBack(keyState, r.keyGen)

Committed(a) == a \in finished

\* route_health_finish.lua
FinishScript(a) ==
    LET r == attempts[a]
        owner == Owned(keyState, a, r.keyGen) /\ Owned(routeState, a, r.routeGen)
    IN  \/ /\ Committed(a)
           /\ UNCHANGED <<routeState, keyState, generations, finished, twice>>
        \/ /\ ~Committed(a) /\ ~owner
           /\ finished' = finished \cup {a}
           /\ UNCHANGED <<routeState, keyState, generations, twice>>
        \/ /\ ~Committed(a) /\ owner
           /\ routeState' = RouteAfter(r) /\ keyState' = KeyAfter(r)
           /\ generations' = IF r.outcome \in {"route_failure", "key_failure"}
                             THEN generations + 1 ELSE generations
           /\ finished' = finished \cup {a}
           /\ twice' = (twice \/ a \in finished)

StartFinish(a) ==
    /\ attempts[a].at = "held"
    /\ \E outcome \in {"success", "route_failure", "key_failure", "cancelled"} :
        attempts' = [attempts EXCEPT ![a] =
                        [@ EXCEPT !.at = "finishing", !.outcome = outcome, !.try = 1]]
    /\ finishes' = finishes \cup {<<a, 1>>}
    /\ UNCHANGED <<moment, routeState, keyState, generations, finished, twice, observed>>

\* A finish runs; the reply ends the attempt, or is lost.
RunFinish(cmd) ==
    /\ cmd \in finishes
    /\ finishes' = finishes \ {cmd}
    /\ FinishScript(cmd[1])
    /\ \/ UNCHANGED attempts
       \/ /\ attempts[cmd[1]].at = "finishing" /\ attempts[cmd[1]].try = cmd[2]
          /\ attempts' = [attempts EXCEPT ![cmd[1]].at = "end"]
    /\ UNCHANGED <<moment, observed>>

RetryFinish(a) ==
    /\ attempts[a].at = "finishing" /\ attempts[a].try = 1
    /\ attempts' = [attempts EXCEPT ![a].try = 2]
    /\ finishes' = finishes \cup {<<a, 2>>}
    /\ UNCHANGED <<moment, routeState, keyState, generations, finished, twice, observed>>

GiveUpFinish(a) ==
    /\ attempts[a].at = "finishing"
    /\ attempts' = [attempts EXCEPT ![a].at = "end"]
    /\ UNCHANGED <<moment, routeState, keyState, generations, finishes, finished, twice,
                   observed>>

\* observe_route_failure: a failure of a stream whose attempt had settled.
ObserveRouteFailure ==
    /\ observed < MaxObserved /\ observed' = observed + 1
    /\ routeState' = Failed(routeState, generations + 1)
    /\ generations' = generations + 1
    /\ UNCHANGED <<moment, keyState, attempts, finishes, finished, twice>>

\* clear_route_health, and a reconcile that drops the route.
ReconcileRouteHealth ==
    /\ routeState.steps > 0
    /\ routeState' = IF Leased(routeState) THEN [routeState EXCEPT !.pending = TRUE]
                                           ELSE Healthy
    /\ UNCHANGED <<moment, keyState, generations, attempts, finishes, finished, twice,
                   observed>>

HealthTick ==
    /\ moment < LastMoment /\ moment' = moment + 1
    /\ UNCHANGED <<routeState, keyState, generations, attempts, finishes, finished, twice,
                   observed>>

HealthNext ==
    \/ \E a \in Attempts : ReserveRouteHealth(a) \/ ReserveRouteHealthProbe(a)
                           \/ StartFinish(a) \/ RetryFinish(a) \/ GiveUpFinish(a)
    \/ \E cmd \in finishes : RunFinish(cmd)
    \/ ObserveRouteFailure \/ ReconcileRouteHealth \/ HealthTick

HealthSpec == HealthInit /\ [][HealthNext]_healthVars

-----------------------------------------------------------------------------
(* A finish counts once, even when its first execution was acknowledged to  *)
(* nobody and it is sent again, or runs after the retry.                    *)
FinishCountsOnce == ~twice

(* The success of an attempt never erases a failure that was recorded after *)
(* the attempt was admitted: what a finish clears is the state its attempt  *)
(* was admitted under.                                                      *)
NewerFailureSurvivesSuccess ==
    [][\A a \in Attempts :
         /\ attempts[a].outcome = "success"
         /\ \E nth \in {1, 2} : <<a, nth>> \in finishes \ finishes'
         /\ routeState.gen > attempts[a].seenGen /\ ~routeState.pending
         => routeState'.steps > 0]_healthVars

(* A finish counts once, and a success leaves the failures recorded after   *)
(* its attempt was admitted.                                                *)
FinishesTrue == []FinishCountsOnce /\ NewerFailureSurvivesSuccess
=============================================================================
