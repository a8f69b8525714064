----------------------------- MODULE HedgeRace -----------------------------
(***************************************************************************)
(* prefetch_stream_with_hedges (src/src/server/gateway/upstream.rs): a     *)
(* streaming request whose route is slow races further routes for the      *)
(* first usable output.                                                    *)
(*                                                                         *)
(* Attempt 0 is the route the request was dispatched to; attempt i is the  *)
(* i-th hedge candidate, launched in order once the previous launch is     *)
(* old enough or an attempt has failed.  All attempts are futures of one   *)
(* task: the outcome of one is handled before another is polled, and       *)
(* leaving the loop drops the others wherever they are.  A hedge has its   *)
(* own route health permit and its own slot; dropping it drops both.       *)
(***************************************************************************)
EXTENDS Integers, FiniteSets

CONSTANTS
    Candidates,   \* number of route hedge candidates
    ExtraLimit    \* upstream_hedge_max_extra_attempts

ASSUME RaceAssumption == Candidates \in Nat /\ ExtraLimit \in Nat

MaxExtra == IF ExtraLimit < Candidates THEN ExtraLimit ELSE Candidates
Hedges == 1..Candidates
Tries == 0..Candidates

VARIABLES
    try,        \* where each attempt is
    permit,     \* its route health permit: none, held, or how it was finished
    slotHeld,   \* the attempts that hold a concurrency slot
    launched,   \* launched_extra_attempts
    nextTry,    \* next_candidate_index
    watched,   \* the commit tracker of the primary has seen semantic output
    race,       \* racing, won, failed, panicked or abandoned
    sentOut     \* the hedges that were ever sent to an upstream

raceVars == <<try, permit, slotHeld, launched, nextTry, watched, race, sentOut>>

RaceInit ==
    /\ try = [i \in Tries |-> IF i = 0 THEN "sent" ELSE "idle"]
    /\ permit = [i \in Tries |-> IF i = 0 THEN "held" ELSE "none"]
    /\ slotHeld = {0} /\ launched = 0 /\ nextTry = 1
    /\ watched = FALSE /\ race = "racing" /\ sentOut = {}

-----------------------------------------------------------------------------
(* Leaving the loop.                                                        *)

(* The losers dropped, with the permit of the primary left to nobody.       *)
PermitsLeaking(won, p) ==
    [i \in Tries |-> IF p[i] = "held" /\ i \notin {0, won} THEN "cancelled" ELSE p[i]]

(* Dropping an attempt cancels its permit; dispatch_request finishes that   *)
(* of the primary: cancelled when another route won, as its error says when *)
(* the race failed.                                                         *)
PermitsAfter(won, p) ==
    [i \in Tries |-> IF p[i] = "held" /\ i # won THEN "cancelled" ELSE p[i]]

Leave(how, won, p) ==
    /\ race' = how
    /\ permit' = PermitsAfter(won, p)
    /\ slotHeld' = slotHeld \cap {won}
    /\ try' = [i \in Tries |-> IF i = won THEN "won" ELSE "over"]

Nobody == -1

(* No attempt is left in the race and none may be launched.                 *)
Exhausted(t, n) == /\ \A i \in Tries : t[i] \notin {"account", "health", "slot", "sent"}
                   /\ n >= MaxExtra \/ nextTry > Candidates

(* Neither branch of the select is enabled: tokio panics.                   *)
NoBranch(t, n) == /\ \A i \in Tries : t[i] \notin {"account", "health", "slot", "sent"}
                  /\ watched \/ n >= MaxExtra \/ nextTry > Candidates

(* Only a hedge that found no capacity is taken off the count.              *)
Refund(error) == error = "capacity"

(* Attempt i ends in an error; p are the permits with its own finished.  A  *)
(* lost coordination backend ends the race, as does an error of the primary *)
(* that is retried without a stream; after any other the race goes on.      *)
Lost(i, error, p) ==
    LET t == [try EXCEPT ![i] = "over"]
        n == IF i # 0 /\ Refund(error) /\ launched > 0 THEN launched - 1 ELSE launched
    IN  /\ launched' = n
        /\ CASE error \in {"coordination", "unstream"} -> Leave("failed", Nobody, p)
             [] Exhausted(t, n) -> Leave("failed", Nobody, p)
             [] ~ Exhausted(t, n) /\ NoBranch(t, n) -> Leave("panicked", Nobody, p)
             [] OTHER -> /\ try' = t /\ permit' = p
                         /\ slotHeld' = slotHeld \ (IF i = 0 THEN {} ELSE {i})
                         /\ race' = race
        /\ UNCHANGED <<nextTry, watched>>

-----------------------------------------------------------------------------
(* The attempts.                                                            *)

Launch ==
    /\ race = "racing" /\ ~ watched
    /\ launched < MaxExtra /\ nextTry <= Candidates
    /\ try' = [try EXCEPT ![nextTry] = "account"]
    /\ launched' = launched + 1 /\ nextTry' = nextTry + 1
    /\ UNCHANGED <<permit, slotHeld, watched, race, sentOut>>

(* account_requires_recovery                                                *)
CheckAccount(i) ==
    /\ race = "racing" /\ try[i] = "account"
    /\ \/ \E error \in {"recovery", "coordination"} : Lost(i, error, permit)
       \/ /\ try' = [try EXCEPT ![i] = "health"]
          /\ UNCHANGED <<permit, slotHeld, launched, nextTry, watched, race>>
    /\ UNCHANGED sentOut

(* reserve_route_health: cooling, or the half-open route is busy.           *)
ReserveHealth(i) ==
    /\ race = "racing" /\ try[i] = "health"
    /\ \/ \E error \in {"cooling", "coordination"} : Lost(i, error, permit)
       \/ /\ try' = [try EXCEPT ![i] = "slot"]
          /\ permit' = [permit EXCEPT ![i] = "held"]
          /\ UNCHANGED <<slotHeld, launched, nextTry, watched, race>>
    /\ UNCHANGED sentOut

(* try_reserve_upstream_account_hedge: a refusal cancels the permit.        *)
ReserveSlot(i) ==
    /\ race = "racing" /\ try[i] = "slot"
    /\ \/ /\ \E error \in {"capacity", "coordination"} :
                Lost(i, error, [permit EXCEPT ![i] = "cancelled"])
          /\ UNCHANGED sentOut
       \/ /\ try' = [try EXCEPT ![i] = "sent"]
          /\ slotHeld' = slotHeld \cup {i} /\ sentOut' = sentOut \cup {i}
          /\ UNCHANGED <<permit, launched, nextTry, watched, race>>

(* The primary reads an event that counts as semantic output for the commit *)
(* tracker and not as usable output: a message item without any text.       *)
Observe ==
    /\ race = "racing" /\ try[0] = "sent" /\ ~ watched
    /\ watched' = TRUE
    /\ UNCHANGED <<try, permit, slotHeld, launched, nextTry, race, sentOut>>

(* The first usable output.  A JSON answer of a hedge settles its permit    *)
(* first; a stream carries the permit on.                                   *)
Win(i) ==
    /\ race = "racing" /\ try[i] = "sent"
    /\ \/ Leave("won", i, permit)
       \/ i # 0 /\ Leave("won", i, [permit EXCEPT ![i] = "success"])
    /\ UNCHANGED <<launched, nextTry, watched, sentOut>>

(* A sent attempt fails.  A hedge finishes its permit with the failure; the *)
(* primary leaves that to dispatch_request.                                 *)
LoseStream(i) ==
    /\ race = "racing" /\ try[i] = "sent"
    /\ \E error \in {"other", "unstream", "coordination"} :
          /\ i # 0 => error # "unstream"
          /\ Lost(i, error, IF i = 0 THEN permit ELSE [permit EXCEPT ![i] = "failure"])
    /\ UNCHANGED sentOut

(* The client hangs up: the whole future is dropped.                        *)
ClientLeaves ==
    /\ race = "racing"
    /\ Leave("abandoned", Nobody, permit)
    /\ UNCHANGED <<launched, nextTry, watched, sentOut>>

RaceNext ==
    \/ Launch \/ Observe \/ ClientLeaves
    \/ \E i \in Hedges : CheckAccount(i) \/ ReserveHealth(i) \/ ReserveSlot(i)
    \/ \E i \in Tries : Win(i) \/ LoseStream(i)

RaceSpec == RaceInit /\ [][RaceNext]_raceVars

-----------------------------------------------------------------------------
(* Properties.                                                              *)

(* upstream_hedge_max_extra_attempts bounds the hedges that reach an        *)
(* upstream, although a hedge refused for capacity is taken off the count.  *)
HedgesBounded == Cardinality(sentOut) <= MaxExtra

(* When the race is over only its winner holds a permit or a slot, however  *)
(* far the losers had come when they were dropped.                          *)
OnlyWinnerHolds ==
    race # "racing" =>
        \A i \in Tries : permit[i] = "held" \/ i \in slotHeld => race = "won" /\ try[i] = "won"

(* The loop leaves with a winner or an error, unless the commit tracker     *)
(* stopped the launches.                                                    *)
EndsTyped == race = "panicked" => watched

(* stream_commit.rs:6 "exactly one typed failure is emitted if the stream   *)
(* breaks": the loop never runs into a select without a branch.             *)
NeverPanics == race # "panicked"

(* The race for a first output (prefetch_stream_with_hedges) stays within   *)
(* its budget of attempts, leaves nothing with its losers, and ends with a  *)
(* winner or a typed error.                                                 *)
RaceSafe == HedgesBounded /\ OnlyWinnerHolds /\ EndsTyped

(* A primary whose stream broke counts as a failure of its route, also when *)
(* a hedge saved the request.                                               *)
BrokenPrimaryCounts ==
    [][race = "racing" /\ race' = "won" /\ try[0] = "over" => permit'[0] = "failure"]_raceVars
=============================================================================
