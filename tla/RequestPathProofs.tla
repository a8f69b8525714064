------------------------- MODULE RequestPathProofs -------------------------
(***************************************************************************)
(* Proofs about what a request meets on its way.                           *)
(*                                                                         *)
(* HedgeRace: the race of its stream with the hedges.  RedisLeases,        *)
(* RedisHealth and RedisAccount: what the scripts keep under lost answers  *)
(* and retries.  Conversation and ResponseHistory: what is kept of earlier *)
(* answers and sent on.  ResponsesToChat and ChatToResponses: what the     *)
(* client gets of an answer.                                               *)
(***************************************************************************)
EXTENDS HedgeRace, RedisLeases, RedisHealth, RedisAccount, Conversation, ResponsesToChat,
        ChatToResponses, ResponseHistory, FiniteSetTheorems, SequenceTheorems, WellFoundedInduction, TLAPS

-----------------------------------------------------------------------------
(* HedgeRace.                                                               *)

TryStates == {"idle", "account", "health", "slot", "sent", "won", "over"}

(* The hedges on their way to an upstream.                                  *)
OnTheWay == {i \in Hedges : try[i] \in {"account", "health", "slot"}}

RaceTyped ==
    /\ try \in [Tries -> TryStates]
    /\ DOMAIN permit = Tries
    /\ launched \in 0..MaxExtra
    /\ nextTry \in 1..(Candidates + 1)
    /\ sentOut \subseteq Hedges

(* The count of launches covers the hedges that were sent and those still   *)
(* on their way: only a hedge that will never be sent is taken off it.      *)
CountCovers ==
    /\ Cardinality(sentOut \cup OnTheWay) <= launched
    /\ sentOut \cap OnTheWay = {}
    /\ \A i \in sentOut \cup OnTheWay : i < nextTry

RaceInv == RaceTyped /\ CountCovers /\ OnlyWinnerHolds /\ EndsTyped

(* The limit of hedges is a natural number.                                 *)
LEMMA MaxExtraNat == MaxExtra \in Nat
BY RaceAssumption DEF MaxExtra

(* A set of hedges is finite; what is left of it, with one hedge more or    *)
(* one less, is counted accordingly.                                        *)
LEMMA HedgesCounted ==
  ASSUME NEW S \in SUBSET Hedges
  PROVE  /\ IsFiniteSet(S) /\ Cardinality(S) \in Nat
         /\ \A T \in SUBSET S : IsFiniteSet(T) /\ Cardinality(T) <= Cardinality(S)
         /\ \A x \in Hedges : Cardinality(S \cup {x}) <= Cardinality(S) + 1
         /\ \A x \in S : Cardinality(S \ {x}) = Cardinality(S) - 1
<1>1. IsFiniteSet(Hedges)
  BY RaceAssumption, FS_Interval DEF Hedges
<1>2. IsFiniteSet(S) /\ Cardinality(S) \in Nat
  BY <1>1, FS_Subset, FS_CardinalityType
<1>3. \A T \in SUBSET S : IsFiniteSet(T) /\ Cardinality(T) <= Cardinality(S)
  BY <1>2, FS_Subset
<1>4. \A x \in Hedges : Cardinality(S \cup {x}) <= Cardinality(S) + 1
  <2> TAKE x \in Hedges
  <2>1. Cardinality(S \cup {x}) = IF x \in S THEN Cardinality(S) ELSE Cardinality(S) + 1
    BY <1>2, FS_AddElement
  <2> QED BY <1>2, <2>1
<1>5. \A x \in S : Cardinality(S \ {x}) = Cardinality(S) - 1
  BY <1>2, FS_RemoveElement
<1> QED
  BY <1>2, <1>3, <1>4, <1>5

(* The loop is left: nobody but the winner keeps anything.                  *)
LEMMA LeaveKeeps ==
  ASSUME NEW how \in {"won", "failed", "panicked", "abandoned"}, NEW won, NEW p, Leave(how, won, p),
         DOMAIN p = Tries, how # "won" => won = Nobody
  PROVE  /\ try' \in [Tries -> TryStates] /\ DOMAIN permit' = Tries
         /\ OnTheWay' = {} /\ OnlyWinnerHolds' /\ race' = how
<1>1. /\ race' = how /\ permit' = PermitsAfter(won, p) /\ slotHeld' = slotHeld \cap {won}
      /\ try' = [i \in Tries |-> IF i = won THEN "won" ELSE "over"]
  BY DEF Leave
<1>2. try' \in [Tries -> TryStates] /\ DOMAIN permit' = Tries
  BY <1>1 DEF TryStates, PermitsAfter
<1>3. OnTheWay' = {}
  <2>1. Hedges \subseteq Tries
    BY RaceAssumption DEF Hedges, Tries
  <2> QED BY <1>1, <2>1 DEF OnTheWay
<1>4. OnlyWinnerHolds'
  <2> SUFFICES ASSUME NEW i \in Tries, permit'[i] = "held" \/ i \in slotHeld'
               PROVE  how = "won" /\ try'[i] = "won"
    BY <1>1 DEF OnlyWinnerHolds
  <2>1. i = won
    BY <1>1 DEF PermitsAfter
  <2>2. won # Nobody
    BY <2>1, RaceAssumption DEF Tries, Nobody
  <2> QED BY <1>1, <2>1, <2>2
<1> QED
  BY <1>1, <1>2, <1>3, <1>4

(* An attempt that ends in an error: the race goes on, or is left with a    *)
(* typed error; only the commit tracker can leave it without a branch.      *)
LEMMA LostKeeps ==
  ASSUME RaceInv, race = "racing", NEW i \in Tries, NEW error, NEW p, Lost(i, error, p),
         DOMAIN p = Tries, sentOut' = sentOut,
         error = "capacity" => i \in OnTheWay
  PROVE  RaceInv'
<1> DEFINE t == [try EXCEPT ![i] = "over"]
           n == IF i # 0 /\ Refund(error) /\ launched > 0 THEN launched - 1 ELSE launched
<1>1. /\ launched' = n /\ UNCHANGED <<nextTry, watched>>
      /\ \/ Leave("failed", Nobody, p)
         \/ ~Exhausted(t, n) /\ NoBranch(t, n) /\ Leave("panicked", Nobody, p)
         \/ try' = t /\ permit' = p /\ race' = race
  BY DEF Lost
<1>2. /\ try \in [Tries -> TryStates] /\ launched \in 0..MaxExtra /\ MaxExtra \in Nat
      /\ sentOut \subseteq Hedges /\ OnTheWay \subseteq Hedges
      /\ Cardinality(sentOut \cup OnTheWay) <= launched /\ sentOut \cap OnTheWay = {}
      /\ \A j \in sentOut \cup OnTheWay : j < nextTry
  BY MaxExtraNat DEF RaceInv, RaceTyped, CountCovers, OnTheWay
<1>3. n \in 0..MaxExtra
  BY <1>2
<1>4. try' \in [Tries -> TryStates] /\ DOMAIN permit' = Tries
      /\ OnTheWay' \subseteq OnTheWay \ {i} /\ OnlyWinnerHolds'
  <2>1. CASE \E how \in {"failed", "panicked"} : Leave(how, Nobody, p)
    BY <2>1, LeaveKeeps
  <2>2. CASE try' = t /\ permit' = p /\ race' = race
    <3>1. try' \in [Tries -> TryStates] /\ try'[i] = "over" /\ \A j \in Tries \ {i} : try'[j] = try[j]
      BY <1>2, <2>2 DEF TryStates
    <3>2. Hedges \subseteq Tries
      BY RaceAssumption DEF Hedges, Tries
    <3> QED BY <2>2, <3>1, <3>2 DEF OnTheWay, OnlyWinnerHolds
  <2> QED BY <1>1, <2>1, <2>2
<1>5. EndsTyped'
  <2>1. CASE race' # "panicked"
    BY <2>1 DEF EndsTyped
  <2>2. CASE ~Exhausted(t, n) /\ NoBranch(t, n)
    BY <1>1, <2>2 DEF Exhausted, NoBranch, EndsTyped
  <2>3. Leave("failed", Nobody, p) => race' # "panicked"
    BY DEF Leave
  <2> QED BY <1>1, <2>1, <2>2, <2>3
<1>6. RaceTyped'
  BY <1>1, <1>2, <1>3, <1>4 DEF RaceInv, RaceTyped
<1>7. CountCovers'
  <2> DEFINE S == sentOut \cup OnTheWay
  <2>1. /\ sentOut' \cup OnTheWay' \subseteq S /\ sentOut' \cap OnTheWay' = {}
        /\ S \in SUBSET Hedges
    BY <1>2, <1>4
  <2>2. CASE n = launched
    BY <1>1, <1>2, <2>1, <2>2, HedgesCounted DEF CountCovers
  <2>3. CASE n = launched - 1 /\ error = "capacity"
    <3>1. i \in OnTheWay /\ i \in S /\ i \notin sentOut
      BY <1>2, <2>3
    <3>2. sentOut' \cup OnTheWay' \subseteq S \ {i}
      BY <1>4, <3>1
    <3>3. Cardinality(S \ {i}) = Cardinality(S) - 1 /\ Cardinality(S) \in Nat
      BY <2>1, <3>1, HedgesCounted
    <3>4. Cardinality(sentOut' \cup OnTheWay') <= Cardinality(S \ {i})
          /\ Cardinality(sentOut' \cup OnTheWay') \in Nat
      BY <2>1, <3>2, HedgesCounted
    <3> QED BY <1>1, <1>2, <2>1, <2>3, <3>3, <3>4 DEF CountCovers
  <2> QED BY <2>2, <2>3 DEF Refund
<1> QED
  BY <1>4, <1>5, <1>6, <1>7 DEF RaceInv

(* A hedge that gets one step further stays on its way or is sent.          *)
LEMMA FurtherKeeps ==
  ASSUME RaceInv, race = "racing", NEW i \in Hedges, i \in OnTheWay,
         NEW s \in {"health", "slot", "sent"}, try' = [try EXCEPT ![i] = s],
         DOMAIN permit' = Tries, UNCHANGED <<launched, nextTry, watched, race>>,
         sentOut' = IF s = "sent" THEN sentOut \cup {i} ELSE sentOut
  PROVE  RaceInv'
<1>1. /\ try \in [Tries -> TryStates] /\ Hedges \subseteq Tries /\ sentOut \subseteq Hedges
      /\ Cardinality(sentOut \cup OnTheWay) <= launched /\ sentOut \cap OnTheWay = {}
      /\ \A j \in sentOut \cup OnTheWay : j < nextTry
  BY RaceAssumption DEF RaceInv, RaceTyped, CountCovers, Hedges, Tries
<1>2. try' \in [Tries -> TryStates] /\ try'[i] = s /\ \A j \in Tries \ {i} : try'[j] = try[j]
  BY <1>1 DEF TryStates
<1>3. OnTheWay' = IF s = "sent" THEN OnTheWay \ {i} ELSE OnTheWay
  BY <1>1, <1>2 DEF OnTheWay
<1>4. sentOut' \cup OnTheWay' = sentOut \cup OnTheWay /\ sentOut' \cap OnTheWay' = {}
  BY <1>1, <1>3
<1>5. CountCovers'
  BY <1>1, <1>4 DEF CountCovers
<1>6. RaceTyped'
  BY <1>1, <1>2 DEF RaceInv, RaceTyped
<1> QED
  BY <1>5, <1>6 DEF RaceInv, OnlyWinnerHolds, EndsTyped

(* Leaving the loop keeps the counts.                                       *)
LEMMA LeftKeeps ==
  ASSUME RaceInv, NEW how \in {"won", "abandoned"}, NEW won, NEW p, Leave(how, won, p),
         DOMAIN p = Tries, how # "won" => won = Nobody,
         UNCHANGED <<launched, nextTry, watched, sentOut>>
  PROVE  RaceInv'
<1>1. /\ try' \in [Tries -> TryStates] /\ DOMAIN permit' = Tries
      /\ OnTheWay' = {} /\ OnlyWinnerHolds' /\ race' = how
  BY LeaveKeeps
<1>2. sentOut' \cup OnTheWay' \subseteq sentOut \cup OnTheWay /\ sentOut \cup OnTheWay \in SUBSET Hedges
  BY <1>1 DEF RaceInv, RaceTyped, OnTheWay
<1>3. /\ Cardinality(sentOut' \cup OnTheWay') <= Cardinality(sentOut \cup OnTheWay)
      /\ Cardinality(sentOut \cup OnTheWay) \in Nat
      /\ Cardinality(sentOut' \cup OnTheWay') \in Nat
  BY <1>2, HedgesCounted
<1>4. /\ launched \in Nat /\ Cardinality(sentOut \cup OnTheWay) <= launched
      /\ \A j \in sentOut \cup OnTheWay : j < nextTry
  BY MaxExtraNat DEF RaceInv, RaceTyped, CountCovers
<1>5. CountCovers'
  BY <1>1, <1>2, <1>3, <1>4 DEF CountCovers
<1>6. RaceTyped'
  BY <1>1 DEF RaceInv, RaceTyped
<1> QED
  BY <1>1, <1>5, <1>6 DEF RaceInv, EndsTyped

(* Each step of the loop and of its attempts.                               *)
LEMMA RaceSteps ==
  ASSUME RaceInv, [RaceNext]_raceVars
  PROVE  RaceInv'
<1>0. /\ try \in [Tries -> TryStates] /\ DOMAIN permit = Tries /\ launched \in 0..MaxExtra
      /\ MaxExtra \in Nat /\ Candidates \in Nat
      /\ nextTry \in 1..(Candidates + 1) /\ sentOut \subseteq Hedges
      /\ Hedges \subseteq Tries /\ OnTheWay \subseteq Hedges
      /\ Cardinality(sentOut \cup OnTheWay) <= launched /\ sentOut \cap OnTheWay = {}
      /\ \A j \in sentOut \cup OnTheWay : j < nextTry
  BY MaxExtraNat, RaceAssumption DEF RaceInv, RaceTyped, CountCovers, OnTheWay, Hedges, Tries
<1>1. CASE Launch
  <2>1. /\ race = "racing" /\ launched < MaxExtra /\ nextTry <= Candidates
        /\ try' = [try EXCEPT ![nextTry] = "account"]
        /\ launched' = launched + 1 /\ nextTry' = nextTry + 1
        /\ UNCHANGED <<permit, slotHeld, watched, race, sentOut>>
    BY <1>1 DEF Launch
  <2>2. nextTry \in Hedges
    BY <1>0, <2>1 DEF Hedges
  <2>3. try' \in [Tries -> TryStates] /\ OnTheWay' = OnTheWay \cup {nextTry}
    BY <1>0, <2>1, <2>2 DEF OnTheWay, TryStates
  <2>4. RaceTyped'
    BY <1>0, <2>1, <2>3 DEF RaceTyped
  <2>5. nextTry \notin sentOut
    BY <1>0
  <2>6. sentOut' \cup OnTheWay' = (sentOut \cup OnTheWay) \cup {nextTry}
    BY <2>1, <2>3
  <2>7. /\ Cardinality((sentOut \cup OnTheWay) \cup {nextTry}) <= Cardinality(sentOut \cup OnTheWay) + 1
        /\ Cardinality(sentOut \cup OnTheWay) \in Nat
        /\ Cardinality((sentOut \cup OnTheWay) \cup {nextTry}) \in Nat
    <3>1. sentOut \cup OnTheWay \in SUBSET Hedges /\ (sentOut \cup OnTheWay) \cup {nextTry} \in SUBSET Hedges
      BY <1>0, <2>2
    <3> QED BY <2>2, <3>1, HedgesCounted
  <2>8. CountCovers'
    <3>1. sentOut' \cap OnTheWay' = {}
      BY <1>0, <2>1, <2>3, <2>5
    <3>2. \A j \in sentOut' \cup OnTheWay' : j < nextTry'
      BY <1>0, <2>1, <2>2, <2>6 DEF Hedges
    <3>3. Cardinality(sentOut' \cup OnTheWay') <= launched'
      <4>1. Cardinality(sentOut' \cup OnTheWay') = Cardinality((sentOut \cup OnTheWay) \cup {nextTry})
        BY <2>6
      <4> QED BY <1>0, <2>1, <2>7, <4>1
    <3> QED BY <3>1, <3>2, <3>3 DEF CountCovers
  <2> QED BY <2>1, <2>4, <2>8 DEF RaceInv, OnlyWinnerHolds, EndsTyped
<1>2. CASE Observe
  BY <1>0, <1>2 DEF Observe, RaceInv, RaceTyped, CountCovers, OnTheWay, OnlyWinnerHolds, EndsTyped
<1>3. CASE ClientLeaves
  BY <1>0, <1>3, LeftKeeps DEF ClientLeaves
<1>4. ASSUME NEW i \in Hedges, CheckAccount(i) PROVE RaceInv'
  <2>1. race = "racing" /\ try[i] = "account" /\ sentOut' = sentOut /\ i \in OnTheWay /\ i \in Tries
    BY <1>0, <1>4 DEF CheckAccount, OnTheWay
  <2>2. CASE \E error \in {"recovery", "coordination"} : Lost(i, error, permit)
    BY <1>0, <2>1, <2>2, LostKeeps
  <2>3. CASE /\ try' = [try EXCEPT ![i] = "health"]
             /\ UNCHANGED <<permit, slotHeld, launched, nextTry, watched, race>>
    BY <1>0, <2>1, <2>3, FurtherKeeps
  <2> QED BY <1>4, <2>2, <2>3 DEF CheckAccount
<1>5. ASSUME NEW i \in Hedges, ReserveHealth(i) PROVE RaceInv'
  <2>1. race = "racing" /\ try[i] = "health" /\ sentOut' = sentOut /\ i \in OnTheWay /\ i \in Tries
    BY <1>0, <1>5 DEF ReserveHealth, OnTheWay
  <2>2. CASE \E error \in {"cooling", "coordination"} : Lost(i, error, permit)
    BY <1>0, <2>1, <2>2, LostKeeps
  <2>3. CASE /\ try' = [try EXCEPT ![i] = "slot"] /\ permit' = [permit EXCEPT ![i] = "held"]
             /\ UNCHANGED <<slotHeld, launched, nextTry, watched, race>>
    <3>1. DOMAIN permit' = Tries
      BY <1>0, <2>3
    <3> QED BY <2>1, <2>3, <3>1, FurtherKeeps
  <2> QED BY <1>5, <2>2, <2>3 DEF ReserveHealth
<1>6. ASSUME NEW i \in Hedges, ReserveSlot(i) PROVE RaceInv'
  <2>1. race = "racing" /\ try[i] = "slot" /\ i \in OnTheWay /\ i \in Tries
    BY <1>0, <1>6 DEF ReserveSlot, OnTheWay
  <2>2. CASE /\ \E error \in {"capacity", "coordination"} :
                   Lost(i, error, [permit EXCEPT ![i] = "cancelled"])
             /\ UNCHANGED sentOut
    <3>1. DOMAIN [permit EXCEPT ![i] = "cancelled"] = Tries
      BY <1>0
    <3> QED BY <2>1, <2>2, <3>1, LostKeeps
  <2>3. CASE /\ try' = [try EXCEPT ![i] = "sent"] /\ sentOut' = sentOut \cup {i}
             /\ UNCHANGED <<permit, launched, nextTry, watched, race>>
    BY <1>0, <2>1, <2>3, FurtherKeeps
  <2> QED BY <1>6, <2>2, <2>3 DEF ReserveSlot
<1>7. ASSUME NEW i \in Tries, Win(i) PROVE RaceInv'
  <2>1. DOMAIN [permit EXCEPT ![i] = "success"] = Tries
    BY <1>0
  <2>2. UNCHANGED <<launched, nextTry, watched, sentOut>>
    BY <1>7 DEF Win
  <2>3. CASE Leave("won", i, permit)
    BY <1>0, <2>2, <2>3, LeftKeeps
  <2>4. CASE Leave("won", i, [permit EXCEPT ![i] = "success"])
    BY <2>1, <2>2, <2>4, LeftKeeps
  <2> QED BY <1>7, <2>3, <2>4 DEF Win
<1>8. ASSUME NEW i \in Tries, LoseStream(i) PROVE RaceInv'
  <2> DEFINE p == IF i = 0 THEN permit ELSE [permit EXCEPT ![i] = "failure"]
  <2>1. DOMAIN p = Tries
    BY <1>0
  <2>2. PICK error \in {"other", "unstream", "coordination"} : Lost(i, error, p)
    BY <1>8 DEF LoseStream
  <2>3. race = "racing" /\ sentOut' = sentOut
    BY <1>8 DEF LoseStream
  <2> HIDE DEF p
  <2> QED BY <2>1, <2>2, <2>3, LostKeeps
<1>9. CASE UNCHANGED raceVars
  BY <1>9 DEF raceVars, RaceInv, RaceTyped, CountCovers, OnTheWay, OnlyWinnerHolds, EndsTyped
<1> QED
  BY <1>1, <1>2, <1>3, <1>4, <1>5, <1>6, <1>7, <1>8, <1>9 DEF RaceNext

(* For any number of candidates and any limit: the race of a stream for its *)
(* first output sends no more hedges than                                   *)
(* upstream_hedge_max_extra_attempts although refusals are refunded, leaves *)
(* no permit and no slot with a loser wherever it was dropped, and ends     *)
(* with a winner or a typed error unless the commit tracker stopped it      *)
(* (prefetch_stream_with_hedges).                                           *)
THEOREM RaceIsSafe == RaceSpec => []RaceSafe
<1>1. RaceInit => RaceInv
  <2> SUFFICES ASSUME RaceInit PROVE RaceInv
    OBVIOUS
  <2>1. Hedges \subseteq Tries /\ 0 \notin Hedges
    BY RaceAssumption DEF Hedges, Tries
  <2>2. OnTheWay = {} /\ sentOut = {}
    BY <2>1 DEF RaceInit, OnTheWay
  <2>3. CountCovers
    BY <2>2, FS_EmptySet DEF RaceInit, CountCovers
  <2>4. RaceTyped
    BY RaceAssumption, MaxExtraNat DEF RaceInit, RaceTyped, TryStates
  <2> QED BY <2>3, <2>4 DEF RaceInit, RaceInv, OnlyWinnerHolds, EndsTyped
<1>2. RaceInv /\ [RaceNext]_raceVars => RaceInv'
  BY RaceSteps
<1>3. RaceInv => RaceSafe
  <2> SUFFICES ASSUME RaceInv PROVE HedgesBounded
    BY DEF RaceInv, RaceSafe
  <2> DEFINE S == sentOut \cup OnTheWay
  <2>1. /\ sentOut \in SUBSET Hedges /\ S \in SUBSET Hedges /\ sentOut \in SUBSET S
        /\ Cardinality(S) <= launched /\ launched \in 0..MaxExtra /\ MaxExtra \in Nat
    BY MaxExtraNat DEF RaceInv, RaceTyped, CountCovers, OnTheWay
  <2>2. /\ Cardinality(sentOut) <= Cardinality(S)
        /\ Cardinality(sentOut) \in Nat /\ Cardinality(S) \in Nat
    BY <2>1, HedgesCounted
  <2> QED BY <2>1, <2>2 DEF HedgesBounded
<1> QED
  BY <1>1, <1>2, <1>3, PTL DEF RaceSpec

-----------------------------------------------------------------------------
(* RedisLeases.                                                             *)

ScriptOps == {"reserve", "renew", "refund", "release", "drop"}

LeasesTyped ==
    /\ side \in {"downstream", "upstream"}
    /\ redisNow \in Nat \ {0} /\ released \subseteq Calls
    /\ bucketUntil \in [Calls -> Nat] /\ totalUntil \in [Calls -> Nat] /\ beat \in [Calls -> Nat]
    /\ wire \subseteq [call : Calls, op : ScriptOps, attempt : {1, 2}]
    /\ caller \in [Calls -> [op : ScriptOps, attempt : {1, 2}]
                              \cup {At(op) : op \in {"new", "held", "ending", "gone"}}]

(* The calls whose reservation was granted once.                            *)
Granted == counted \cup refunded

(* How long a lease counts without a heartbeat.                             *)
Window == IF side = "upstream" /\ StaleAfter < RedisLeaseTtl THEN StaleAfter ELSE RedisLeaseTtl

(* A lease lasts from its last beat, and the aggregate has it from its      *)
(* bucket or not at all.                                                    *)
LeaseFromBeat ==
    \A c \in Calls :
        /\ beat[c] <= redisNow
        /\ bucketUntil[c] \in {0, beat[c] + RedisLeaseTtl}
        /\ totalUntil[c] \in {0, bucketUntil[c]}

(* Whoever has a lease was granted one; whoever was granted one and has not *)
(* released it has lost it only by not beating.                             *)
GrantedLease ==
    \A c \in Calls :
        /\ bucketUntil[c] # 0 => c \in Granted
        /\ c \in Granted \ released /\ redisNow < beat[c] + Window => bucketUntil[c] # 0
        /\ c \in released => c \in Granted
        /\ c \in released \ refunded => bucketUntil[c] = 0

(* Only a call that was granted its lease renews, refunds or releases it,   *)
(* on whatever connection the command still lingers.                        *)
OnlyGrantedAct ==
    /\ \A cmd \in wire : cmd.op # "reserve" => cmd.call \in Granted
    /\ \A c \in Calls : caller[c].op \notin {"new", "gone", "reserve"} => c \in Granted

LeasesInv == LeasesTyped /\ LeaseFromBeat /\ GrantedLease /\ OnlyGrantedAct

(* What a script may do to the leases before it grants one: drop a lease    *)
(* that did not beat within its window, from its bucket and then also from  *)
(* the aggregate, or from the aggregate alone.                              *)
SweptPair(inBucket, inTotal) ==
    /\ inBucket \in [Calls -> Nat] /\ inTotal \in [Calls -> Nat]
    /\ \A d \in Calls :
          /\ inBucket[d] \in {0, bucketUntil[d]} /\ inTotal[d] \in {0, inBucket[d]}
          /\ bucketUntil[d] # 0 /\ inBucket[d] = 0 => ~(redisNow < beat[d] + Window)

(* Facts about the constants and the numbers of one lease.                  *)
LEMMA LeaseNumbers ==
  ASSUME LeasesInv
  PROVE  /\ RedisLeaseTtl \in Nat \ {0} /\ StaleAfter \in Nat /\ redisNow \in Nat \ {0}
         /\ Window \in Nat /\ Window <= RedisLeaseTtl
         /\ \A d \in Calls : /\ beat[d] \in Nat /\ bucketUntil[d] \in Nat /\ totalUntil[d] \in Nat
                             /\ beat[d] <= redisNow
                             /\ bucketUntil[d] \in {0, beat[d] + RedisLeaseTtl}
                             /\ totalUntil[d] \in {0, bucketUntil[d]}
BY RedisLeasesAssumption DEF LeasesInv, LeasesTyped, LeaseFromBeat, Window

(* The sweep of downstream_admission.lua drops expired leases only.         *)
LEMMA AdmitSweeps ==
  ASSUME LeasesInv, NEW c \in Calls
  PROVE  SweptPair(Swept(c, Unexpired(bucketUntil)), Unexpired(totalUntil))
<1> DEFINE B == Swept(c, Unexpired(bucketUntil))
           T == Unexpired(totalUntil)
<1>1. \A d \in Calls :
        /\ B[d] \in {bucketUntil[d], IF bucketUntil[d] > redisNow THEN bucketUntil[d] ELSE 0}
        /\ T[d] = IF totalUntil[d] > redisNow THEN totalUntil[d] ELSE 0
  BY DEF Swept, Unexpired
<1>2. B \in [Calls -> Nat] /\ T \in [Calls -> Nat]
  BY LeaseNumbers DEF Swept, Unexpired
<1> HIDE DEF B, T
<1>3. ASSUME NEW d \in Calls
      PROVE  /\ B[d] \in {0, bucketUntil[d]} /\ T[d] \in {0, B[d]}
             /\ bucketUntil[d] # 0 /\ B[d] = 0 => ~(redisNow < beat[d] + Window)
  BY <1>1, LeaseNumbers
<1> QED
  BY <1>2, <1>3 DEF SweptPair, B, T

(* upstream_reserve.lua drops the expired and the stale leases of the       *)
(* account, and never leaves in the aggregate what it dropped.              *)
LEMMA ReserveSweeps ==
  ASSUME LeasesInv, NEW c \in Calls, side = "upstream"
  PROVE  LET live == Swept(c, Unexpired(bucketUntil))
             inBucket == Swept(c, Fresh(live))
             anyExpired == \E d \in OfBucket(c) : bucketUntil[d] # live[d]
             anyStale == \E d \in OfBucket(c) : inBucket[d] # live[d]
             pruned == IF anyExpired THEN Unexpired(totalUntil) ELSE totalUntil
             inTotal == IF anyStale
                        THEN [d \in Calls |-> IF pruned[d] > redisNow THEN Fresh(pruned)[d]
                                                                      ELSE pruned[d]]
                        ELSE pruned
         IN  SweptPair(inBucket, inTotal)
<1> DEFINE live == Swept(c, Unexpired(bucketUntil))
           inBucket == Swept(c, Fresh(live))
           anyExpired == \E d \in OfBucket(c) : bucketUntil[d] # live[d]
           anyStale == \E d \in OfBucket(c) : inBucket[d] # live[d]
           pruned == IF anyExpired THEN Unexpired(totalUntil) ELSE totalUntil
           inTotal == IF anyStale
                      THEN [d \in Calls |-> IF pruned[d] > redisNow THEN Fresh(pruned)[d]
                                                                    ELSE pruned[d]]
                      ELSE pruned
           alive(d) == IF bucketUntil[d] > redisNow THEN bucketUntil[d] ELSE 0
           fresh(n) == IF StaleAfter < RedisLeaseTtl /\ n <= redisNow + RedisLeaseTtl - StaleAfter
                       THEN 0 ELSE n
<1>1. \A d \in Calls : live[d] = IF d \in OfBucket(c) THEN alive(d) ELSE bucketUntil[d]
  BY DEF Swept, Unexpired
<1>2. \A d \in Calls : inBucket[d] = IF d \in OfBucket(c) THEN fresh(live[d]) ELSE bucketUntil[d]
  BY DEF Swept, Fresh
<1>3. live \in [Calls -> Nat] /\ \A d \in OfBucket(c) : d \in Calls
  BY LeaseNumbers DEF Swept, Unexpired, OfBucket
<1> HIDE DEF live
<1>4. inBucket \in [Calls -> Nat]
  BY <1>3, LeaseNumbers DEF Swept, Fresh
<1> HIDE DEF inBucket
<1>5. \A d \in Calls :
        /\ pruned[d] \in {totalUntil[d], IF totalUntil[d] > redisNow THEN totalUntil[d] ELSE 0}
        /\ d \in OfBucket(c) /\ bucketUntil[d] # live[d]
           => pruned[d] = IF totalUntil[d] > redisNow THEN totalUntil[d] ELSE 0
  BY DEF Unexpired
<1>6. pruned \in [Calls -> Nat]
  <2>1. Unexpired(totalUntil) \in [Calls -> Nat] /\ totalUntil \in [Calls -> Nat]
    BY DEF Unexpired, LeasesInv, LeasesTyped
  <2> QED
    BY <2>1
<1> HIDE DEF pruned
<1>7. \A d \in Calls :
        /\ inTotal[d] \in {pruned[d], fresh(pruned[d])}
        /\ d \in OfBucket(c) /\ inBucket[d] # live[d]
           => inTotal[d] = IF pruned[d] > redisNow THEN fresh(pruned[d]) ELSE pruned[d]
  BY DEF Fresh
<1>8. inTotal \in [Calls -> Nat]
  BY <1>6, <1>7, LeaseNumbers DEF Fresh
<1> HIDE DEF inTotal
<1>9. ASSUME NEW d \in Calls
      PROVE  /\ inBucket[d] \in {0, bucketUntil[d]} /\ inTotal[d] \in {0, inBucket[d]}
             /\ bucketUntil[d] # 0 /\ inBucket[d] = 0 => ~(redisNow < beat[d] + Window)
  <2>3. /\ live[d] \in {bucketUntil[d], alive(d)} /\ inBucket[d] \in {live[d], fresh(live[d])}
    BY <1>1, <1>2
  <2>4. side = "upstream" /\ StaleAfter < RedisLeaseTtl => Window = StaleAfter
    BY DEF Window
  <2>5. inTotal[d] \in {0, inBucket[d]}
    <3>1. pruned[d] \in {0, totalUntil[d]} /\ inTotal[d] \in {0, pruned[d]}
      BY <1>5, <1>7
    <3>2. CASE d \notin OfBucket(c)
      BY <3>1, <3>2, <1>2, LeaseNumbers
    <3>3. CASE d \in OfBucket(c) /\ ~(bucketUntil[d] > redisNow)
      <4>1. live[d] = 0
        BY <3>3, <1>1
      <4>2. pruned[d] = 0
        BY <3>1, <3>3, <4>1, <1>5, LeaseNumbers
      <4> QED
        BY <4>2, <3>1
    <3>4. CASE d \in OfBucket(c) /\ bucketUntil[d] > redisNow
      <4>1. live[d] = bucketUntil[d] /\ inBucket[d] = fresh(live[d])
        BY <3>4, <1>1, <1>2
      <4>2. CASE inBucket[d] = live[d]
        BY <4>1, <4>2, <3>1, LeaseNumbers
      <4>3. CASE inBucket[d] # live[d]
        <5>1. inBucket[d] = 0 /\ fresh(live[d]) = 0
          BY <4>1, <4>3
        <5>2. pruned[d] \in {0, live[d]}
          BY <3>1, <4>1, LeaseNumbers
        <5>3. inTotal[d] = 0
          BY <5>1, <5>2, <1>7, <3>4, <4>1, <4>3, LeaseNumbers
        <5> QED
          BY <5>3
      <4> QED
        BY <4>2, <4>3
    <3> QED
      BY <3>2, <3>3, <3>4
  <2> QED
    BY <2>3, <2>4, <2>5, LeaseNumbers
<1> QED
  BY <1>4, <1>8, <1>9 DEF SweptPair, live, inBucket, pruned, inTotal

(* The conjuncts of the invariant that a script can disturb.                *)
LeaseData ==
    /\ bucketUntil \in [Calls -> Nat] /\ totalUntil \in [Calls -> Nat] /\ beat \in [Calls -> Nat]
    /\ released \subseteq Calls
    /\ LeaseFromBeat /\ GrantedLease

(* A sweep without a grant.                                                 *)
LEMMA NoLeaseKeeps ==
  ASSUME LeasesInv, NEW B, NEW T, SweptPair(B, T), NoLease(B, T),
         UNCHANGED <<side, redisNow, released, refunded>>
  PROVE  LeaseData' /\ Granted' = Granted
<1>1. /\ bucketUntil' = B /\ totalUntil' = T /\ beat' = beat /\ Granted' = Granted
      /\ Window' = Window
  BY DEF NoLease, Granted, Window
<1>2. LeaseFromBeat'
  BY <1>1, LeaseNumbers DEF SweptPair, LeaseFromBeat
<1>3. GrantedLease'
  <2>1. GrantedLease
    BY DEF LeasesInv
  <2> QED
    BY <1>1, <2>1 DEF SweptPair, GrantedLease
<1>4. beat \in [Calls -> Nat] /\ released \subseteq Calls
  BY DEF LeasesInv, LeasesTyped
<1> QED
  BY <1>1, <1>2, <1>3, <1>4 DEF LeaseData, SweptPair

(* A grant: the event is not counted, so the call has not released a lease  *)
(* without having been refunded.                                            *)
LEMMA LeaseKeeps ==
  ASSUME LeasesInv, NEW c \in Calls, NEW B, NEW T, SweptPair(B, T), Lease(c, B, T),
         c \notin counted, UNCHANGED <<side, redisNow, released, refunded>>
  PROVE  LeaseData' /\ Granted' = Granted \cup {c}
<1>1. /\ bucketUntil' \in [Calls -> Nat] /\ totalUntil' \in [Calls -> Nat] /\ beat' \in [Calls -> Nat]
      /\ bucketUntil'[c] = redisNow + RedisLeaseTtl /\ totalUntil'[c] = redisNow + RedisLeaseTtl
      /\ beat'[c] = redisNow
      /\ \A d \in Calls \ {c} : bucketUntil'[d] = B[d] /\ totalUntil'[d] = T[d] /\ beat'[d] = beat[d]
  <2>1. beat \in [Calls -> Nat]
    BY DEF LeasesInv, LeasesTyped
  <2> QED
    BY <2>1, LeaseNumbers DEF Lease, SweptPair
<1>2. Granted' = Granted \cup {c} /\ Window' = Window /\ released' = released /\ refunded' = refunded
  BY DEF Lease, Granted, Window
<1>3. LeaseFromBeat'
  BY <1>1, LeaseNumbers DEF SweptPair, LeaseFromBeat
<1>4. GrantedLease'
  <2>1. GrantedLease
    BY DEF LeasesInv
  <2>2. c \notin released \ refunded
    BY <2>1 DEF GrantedLease, Granted
  <2>3. bucketUntil'[c] # 0
    BY <1>1, LeaseNumbers
  <2>4. ASSUME NEW d \in Calls \ {c}
        PROVE  /\ bucketUntil'[d] # 0 => d \in Granted'
               /\ d \in Granted' \ released' /\ redisNow' < beat'[d] + Window' => bucketUntil'[d] # 0
               /\ d \in released' => d \in Granted'
               /\ d \in released' \ refunded' => bucketUntil'[d] = 0
    BY <1>1, <1>2, <2>1 DEF SweptPair, GrantedLease
  <2> QED
    BY <1>2, <2>2, <2>3, <2>4 DEF GrantedLease
<1>5. released' \subseteq Calls
  BY DEF LeasesInv, LeasesTyped
<1> QED
  BY <1>1, <1>2, <1>3, <1>4, <1>5 DEF LeaseData

(* lease_renew.lua                                                          *)
LEMMA RenewKeeps ==
  ASSUME LeasesInv, NEW c \in Calls, RenewLease(c), UNCHANGED <<side, redisNow, released, refunded>>
  PROVE  LeaseData' /\ Granted' = Granted
<1>1. /\ bucketUntil' \in [Calls -> Nat] /\ totalUntil' \in [Calls -> Nat] /\ beat' \in [Calls -> Nat]
      /\ bucketUntil'[c] = IF bucketUntil[c] = 0 THEN 0 ELSE redisNow + RedisLeaseTtl
      /\ totalUntil'[c] = IF totalUntil[c] = 0 THEN 0 ELSE redisNow + RedisLeaseTtl
      /\ beat'[c] = IF bucketUntil[c] = 0 THEN beat[c] ELSE redisNow
      /\ \A d \in Calls \ {c} : /\ bucketUntil'[d] = bucketUntil[d] /\ totalUntil'[d] = totalUntil[d]
                               /\ beat'[d] = beat[d]
  <2>1. beat \in [Calls -> Nat] /\ bucketUntil \in [Calls -> Nat] /\ totalUntil \in [Calls -> Nat]
    BY DEF LeasesInv, LeasesTyped
  <2> QED
    BY <2>1, LeaseNumbers DEF RenewLease, RenewIn
<1>2. Granted' = Granted /\ Window' = Window /\ released' = released /\ refunded' = refunded
  BY DEF RenewLease, Granted, Window
<1>3. LeaseFromBeat'
  BY <1>1, LeaseNumbers DEF LeaseFromBeat
<1>4. GrantedLease'
  <2>1. GrantedLease
    BY DEF LeasesInv
  <2>2. \A d \in Calls : /\ (bucketUntil'[d] # 0) = (bucketUntil[d] # 0)
                         /\ bucketUntil[d] = 0 => beat'[d] = beat[d]
    BY <1>1, LeaseNumbers
  <2>3. redisNow' = redisNow
    OBVIOUS
  <2>4. ASSUME NEW d \in Calls, d \in Granted \ released, redisNow < beat'[d] + Window
        PROVE  bucketUntil'[d] # 0
    <3>1. CASE bucketUntil[d] = 0
      BY <2>1, <2>2, <2>4, <3>1 DEF GrantedLease
    <3>2. CASE bucketUntil[d] # 0
      BY <2>2, <3>2
    <3> QED
      BY <3>1, <3>2
  <2>5. \A d \in Calls : /\ bucketUntil'[d] # 0 => d \in Granted
                         /\ d \in released => d \in Granted
                         /\ d \in released \ refunded => bucketUntil'[d] = 0
    BY <2>1, <2>2 DEF GrantedLease
  <2> QED
    BY <1>2, <2>3, <2>4, <2>5 DEF GrantedLease
<1>5. released' \subseteq Calls
  BY DEF LeasesInv, LeasesTyped
<1> QED
  BY <1>1, <1>2, <1>3, <1>4, <1>5 DEF LeaseData

(* lease_release.lua and upstream_lease_release.lua, for a granted call.    *)
LEMMA ReleaseKeeps ==
  ASSUME LeasesInv, NEW c \in Granted, c \in Calls, ReleaseLease(c), released' = released \cup {c},
         UNCHANGED <<side, redisNow, refunded>>
  PROVE  LeaseData' /\ Granted' = Granted
<1>1. /\ bucketUntil' \in [Calls -> Nat] /\ totalUntil' \in [Calls -> Nat] /\ beat' \in [Calls -> Nat]
      /\ bucketUntil'[c] = 0 /\ totalUntil'[c] = 0 /\ beat' = beat
      /\ \A d \in Calls \ {c} : bucketUntil'[d] = bucketUntil[d] /\ totalUntil'[d] = totalUntil[d]
  <2>1. beat \in [Calls -> Nat] /\ bucketUntil \in [Calls -> Nat] /\ totalUntil \in [Calls -> Nat]
    BY DEF LeasesInv, LeasesTyped
  <2> QED
    BY <2>1 DEF ReleaseLease
<1>2. Granted' = Granted /\ Window' = Window /\ refunded' = refunded
  BY DEF ReleaseLease, Granted, Window
<1>3. LeaseFromBeat'
  BY <1>1, LeaseNumbers DEF LeaseFromBeat
<1>4. GrantedLease'
  <2>1. GrantedLease
    BY DEF LeasesInv
  <2> QED
    BY <1>1, <1>2, <2>1 DEF GrantedLease
<1>5. released' \subseteq Calls
  BY DEF LeasesInv, LeasesTyped
<1> QED
  BY <1>1, <1>2, <1>3, <1>4, <1>5 DEF LeaseData

(* downstream_rollback.lua, for a granted call.                             *)
LEMMA RollbackKeeps ==
  ASSUME LeasesInv, NEW c \in Granted, Rollback(c), refunded' = refunded \cup {c},
         UNCHANGED <<side, redisNow, released>>
  PROVE  LeaseData' /\ Granted' = Granted
<1>1. /\ bucketUntil' = bucketUntil /\ totalUntil' = totalUntil /\ beat' = beat
      /\ Granted' = Granted /\ Window' = Window
  BY DEF Rollback, Granted, Window
<1>2. LeasesTyped /\ LeaseFromBeat /\ GrantedLease
  BY DEF LeasesInv
<1> QED
  BY <1>1, <1>2 DEF LeaseData, LeasesTyped, LeaseFromBeat, GrantedLease

(* No command changes anything but by one of these, whoever sent it and     *)
(* however late it runs, and a reservation that is answered ok has been     *)
(* granted, now or by an earlier attempt.                                   *)
LEMMA ScriptKeeps ==
  ASSUME LeasesInv, NEW c \in Calls, NEW op, NEW reply, RunScript(c, op, reply),
         UNCHANGED <<side, redisNow>>, op # "reserve" => c \in Granted
  PROVE  /\ LeaseData' /\ Granted \subseteq Granted'
         /\ op = "reserve" /\ reply = "ok" => c \in Granted'
<1>0. counted \subseteq Granted /\ (bucketUntil[c] # 0 => c \in Granted)
  BY DEF Granted, LeasesInv, GrantedLease
<1>1. CASE op = "reserve" /\ side = "downstream" /\ Admit(c, reply) /\ UNCHANGED <<released, refunded>>
  <2> DEFINE B == Swept(c, Unexpired(bucketUntil))
             T == Unexpired(totalUntil)
  <2>1. SweptPair(B, T)
    BY AdmitSweeps
  <2>2. SweptPair(bucketUntil, totalUntil)
    BY LeaseNumbers DEF SweptPair, LeasesInv, LeasesTyped
  <2>3. \/ c \in counted /\ NoLease(bucketUntil, totalUntil)
        \/ B[c] # 0 /\ NoLease(B, T)
        \/ reply = "refused" /\ NoLease(B, T)
        \/ c \notin counted /\ Lease(c, B, T)
    BY <1>1 DEF Admit, AlreadyAdmitted
  <2>4. B[c] # 0 => c \in Granted
    BY <2>1, <1>0 DEF SweptPair
  <2> HIDE DEF B, T
  <2> QED
    BY <1>0, <1>1, <2>1, <2>2, <2>3, <2>4, NoLeaseKeeps, LeaseKeeps
<1>2. CASE op = "reserve" /\ side = "upstream" /\ ReserveUpstream(c, reply)
           /\ UNCHANGED <<released, refunded>>
  <2>1. PICK B, T : /\ SweptPair(B, T)
                    /\ \/ B[c] # 0 /\ NoLease(B, T)
                       \/ c \in counted /\ NoLease(B, T)
                       \/ reply = "refused" /\ NoLease(B, T)
                       \/ c \notin counted /\ Lease(c, B, T)
    <3> DEFINE live == Swept(c, Unexpired(bucketUntil))
               B == Swept(c, Fresh(live))
               anyExpired == \E d \in OfBucket(c) : bucketUntil[d] # live[d]
               anyStale == \E d \in OfBucket(c) : B[d] # live[d]
               pruned == IF anyExpired THEN Unexpired(totalUntil) ELSE totalUntil
               T == IF anyStale
                    THEN [d \in Calls |-> IF pruned[d] > redisNow THEN Fresh(pruned)[d]
                                                                  ELSE pruned[d]]
                    ELSE pruned
               known == {B[c] # 0, T[c] # 0, c \in counted}
    <3>1. SweptPair(B, T)
      BY <1>2, ReserveSweeps
    <3>2. \/ TRUE \in known /\ reply = (IF FALSE \in known THEN "refused" ELSE "ok") /\ NoLease(B, T)
          \/ reply = "refused" /\ NoLease(B, T)
          \/ known = {FALSE} /\ Lease(c, B, T)
      BY <1>2 DEF ReserveUpstream, AlreadyAdmitted
    <3> HIDE DEF B, T
    <3> QED
      BY <3>1, <3>2
  <2>2. B[c] # 0 => c \in Granted
    BY <2>1, <1>0 DEF SweptPair
  <2> QED
    BY <1>0, <1>2, <2>1, <2>2, NoLeaseKeeps, LeaseKeeps
<1>3. CASE op = "renew" /\ RenewLease(c) /\ UNCHANGED <<released, refunded>>
  BY <1>3, RenewKeeps
<1>4. CASE op = "refund" /\ Rollback(c) /\ refunded' = refunded \cup {c} /\ UNCHANGED released
  BY <1>4, RollbackKeeps
<1>5. CASE op \in {"release", "drop"} /\ ReleaseLease(c) /\ released' = released \cup {c}
           /\ UNCHANGED refunded
  BY <1>5, ReleaseKeeps
<1> QED
  BY <1>1, <1>2, <1>3, <1>4, <1>5 DEF RunScript

(* The reservation of c goes out; later commands only from a granted call.  *)
LEMMA SendKeeps ==
  ASSUME LeasesInv, NEW c \in Calls, NEW op \in ScriptOps, NEW attempt \in {1, 2},
         Send(c, op, attempt), op # "reserve" => c \in Granted
  PROVE  LeasesInv'
<1>1. /\ LeasesTyped /\ LeaseFromBeat /\ GrantedLease /\ OnlyGrantedAct
      /\ UNCHANGED <<side, redisNow, bucketUntil, totalUntil, counted, beat, released, refunded>>
  BY DEF LeasesInv, Send
<1>2. Granted' = Granted /\ Window' = Window
  BY <1>1 DEF Granted, Window
<1>3. LeaseFromBeat' /\ GrantedLease'
  BY <1>1, <1>2 DEF LeaseFromBeat, GrantedLease
<1>4. /\ caller' \in [Calls -> [op : ScriptOps, attempt : {1, 2}]
                               \cup {At(o) : o \in {"new", "held", "ending", "gone"}}]
      /\ caller'[c].op = op /\ \A d \in Calls \ {c} : caller'[d] = caller[d]
      /\ wire' = wire \cup {[call |-> c, op |-> op, attempt |-> attempt]}
  BY <1>1 DEF LeasesTyped, Send
<1>5. LeasesTyped'
  BY <1>1, <1>4 DEF LeasesTyped
<1>6. OnlyGrantedAct'
  BY <1>1, <1>2, <1>4 DEF OnlyGrantedAct
<1> QED
  BY <1>3, <1>5, <1>6 DEF LeasesInv

(* A call goes on after an operation, whatever its outcome.                 *)
LEMMA AfterTyped ==
  ASSUME NEW op \in ScriptOps, NEW outcome
  PROVE  /\ After(op, outcome) \in {At(o) : o \in {"new", "held", "ending", "gone"}}
         /\ op = "reserve" /\ outcome # "ok" => After(op, outcome).op = "gone"
BY DEF After, ScriptOps, Gone, At

LEMMA LeasesStart == RedisInit => LeasesInv
<1> SUFFICES ASSUME RedisInit PROVE LeasesInv
  OBVIOUS
<1>1. LeasesTyped
  <2>1. Idle = At("new")
    BY DEF Idle, At
  <2> QED
    BY <2>1 DEF RedisInit, LeasesTyped
<1>2. LeaseFromBeat
  BY DEF RedisInit, LeaseFromBeat
<1>3. GrantedLease
  <2>1. Granted = {} /\ \A c \in Calls : bucketUntil[c] = 0
    BY DEF RedisInit, Granted
  <2> QED
    BY <2>1 DEF RedisInit, GrantedLease
<1>4. OnlyGrantedAct
  BY DEF RedisInit, OnlyGrantedAct, Idle
<1> QED
  BY <1>1, <1>2, <1>3, <1>4 DEF LeasesInv

(* A command runs, however late, and its caller hears of it or does not.    *)
LEMMA ExecuteKeeps ==
  ASSUME LeasesInv, NEW cmd, Execute(cmd)
  PROVE  LeasesInv'
<1> DEFINE c == cmd.call
<1>1. /\ LeasesTyped /\ OnlyGrantedAct
      /\ cmd \in wire /\ wire' = wire \ {cmd} /\ UNCHANGED <<side, redisNow>>
  BY DEF LeasesInv, Execute
<1>2. /\ c \in Calls /\ cmd.op \in ScriptOps /\ cmd.attempt \in {1, 2}
      /\ cmd.op # "reserve" => c \in Granted
  BY <1>1 DEF LeasesTyped, OnlyGrantedAct
<1>3. PICK reply \in {"ok", "refused"} :
        /\ RunScript(c, cmd.op, reply)
        /\ \/ UNCHANGED caller
           \/ /\ caller[c] = [op |-> cmd.op, attempt |-> cmd.attempt]
              /\ caller' = [caller EXCEPT ![c] = After(cmd.op, reply)]
  BY DEF Execute
<1> HIDE DEF c
<1>4. /\ LeaseData' /\ Granted \subseteq Granted'
      /\ cmd.op = "reserve" /\ reply = "ok" => c \in Granted'
  BY <1>1, <1>2, <1>3, ScriptKeeps
<1>5. /\ After(cmd.op, reply) \in {At(o) : o \in {"new", "held", "ending", "gone"}}
      /\ cmd.op = "reserve" /\ reply # "ok" => After(cmd.op, reply).op = "gone"
  BY <1>2, AfterTyped
<1>6. caller' \in [Calls -> [op : ScriptOps, attempt : {1, 2}]
                               \cup {At(o) : o \in {"new", "held", "ending", "gone"}}]
  BY <1>1, <1>2, <1>3, <1>5 DEF LeasesTyped
<1>7. LeasesTyped'
  BY <1>1, <1>4, <1>6 DEF LeasesTyped, LeaseData
<1>8. ASSUME NEW d \in Calls, caller'[d].op \notin {"new", "gone", "reserve"}
      PROVE  d \in Granted'
  <2>1. CASE caller'[d] = caller[d]
    BY <1>1, <1>4, <1>8, <2>1 DEF OnlyGrantedAct
  <2>2. CASE caller'[d] # caller[d]
    <3>1. d = c /\ caller'[c] = After(cmd.op, reply)
      BY <1>1, <1>2, <1>3, <2>2 DEF LeasesTyped
    <3> QED
      BY <1>2, <1>4, <1>5, <1>8, <3>1
  <2> QED
    BY <2>1, <2>2
<1>9. OnlyGrantedAct'
  BY <1>1, <1>4, <1>8 DEF OnlyGrantedAct
<1> QED
  BY <1>4, <1>7, <1>9 DEF LeasesInv, LeaseData

(* A call whose attempt failed.                                             *)
LEMMA FailureKeeps ==
  ASSUME LeasesInv, NEW c \in Calls, CoordinationFails(c)
  PROVE  LeasesInv'
<1>1. /\ LeasesTyped /\ LeaseFromBeat /\ GrantedLease /\ OnlyGrantedAct
      /\ UNCHANGED <<side, redisNow, bucketUntil, totalUntil, counted, wire, beat, released, refunded>>
      /\ caller[c].attempt \in {1, 2}
      /\ caller' = [caller EXCEPT ![c] = After(caller[c].op, "failed")]
  BY DEF LeasesInv, CoordinationFails
<1>2. caller[c] \in [op : ScriptOps, attempt : {1, 2}]
  BY <1>1 DEF LeasesTyped, At
<1>3. /\ After(caller[c].op, "failed") \in {At(o) : o \in {"new", "held", "ending", "gone"}}
      /\ caller[c].op = "reserve" => After(caller[c].op, "failed").op = "gone"
  BY <1>2, AfterTyped
<1>4. Granted' = Granted /\ Window' = Window
  BY <1>1 DEF Granted, Window
<1>5. /\ caller' \in [Calls -> [op : ScriptOps, attempt : {1, 2}]
                               \cup {At(o) : o \in {"new", "held", "ending", "gone"}}]
      /\ caller'[c] = After(caller[c].op, "failed")
      /\ \A d \in Calls \ {c} : caller'[d] = caller[d]
  BY <1>1, <1>3 DEF LeasesTyped
<1>6. OnlyGrantedAct'
  <2>1. caller[c].op \in ScriptOps
    BY <1>2
  <2>2. caller[c].op # "reserve" => c \in Granted
    BY <1>1, <2>1 DEF OnlyGrantedAct, ScriptOps
  <2> QED
    BY <1>1, <1>3, <1>4, <1>5, <2>2 DEF OnlyGrantedAct
<1>7. LeaseFromBeat' /\ GrantedLease'
  BY <1>1, <1>4 DEF LeaseFromBeat, GrantedLease
<1>8. LeasesTyped'
  BY <1>1, <1>5 DEF LeasesTyped
<1> QED
  BY <1>6, <1>7, <1>8 DEF LeasesInv

(* The snapshot sweeps the aggregate alone.                                 *)
LEMMA SnapshotKeeps ==
  ASSUME LeasesInv, UpstreamSnapshot
  PROVE  LeasesInv'
<1>1. /\ LeasesTyped /\ LeaseFromBeat /\ GrantedLease /\ OnlyGrantedAct
      /\ UNCHANGED <<side, redisNow, bucketUntil, counted, wire, caller, beat, released, refunded>>
      /\ totalUntil' = Fresh(Unexpired(totalUntil))
  BY DEF LeasesInv, UpstreamSnapshot
<1>2. totalUntil' \in [Calls -> Nat] /\ \A d \in Calls : totalUntil'[d] \in {0, totalUntil[d]}
  BY <1>1 DEF Fresh, Unexpired, LeasesTyped
<1>3. Granted' = Granted /\ Window' = Window
  BY <1>1 DEF Granted, Window
<1> QED
  BY <1>1, <1>2, <1>3 DEF LeasesInv, LeasesTyped, LeaseFromBeat, GrantedLease, OnlyGrantedAct

LEMMA LeasesStep == LeasesInv /\ [RedisNext]_redisVars => LeasesInv'
<1> SUFFICES ASSUME LeasesInv, [RedisNext]_redisVars PROVE LeasesInv'
  OBVIOUS
<1>0. \A c \in Calls : /\ caller[c].op \notin {"new", "gone", "reserve"} => c \in Granted
                      /\ caller[c] \in [op : ScriptOps, attempt : {1, 2}]
                                        \cup {At(o) : o \in {"new", "held", "ending", "gone"}}
  BY DEF LeasesInv, OnlyGrantedAct, LeasesTyped
<1>1. ASSUME NEW c \in Calls, StartReserve(c) PROVE LeasesInv'
  BY <1>1, SendKeeps DEF StartReserve, Begin, ScriptOps
<1>2. ASSUME NEW c \in Calls, StartRenew(c) \/ StartRefund(c) \/ StartRelease(c) PROVE LeasesInv'
  <2>1. caller[c].op \in {"held", "ending"}
    BY <1>2 DEF StartRenew, StartRefund, StartRelease, At
  <2>2. \E op \in ScriptOps : Send(c, op, 1)
    BY <1>2 DEF StartRenew, StartRefund, StartRelease, Begin, ScriptOps
  <2> QED
    BY <1>0, <2>1, <2>2, SendKeeps
<1>3. ASSUME NEW c \in Calls, RetryCoordinationOnce(c) PROVE LeasesInv'
  <2>1. caller[c].attempt = 1 /\ Send(c, caller[c].op, 2)
    BY <1>3 DEF RetryCoordinationOnce
  <2>2. caller[c].op \in ScriptOps
    BY <1>0, <2>1 DEF At
  <2>3. caller[c].op # "reserve" => c \in Granted
    BY <1>0, <2>2 DEF ScriptOps
  <2> QED
    BY <2>1, <2>2, <2>3, SendKeeps
<1>4. ASSUME NEW cmd \in wire, Lose(cmd) PROVE LeasesInv'
  <2>1. /\ LeasesTyped /\ LeaseFromBeat /\ GrantedLease /\ OnlyGrantedAct
        /\ UNCHANGED <<side, redisNow, bucketUntil, totalUntil, counted, caller, beat, released, refunded>>
        /\ wire' \subseteq wire
    BY <1>4 DEF LeasesInv, Lose
  <2>2. Granted' = Granted /\ Window' = Window
    BY <2>1 DEF Granted, Window
  <2> QED
    BY <2>1, <2>2 DEF LeasesInv, LeasesTyped, LeaseFromBeat, GrantedLease, OnlyGrantedAct
<1>5. ASSUME RedisTick PROVE LeasesInv'
  <2>1. /\ LeasesTyped /\ LeaseFromBeat /\ GrantedLease /\ OnlyGrantedAct
        /\ UNCHANGED <<side, bucketUntil, totalUntil, counted, wire, caller, beat, released, refunded>>
        /\ redisNow' = redisNow + 1
    BY <1>5 DEF LeasesInv, RedisTick
  <2>2. Granted' = Granted /\ Window' = Window
    BY <2>1 DEF Granted, Window
  <2>3. LeaseFromBeat'
    BY <2>1, LeaseNumbers DEF LeaseFromBeat
  <2>4. GrantedLease'
    BY <2>1, <2>2, LeaseNumbers DEF GrantedLease
  <2> QED
    BY <2>1, <2>2, <2>3, <2>4 DEF LeasesInv, LeasesTyped, OnlyGrantedAct
<1>6. ASSUME UNCHANGED redisVars PROVE LeasesInv'
  BY <1>6 DEF redisVars, LeasesInv, LeasesTyped, LeaseFromBeat, GrantedLease, OnlyGrantedAct,
              Granted, Window
<1> QED
  BY <1>1, <1>2, <1>3, <1>4, <1>5, <1>6, ExecuteKeeps, FailureKeeps, SnapshotKeeps DEF RedisNext

(* The leases kept in Redis count the calls that run: a call that beats     *)
(* keeps its slot, a released one does not come back through an attempt     *)
(* that lingered on a broken connection, and the aggregate counts no lease  *)
(* that its bucket has lost.                                                *)
THEOREM LeasesAreTrue == RedisSpec => []LeasesTrue
<1>1. LeasesInv => LeasesTrue
  <2> SUFFICES ASSUME LeasesInv PROVE LeasesTrue
    OBVIOUS
  <2>1. GrantedLease /\ OnlyGrantedAct
    BY DEF LeasesInv
  <2>2. BeatingCallKeepsSlot
    <3> SUFFICES ASSUME NEW c \in Calls, caller[c].op \in {"held", "renew"}, c \notin released,
                        redisNow < beat[c] + Window
                 PROVE  bucketUntil[c] > redisNow
      BY DEF BeatingCallKeepsSlot, Window
    <3>1. bucketUntil[c] # 0
      BY <2>1 DEF GrantedLease, OnlyGrantedAct
    <3> QED
      BY <3>1, LeaseNumbers
  <2>3. ReleasedStaysReleased
    <3>1. released \subseteq Calls
      BY DEF LeasesInv, LeasesTyped
    <3> QED
      BY <2>1, <3>1 DEF GrantedLease, ReleasedStaysReleased
  <2>4. TotalHoldsNoPhantom
    BY LeaseNumbers DEF TotalHoldsNoPhantom
  <2> QED
    BY <2>2, <2>3, <2>4 DEF LeasesTrue
<1> QED
  BY <1>1, LeasesStart, LeasesStep, PTL DEF RedisSpec

-----------------------------------------------------------------------------
(* RedisHealth.                                                             *)

HealthRecords ==
    [steps : Nat, gen : Nat, until : Nat, lease : Attempts \cup {"none"}, leaseUntil : Nat,
     alone : Nat, pending : BOOLEAN]

AttemptRecords ==
    [at : {"new", "held", "lost", "finishing", "end"}, keyGen : Nat, routeGen : Nat, seenGen : Nat,
     outcome : {"none", "success", "route_failure", "key_failure", "cancelled"}, try : Nat]

HealthTyped ==
    /\ moment \in Nat /\ generations \in Nat
    /\ routeState \in HealthRecords /\ keyState \in HealthRecords
    /\ attempts \in [Attempts -> AttemptRecords]
    /\ finishes \subseteq Attempts \X {1, 2}

(* A recorded failure has a step, an attempt that was leased the route saw  *)
(* the generation of its lease, and no finish has yet counted twice.        *)
HealthInv ==
    /\ HealthTyped
    /\ routeState.gen > 0 => routeState.steps > 0
    /\ \A a \in Attempts : attempts[a].routeGen \in {0, attempts[a].seenGen}
    /\ FinishCountsOnce

(* What observe and a finish make of a state.                               *)
LEMMA HealthStates ==
  ASSUME HealthTyped, NEW st \in HealthRecords
  PROVE  /\ Healthy \in HealthRecords /\ Healthy.gen = 0
         /\ Failed(st, generations + 1) \in HealthRecords
         /\ Failed(st, generations + 1).steps > 0
         /\ \A gen : /\ GiveBack(st, gen) \in HealthRecords
                     /\ GiveBack(st, gen).gen = st.gen /\ GiveBack(st, gen).steps = st.steps
<1>1. Healthy \in HealthRecords /\ Healthy.gen = 0
  BY DEF Healthy, HealthRecords
<1>2. st.steps \in Nat /\ MaxStep \in Nat \ {0} /\ Cool \in Nat /\ generations + 1 \in Nat /\ moment \in Nat
  BY RedisHealthAssumption DEF HealthTyped, HealthRecords
<1>3. Failed(st, generations + 1) \in HealthRecords /\ Failed(st, generations + 1).steps > 0
  <2> DEFINE stepped == SmallerOf(MaxStep, st.steps + 1)
  <2>1. stepped \in Nat /\ stepped > 0
    BY <1>2 DEF SmallerOf
  <2> HIDE DEF stepped
  <2>2. moment + Cool * stepped \in Nat
    BY <1>2, <2>1
  <2>3. Failed(st, generations + 1) = [Healthy EXCEPT !.steps = stepped, !.gen = generations + 1,
                                                      !.until = moment + Cool * stepped]
    BY DEF Failed, stepped
  <2> QED
    BY <1>1, <1>2, <2>1, <2>2, <2>3 DEF HealthRecords
<1>4. \A gen : /\ GiveBack(st, gen) \in HealthRecords
               /\ GiveBack(st, gen).gen = st.gen /\ GiveBack(st, gen).steps = st.steps
  BY DEF GiveBack, Unleased, HealthRecords
<1> QED
  BY <1>1, <1>3, <1>4

(* A finish keeps the invariant, and a success leaves a newer failure.      *)
LEMMA FinishKeeps ==
  ASSUME HealthInv, NEW a \in Attempts, FinishScript(a)
  PROVE  /\ routeState' \in HealthRecords /\ keyState' \in HealthRecords /\ generations' \in Nat
         /\ routeState'.gen > 0 => routeState'.steps > 0
         /\ FinishCountsOnce'
         /\ attempts[a].outcome = "success" /\ routeState.gen > attempts[a].seenGen /\ ~routeState.pending
            => routeState'.steps > 0
<1> DEFINE r == attempts[a]
<1>1. /\ HealthTyped /\ routeState \in HealthRecords /\ keyState \in HealthRecords /\ generations \in Nat
      /\ routeState.gen > 0 => routeState.steps > 0
      /\ r.routeGen \in {0, r.seenGen} /\ r.seenGen \in Nat /\ FinishCountsOnce
      /\ routeState.gen \in Nat
  BY DEF HealthInv, HealthTyped, HealthRecords, AttemptRecords
<1>2. CASE UNCHANGED <<routeState, keyState, generations, twice>>
  BY <1>1, <1>2 DEF FinishCountsOnce
<1>3. CASE /\ ~Committed(a) /\ Owned(routeState, a, r.routeGen)
           /\ routeState' = RouteAfter(r) /\ keyState' = KeyAfter(r)
           /\ generations' = IF r.outcome \in {"route_failure", "key_failure"}
                             THEN generations + 1 ELSE generations
           /\ twice' = (twice \/ a \in finished)
  <2>1. FinishCountsOnce'
    BY <1>1, <1>3 DEF FinishCountsOnce, Committed
  <2>2. RouteAfter(r) \in {Healthy, routeState, Failed(routeState, generations + 1),
                           GiveBack(routeState, r.routeGen)}
    BY DEF RouteAfter
  <2>3. KeyAfter(r) \in {Healthy, keyState, Failed(keyState, generations + 1),
                         GiveBack(keyState, r.keyGen)}
    BY DEF KeyAfter
  <2>4. ASSUME r.outcome = "success", routeState.gen > r.seenGen, ~routeState.pending
        PROVE  routeState' = routeState
    BY <1>1, <1>3, <2>4 DEF RouteAfter, ClearsSeen, Owned
  <2>5. /\ routeState' \in HealthRecords /\ keyState' \in HealthRecords
        /\ routeState'.gen > 0 => routeState'.steps > 0
    <3>1. /\ Healthy \in HealthRecords /\ Healthy.gen = 0
          /\ Failed(routeState, generations + 1) \in HealthRecords
          /\ Failed(routeState, generations + 1).steps > 0
          /\ GiveBack(routeState, r.routeGen) \in HealthRecords
          /\ GiveBack(routeState, r.routeGen).gen = routeState.gen
          /\ GiveBack(routeState, r.routeGen).steps = routeState.steps
      BY <1>1, HealthStates
    <3>2. /\ Failed(keyState, generations + 1) \in HealthRecords
          /\ GiveBack(keyState, r.keyGen) \in HealthRecords
      BY <1>1, HealthStates
    <3>3. keyState' \in HealthRecords
      BY <1>1, <1>3, <2>3, <3>1, <3>2
    <3> QED
      BY <1>1, <1>3, <2>2, <3>1, <3>3
  <2> QED
    BY <1>1, <1>3, <2>1, <2>4, <2>5
<1> QED
  BY <1>2, <1>3 DEF FinishScript

(* A lease leaves the generation and the steps of a state alone.            *)
LEMMA LeaseOnKeeps ==
  ASSUME HealthTyped, NEW st \in HealthRecords, NEW a \in Attempts
  PROVE  /\ LeaseOn(st, a) \in HealthRecords
         /\ LeaseOn(st, a).gen = st.gen /\ LeaseOn(st, a).steps = st.steps
<1>1. moment + HalfOpenTtl \in Nat /\ moment + Exclusive \in Nat
  BY RedisHealthAssumption DEF HealthTyped
<1> QED
  BY <1>1 DEF HealthRecords, LeaseOn

(* An attempt learns or does something; the lease it knows is still the one *)
(* it saw.                                                                  *)
LEMMA AttemptKeeps ==
  ASSUME HealthInv, NEW a \in Attempts, NEW r \in AttemptRecords, r.routeGen \in {0, r.seenGen},
         attempts' = [attempts EXCEPT ![a] = r]
  PROVE  /\ attempts' \in [Attempts -> AttemptRecords]
         /\ \A b \in Attempts : attempts'[b].routeGen \in {0, attempts'[b].seenGen}
BY DEF HealthInv, HealthTyped

(* What a reservation tells its attempt.                                    *)
LEMMA LearnKeeps ==
  ASSUME HealthInv, NEW a \in Attempts, NEW keyGen \in Nat, NEW routeGen \in {0, routeState.gen},
         Learn(a, keyGen, routeGen)
  PROVE  /\ attempts' \in [Attempts -> AttemptRecords]
         /\ \A b \in Attempts : attempts'[b].routeGen \in {0, attempts'[b].seenGen}
<1>1. /\ attempts \in [Attempts -> AttemptRecords]
      /\ \A b \in Attempts : attempts[b].routeGen \in {0, attempts[b].seenGen}
      /\ routeState.gen \in Nat
  BY DEF HealthInv, HealthTyped, HealthRecords
<1> DEFINE r == [attempts[a] EXCEPT !.at = "held", !.keyGen = keyGen, !.routeGen = routeGen,
                                    !.seenGen = routeState.gen]
           lost == [attempts[a] EXCEPT !.at = "lost"]
<1>2. /\ r \in AttemptRecords /\ r.routeGen \in {0, r.seenGen}
      /\ lost \in AttemptRecords /\ lost.routeGen \in {0, lost.seenGen}
  <2>1. /\ attempts[a] \in AttemptRecords /\ attempts[a].routeGen \in {0, attempts[a].seenGen}
        /\ routeGen \in Nat /\ routeState.gen \in Nat
    BY <1>1
  <2> QED
    BY <2>1 DEF AttemptRecords
<1>3. \/ attempts' = [attempts EXCEPT ![a] = r]
      \/ attempts' = [attempts EXCEPT ![a] = lost]
  BY DEF Learn
<1> HIDE DEF r, lost
<1> QED
  BY <1>2, <1>3, AttemptKeeps

LEMMA HealthStart == HealthInit => HealthInv
<1> SUFFICES ASSUME HealthInit PROVE HealthInv
  OBVIOUS
<1>1. Healthy \in HealthRecords /\ Healthy.gen = 0 /\ NewAttempt \in AttemptRecords
      /\ NewAttempt.routeGen = 0
  BY DEF HealthRecords, Healthy, NewAttempt, AttemptRecords
<1> QED
  BY <1>1 DEF HealthInit, HealthInv, HealthTyped, FinishCountsOnce

LEMMA HealthStep == HealthInv /\ [HealthNext]_healthVars => HealthInv'
<1> SUFFICES ASSUME HealthInv, [HealthNext]_healthVars PROVE HealthInv'
  OBVIOUS
<1>0. /\ HealthTyped /\ FinishCountsOnce
      /\ routeState.gen > 0 => routeState.steps > 0
      /\ \A a \in Attempts : attempts[a].routeGen \in {0, attempts[a].seenGen}
  BY DEF HealthInv
<1>1. ASSUME NEW a \in Attempts, ReserveRouteHealth(a) PROVE HealthInv'
  <2>1. /\ routeState' \in HealthRecords /\ keyState' \in HealthRecords
        /\ routeState'.gen = routeState.gen /\ routeState'.steps = routeState.steps
    BY <1>0, <1>1, LeaseOnKeeps DEF ReserveRouteHealth, HealthTyped
  <2>2. \E keyGen \in Nat, routeGen \in {0, routeState.gen} : Learn(a, keyGen, routeGen)
    BY <1>0, <1>1 DEF ReserveRouteHealth, HealthTyped, HealthRecords
  <2> QED
    BY <1>0, <1>1, <2>1, <2>2, LearnKeeps
       DEF ReserveRouteHealth, HealthInv, HealthTyped, FinishCountsOnce
<1>2. ASSUME NEW a \in Attempts, ReserveRouteHealthProbe(a) PROVE HealthInv'
  <2>1. /\ routeState' \in HealthRecords
        /\ routeState'.gen = routeState.gen /\ routeState'.steps = routeState.steps
    <3> DEFINE alone == SmallerOf(moment + HalfOpenTtl, LargerOf(routeState.until, moment + Exclusive))
    <3>1. /\ moment + HalfOpenTtl \in Nat /\ moment + Exclusive \in Nat /\ routeState \in HealthRecords
          /\ routeState.until \in Nat
      BY <1>0, RedisHealthAssumption DEF HealthTyped, HealthRecords
    <3>2. alone \in Nat
      BY <3>1 DEF SmallerOf, LargerOf
    <3>3. routeState' = [routeState EXCEPT !.lease = a, !.leaseUntil = moment + HalfOpenTtl,
                                           !.alone = alone]
      BY <1>2 DEF ReserveRouteHealthProbe
    <3> HIDE DEF alone
    <3> QED
      BY <3>1, <3>2, <3>3 DEF HealthRecords
  <2>2. keyState' \in HealthRecords
    BY <1>0, <1>2, LeaseOnKeeps DEF ReserveRouteHealthProbe, HealthTyped
  <2>3. \E keyGen \in Nat, routeGen \in {0, routeState.gen} : Learn(a, keyGen, routeGen)
    BY <1>0, <1>2 DEF ReserveRouteHealthProbe, HealthTyped, HealthRecords
  <2> QED
    BY <1>0, <1>2, <2>1, <2>2, <2>3, LearnKeeps
       DEF ReserveRouteHealthProbe, HealthInv, HealthTyped, FinishCountsOnce
<1>3. ASSUME NEW a \in Attempts, StartFinish(a) \/ RetryFinish(a) \/ GiveUpFinish(a) PROVE HealthInv'
  <2>1. /\ attempts' \in [Attempts -> AttemptRecords]
        /\ \A b \in Attempts : attempts'[b].routeGen \in {0, attempts'[b].seenGen}
    <3> DEFINE begun(outcome) == [attempts[a] EXCEPT !.at = "finishing", !.outcome = outcome, !.try = 1]
               again == [attempts[a] EXCEPT !.try = 2]
               ended == [attempts[a] EXCEPT !.at = "end"]
    <3>1. \/ \E outcome \in {"success", "route_failure", "key_failure", "cancelled"} :
               attempts' = [attempts EXCEPT ![a] = begun(outcome)]
          \/ attempts' = [attempts EXCEPT ![a] = again]
          \/ attempts' = [attempts EXCEPT ![a] = ended]
      BY <1>3 DEF StartFinish, RetryFinish, GiveUpFinish
    <3>2. attempts[a] \in AttemptRecords /\ attempts[a].routeGen \in {0, attempts[a].seenGen}
      BY <1>0 DEF HealthTyped
    <3>3. /\ again \in AttemptRecords /\ again.routeGen \in {0, again.seenGen}
          /\ ended \in AttemptRecords /\ ended.routeGen \in {0, ended.seenGen}
      BY <3>2 DEF AttemptRecords
    <3>4. \A outcome \in {"success", "route_failure", "key_failure", "cancelled"} :
            begun(outcome) \in AttemptRecords /\ begun(outcome).routeGen \in {0, begun(outcome).seenGen}
      BY <3>2 DEF AttemptRecords
    <3> HIDE DEF begun, again, ended
    <3> QED
      BY <3>1, <3>3, <3>4, AttemptKeeps
  <2>2. finishes' \subseteq Attempts \X {1, 2}
    BY <1>0, <1>3 DEF StartFinish, RetryFinish, GiveUpFinish, HealthTyped
  <2>3. UNCHANGED <<moment, routeState, keyState, generations, twice>>
    BY <1>3 DEF StartFinish, RetryFinish, GiveUpFinish
  <2> QED
    BY <1>0, <2>1, <2>2, <2>3 DEF HealthInv, HealthTyped, FinishCountsOnce
<1>4. ASSUME NEW cmd \in finishes, RunFinish(cmd) PROVE HealthInv'
  <2>1. /\ cmd[1] \in Attempts /\ FinishScript(cmd[1]) /\ finishes' \subseteq finishes
        /\ moment' = moment
    BY <1>0, <1>4 DEF RunFinish, HealthTyped
  <2>2. /\ attempts' \in [Attempts -> AttemptRecords]
        /\ \A b \in Attempts : attempts'[b].routeGen \in {0, attempts'[b].seenGen}
    <3> DEFINE a == cmd[1]
               r == [attempts[a] EXCEPT !.at = "end"]
    <3>1. CASE attempts' = attempts
      BY <1>0, <3>1 DEF HealthTyped
    <3>2. CASE attempts' = [attempts EXCEPT ![a] = r]
      <4>1. attempts[a] \in AttemptRecords /\ attempts[a].routeGen \in {0, attempts[a].seenGen}
        BY <1>0, <2>1 DEF HealthTyped
      <4>2. r \in AttemptRecords /\ r.routeGen \in {0, r.seenGen}
        BY <4>1 DEF AttemptRecords
      <4> QED
        BY <2>1, <3>2, <4>2, AttemptKeeps
    <3> QED
      BY <1>4, <3>1, <3>2 DEF RunFinish
  <2>3. /\ routeState' \in HealthRecords /\ keyState' \in HealthRecords /\ generations' \in Nat
        /\ routeState'.gen > 0 => routeState'.steps > 0
        /\ FinishCountsOnce'
    BY <2>1, FinishKeeps
  <2> QED
    BY <1>0, <2>1, <2>2, <2>3 DEF HealthInv, HealthTyped
<1>5. ASSUME ObserveRouteFailure PROVE HealthInv'
  <2>1. routeState \in HealthRecords
    BY <1>0 DEF HealthTyped
  <2>2. routeState' \in HealthRecords /\ routeState'.steps > 0
    BY <1>0, <1>5, <2>1, HealthStates DEF ObserveRouteFailure
  <2> QED
    BY <1>0, <1>5, <2>2 DEF ObserveRouteFailure, HealthInv, HealthTyped, FinishCountsOnce
<1>6. ASSUME ReconcileRouteHealth PROVE HealthInv'
  <2>1. routeState' \in HealthRecords /\ (routeState'.gen > 0 => routeState'.steps > 0)
    BY <1>0, <1>6 DEF ReconcileRouteHealth, HealthTyped, HealthRecords, Healthy
  <2> QED
    BY <1>0, <1>6, <2>1 DEF ReconcileRouteHealth, HealthInv, HealthTyped, FinishCountsOnce
<1>7. ASSUME HealthTick PROVE HealthInv'
  BY <1>0, <1>7 DEF HealthTick, HealthInv, HealthTyped, FinishCountsOnce
<1>8. ASSUME UNCHANGED healthVars PROVE HealthInv'
  BY <1>0, <1>8 DEF healthVars, HealthInv, HealthTyped, FinishCountsOnce
<1> QED
  BY <1>1, <1>2, <1>3, <1>4, <1>5, <1>6, <1>7, <1>8 DEF HealthNext

(* A finish of the half-open lease counts once, although it is sent again   *)
(* when its reply was lost, and a success never erases a failure that was   *)
(* recorded after its attempt was admitted.                                 *)
THEOREM FinishesAreTrue == HealthSpec => FinishesTrue
<1>1. HealthInv /\ [HealthNext]_healthVars
      => [\A a \in Attempts :
            /\ attempts[a].outcome = "success"
            /\ \E nth \in {1, 2} : <<a, nth>> \in finishes \ finishes'
            /\ routeState.gen > attempts[a].seenGen /\ ~routeState.pending
            => routeState'.steps > 0]_healthVars
  <2> SUFFICES ASSUME HealthInv, HealthNext, NEW a \in Attempts, attempts[a].outcome = "success",
                      NEW nth \in {1, 2}, <<a, nth>> \in finishes \ finishes',
                      routeState.gen > attempts[a].seenGen, ~routeState.pending
               PROVE  routeState'.steps > 0
    OBVIOUS
  <2>1. PICK cmd \in finishes : RunFinish(cmd)
    BY DEF HealthNext, ReserveRouteHealth, ReserveRouteHealthProbe, StartFinish, RetryFinish,
           GiveUpFinish, ObserveRouteFailure, ReconcileRouteHealth, HealthTick
  <2>2. cmd = <<a, nth>>
    BY <2>1 DEF RunFinish
  <2>3. FinishScript(a)
    BY <2>1, <2>2 DEF RunFinish
  <2> QED
    BY <2>3, FinishKeeps
<1>2. HealthInv => FinishCountsOnce
  BY DEF HealthInv
<1>3. HealthSpec => []HealthInv
  BY HealthStart, HealthStep, PTL DEF HealthSpec
<1>4. HealthSpec => NewerFailureSurvivesSuccess
  BY <1>1, <1>3, PTL DEF HealthSpec, NewerFailureSurvivesSuccess
<1> QED
  BY <1>2, <1>3, <1>4, PTL DEF FinishesTrue

-----------------------------------------------------------------------------
(* RedisAccount.                                                            *)

AccountOps == {"reject", "register", "cancel", "grant", "renew", "finish"}
Outcomes == {"none", "accepted", "rejected", "retryAfter", "other"}

Grants == [who : Waiters \cup {"none"}, token : Nat, gen : Nat, until : Nat]
AskRecords == [op : AccountOps \cup {"none"}, attempt : {0, 1, 2}, token : Nat, gen : Nat,
               outcome : Outcomes]
CommandRecords == [who : Waiters, op : AccountOps, attempt : {1, 2}, token : Nat, gen : Nat,
                   owner : Nat, ticket : Nat, outcome : Outcomes]
AccountStateRecords == [gen : Nat, saturated : BOOLEAN, until : Nat, explicit : Nat]

AccountTyped ==
    /\ drawn \in Nat /\ acctNow \in Nat \ {0}
    /\ acct \in AccountStateRecords
    /\ probe \in Grants /\ heldGrant \in [Waiters -> Grants]
    /\ heldTicket \in [Waiters -> Nat]
    /\ asks \in [Waiters -> AskRecords]
    /\ commands \subseteq CommandRecords

(* Nobody uses a token before it was drawn.                                 *)
TokensDrawn ==
    /\ probe.token <= drawn
    /\ \A w \in Waiters : heldGrant[w].token <= drawn /\ asks[w].token <= drawn
    /\ \A cmd \in commands : cmd.token <= drawn /\ cmd.owner <= drawn

(* A request that waits for a reply has an operation under way; it renews   *)
(* only a grant it holds.                                                   *)
AskUnderWay ==
    \A w \in Waiters : /\ asks[w].attempt # 0 <=> asks[w].op # "none"
                       /\ asks[w].op = "renew" => heldGrant[w] # NoProbe

(* The command that carries a request's current token is its operation, and *)
(* names the grant the request holds.                                       *)
TokenNamesOperation ==
    \A cmd \in commands :
        asks[cmd.who].attempt # 0 /\ asks[cmd.who].token = cmd.token
        => cmd.op = asks[cmd.who].op /\ cmd.owner = heldGrant[cmd.who].token

(* A finish that lingers names neither the grant its request holds, unless  *)
(* that one is being finished, nor the one its request asks for.            *)
FinishNamesOldGrant ==
    \A cmd \in commands : cmd.op = "finish" =>
        /\ asks[cmd.who].op = "grant" => cmd.owner # asks[cmd.who].token
        /\ heldGrant[cmd.who] # NoProbe /\ asks[cmd.who].op # "finish"
           => cmd.owner # heldGrant[cmd.who].token

(* The probe of Redis is the one a request holds, perhaps renewed since.    *)
SameGrant(p, w) ==
    p.who = w /\ p.token = heldGrant[w].token /\ p.until >= heldGrant[w].until

(* A probe is given its time to live when it is granted and when it is      *)
(* renewed.                                                                 *)
ProbeShort == probe.until <= acctNow + ProbeTtl

HeldByOwner == \A w \in Waiters : heldGrant[w] = NoProbe \/ heldGrant[w].who = w

AccountInv ==
    /\ AccountTyped /\ TokensDrawn /\ AskUnderWay /\ TokenNamesOperation /\ FinishNamesOldGrant
    /\ HeldByOwner /\ ProbeShort /\ AccountTrue

LEMMA AccountStart == AccountInit => AccountInv
<1> SUFFICES ASSUME AccountInit PROVE AccountInv
  OBVIOUS
<1>0. /\ NoProbe \in Grants /\ NoProbe.until = 0 /\ NoProbe.token = 0
      /\ [op |-> "none", attempt |-> 0, token |-> 0, gen |-> 0, outcome |-> "none"] \in AskRecords
  BY DEF Grants, NoProbe, AskRecords, Outcomes
<1>1. AccountTyped
  <2>1. acct \in AccountStateRecords
    <3>1. acct \in {[gen |-> 0, saturated |-> FALSE, until |-> 0, explicit |-> 0],
                   [gen |-> 1, saturated |-> TRUE, until |-> 1, explicit |-> 0]}
      BY DEF AccountInit
    <3>2. /\ [gen |-> 0, saturated |-> FALSE, until |-> 0, explicit |-> 0] \in AccountStateRecords
          /\ [gen |-> 1, saturated |-> TRUE, until |-> 1, explicit |-> 0] \in AccountStateRecords
      BY DEF AccountStateRecords
    <3> QED
      BY <3>1, <3>2
  <2> QED
    BY <1>0, <2>1 DEF AccountInit, AccountTyped
<1>2. \A w \in Waiters : heldGrant[w] = NoProbe
  BY DEF AccountInit
<1>3. AccountTrue
  BY <1>0, <1>2 DEF AccountInit, AccountTrue, MutationAppliedOnce, GrantNotTakenOver, Probing
<1>4. TokensDrawn /\ AskUnderWay
  BY <1>0 DEF AccountInit, TokensDrawn, AskUnderWay
<1>5. ProbeShort
  BY <1>0, RedisAccountAssumption DEF AccountInit, ProbeShort
<1> QED
  BY <1>1, <1>2, <1>3, <1>4, <1>5 DEF AccountInit, AccountInv, TokenNamesOperation, FinishNamesOldGrant,
                                HeldByOwner

(* A request draws a token and sends an operation.                          *)
LEMMA AskRedisKeeps ==
  ASSUME AccountInv, NEW w \in Waiters, NEW op \in AccountOps, NEW outcome \in Outcomes,
         AskRedis(w, op, outcome), op = "renew" => heldGrant[w] # NoProbe
  PROVE  AccountInv'
<1> DEFINE ask == [op |-> op, attempt |-> 1, token |-> drawn + 1, gen |-> heldGrant[w].gen,
                   outcome |-> outcome]
           new == Command(w, ask)
<1>1. /\ AccountTyped /\ TokensDrawn /\ AskUnderWay /\ TokenNamesOperation /\ FinishNamesOldGrant
      /\ HeldByOwner /\ ProbeShort /\ AccountTrue
  BY DEF AccountInv
<1>2. /\ asks[w].op = "none" /\ drawn' = drawn + 1
      /\ asks' = [asks EXCEPT ![w] = ask] /\ commands' = commands \cup {new}
      /\ UNCHANGED <<acctNow, acct, probe, doubled, heldGrant, heldTicket>>
  BY DEF AskRedis, Resting
<1>3. /\ ask \in AskRecords /\ ask.op = op /\ ask.attempt = 1 /\ ask.token = drawn + 1
      /\ new \in CommandRecords /\ new.who = w /\ new.op = op /\ new.token = drawn + 1
      /\ new.owner = heldGrant[w].token
  <2>1. heldGrant[w].gen \in Nat /\ heldGrant[w].token \in Nat /\ drawn + 1 \in Nat /\ heldTicket[w] \in Nat
    BY <1>1 DEF AccountTyped, Grants
  <2> QED
    BY <2>1 DEF AskRecords, CommandRecords, Command
<1>4. /\ asks' \in [Waiters -> AskRecords] /\ asks'[w] = ask
      /\ \A v \in Waiters \ {w} : asks'[v] = asks[v]
  BY <1>1, <1>2, <1>3 DEF AccountTyped
<1> HIDE DEF ask, new
<1>5. AccountTyped'
  BY <1>1, <1>2, <1>3, <1>4 DEF AccountTyped
<1>6. /\ drawn \in Nat /\ probe.token \in Nat
      /\ \A v \in Waiters : asks[v].token \in Nat /\ heldGrant[v].token \in Nat
      /\ \A cmd \in commands : cmd.token \in Nat /\ cmd.owner \in Nat /\ cmd.who \in Waiters
  BY <1>1 DEF AccountTyped, Grants, AskRecords, CommandRecords
<1>7. TokensDrawn'
  BY <1>1, <1>2, <1>3, <1>4, <1>6 DEF TokensDrawn
<1>8. AskUnderWay'
  <2>1. op # "none"
    BY DEF AccountOps
  <2> QED
    BY <1>1, <1>2, <1>3, <1>4, <2>1 DEF AskUnderWay
<1>9. TokenNamesOperation'
  BY <1>1, <1>2, <1>3, <1>4, <1>6 DEF TokenNamesOperation, TokensDrawn
<1>10. FinishNamesOldGrant'
  BY <1>1, <1>2, <1>3, <1>4, <1>6 DEF FinishNamesOldGrant, TokensDrawn
<1>11. HeldByOwner' /\ ProbeShort' /\ AccountTrue'
  <2>1. \A v \in Waiters : Probing(v)' => Probing(v)
    BY <1>2, <1>4 DEF Probing
  <2> QED
    BY <1>1, <1>2, <2>1 DEF HeldByOwner, ProbeShort, AccountTrue, MutationAppliedOnce, GrantNotTakenOver
<1> QED
  BY <1>5, <1>7, <1>8, <1>9, <1>10, <1>11 DEF AccountInv

(* The second attempt of the same operation.                                *)
LEMMA AskAgainKeeps ==
  ASSUME AccountInv, NEW w \in Waiters, AskAgain(w)
  PROVE  AccountInv'
<1> DEFINE ask == [asks[w] EXCEPT !.attempt = 2]
           new == Command(w, ask)
<1>1. /\ AccountTyped /\ TokensDrawn /\ AskUnderWay /\ TokenNamesOperation /\ FinishNamesOldGrant
      /\ HeldByOwner /\ ProbeShort /\ AccountTrue
  BY DEF AccountInv
<1>2. /\ asks[w].attempt = 1
      /\ asks' = [asks EXCEPT ![w] = ask] /\ commands' = commands \cup {new}
      /\ UNCHANGED <<acctNow, acct, probe, doubled, heldGrant, heldTicket, drawn>>
  BY DEF AskAgain
<1>3. /\ asks[w] \in AskRecords /\ asks[w].op # "none"
  BY <1>1, <1>2 DEF AccountTyped, AskUnderWay
<1>4. /\ ask \in AskRecords /\ ask.op = asks[w].op /\ ask.attempt = 2 /\ ask.token = asks[w].token
      /\ ask.op \in AccountOps
  BY <1>3 DEF AskRecords
<1> HIDE DEF ask
<1>5. /\ new \in CommandRecords /\ new.who = w /\ new.op = ask.op /\ new.token = ask.token
      /\ new.owner = heldGrant[w].token
  <2>1. heldGrant[w].token \in Nat /\ heldTicket[w] \in Nat
    BY <1>1 DEF AccountTyped, Grants
  <2> QED
    BY <1>4, <2>1 DEF AskRecords, CommandRecords, Command
<1> HIDE DEF new
<1>6. /\ asks' \in [Waiters -> AskRecords] /\ asks'[w] = ask
      /\ \A v \in Waiters : asks'[v].op = asks[v].op /\ asks'[v].token = asks[v].token
      /\ \A v \in Waiters \ {w} : asks'[v] = asks[v]
  BY <1>1, <1>2, <1>4 DEF AccountTyped
<1>7. \A cmd \in commands : cmd.who \in Waiters
  BY <1>1 DEF AccountTyped, CommandRecords
<1>8. AccountTyped'
  BY <1>1, <1>2, <1>5, <1>6 DEF AccountTyped
<1>9. TokensDrawn' /\ AskUnderWay'
  BY <1>1, <1>2, <1>3, <1>4, <1>5, <1>6 DEF TokensDrawn, AskUnderWay
<1>10. TokenNamesOperation'
  BY <1>1, <1>2, <1>4, <1>5, <1>6, <1>7 DEF TokenNamesOperation
<1>11. FinishNamesOldGrant'
  BY <1>1, <1>2, <1>4, <1>5, <1>6, <1>7 DEF FinishNamesOldGrant
<1>12. HeldByOwner' /\ ProbeShort' /\ AccountTrue'
  <2>1. \A v \in Waiters : Probing(v)' => Probing(v)
    BY <1>2, <1>6 DEF Probing
  <2> QED
    BY <1>1, <1>2, <2>1 DEF HeldByOwner, ProbeShort, AccountTrue, MutationAppliedOnce, GrantNotTakenOver
<1> QED
  BY <1>8, <1>9, <1>10, <1>11, <1>12 DEF AccountInv

(* The pruning of an expired probe and the changes of the account's state.  *)
LEMMA AccountStates ==
  ASSUME AccountTyped, TokensDrawn
  PROVE  /\ NoProbe \in Grants /\ NoProbe.token <= drawn /\ NoProbe.until = 0
         /\ ProbePruned.p \in Grants /\ ProbePruned.p.token <= drawn
         /\ ProbePruned.a \in AccountStateRecords
         /\ probe.until > acctNow => ProbePruned.p = probe
         /\ \A p, a, outcome : a \in AccountStateRecords =>
               /\ Rejected(p, a, outcome) \in AccountStateRecords
               /\ Recovered(a) \in AccountStateRecords
<1>1. /\ NoProbe \in Grants /\ NoProbe.token = 0 /\ NoProbe.until = 0
      /\ drawn \in Nat /\ acctNow \in Nat /\ probe \in Grants /\ probe.until \in Nat
      /\ acct \in AccountStateRecords /\ Cooldown \in Nat /\ NamedDelay \in Nat
      /\ probe.token <= drawn
  BY RedisAccountAssumption DEF NoProbe, Grants, AccountTyped, TokensDrawn
<1>2. [acct EXCEPT !.gen = @ + 1] \in AccountStateRecords
  BY <1>1 DEF AccountStateRecords
<1>3. /\ ProbePruned.p \in {NoProbe, probe} /\ ProbePruned.a \in {acct, [acct EXCEPT !.gen = @ + 1]}
      /\ probe.until > acctNow => ProbePruned.p = probe
  BY <1>1 DEF ProbePruned
<1>4. ASSUME NEW p, NEW a \in AccountStateRecords, NEW outcome
      PROVE  /\ Rejected(p, a, outcome) \in AccountStateRecords
             /\ Recovered(a) \in AccountStateRecords
  <2> DEFINE explicit == IF outcome = "retryAfter" THEN LaterOf(a.explicit, acctNow + NamedDelay) ELSE a.explicit
             until == LaterOf(acctNow + Cooldown, explicit)
             gen == IF p = NoProbe THEN a.gen + 1 ELSE a.gen
  <2>1. gen \in Nat /\ a.explicit \in Nat
    BY DEF AccountStateRecords
  <2>2. explicit \in Nat
    BY <1>1, <2>1 DEF LaterOf
  <2>3. until \in Nat
    BY <1>1, <2>2 DEF LaterOf
  <2>4. Rejected(p, a, outcome) = [gen |-> gen, saturated |-> TRUE, until |-> until, explicit |-> explicit]
    BY DEF Rejected
  <2> HIDE DEF gen, until, explicit
  <2>5. Rejected(p, a, outcome) \in AccountStateRecords
    BY <2>1, <2>2, <2>3, <2>4 DEF AccountStateRecords
  <2>6. Recovered(a) \in AccountStateRecords
    BY DEF Recovered, AccountStateRecords
  <2> QED
    BY <2>5, <2>6
<1> QED
  BY <1>1, <1>2, <1>3, <1>4

(* Whatever command runs, whoever sent it and however late: it applies no   *)
(* token twice, it leaves the probe of a request that is probing or renews  *)
(* it, and a grant or a renewal it answers is the probe of the request that *)
(* asked.                                                                   *)
LEMMA AccountScriptKeeps ==
  ASSUME AccountInv, NEW cmd \in commands, NEW reply, AccountScript(cmd, reply)
  PROVE  /\ acct' \in AccountStateRecords
         /\ probe' \in Grants /\ probe'.token <= drawn
         /\ ~doubled' /\ probe'.until <= acctNow + ProbeTtl
         /\ \A w \in Waiters : Probing(w) => SameGrant(probe', w)
         /\ cmd.op = "grant" /\ reply = "granted"
            => probe'.who = cmd.who /\ probe'.token = cmd.token
         /\ cmd.op = "renew" /\ reply = "granted"
            => probe'.who = cmd.who /\ probe'.token = cmd.owner
<1> DEFINE p == ProbePruned.p
           a == ProbePruned.a
<1>1. /\ AccountTyped /\ TokensDrawn /\ FinishNamesOldGrant /\ HeldByOwner /\ ProbeShort
      /\ ~doubled /\ \A w \in Waiters : Probing(w) => SameGrant(probe, w)
  BY DEF AccountInv, AccountTrue, MutationAppliedOnce, GrantNotTakenOver, SameGrant
<1>2. /\ probe \in Grants /\ acct \in AccountStateRecords /\ probe.token <= drawn /\ acctNow \in Nat \ {0} /\ drawn \in Nat
      /\ cmd \in CommandRecords
      /\ NoProbe \in Grants /\ NoProbe.token <= drawn /\ NoProbe.until = 0
      /\ p \in Grants /\ p.token <= drawn /\ a \in AccountStateRecords
      /\ probe.until <= acctNow + ProbeTtl
      /\ p.until <= acctNow + ProbeTtl /\ NoProbe.until <= acctNow + ProbeTtl
      /\ probe.until > acctNow => p = probe
      /\ \A q, b, o : b \in AccountStateRecords =>
            Rejected(q, b, o) \in AccountStateRecords /\ Recovered(b) \in AccountStateRecords
  <2>1. p \in {NoProbe, probe}
    BY DEF ProbePruned
  <2>2. NoProbe.until <= acctNow + ProbeTtl /\ NoProbe.until = 0
    BY <1>1, RedisAccountAssumption DEF AccountTyped, NoProbe
  <2> QED
    BY <1>1, <2>1, <2>2, AccountStates DEF AccountTyped, TokensDrawn, ProbeShort
<1>3. \A w \in Waiters : Probing(w) => /\ SameGrant(probe, w) /\ p = probe
                                       /\ heldGrant[w].until > acctNow /\ p.until > acctNow
  <2> SUFFICES ASSUME NEW w \in Waiters, Probing(w)
               PROVE  /\ SameGrant(probe, w) /\ p = probe
                      /\ heldGrant[w].until > acctNow /\ p.until > acctNow
    OBVIOUS
  <2>1. heldGrant[w].until \in Nat /\ probe.until \in Nat
    BY <1>1 DEF AccountTyped, Grants
  <2>2. SameGrant(probe, w) /\ heldGrant[w].until > acctNow
    BY <1>1 DEF Probing
  <2>3. probe.until > acctNow
    BY <1>2, <2>1, <2>2 DEF SameGrant
  <2> QED
    BY <1>2, <2>2, <2>3
<1> HIDE DEF p, a
<1>4. CASE cmd.op = "reject"
  <2>1. probe' = p /\ acct' \in {a, Rejected(p, a, cmd.outcome)} /\ ~doubled'
    BY <1>1, <1>4 DEF AccountScript, Reject, Keep, Apply, Replayed, p, a
  <2> QED
    BY <1>1, <1>2, <1>3, <1>4, <2>1
<1>5. CASE cmd.op \in {"register", "cancel"}
  <2>1. probe' = probe /\ acct' = acct /\ doubled' = doubled
    BY <1>5 DEF AccountScript, Register, Cancel
  <2> QED
    BY <1>1, <1>2, <1>3, <1>5, <2>1
<1>6. CASE cmd.op = "grant"
  <2> DEFINE won == [who |-> cmd.who, token |-> cmd.token, gen |-> a.gen, until |-> acctNow + ProbeTtl]
  <2>1. /\ acct' = a /\ doubled' = doubled
        /\ \/ probe' = p /\ reply # "granted"
           \/ probe' = p /\ p.who = cmd.who /\ p.token = cmd.token
           \/ probe' = won /\ p.until <= acctNow
    BY <1>6 DEF AccountScript, Grant, Keep, ProbeFree, p, a
  <2>2. /\ won \in Grants /\ won.token <= drawn /\ won.who = cmd.who /\ won.token = cmd.token
        /\ won.until = acctNow + ProbeTtl /\ acctNow + ProbeTtl <= acctNow + ProbeTtl
    BY <1>1, <1>2, RedisAccountAssumption DEF Grants, AccountStateRecords, CommandRecords, TokensDrawn
  <2>3. ASSUME NEW w \in Waiters, Probing(w) PROVE ~(p.until <= acctNow)
    BY <1>2, <1>3, <2>3 DEF Grants
  <2> HIDE DEF won
  <2> QED
    BY <1>1, <1>2, <1>3, <1>6, <2>1, <2>2, <2>3
<1>7. CASE cmd.op = "finish"
  <2>1. /\ ~doubled'
        /\ \/ probe' = p /\ acct' = a
           \/ Owns(cmd, p, a) /\ probe' = NoProbe /\ acct' \in {a, Recovered(a), Rejected(NoProbe, a, cmd.outcome)}
    BY <1>1, <1>7 DEF AccountScript, Finish, Keep, Apply, Replayed, p, a
  <2>2. ASSUME NEW w \in Waiters, Probing(w), Owns(cmd, p, a) PROVE FALSE
    <3>1. heldGrant[w].token = p.token /\ p.who = w /\ p.who = cmd.who /\ p.token = cmd.owner
      BY <1>3, <2>2 DEF Owns, SameGrant
    <3>2. heldGrant[w] # NoProbe /\ asks[w].op # "finish"
      BY <1>2, <1>3, <2>2 DEF Probing
    <3>3. cmd.who = w
      BY <3>1
    <3> QED
      BY <1>1, <1>7, <3>1, <3>2, <3>3 DEF FinishNamesOldGrant
  <2> QED
    BY <1>1, <1>2, <1>3, <1>7, <2>1, <2>2
<1>8. CASE cmd.op = "renew"
  <2> DEFINE renewed == [p EXCEPT !.until = acctNow + ProbeTtl]
  <2>1. /\ acct' = a /\ doubled' = doubled
        /\ \/ probe' = p /\ reply # "granted"
           \/ Owns(cmd, p, a) /\ probe' = renewed
    BY <1>8 DEF AccountScript, RenewProbe, Keep, p, a
  <2>2. /\ renewed \in Grants /\ renewed.token = p.token /\ renewed.who = p.who
        /\ renewed.until = acctNow + ProbeTtl /\ acctNow + ProbeTtl <= acctNow + ProbeTtl
    BY <1>2, RedisAccountAssumption DEF Grants
  <2>3. ASSUME NEW w \in Waiters, Probing(w) PROVE SameGrant(renewed, w)
    <3>1. SameGrant(p, w)
      BY <1>3, <2>3
    <3>2. heldGrant[w].until <= acctNow + ProbeTtl
      BY <1>1, <1>2, <1>3, <2>3, RedisAccountAssumption DEF SameGrant, AccountTyped, Grants
    <3> QED
      BY <2>2, <3>1, <3>2 DEF SameGrant
  <2> HIDE DEF renewed
  <2> QED
    BY <1>1, <1>2, <1>3, <1>8, <2>1, <2>2, <2>3 DEF Owns
<1> QED
  BY <1>2, <1>4, <1>5, <1>6, <1>7, <1>8 DEF CommandRecords, AccountOps

(* A request hears of its operation, or gives it up.                        *)
LEMMA SettleKeeps ==
  ASSUME AccountInv, NEW w \in Waiters, NEW done, NEW reply, Settle(w, done, reply),
         done.op = asks[w].op, done.token = asks[w].token,
         probe' \in Grants, probe'.token <= drawn, UNCHANGED <<acctNow, drawn>>,
         acct' \in AccountStateRecords, ~doubled',
         commands' \subseteq commands,
         probe'.until <= acctNow + ProbeTtl,
         \A v \in Waiters : Probing(v) => SameGrant(probe', v),
         done.op = "grant" /\ reply = "granted" => probe'.who = w /\ probe'.token = done.token,
         done.op = "renew" /\ reply = "granted" => probe'.who = w /\ probe'.token = heldGrant[w].token
  PROVE  AccountInv'
<1> DEFINE rested == [asks[w] EXCEPT !.op = "none", !.attempt = 0, !.gen = 0, !.outcome = "none"]
<1>1. /\ AccountTyped /\ TokensDrawn /\ AskUnderWay /\ TokenNamesOperation /\ FinishNamesOldGrant
      /\ HeldByOwner /\ ProbeShort
  BY DEF AccountInv
<1>2. /\ rested \in AskRecords /\ rested.op = "none" /\ rested.attempt = 0 /\ rested.token = asks[w].token
  <2>1. asks[w] \in AskRecords
    BY <1>1 DEF AccountTyped
  <2> QED
    BY <2>1 DEF AskRecords, Outcomes
<1>3. asks' = [asks EXCEPT ![w] = rested]
  BY DEF Settle
<1> HIDE DEF rested
<1>4. /\ asks' \in [Waiters -> AskRecords] /\ asks'[w] = rested
      /\ \A v \in Waiters \ {w} : asks'[v] = asks[v]
  BY <1>1, <1>2, <1>3 DEF AccountTyped
<1>5. NoProbe \in Grants /\ NoProbe.token <= drawn /\ NoProbe.until = 0
  BY <1>1, AccountStates
<1>6. /\ heldGrant' \in [Waiters -> Grants]
      /\ \A v \in Waiters \ {w} : heldGrant'[v] = heldGrant[v]
      /\ \/ done.op = "grant" /\ reply = "granted" /\ heldGrant'[w] = probe'
         \/ done.op = "finish" /\ heldGrant'[w] = NoProbe
         \/ /\ done.op = "renew" /\ heldGrant'[w].token = heldGrant[w].token
            /\ heldGrant'[w].who = heldGrant[w].who /\ heldGrant[w] # NoProbe
            /\ heldGrant'[w].until = 0 \/ (reply = "granted" /\ heldGrant'[w].until = probe'.until)
         \/ done.op # "finish" /\ heldGrant'[w] = heldGrant[w]
  <2> DEFINE until == IF reply = "granted" THEN probe'.until ELSE 0
             renewed == [heldGrant[w] EXCEPT !.until = until]
             next == CASE done.op = "grant" /\ reply = "granted" -> probe'
                       [] done.op = "renew" -> renewed
                       [] done.op = "finish" -> NoProbe
                       [] OTHER -> heldGrant[w]
  <2>1. heldGrant' = [heldGrant EXCEPT ![w] = next]
    BY DEF Settle
  <2>2. heldGrant[w] \in Grants /\ until \in Nat
    BY <1>1 DEF AccountTyped, Grants
  <2>3. /\ renewed \in Grants /\ renewed.token = heldGrant[w].token /\ renewed.who = heldGrant[w].who
        /\ renewed.until = until
    BY <2>2 DEF Grants
  <2>4. done.op = "renew" => heldGrant[w] # NoProbe
    BY <1>1 DEF AskUnderWay
  <2> HIDE DEF renewed
  <2>5. \/ done.op = "grant" /\ reply = "granted" /\ next = probe'
        \/ done.op = "renew" /\ next = renewed
        \/ done.op = "finish" /\ next = NoProbe
        \/ done.op # "finish" /\ next = heldGrant[w]
    OBVIOUS
  <2> HIDE DEF next
  <2>6. next \in Grants
    BY <1>5, <2>2, <2>3, <2>5
  <2>7. heldGrant'[w] = next /\ heldGrant' \in [Waiters -> Grants]
        /\ \A v \in Waiters \ {w} : heldGrant'[v] = heldGrant[v]
    BY <1>1, <2>1, <2>6 DEF AccountTyped
  <2> QED
    BY <2>3, <2>4, <2>5, <2>7
<1>7. AccountTyped'
  <2>1. heldTicket' \in [Waiters -> Nat]
    <3> DEFINE ticket == CASE done.op = "register" /\ reply = "ok" -> done.token
                           [] done.op = "grant" /\ reply = "granted" -> 0
                           [] done.op = "cancel" /\ reply = "ok" -> 0
                           [] OTHER -> heldTicket[w]
    <3>1. done.token \in Nat /\ heldTicket[w] \in Nat
      BY <1>1 DEF AccountTyped, AskRecords
    <3>2. ticket \in Nat
      BY <3>1
    <3>3. heldTicket' = [heldTicket EXCEPT ![w] = ticket]
      BY DEF Settle
    <3> HIDE DEF ticket
    <3> QED
      BY <1>1, <3>2, <3>3 DEF AccountTyped
  <2> QED
    BY <1>1, <1>4, <1>6, <2>1 DEF AccountTyped
<1>8. TokensDrawn'
  BY <1>1, <1>2, <1>4, <1>5, <1>6 DEF TokensDrawn
<1>9. AskUnderWay'
  BY <1>1, <1>2, <1>4, <1>6 DEF AskUnderWay
<1>10. \A cmd \in commands : cmd.who \in Waiters
  BY <1>1 DEF AccountTyped, CommandRecords
<1>11. TokenNamesOperation'
  BY <1>1, <1>2, <1>4, <1>6, <1>10 DEF TokenNamesOperation
<1>12. FinishNamesOldGrant'
  BY <1>1, <1>2, <1>4, <1>6, <1>10 DEF FinishNamesOldGrant
<1>13. HeldByOwner' /\ ProbeShort'
  BY <1>1, <1>6 DEF HeldByOwner, ProbeShort
<1>14. AccountTrue'
  <2>0. /\ acctNow \in Nat /\ acctNow' = acctNow /\ probe'.until \in Nat
        /\ ~(0 > acctNow)
    BY <1>1 DEF AccountTyped, Grants
  <2>1. ASSUME NEW v \in Waiters, Probing(v)'
        PROVE  /\ probe'.who = v /\ probe'.token = heldGrant'[v].token
               /\ probe'.until >= heldGrant'[v].until
    <3>0. heldGrant'[v].until > acctNow
      BY <2>0, <2>1 DEF Probing
    <3>1. CASE v = w
      <4>1. heldGrant'[w] # NoProbe /\ heldGrant'[w].until # 0
        BY <1>5, <2>0, <3>0, <3>1
      <4>2. CASE heldGrant'[w] = heldGrant[w] /\ done.op # "finish"
        BY <2>0, <3>0, <3>1, <4>2 DEF Probing, SameGrant
      <4>3. CASE done.op = "grant" /\ reply = "granted" /\ heldGrant'[w] = probe'
        BY <2>0, <3>1, <4>3
      <4>4. CASE /\ done.op = "renew" /\ heldGrant'[w].token = heldGrant[w].token
                 /\ reply = "granted" /\ heldGrant'[w].until = probe'.until
        BY <2>0, <3>1, <4>4
      <4> QED
        BY <1>6, <4>1, <4>2, <4>3, <4>4
    <3>2. CASE v # w
      BY <1>4, <1>6, <2>0, <2>1, <3>2 DEF Probing, SameGrant
    <3> QED
      BY <3>1, <3>2
  <2> QED
    BY <2>1 DEF AccountTrue, MutationAppliedOnce, GrantNotTakenOver
<1> QED
  BY <1>7, <1>8, <1>9, <1>11, <1>12, <1>13, <1>14 DEF AccountInv

LEMMA ExecuteCommandKeeps ==
  ASSUME AccountInv, NEW cmd \in commands, ExecuteCommand(cmd)
  PROVE  AccountInv'
<1>1. /\ AccountTyped /\ TokensDrawn /\ AskUnderWay /\ TokenNamesOperation /\ FinishNamesOldGrant
      /\ HeldByOwner /\ ProbeShort
      /\ commands' \subseteq commands /\ UNCHANGED <<acctNow, drawn>>
  BY DEF AccountInv, ExecuteCommand
<1>2. cmd.who \in Waiters /\ cmd.attempt \in {1, 2}
  BY <1>1 DEF AccountTyped, CommandRecords
<1>3. PICK reply \in {"ok", "open", "granted", "wait", "failed"} :
        /\ AccountScript(cmd, reply)
        /\ \/ UNCHANGED <<asks, heldGrant, heldTicket>>
           \/ /\ asks[cmd.who].token = cmd.token /\ asks[cmd.who].attempt = cmd.attempt
              /\ Settle(cmd.who, cmd, reply)
  BY DEF ExecuteCommand
<1>4. /\ acct' \in AccountStateRecords
      /\ probe' \in Grants /\ probe'.token <= drawn
      /\ ~doubled' /\ probe'.until <= acctNow + ProbeTtl
      /\ \A w \in Waiters : Probing(w) => SameGrant(probe', w)
      /\ cmd.op = "grant" /\ reply = "granted"
         => probe'.who = cmd.who /\ probe'.token = cmd.token
      /\ cmd.op = "renew" /\ reply = "granted"
         => probe'.who = cmd.who /\ probe'.token = cmd.owner
  BY <1>3, AccountScriptKeeps
<1>5. CASE UNCHANGED <<asks, heldGrant, heldTicket>>
  <2>1. AccountTyped' /\ TokensDrawn' /\ AskUnderWay'
    BY <1>1, <1>4, <1>5 DEF AccountTyped, TokensDrawn, AskUnderWay
  <2>2. TokenNamesOperation' /\ FinishNamesOldGrant' /\ HeldByOwner' /\ ProbeShort'
    BY <1>1, <1>4, <1>5 DEF TokenNamesOperation, FinishNamesOldGrant, HeldByOwner, ProbeShort
  <2>3. AccountTrue'
    BY <1>1, <1>4, <1>5 DEF AccountTrue, MutationAppliedOnce, GrantNotTakenOver, Probing, SameGrant
  <2> QED
    BY <2>1, <2>2, <2>3 DEF AccountInv
<1>6. CASE /\ asks[cmd.who].token = cmd.token /\ asks[cmd.who].attempt = cmd.attempt
           /\ Settle(cmd.who, cmd, reply)
  <2>1. cmd.op = asks[cmd.who].op /\ cmd.owner = heldGrant[cmd.who].token
    BY <1>1, <1>2, <1>6 DEF TokenNamesOperation
  <2> QED
    BY <1>1, <1>2, <1>4, <1>6, <2>1, SettleKeeps
<1> QED
  BY <1>3, <1>5, <1>6

LEMMA AccountStep == AccountInv /\ [AccountNext]_accountVars => AccountInv'
<1> SUFFICES ASSUME AccountInv, [AccountNext]_accountVars PROVE AccountInv'
  OBVIOUS
<1>1. ASSUME NEW w \in Waiters,
             \/ AskReject(w) \/ AskRegister(w) \/ AskGrant(w) \/ AskCancel(w) \/ AskRenew(w)
             \/ AskFinish(w)
      PROVE  AccountInv'
  <2>0. heldGrant[w].until > 0 => heldGrant[w] # NoProbe
    BY DEF NoProbe
  <2>1. \E op \in AccountOps, outcome \in Outcomes :
            AskRedis(w, op, outcome) /\ (op = "renew" => heldGrant[w] # NoProbe)
    BY <1>1, <2>0 DEF AskReject, AskRegister, AskGrant, AskCancel, AskRenew, AskFinish, AccountOps, Outcomes
  <2> QED
    BY <2>1, AskRedisKeeps
<1>2. ASSUME NEW w \in Waiters, AskFails(w) PROVE AccountInv'
  <2>1. /\ Settle(w, asks[w], "failed")
        /\ UNCHANGED <<acctNow, acct, probe, doubled, commands, drawn>>
    BY <1>2 DEF AskFails
  <2>2. /\ probe \in Grants /\ probe.token <= drawn /\ ~doubled
        /\ acct \in AccountStateRecords
        /\ \A v \in Waiters : Probing(v) => SameGrant(probe, v)
        /\ probe.until <= acctNow + ProbeTtl
    BY DEF AccountInv, AccountTyped, TokensDrawn, AccountTrue, MutationAppliedOnce, GrantNotTakenOver,
           SameGrant, ProbeShort
  <2> QED
    BY <2>1, <2>2, SettleKeeps
<1>3. ASSUME AccountTick PROVE AccountInv'
  <2>1. /\ AccountTyped /\ TokensDrawn /\ AskUnderWay /\ TokenNamesOperation /\ FinishNamesOldGrant
        /\ HeldByOwner /\ ProbeShort /\ AccountTrue
    BY DEF AccountInv
  <2>2. acctNow' = acctNow + 1
        /\ UNCHANGED <<lineup, acct, probe, markers, doubled, commands, asks, heldGrant, heldTicket, drawn, late>>
    BY <1>3 DEF AccountTick
  <2>3. \A w \in Waiters : Probing(w)' => Probing(w)
    BY <2>1, <2>2 DEF Probing, AccountTyped, Grants
  <2>4. ProbeShort' /\ AccountTrue'
    BY <2>1, <2>2, <2>3, RedisAccountAssumption DEF ProbeShort, AccountTyped, Grants, AccountTrue, MutationAppliedOnce, GrantNotTakenOver
  <2>5. AccountTyped'
    BY <2>1, <2>2 DEF AccountTyped
  <2> QED
    BY <2>1, <2>2, <2>4, <2>5 DEF AccountInv, TokensDrawn, AskUnderWay, TokenNamesOperation,
                                  FinishNamesOldGrant, HeldByOwner
<1>4. ASSUME UNCHANGED accountVars PROVE AccountInv'
  BY <1>4 DEF accountVars, AccountInv, AccountTyped, TokensDrawn, AskUnderWay, TokenNamesOperation,
              FinishNamesOldGrant, HeldByOwner, ProbeShort, AccountTrue, MutationAppliedOnce,
              GrantNotTakenOver, Probing
<1> QED
  BY <1>1, <1>2, <1>3, <1>4, AskAgainKeeps, ExecuteCommandKeeps DEF AccountNext

(* The saturated account kept in Redis: no rejection and no finish is       *)
(* applied twice, and the probe of a request that is probing is not ended   *)
(* or replaced by a command of another, however late that command runs.     *)
THEOREM AccountIsTrue == AccountSpec => []AccountTrue
<1>1. AccountInv => AccountTrue
  BY DEF AccountInv
<1> QED
  BY <1>1, AccountStart, AccountStep, PTL DEF AccountSpec

-----------------------------------------------------------------------------
(* Conversation.                                                            *)

Items == [turn : Turns, from : Providers]
AnswerRecords == [items : SUBSET Items, source : Providers \cup {Nowhere}, hedged : BOOLEAN,
                  prior : 0 .. MaxTurns]
TurnRecords == [at : {"idle", "routing", "sent", "answering"}, prior : 0 .. MaxTurns,
                fallback : BOOLEAN, replays : BOOLEAN, escaped : BOOLEAN,
                route : Providers \cup {Nowhere}, maker : Providers \cup {Nowhere},
                stage : 0 .. 4, context : SUBSET Items,
                sent : SUBSET [turn : Turns, from : Providers, bound : BOOLEAN]]

ConversationTyped ==
    /\ lastTurn \in 0 .. MaxTurns
    /\ answers \in [Turns -> AnswerRecords]
    /\ turn \in TurnRecords
    /\ failures \in [Upstreams -> [Stages -> Nat]]
    /\ depthUsed \in [Upstreams -> Stages]

(* A stored history ends with its own answer, made by its source unless a   *)
(* hedge made it, and nothing is stored for a turn that has not ended.      *)
AnswersStored ==
    /\ \A n \in Turns :
          /\ \A i \in answers[n].items :
                /\ i.turn <= n
                /\ i.turn = n /\ ~answers[n].hedged => i.from = answers[n].source
          /\ answers[n] # NoAnswer => answers[n].source \in Providers
    /\ \A n \in Turns : n > lastTurn => answers[n] = NoAnswer
    /\ turn.at # "idle" => lastTurn \in Turns /\ answers[lastTurn] = NoAnswer

(* The request in progress continues an earlier turn that is stored, and    *)
(* what it sent is what its route may see of it.                            *)
RequestReplays ==
    turn.at # "idle" =>
        /\ turn.prior < lastTurn
        /\ turn.prior # 0 => answers[turn.prior] # NoAnswer
        /\ turn.context \subseteq PriorItems
        /\ turn.at # "routing" => /\ turn.route \in Providers
                                  /\ turn.fallback => turn.stage \in Stages
                                  /\ turn.sent = SentItems(turn.context, Crosses(turn.route))
        /\ turn.at = "answering" => turn.maker \in Providers

(* Below the stage an upstream was last given, every stage is closed to a       *)
(* request that replays.                                                    *)
RicherStagesClosed ==
    \A u \in Upstreams, s \in Stages :
        s < depthUsed[u] => \/ failures[u][s] >= StageTries
                            \/ failures[u][1] >= StageTries /\ s < 3

ConversationInv == ConversationTyped /\ AnswersStored /\ RequestReplays /\ RicherStagesClosed

(* initial_chat_fallback_stage gives a stage, and for a request that        *)
(* replays none above it is open.                                           *)
LEMMA StageForFound ==
  ASSUME ConversationTyped, NEW u \in Upstreams
  PROVE  /\ StageFor(u) \in Stages
         /\ turn.replays =>
              /\ \A s \in Stages :
                    s < StageFor(u) => \/ failures[u][s] >= StageTries
                                       \/ failures[u][1] >= StageTries /\ s < 3
              /\ \/ StageFor(u) = 4
                 \/ /\ ~(failures[u][StageFor(u)] >= StageTries)
                    /\ failures[u][1] >= StageTries => StageFor(u) >= 3
<1> DEFINE skip == turn.replays /\ failures[u][1] >= StageTries
           open == {s \in Stages : failures[u][s] < StageTries /\ (skip => s >= 3)}
<1>1. /\ StageTries \in Nat /\ \A s \in Stages : failures[u][s] \in Nat /\ s \in Nat /\ s <= 4
      /\ 4 \in Stages
  BY ConversationAssumption DEF ConversationTyped, Stages
<1>2. StageFor(u) = IF open = {} THEN 4 ELSE CHOOSE s \in open : \A t \in open : s <= t
  BY DEF StageFor
<1>3. open # {} => \E s \in open : \A t \in open : s <= t
  <2>1. ASSUME NEW S \in SUBSET {1, 2, 3, 4}, S # {} PROVE \E s \in S : \A t \in S : s <= t
    <3>1. CASE 1 \in S
      BY <3>1
    <3>2. CASE 1 \notin S /\ 2 \in S
      BY <3>2
    <3>3. CASE 1 \notin S /\ 2 \notin S /\ 3 \in S
      BY <3>3
    <3>4. CASE 1 \notin S /\ 2 \notin S /\ 3 \notin S
      <4>1. S = {4}
        BY <2>1, <3>4
      <4> QED
        BY <4>1
    <3> QED
      BY <3>1, <3>2, <3>3, <3>4
  <2>2. open \subseteq {1, 2, 3, 4}
    BY DEF Stages
  <2> HIDE DEF open
  <2> QED
    BY <2>1, <2>2
<1>4. \A s \in open : s \in Stages /\ ~(failures[u][s] >= StageTries) /\ (skip => s >= 3)
  BY <1>1
<1>5. \A s \in Stages \ open : turn.replays =>
          \/ failures[u][s] >= StageTries
          \/ failures[u][1] >= StageTries /\ s < 3
  BY <1>1
<1> HIDE DEF open
<1>6. CASE open = {}
  BY <1>1, <1>2, <1>5, <1>6
<1>7. CASE open # {}
  <2>1. StageFor(u) \in open /\ \A t \in open : StageFor(u) <= t
    BY <1>2, <1>3, <1>7
  <2>2. \A s \in Stages : s < StageFor(u) => s \notin open
    BY <1>1, <1>4, <2>1
  <2> QED
    BY <1>4, <1>5, <2>1, <2>2
<1> QED
  BY <1>6, <1>7

LEMMA ConversationStart == ConversationInit => ConversationInv
<1> SUFFICES ASSUME ConversationInit PROVE ConversationInv
  OBVIOUS
<1>1. /\ NoAnswer \in AnswerRecords /\ NoAnswer.items = {} /\ NoTurn \in TurnRecords
      /\ NoTurn.at = "idle"
  BY ConversationAssumption DEF NoAnswer, AnswerRecords, NoTurn, TurnRecords
<1>2. ConversationTyped
  BY <1>1, ConversationAssumption DEF ConversationInit, ConversationTyped, Stages
<1>3. AnswersStored
  BY <1>1 DEF ConversationInit, AnswersStored
<1>4. RequestReplays
  BY <1>1 DEF ConversationInit, RequestReplays
<1>5. RicherStagesClosed
  BY DEF ConversationInit, RicherStagesClosed, Stages
<1> QED
  BY <1>2, <1>3, <1>4, <1>5 DEF ConversationInv

(* A request begins, with a prior turn that is stored or none.              *)
LEMMA AskKeeps ==
  ASSUME ConversationInv, NEW prior \in 0 .. MaxTurns, NEW fallback \in BOOLEAN, NEW replays \in BOOLEAN,
         prior <= lastTurn, Ask(prior, fallback, replays)
  PROVE  ConversationInv'
<1> DEFINE begun == [NoTurn EXCEPT !.at = "routing", !.prior = prior, !.fallback = fallback,
                                   !.replays = replays]
<1>1. /\ ConversationTyped /\ AnswersStored /\ RicherStagesClosed
      /\ lastTurn \in 0 .. MaxTurns /\ MaxTurns \in Nat
  BY ConversationAssumption DEF ConversationInv, ConversationTyped
<1>2. /\ turn.at = "idle" /\ lastTurn < MaxTurns /\ lastTurn' = lastTurn + 1 /\ turn' = begun
      /\ prior # 0 => answers[prior] # NoAnswer
      /\ UNCHANGED <<answers, failures, depthUsed>>
  BY DEF Ask
<1>3. /\ begun \in TurnRecords /\ begun.at = "routing" /\ begun.prior = prior /\ begun.context = {}
  <2>1. NoTurn \in TurnRecords /\ NoTurn.context = {}
    BY <1>1 DEF NoTurn, TurnRecords
  <2> QED
    BY <2>1 DEF TurnRecords
<1> HIDE DEF begun
<1>4. ConversationTyped'
  BY <1>1, <1>2, <1>3 DEF ConversationTyped
<1>5. AnswersStored'
  BY <1>1, <1>2, <1>3 DEF AnswersStored, Turns
<1>6. RequestReplays'
  BY <1>1, <1>2, <1>3 DEF RequestReplays
<1>7. RicherStagesClosed'
  BY <1>1, <1>2 DEF RicherStagesClosed
<1> QED
  BY <1>4, <1>5, <1>6, <1>7 DEF ConversationInv

(* What is sent of items is items, bound or not.                            *)
LEMMA SentItemsTyped ==
  ASSUME NEW items \in SUBSET Items, NEW clean
  PROVE  SentItems(items, clean) \subseteq [turn : Turns, from : Providers, bound : BOOLEAN]
<1>1. (~clean) \in BOOLEAN
  OBVIOUS
<1>2. ASSUME NEW b \in BOOLEAN, NEW i \in items
      PROVE  [turn |-> i.turn, from |-> i.from, bound |-> b]
               \in [turn : Turns, from : Providers, bound : BOOLEAN]
  BY DEF Items
<1> QED
  BY <1>1, <1>2 DEF SentItems

LEMMA DispatchKeeps ==
  ASSUME ConversationInv, NEW p \in Providers, Dispatch(p)
  PROVE  /\ ConversationInv'
         /\ \A v \in Upstreams : ~(depthUsed'[v] < depthUsed[v])
<1> DEFINE u == UpstreamOf[p]
<1>0. u \in Upstreams
  BY ConversationAssumption
<1> DEFINE sent == [turn EXCEPT !.at = "sent", !.route = p,
                                !.stage = IF turn.fallback THEN StageFor(u) ELSE 0,
                                !.context = ContextFor(u),
                                !.sent = SentItems(ContextFor(u), Crosses(p))]
<1>1. /\ ConversationTyped /\ AnswersStored /\ RequestReplays /\ RicherStagesClosed
      /\ StageFor(u) \in Stages
      /\ turn.replays =>
           /\ \A s \in Stages :
                 s < StageFor(u) => \/ failures[u][s] >= StageTries
                                    \/ failures[u][1] >= StageTries /\ s < 3
           /\ \/ StageFor(u) = 4
              \/ /\ ~(failures[u][StageFor(u)] >= StageTries)
                 /\ failures[u][1] >= StageTries => StageFor(u) >= 3
  BY <1>0, StageForFound DEF ConversationInv
<1>2. /\ turn.at = "routing" /\ turn' = sent
      /\ depthUsed' = [depthUsed EXCEPT ![u] = IF turn.fallback /\ turn.replays THEN StageFor(u) ELSE @]
      /\ UNCHANGED <<answers, lastTurn, failures>>
  BY DEF Dispatch
<1>3. PriorItems \subseteq Items /\ ContextFor(u) \subseteq PriorItems
  <2>1. turn.prior # 0 => answers[turn.prior].items \subseteq Items
    BY <1>1 DEF ConversationTyped, TurnRecords, AnswerRecords, Turns
  <2> QED
    BY <2>1 DEF PriorItems, ContextFor
<1>4. SentItems(ContextFor(u), Crosses(p)) \subseteq [turn : Turns, from : Providers, bound : BOOLEAN]
  BY <1>3, SentItemsTyped
<1>5. /\ sent \in TurnRecords /\ sent.at = "sent" /\ sent.route = p /\ sent.prior = turn.prior
      /\ sent.escaped = turn.escaped /\ sent.fallback = turn.fallback
      /\ sent.fallback => sent.stage \in Stages
      /\ sent.context = ContextFor(u) /\ sent.sent = SentItems(ContextFor(u), Crosses(p))
  <2>1. turn \in TurnRecords /\ ContextFor(u) \in SUBSET Items
        /\ SentItems(ContextFor(u), Crosses(p)) \in SUBSET [turn : Turns, from : Providers, bound : BOOLEAN]
    BY <1>1, <1>3, <1>4 DEF ConversationTyped
  <2>2. (IF turn.fallback THEN StageFor(u) ELSE 0) \in 0 .. 4
    BY <1>1 DEF Stages
  <2>3. (turn.fallback => (IF turn.fallback THEN StageFor(u) ELSE 0) \in Stages)
    BY <1>1
  <2> QED
    BY <2>1, <2>2, <2>3 DEF TurnRecords
<1> HIDE DEF sent, u
<1>6. /\ depthUsed' \in [Upstreams -> Stages]
      /\ depthUsed'[u] = IF turn.fallback /\ turn.replays THEN StageFor(u) ELSE depthUsed[u]
      /\ \A v \in Upstreams \ {u} : depthUsed'[v] = depthUsed[v]
  BY <1>0, <1>1, <1>2 DEF ConversationTyped
<1>7. ConversationTyped'
  BY <1>1, <1>2, <1>5, <1>6 DEF ConversationTyped
<1>8. AnswersStored'
  BY <1>1, <1>2, <1>5 DEF AnswersStored
<1>9. RequestReplays'
  <2>1. PriorItems' = PriorItems /\ PriorSource' = PriorSource
    BY <1>2, <1>5 DEF PriorItems, PriorSource
  <2>2. Crosses(turn.route)' = Crosses(p)
    BY <1>2, <1>5, <2>1 DEF Crosses
  <2>3. (turn.sent = SentItems(turn.context, Crosses(turn.route)))'
    BY <1>2, <1>5, <2>2 DEF SentItems
  <2> QED
    BY <1>1, <1>2, <1>3, <1>5, <2>1, <2>3 DEF RequestReplays
<1>10. RicherStagesClosed'
  BY <1>1, <1>2, <1>6 DEF RicherStagesClosed
<1>11. ASSUME NEW v \in Upstreams, depthUsed'[v] < depthUsed[v] PROVE FALSE
  <2>1. /\ depthUsed[v] \in Stages /\ failures[v] \in [Stages -> Nat] /\ StageTries \in Nat
    BY <1>1, ConversationAssumption DEF ConversationTyped
  <2>2. v = u /\ turn.fallback /\ turn.replays /\ depthUsed'[v] = StageFor(u)
    BY <1>6, <1>11, <2>1 DEF Stages
  <2>3. \/ failures[u][StageFor(u)] >= StageTries
        \/ failures[u][1] >= StageTries /\ StageFor(u) < 3
    BY <1>1, <1>11, <2>2 DEF RicherStagesClosed
  <2> QED
    BY <1>1, <1>11, <2>1, <2>2, <2>3 DEF Stages
<1> QED
  BY <1>7, <1>8, <1>9, <1>10, <1>11 DEF ConversationInv

(* An upstream begins to answer: its counts start again.                    *)
LEMMA BeginAnswerKeeps ==
  ASSUME ConversationInv, NEW maker \in Providers, BeginAnswer(maker)
  PROVE  /\ ConversationInv'
         /\ turn.at = "sent" /\ turn'.at = "answering"
         /\ \A v \in Upstreams \ {UpstreamOf[turn.route]} : depthUsed'[v] = depthUsed[v]
<1> DEFINE u == UpstreamOf[turn.route]
           begun == [turn EXCEPT !.at = "answering", !.maker = maker]
<1>1. /\ ConversationTyped /\ AnswersStored /\ RequestReplays /\ RicherStagesClosed
  BY DEF ConversationInv
<1>2. /\ turn.at = "sent" /\ turn' = begun /\ UNCHANGED <<answers, lastTurn>>
      /\ failures' = [failures EXCEPT ![u] = IF turn.fallback THEN [s \in Stages |-> 0] ELSE @]
      /\ depthUsed' = [depthUsed EXCEPT ![u] = IF turn.fallback THEN 1 ELSE @]
  BY DEF BeginAnswer
<1>3. /\ begun \in TurnRecords /\ begun.at = "answering" /\ begun.maker = maker
      /\ begun.prior = turn.prior /\ begun.context = turn.context /\ begun.route = turn.route
      /\ begun.fallback = turn.fallback /\ begun.stage = turn.stage /\ begun.sent = turn.sent
      /\ begun.escaped = turn.escaped
  <2>1. turn \in TurnRecords
    BY <1>1 DEF ConversationTyped
  <2> QED
    BY <2>1 DEF TurnRecords
<1>4. u \in Upstreams
  BY <1>1, <1>2, ConversationAssumption DEF RequestReplays
<1> HIDE DEF begun, u
<1>5. /\ failures' \in [Upstreams -> [Stages -> Nat]] /\ depthUsed' \in [Upstreams -> Stages]
      /\ \A v \in Upstreams : \/ failures'[v] = failures[v] /\ depthUsed'[v] = depthUsed[v]
                              \/ depthUsed'[v] = 1
      /\ \A v \in Upstreams \ {u} : depthUsed'[v] = depthUsed[v]
  BY <1>1, <1>2, <1>4 DEF ConversationTyped, Stages
<1>6. ConversationTyped'
  BY <1>1, <1>2, <1>3, <1>5 DEF ConversationTyped
<1>7. AnswersStored'
  BY <1>1, <1>2, <1>3 DEF AnswersStored
<1>8. RequestReplays'
  <2>1. PriorItems' = PriorItems /\ PriorSource' = PriorSource
    BY <1>2, <1>3 DEF PriorItems, PriorSource
  <2>2. Crosses(turn.route)' = Crosses(turn.route)
    BY <1>2, <1>3, <2>1 DEF Crosses
  <2>3. (turn.sent = SentItems(turn.context, Crosses(turn.route)))'
    BY <1>1, <1>2, <1>3, <2>2 DEF RequestReplays, SentItems
  <2> QED
    BY <1>1, <1>2, <1>3, <2>1, <2>3 DEF RequestReplays
<1>9. RicherStagesClosed'
  BY <1>1, <1>5 DEF RicherStagesClosed, Stages
<1> QED
  BY <1>2, <1>3, <1>5, <1>6, <1>7, <1>8, <1>9 DEF ConversationInv, u

(* The answer ends: a turn that has none is given one, or stays without.    *)
LEMMA FinishAnswerKeeps ==
  ASSUME ConversationInv, FinishAnswer
  PROVE  ConversationInv'
<1> DEFINE item == [turn |-> lastTurn, from |-> turn.maker]
           stored == [items |-> turn.context \cup {item}, source |-> turn.route,
                      hedged |-> turn.maker # turn.route, prior |-> turn.prior]
<1>1. /\ ConversationTyped /\ AnswersStored /\ RequestReplays /\ RicherStagesClosed
      /\ MaxTurns \in Nat
  BY ConversationAssumption DEF ConversationInv
<1>2. /\ turn.at = "answering" /\ turn' = NoTurn /\ UNCHANGED <<lastTurn, failures, depthUsed>>
      /\ \/ answers' = answers
         \/ answers' = [answers EXCEPT ![lastTurn] = stored]
  BY DEF FinishAnswer, StoredAnswer
<1>3. /\ turn.route \in Providers /\ turn.prior \in 0 .. MaxTurns /\ turn.prior < lastTurn
      /\ turn.maker \in Providers
      /\ lastTurn \in Turns /\ answers[lastTurn] = NoAnswer /\ turn.context \subseteq PriorItems
      /\ turn.context \subseteq Items
  BY <1>1, <1>2 DEF RequestReplays, AnswersStored, ConversationTyped, TurnRecords
<1>4. item \in Items /\ item.turn = lastTurn /\ item.from = turn.maker
  BY <1>3 DEF Items
<1>5. /\ stored.items = turn.context \cup {item} /\ stored.source = turn.route
      /\ ~stored.hedged => turn.maker = turn.route
  OBVIOUS
<1>6. stored \in AnswerRecords
  <2>1. turn.context \cup {item} \in SUBSET Items /\ turn.route \in Providers \cup {Nowhere}
        /\ (turn.maker # turn.route) \in BOOLEAN /\ turn.prior \in 0 .. MaxTurns
    BY <1>3, <1>4
  <2> QED
    BY <2>1 DEF AnswerRecords
<1> HIDE DEF item, stored
<1>7. ASSUME answers' = answers PROVE ConversationInv'
  <2>1. NoTurn \in TurnRecords /\ NoTurn.at = "idle"
    BY <1>1 DEF NoTurn, TurnRecords
  <2>2. ConversationTyped'
    BY <1>1, <1>2, <1>7, <2>1 DEF ConversationTyped
  <2>3. AnswersStored' /\ RequestReplays' /\ RicherStagesClosed'
    BY <1>1, <1>2, <1>7, <2>1 DEF AnswersStored, RequestReplays, RicherStagesClosed
  <2> QED
    BY <2>2, <2>3 DEF ConversationInv
<1> SUFFICES ASSUME answers' = [answers EXCEPT ![lastTurn] = stored] PROVE ConversationInv'
  BY <1>2, <1>7
<1>8. /\ answers' \in [Turns -> AnswerRecords] /\ answers'[lastTurn] = stored
      /\ \A n \in Turns : n # lastTurn => answers'[n] = answers[n]
  BY <1>1, <1>2, <1>3, <1>6 DEF ConversationTyped
<1>9. \A i \in turn.context : i.turn \in Nat /\ i.turn < lastTurn
  <2>1. ASSUME NEW i \in turn.context PROVE i.turn \in Nat /\ i.turn < lastTurn
    <3>1. i \in Items /\ i \in PriorItems
      BY <1>3
    <3>2. turn.prior \in Turns /\ i \in answers[turn.prior].items
      BY <1>3, <3>1 DEF PriorItems, Turns
    <3>3. i.turn <= turn.prior
      BY <1>1, <3>2 DEF AnswersStored
    <3>4. i.turn \in Turns
      BY <3>1 DEF Items
    <3> QED
      BY <1>3, <3>2, <3>3, <3>4 DEF Turns
  <2> QED
    BY <2>1
<1>10. NoTurn \in TurnRecords /\ NoTurn.at = "idle"
  BY <1>1 DEF NoTurn, TurnRecords
<1>12. ConversationTyped'
  BY <1>1, <1>2, <1>8, <1>10 DEF ConversationTyped
<1>13. AnswersStored'
  <2>1. ASSUME NEW n \in Turns
        PROVE  /\ \A i \in answers'[n].items :
                    /\ i.turn <= n
                    /\ i.turn = n /\ ~answers'[n].hedged => i.from = answers'[n].source
               /\ answers'[n] # NoAnswer => answers'[n].source \in Providers
    <3>1. CASE n = lastTurn
      <4>1. answers'[n] = stored /\ n \in Nat
        BY <1>3, <1>8, <3>1 DEF Turns
      <4>2. ASSUME NEW i \in stored.items
            PROVE  i.turn <= n /\ (i.turn = n /\ ~stored.hedged => i.from = stored.source)
        <5>1. CASE i = item
          BY <1>4, <1>5, <3>1, <4>1, <5>1
        <5>2. CASE i \in turn.context
          BY <1>9, <3>1, <4>1, <5>2
        <5> QED
          BY <1>5, <5>1, <5>2
      <4> QED
        BY <1>3, <1>5, <4>1, <4>2
    <3>2. CASE n # lastTurn
      BY <1>1, <1>8, <3>2 DEF AnswersStored
    <3> QED
      BY <3>1, <3>2
  <2>2. \A n \in Turns : n > lastTurn' => answers'[n] = NoAnswer
    BY <1>1, <1>2, <1>3, <1>8 DEF AnswersStored, Turns
  <2> QED
    BY <1>2, <1>10, <2>1, <2>2 DEF AnswersStored
<1>14. RequestReplays'
  BY <1>2, <1>10 DEF RequestReplays
<1>15. RicherStagesClosed'
  BY <1>1, <1>2 DEF RicherStagesClosed, Stages
<1> QED
  BY <1>12, <1>13, <1>14, <1>15 DEF ConversationInv

LEMMA EscapeKeeps ==
  ASSUME ConversationInv, EscapePin
  PROVE  ConversationInv'
<1> DEFINE escaped == [turn EXCEPT !.escaped = TRUE]
<1>1. /\ ConversationTyped /\ AnswersStored /\ RequestReplays /\ RicherStagesClosed
      /\ turn.at = "routing" /\ turn' = escaped /\ UNCHANGED <<answers, lastTurn, failures, depthUsed>>
  BY DEF ConversationInv, EscapePin
<1>2. /\ escaped \in TurnRecords /\ escaped.at = turn.at /\ escaped.prior = turn.prior
      /\ escaped.context = turn.context
  <2>1. turn \in TurnRecords
    BY <1>1 DEF ConversationTyped
  <2> QED
    BY <2>1 DEF TurnRecords
<1> HIDE DEF escaped
<1>3. ConversationTyped'
  BY <1>1, <1>2 DEF ConversationTyped
<1>4. AnswersStored'
  BY <1>1, <1>2 DEF AnswersStored
<1>5. RequestReplays'
  BY <1>1, <1>2 DEF RequestReplays, PriorItems
<1>6. RicherStagesClosed'
  BY <1>1 DEF RicherStagesClosed
<1> QED
  BY <1>3, <1>4, <1>5, <1>6 DEF ConversationInv

LEMMA FailAttemptKeeps ==
  ASSUME ConversationInv, FailAttempt
  PROVE  ConversationInv'
<1> DEFINE again == [turn EXCEPT !.at = "routing", !.route = Nowhere, !.stage = 0,
                                 !.context = {}, !.sent = {}]
<1>1. /\ ConversationTyped /\ AnswersStored /\ RequestReplays /\ RicherStagesClosed
      /\ turn.at = "sent" /\ turn' \in {NoTurn, again} /\ UNCHANGED <<answers, lastTurn, depthUsed>>
      /\ \/ failures' = failures
         \/ turn.fallback /\ failures' = Recorded(UpstreamOf[turn.route], turn.stage)
      /\ StageTries \in Nat /\ MaxTurns \in Nat
  BY ConversationAssumption DEF ConversationInv, FailAttempt
<1>2. /\ NoTurn \in TurnRecords /\ NoTurn.at = "idle"
      /\ again \in TurnRecords /\ again.at = "routing" /\ again.prior = turn.prior /\ again.context = {}
  <2>1. turn \in TurnRecords
    BY <1>1 DEF ConversationTyped
  <2>2. NoTurn \in TurnRecords /\ NoTurn.at = "idle"
    BY <1>1 DEF NoTurn, TurnRecords
  <2>3. again \in TurnRecords /\ again.at = "routing" /\ again.prior = turn.prior /\ again.context = {}
    <3> DEFINE x(r, s, c, t) ==
                 [turn EXCEPT !.at = "routing", !.route = r, !.stage = s, !.context = c, !.sent = t]
    <3>1. ASSUME NEW r \in Providers \cup {Nowhere}, NEW s \in 0 .. 4, NEW c \in SUBSET Items,
                 NEW t \in SUBSET [turn : Turns, from : Providers, bound : BOOLEAN]
          PROVE  /\ x(r, s, c, t) \in TurnRecords /\ x(r, s, c, t).at = "routing"
                 /\ x(r, s, c, t).prior = turn.prior /\ x(r, s, c, t).context = c
      BY <2>1 DEF TurnRecords
    <3>2. again = x(Nowhere, 0, {}, {})
      OBVIOUS
    <3> HIDE DEF x, again
    <3> QED
      BY <3>1, <3>2
  <2> QED
    BY <2>2, <2>3
<1> HIDE DEF again
<1>3. /\ failures' \in [Upstreams -> [Stages -> Nat]]
      /\ \A u \in Upstreams, s \in Stages : failures[u][s] >= StageTries => failures'[u][s] >= StageTries
  <2>1. turn.fallback => UpstreamOf[turn.route] \in Upstreams /\ turn.stage \in Stages
    BY <1>1, ConversationAssumption DEF RequestReplays
  <2>2. failures \in [Upstreams -> [Stages -> Nat]]
    BY <1>1 DEF ConversationTyped
  <2> QED
    BY <1>1, <2>1, <2>2 DEF Recorded
<1>4. ConversationTyped'
  BY <1>1, <1>2, <1>3 DEF ConversationTyped
<1>5. AnswersStored'
  BY <1>1, <1>2 DEF AnswersStored
<1>6. RequestReplays'
  BY <1>1, <1>2 DEF RequestReplays
<1>7. RicherStagesClosed'
  BY <1>1, <1>3 DEF RicherStagesClosed, Stages
<1> QED
  BY <1>4, <1>5, <1>6, <1>7 DEF ConversationInv

LEMMA ConversationStep == ConversationInv /\ [ConversationNext]_conversationVars => ConversationInv'
<1> SUFFICES ASSUME ConversationInv, [ConversationNext]_conversationVars PROVE ConversationInv'
  OBVIOUS
<1>1. ASSUME UNCHANGED conversationVars PROVE ConversationInv'
  BY <1>1 DEF conversationVars, ConversationInv, ConversationTyped, AnswersStored, RequestReplays,
              RicherStagesClosed, PriorItems, PriorSource, Crosses, SentItems
<1> QED
  BY <1>1, AskKeeps, DispatchKeeps, BeginAnswerKeeps, EscapeKeeps, FailAttemptKeeps, FinishAnswerKeeps
  DEF ConversationNext

LEMMA ConversationKept == ConversationSpec => []ConversationInv
BY ConversationStart, ConversationStep, PTL DEF ConversationSpec

(* The last answer of a conversation is sent to no other provider with the  *)
(* fields of the one that made it, through whatever retries, rotations and  *)
(* escapes the request went.                                                *)
THEOREM LastAnswerIsSanitised == ConversationSpec => []LastAnswerSanitised
<1>1. ConversationInv => LastAnswerSanitised
  <2> SUFFICES ASSUME ConversationInv, turn.at \in {"sent", "answering"}, turn.prior # 0,
                      ~answers[turn.prior].hedged,
                      NEW j \in turn.sent, j.turn = turn.prior, j.from # turn.route
               PROVE  ~j.bound
    BY DEF LastAnswerSanitised
  <2>1. /\ ConversationTyped /\ AnswersStored /\ RequestReplays
    BY DEF ConversationInv
  <2>2. /\ turn.context \subseteq PriorItems /\ turn.sent = SentItems(turn.context, Crosses(turn.route))
        /\ answers[turn.prior] # NoAnswer /\ turn.prior \in Turns
    BY <2>1 DEF RequestReplays, ConversationTyped, TurnRecords, Turns
  <2>3. PICK i \in turn.context :
          j = [turn |-> i.turn, from |-> i.from, bound |-> ~Crosses(turn.route)]
    BY <2>2 DEF SentItems
  <2>4. j.turn = i.turn /\ j.from = i.from /\ j.bound = ~Crosses(turn.route)
    BY <2>3
  <2>5. i \in answers[turn.prior].items
    BY <2>2 DEF PriorItems
  <2>6. i.from = answers[turn.prior].source /\ answers[turn.prior].source \in Providers
    BY <2>1, <2>2, <2>4, <2>5 DEF AnswersStored
  <2>7. Crosses(turn.route)
    BY <2>4, <2>6, ConversationAssumption DEF Crosses, PriorSource
  <2> QED
    BY <2>4, <2>7
<1> QED
  BY <1>1, ConversationKept, PTL

(* An upstream that refused the richer stages of the chat fallback is not   *)
(* given them again, by any of its keys, before one of its keys begins to   *)
(* answer.                                                                  *)
THEOREM FallbackClimbsNever == ConversationSpec => FallbackNeverClimbs
<1> DEFINE Climbs == \A u \in Upstreams : depthUsed'[u] < depthUsed[u] =>
                        /\ turn.at = "sent" /\ turn'.at = "answering"
                        /\ UpstreamOf[turn.route] = u
<1>1. ConversationInv /\ [ConversationNext]_conversationVars => [Climbs]_conversationVars
  <2> SUFFICES ASSUME ConversationInv, ConversationNext PROVE Climbs
    OBVIOUS
  <2>1. \A u \in Upstreams : ~(depthUsed[u] < depthUsed[u])
    BY DEF ConversationInv, ConversationTyped, Stages
  <2>2. CASE depthUsed' = depthUsed
    BY <2>1, <2>2
  <2>3. ASSUME NEW p \in Providers, Dispatch(p) PROVE Climbs
    BY <2>3, DispatchKeeps
  <2>4. ASSUME NEW p \in Providers, BeginAnswer(p) PROVE Climbs
    BY <2>1, <2>4, BeginAnswerKeeps
  <2>5. depthUsed' # depthUsed => \E p \in Providers : Dispatch(p) \/ BeginAnswer(p)
    BY DEF ConversationNext, Ask, EscapePin, FailAttempt, FinishAnswer
  <2> HIDE DEF Climbs
  <2> QED
    BY <2>2, <2>3, <2>4, <2>5
<1> QED
  BY <1>1, ConversationKept, PTL DEF ConversationSpec, FallbackNeverClimbs

-----------------------------------------------------------------------------
(* ResponsesToChat.                                                         *)

LEMMA FirstIsSeq ==
  ASSUME NEW n \in Nat
  PROVE  First(n) \in Seq(Nat) /\ Len(First(n)) = n /\ \A i \in 1 .. n : First(n)[i] = i
BY DEF First

LEMMA WholeIsFirst == Whole = First(Pieces)
BY DEF Whole

(* The next piece after the first n.                                        *)
LEMMA NextPiece ==
  ASSUME NEW n \in Nat
  PROVE  Append(First(n), n + 1) = First(n + 1)
<1>1. /\ Append(First(n), n + 1) \in Seq(Nat) /\ Len(Append(First(n), n + 1)) = n + 1
      /\ \A i \in 1 .. n : Append(First(n), n + 1)[i] = i
      /\ Append(First(n), n + 1)[n + 1] = n + 1
  BY FirstIsSeq, AppendProperties
<1>2. First(n + 1) \in Seq(Nat) /\ Len(First(n + 1)) = n + 1 /\ \A i \in 1 .. n + 1 : First(n + 1)[i] = i
  BY FirstIsSeq
<1>3. \A i \in 1 .. n + 1 : Append(First(n), n + 1)[i] = First(n + 1)[i]
  BY <1>1, <1>2
<1> QED
  BY <1>1, <1>2, <1>3, SeqEqual

LEMMA JoinedPieces ==
  ASSUME NEW s \in Seq(Nat), NEW t \in Seq(Nat)
  PROVE  /\ s \o t \in Seq(Nat) /\ Len(s \o t) = Len(s) + Len(t)
         /\ \A i \in 1 .. Len(s) + Len(t) : (s \o t)[i] = IF i <= Len(s) THEN s[i] ELSE t[i - Len(s)]
BY ConcatProperties, Zenon

(* What is left of the whole after the first n pieces.                      *)
LEMMA RestOfWhole ==
  ASSUME NEW n \in 0 .. Pieces
  PROVE  /\ SubSeq(Whole, n + 1, Pieces) \in Seq(Nat)
         /\ First(n) \o SubSeq(Whole, n + 1, Pieces) = Whole
<1> DEFINE rest == SubSeq(Whole, n + 1, Pieces)
<1>1. /\ n \in Nat /\ Pieces \in Nat /\ n <= Pieces
      /\ Whole \in Seq(Nat) /\ Len(Whole) = Pieces /\ \A i \in 1 .. Pieces : Whole[i] = i
      /\ First(n) \in Seq(Nat) /\ Len(First(n)) = n /\ \A i \in 1 .. n : First(n)[i] = i
  BY FirstIsSeq, WholeIsFirst, PiecesAssumption
<1>2. /\ rest \in Seq(Nat) /\ Len(rest) = IF n + 1 <= Pieces THEN Pieces - (n + 1) + 1 ELSE 0
      /\ \A i \in 1 .. Pieces - (n + 1) + 1 : rest[i] = Whole[n + 1 + i - 1]
  <2>1. \A i \in n + 1 .. Pieces : Whole[i] \in Nat
    BY <1>1
  <2> QED
    BY <1>1, <2>1, SubSeqProperties
<1>3. Len(rest) = Pieces - n /\ \A i \in 1 .. Pieces - n : rest[i] = n + i
  BY <1>1, <1>2
<1> HIDE DEF rest
<1> DEFINE both == First(n) \o rest
<1>4. /\ both \in Seq(Nat) /\ Len(both) = Len(First(n)) + Len(rest)
      /\ \A i \in 1 .. Len(First(n)) + Len(rest) :
            both[i] = IF i <= Len(First(n)) THEN First(n)[i] ELSE rest[i - Len(First(n))]
  BY <1>1, <1>2, JoinedPieces
<1> HIDE DEF both
<1>5. Len(both) = Pieces /\ \A i \in 1 .. Pieces : both[i] = Whole[i]
  <2>1. Len(both) = Pieces
    BY <1>1, <1>3, <1>4
  <2>2. ASSUME NEW i \in 1 .. Pieces PROVE both[i] = Whole[i]
    <3>1. both[i] = IF i <= n THEN First(n)[i] ELSE rest[i - n]
      BY <1>1, <1>3, <1>4
    <3>2. CASE i <= n
      BY <1>1, <3>1, <3>2
    <3>3. CASE i > n
      BY <1>1, <1>3, <3>1, <3>3
    <3> QED
      BY <1>1, <3>2, <3>3
  <2> QED
    BY <2>1, <2>2
<1>6. both = Whole
  BY <1>1, <1>4, <1>5, SeqEqual
<1> QED
  BY <1>2, <1>6 DEF rest, both

(* emit_complete_text sends what the deltas left out.                       *)
LEMMA CompletesText ==
  ASSUME NEW n \in 0 .. Pieces, chat.text = First(n), content = First(n)
  PROVE  CompleteText(Whole) = Whole /\ IsPrefix(First(n), Whole)
<1>1. /\ n \in Nat /\ Pieces \in Nat /\ n <= Pieces
      /\ Whole \in Seq(Nat) /\ Len(Whole) = Pieces /\ \A i \in 1 .. Pieces : Whole[i] = i
      /\ First(n) \in Seq(Nat) /\ Len(First(n)) = n /\ \A i \in 1 .. n : First(n)[i] = i
  BY FirstIsSeq, WholeIsFirst, PiecesAssumption
<1>2. SubSeq(First(n), 1, n) = SubSeq(Whole, 1, n)
  <2>1. /\ SubSeq(First(n), 1, n) \in Seq(Nat)
        /\ Len(SubSeq(First(n), 1, n)) = IF 1 <= n THEN n - 1 + 1 ELSE 0
        /\ \A i \in 1 .. n - 1 + 1 : SubSeq(First(n), 1, n)[i] = First(n)[1 + i - 1]
    BY <1>1, SubSeqProperties
  <2>2. /\ SubSeq(Whole, 1, n) \in Seq(Nat)
        /\ Len(SubSeq(Whole, 1, n)) = IF 1 <= n THEN n - 1 + 1 ELSE 0
        /\ \A i \in 1 .. n - 1 + 1 : SubSeq(Whole, 1, n)[i] = Whole[1 + i - 1]
    <3>1. \A i \in 1 .. n : Whole[i] \in Nat
      BY <1>1
    <3> QED
      BY <1>1, <3>1, SubSeqProperties
  <2>3. /\ Len(SubSeq(First(n), 1, n)) = n /\ Len(SubSeq(Whole, 1, n)) = n
        /\ \A i \in 1 .. n : SubSeq(First(n), 1, n)[i] = SubSeq(Whole, 1, n)[i]
    BY <1>1, <2>1, <2>2
  <2> QED
    BY <2>1, <2>2, <2>3, SeqEqual
<1>3. IsPrefix(First(n), Whole)
  BY <1>1, <1>2 DEF IsPrefix
<1>4. CASE n = 0
  <2>1. First(n) = <<>>
    BY <1>1, <1>4, EmptySeq
  <2>2. <<>> \o Whole = Whole
    BY <1>1, ConcatEmptySeq
  <2> QED
    BY <1>3, <2>1, <2>2 DEF CompleteText
<1>5. CASE n # 0
  <2>1. First(n) # <<>>
    BY <1>1, <1>5
  <2>2. CompleteText(Whole) = First(n) \o SubSeq(Whole, n + 1, Pieces)
    BY <1>1, <1>3, <2>1 DEF CompleteText
  <2> QED
    BY <1>3, <2>2, RestOfWhole
<1> QED
  BY <1>4, <1>5

ChatRecords == [text : Seq(Nat), textDone : BOOLEAN, agentShown : BOOLEAN, pendingAgent : BOOLEAN,
                calls : SUBSET Parts, input : Seq(Nat), closed : BOOLEAN,
                ended : {"no", "completed", "failed"}]

PartsTyped ==
    /\ agent \in BOOLEAN /\ early \in 0 .. Pieces
    /\ given \in [Parts -> 0 .. Pieces]
    /\ seen \in [Parts -> SUBSET {"added", "done", "item", "output"}]
    /\ chat \in ChatRecords
    /\ DOMAIN arguments = {"function", "custom"}

(* The client has the text the translator knows of: what the deltas gave,   *)
(* and all of it once a complete text was shown.                            *)
TextFollows ==
    /\ content = chat.text
    /\ chat.textDone \/ chat.agentShown => chat.text = Whole
    /\ ~(chat.textDone \/ chat.agentShown) => chat.text = First(given["message"])
    /\ "done" \in seen["message"] => chat.textDone
    /\ agent /\ seen["message"] \cap {"item", "output"} # {} => chat.agentShown \/ Pieces = 0

TextKept == early \in {0, Pieces} => TextFollows

(* The client's input of the custom call, as far as the provider is.        *)
InputFollows ==
    /\ seen["custom"] \cap Ends = {} => chat.input = First(given["custom"]) /\ ~chat.closed
    /\ "added" \in seen["custom"] =>
         /\ "custom" \in chat.calls
         /\ seen["custom"] \cap Ends = {} => arguments["custom"] = <<OpenMark>> \o First(given["custom"])
         /\ seen["custom"] \cap Ends # {} =>
              /\ arguments["custom"] = <<OpenMark>> \o Whole \o <<CloseMark>>
              /\ chat.input = Whole /\ chat.closed

PartsInv == PartsTyped /\ TextKept /\ InputFollows

(* Steps that leave alone what the message, or the custom call, is about.   *)
MessageStands ==
    /\ UNCHANGED <<agent, early, content>> /\ given'["message"] = given["message"]
    /\ seen'["message"] = seen["message"] /\ chat'.text = chat.text
    /\ chat'.textDone = chat.textDone /\ chat'.agentShown = chat.agentShown

CustomStands ==
    /\ given'["custom"] = given["custom"] /\ seen'["custom"] = seen["custom"]
    /\ chat'.input = chat.input /\ chat'.closed = chat.closed /\ chat.calls \subseteq chat'.calls
    /\ arguments'["custom"] = arguments["custom"]

LEMMA MessageStandsKeeps ==
  ASSUME TextKept, MessageStands PROVE TextKept'
BY DEF TextKept, TextFollows, MessageStands

LEMMA CustomStandsKeeps ==
  ASSUME InputFollows, CustomStands PROVE InputFollows'
BY DEF InputFollows, CustomStands

LEMMA NothingIsFirst == First(0) = <<>>
<1>1. First(0) \in Seq(Nat) /\ Len(First(0)) = 0
  BY FirstIsSeq
<1> QED
  BY <1>1, EmptySeq

LEMMA PartsStart == ResponsesInit => PartsInv
<1> SUFFICES ASSUME ResponsesInit PROVE PartsInv
  OBVIOUS
<1>1. /\ chat.text = <<>> /\ chat.input = <<>> /\ ~chat.textDone /\ ~chat.agentShown /\ ~chat.closed
      /\ chat \in ChatRecords
  <2>1. <<>> \in Seq(Nat) /\ {} \in SUBSET Parts
    BY EmptySeq
  <2> QED
    BY <2>1 DEF ResponsesInit, ChatRecords
<1>2. /\ \A q \in Parts : given[q] = 0 /\ seen[q] = {}
      /\ "message" \in Parts /\ "custom" \in Parts /\ content = <<>>
  BY DEF ResponsesInit, Parts
<1>3. PartsTyped
  BY <1>1, PiecesAssumption DEF ResponsesInit, PartsTyped
<1>4. TextFollows
  BY <1>1, <1>2, NothingIsFirst, WholeIsFirst DEF TextFollows
<1>5. InputFollows
  BY <1>1, <1>2, NothingIsFirst DEF InputFollows
<1> QED
  BY <1>3, <1>4, <1>5 DEF PartsInv, TextKept

(* A complete text is shown: the client has it once.                        *)
LEMMA ShowsWhole ==
  ASSUME PartsTyped, TextFollows
  PROVE  CompleteText(Whole) = Whole /\ IsPrefix(content, Whole)
<1>1. given["message"] \in 0 .. Pieces /\ Pieces \in 0 .. Pieces
  BY PiecesAssumption DEF PartsTyped, Parts
<1>2. \E n \in 0 .. Pieces : content = First(n) /\ chat.text = First(n)
  BY <1>1, WholeIsFirst DEF TextFollows
<1> QED
  BY <1>2, CompletesText

LEMMA WholeTyped == Whole \in Seq(Nat) /\ Len(Whole) = Pieces
BY WholeIsFirst, FirstIsSeq, PiecesAssumption

(* A text is shown complete: what the steps that do so leave behind.        *)
ShownComplete(text) ==
    /\ content' = CompleteText(text)
    /\ chat' \in ChatRecords /\ chat'.text = text
    /\ chat'.textDone \/ chat'.agentShown \/ Pieces = 0
    /\ chat'.input = chat.input /\ chat'.closed = chat.closed /\ chat'.calls = chat.calls

LEMMA ShownWholeKeeps ==
  ASSUME PartsTyped, TextKept, UNCHANGED <<agent, early, given>>, ShownComplete(Whole),
         "done" \in seen'["message"] => chat'.textDone,
         agent /\ seen'["message"] \cap {"item", "output"} # {} => chat'.agentShown \/ Pieces = 0
  PROVE  TextKept'
<1> SUFFICES ASSUME early \in {0, Pieces} PROVE TextFollows'
  BY DEF TextKept
<1>1. CompleteText(Whole) = Whole
  BY ShowsWhole DEF TextKept
<1>2. Pieces = 0 => given["message"] = 0
  BY DEF PartsTyped, Parts
<1> QED
  BY <1>1, <1>2, WholeIsFirst DEF ShownComplete, TextFollows

(* The events of the message leave the calls alone.                         *)
LEMMA SeenTyped ==
  ASSUME PartsTyped, NEW q \in Parts, NEW event \in {"added", "done", "item", "output"}, Came(q, event)
  PROVE  /\ seen' \in [Parts -> SUBSET {"added", "done", "item", "output"}]
         /\ seen'[q] = seen[q] \cup {event}
         /\ \A r \in Parts \ {q} : seen'[r] = seen[r]
BY DEF PartsTyped, Came

LEMMA MessageAddedKeeps ==
  ASSUME PartsInv, MessageAdded PROVE PartsInv'
<1> DEFINE pending == [chat EXCEPT !.pendingAgent = agent]
<1>1. /\ PartsTyped /\ TextKept /\ InputFollows /\ chat \in ChatRecords /\ agent \in BOOLEAN
      /\ seen["message"] = {} /\ Came("message", "added") /\ chat' = pending
      /\ UNCHANGED <<agent, early, given, content, arguments>>
      /\ "message" \in Parts /\ "custom" \in Parts
  BY DEF PartsInv, PartsTyped, MessageAdded, Parts
<1>2. /\ pending \in ChatRecords /\ pending.text = chat.text /\ pending.input = chat.input
      /\ pending.textDone = chat.textDone /\ pending.agentShown = chat.agentShown
      /\ pending.closed = chat.closed /\ pending.calls = chat.calls
  BY <1>1 DEF ChatRecords
<1> HIDE DEF pending
<1>3. /\ seen' \in [Parts -> SUBSET {"added", "done", "item", "output"}]
      /\ seen'["message"] = {"added"} /\ seen'["custom"] = seen["custom"]
  BY <1>1, SeenTyped
<1>4. PartsTyped'
  BY <1>1, <1>2, <1>3 DEF PartsTyped
<1>5. TextKept'
  BY <1>1, <1>2, <1>3 DEF TextKept, TextFollows
<1>6. InputFollows'
  BY <1>1, <1>2, <1>3, CustomStandsKeeps DEF CustomStands
<1> QED
  BY <1>4, <1>5, <1>6 DEF PartsInv

(* The text-done event shows all of the text.                               *)
LEMMA TextDoneKeeps ==
  ASSUME PartsInv, TextDone PROVE PartsInv'
<1> DEFINE done == [chat EXCEPT !.text = Whole, !.textDone = TRUE]
<1>1. /\ PartsTyped /\ TextKept /\ InputFollows /\ chat \in ChatRecords /\ Whole \in Seq(Nat)
      /\ "message" \in Parts /\ "custom" \in Parts
      /\ seen["message"] \cap Ends = {} /\ Came("message", "done") /\ content' = CompleteText(Whole)
      /\ chat' = done /\ UNCHANGED <<agent, early, given, arguments>>
  BY WholeTyped DEF PartsInv, PartsTyped, Parts, TextDone
<1>2. /\ done \in ChatRecords /\ done.text = Whole /\ done.textDone
      /\ done.agentShown = chat.agentShown
      /\ done.input = chat.input /\ done.closed = chat.closed /\ done.calls = chat.calls
  BY <1>1 DEF ChatRecords
<1> HIDE DEF done
<1>3. /\ seen' \in [Parts -> SUBSET {"added", "done", "item", "output"}]
      /\ seen'["message"] = seen["message"] \cup {"done"} /\ seen'["custom"] = seen["custom"]
  BY <1>1, SeenTyped
<1>4. PartsTyped'
  BY <1>1, <1>2, <1>3 DEF PartsTyped
<1>5. TextKept'
  <2>1. ShownComplete(Whole)
    BY <1>1, <1>2 DEF ShownComplete
  <2>2. early \in {0, Pieces} /\ agent /\ seen'["message"] \cap {"item", "output"} # {} =>
          chat'.agentShown \/ Pieces = 0
    BY <1>1, <1>2, <1>3 DEF TextKept, TextFollows
  <2>3. CASE early \in {0, Pieces}
    BY <1>1, <1>2, <2>1, <2>2, <2>3, ShownWholeKeeps
  <2>4. CASE early \notin {0, Pieces}
    BY <1>1, <2>4 DEF TextKept
  <2> QED
    BY <2>3, <2>4
<1>6. InputFollows'
  BY <1>1, <1>2, <1>3, CustomStandsKeeps DEF CustomStands
<1> QED
  BY <1>4, <1>5, <1>6 DEF PartsInv

(* What the item-done and the completed event leave behind: an agent        *)
(* message shown complete, or the message as it was.                        *)
AgentShown(event) ==
    /\ Came("message", event) /\ UNCHANGED <<agent, early, given, arguments>>
    /\ chat' \in ChatRecords /\ chat'.textDone = chat.textDone
    /\ chat'.input = chat.input /\ chat'.closed = chat.closed /\ chat'.calls = chat.calls
    /\ \/ content' = CompleteText(Whole) /\ chat'.text = Whole /\ (chat'.agentShown \/ Pieces = 0)
       \/ /\ content' = content /\ chat'.text = chat.text /\ chat'.agentShown = chat.agentShown
          /\ agent => chat.agentShown

LEMMA AgentShownKeeps ==
  ASSUME PartsInv, NEW event \in {"item", "output"}, AgentShown(event) PROVE PartsInv'
<1>1. /\ PartsTyped /\ TextKept /\ InputFollows /\ "message" \in Parts /\ "custom" \in Parts
      /\ Pieces \in Nat
  BY PiecesAssumption DEF PartsInv, Parts
<1>2. /\ seen' \in [Parts -> SUBSET {"added", "done", "item", "output"}]
      /\ seen'["message"] = seen["message"] \cup {event} /\ seen'["custom"] = seen["custom"]
  BY <1>1, SeenTyped DEF AgentShown
<1>3. PartsTyped'
  BY <1>1, <1>2 DEF PartsTyped, AgentShown
<1>4. TextKept'
  <2> SUFFICES ASSUME early \in {0, Pieces} PROVE TextKept'
    BY DEF TextKept, AgentShown
  <2>1. TextFollows
    BY <1>1 DEF TextKept
  <2>2. "done" \in seen'["message"] => chat'.textDone
    BY <1>2, <2>1 DEF TextFollows, AgentShown
  <2>3. CASE content' = CompleteText(Whole) /\ chat'.text = Whole /\ (chat'.agentShown \/ Pieces = 0)
    <3>1. ShownComplete(Whole)
      BY <2>3 DEF ShownComplete, AgentShown
    <3> QED
      BY <1>1, <2>2, <2>3, <3>1, ShownWholeKeeps DEF AgentShown
  <2>4. CASE /\ content' = content /\ chat'.text = chat.text /\ chat'.agentShown = chat.agentShown
             /\ agent => chat.agentShown
    BY <2>1, <2>2, <2>4 DEF TextKept, TextFollows, AgentShown
  <2> QED
    BY <2>3, <2>4 DEF AgentShown
<1>5. InputFollows'
  BY <1>1, <1>2, CustomStandsKeeps DEF CustomStands, AgentShown
<1> QED
  BY <1>3, <1>4, <1>5 DEF PartsInv

LEMMA MessageItemDoneKeeps ==
  ASSUME PartsInv, MessageItemDone PROVE PartsInv'
<1> DEFINE shown(b) == [chat EXCEPT !.text = Whole, !.agentShown = b, !.pendingAgent = FALSE]
<1>1. chat \in ChatRecords /\ Whole \in Seq(Nat)
  BY WholeTyped DEF PartsInv, PartsTyped
<1>2. ASSUME NEW b \in BOOLEAN
      PROVE  /\ shown(b) \in ChatRecords /\ shown(b).text = Whole /\ shown(b).agentShown = b
             /\ shown(b).textDone = chat.textDone /\ shown(b).input = chat.input
             /\ shown(b).closed = chat.closed /\ shown(b).calls = chat.calls
  BY <1>1 DEF ChatRecords
<1>3. /\ Came("message", "item") /\ UNCHANGED <<agent, early, given, arguments>>
      /\ \/ /\ content' = CompleteText(Whole)
            /\ \E b \in BOOLEAN : chat' = shown(b) /\ (b \/ Pieces = 0)
         \/ content' = content /\ chat' = chat /\ ~agent
  <2>1. CASE Pieces > 0
    <3>1. (Pieces > 0) = TRUE
      BY <2>1
    <3> QED
      BY <3>1, <2>1 DEF MessageItemDone
  <2>2. CASE Pieces = 0
    <3>1. (Pieces > 0) = FALSE
      BY <2>2
    <3> QED
      BY <3>1, <2>2 DEF MessageItemDone
  <2>3. Pieces > 0 \/ Pieces = 0
    BY PiecesAssumption
  <2> QED
    BY <2>1, <2>2, <2>3, Zenon
<1> HIDE DEF shown
<1>4. AgentShown("item")
  BY <1>1, <1>2, <1>3 DEF AgentShown
<1> QED
  BY <1>4, AgentShownKeeps

LEMMA CompletedWithOutputKeeps ==
  ASSUME PartsInv, CompletedWithOutput PROVE PartsInv'
<1> DEFINE shown(b) == [chat EXCEPT !.text = Whole, !.agentShown = b, !.pendingAgent = FALSE,
                                    !.ended = "completed"]
           ended == [chat EXCEPT !.ended = "completed"]
<1>1. chat \in ChatRecords /\ Whole \in Seq(Nat)
  BY WholeTyped DEF PartsInv, PartsTyped
<1>2. ASSUME NEW b \in BOOLEAN
      PROVE  /\ shown(b) \in ChatRecords /\ shown(b).text = Whole /\ shown(b).agentShown = b
             /\ shown(b).textDone = chat.textDone /\ shown(b).input = chat.input
             /\ shown(b).closed = chat.closed /\ shown(b).calls = chat.calls
  BY <1>1 DEF ChatRecords
<1>3. /\ ended \in ChatRecords /\ ended.text = chat.text /\ ended.agentShown = chat.agentShown
      /\ ended.textDone = chat.textDone /\ ended.input = chat.input
      /\ ended.closed = chat.closed /\ ended.calls = chat.calls
  BY <1>1 DEF ChatRecords
<1>4. /\ Came("message", "output") /\ UNCHANGED <<agent, early, given, arguments>>
      /\ \/ /\ content' = CompleteText(Whole)
            /\ \E b \in BOOLEAN : chat' = shown(b) /\ (b \/ Pieces = 0)
         \/ content' = content /\ chat' = ended /\ (agent => chat.agentShown)
  <2>1. CASE Pieces > 0
    <3>1. (Pieces > 0) = TRUE
      BY <2>1
    <3> QED
      BY <3>1, <2>1 DEF CompletedWithOutput
  <2>2. CASE Pieces = 0
    <3>1. (Pieces > 0) = FALSE
      BY <2>2
    <3> QED
      BY <3>1, <2>2 DEF CompletedWithOutput
  <2>3. Pieces > 0 \/ Pieces = 0
    BY PiecesAssumption
  <2> QED
    BY <2>1, <2>2, <2>3, Zenon
<1> HIDE DEF shown, ended
<1>5. AgentShown("output")
  BY <1>2, <1>3, <1>4 DEF AgentShown
<1> QED
  BY <1>5, AgentShownKeeps

(* The stream ends, and a pending agent message is shown as it was added.   *)
LEMMA FinishChatKeeps ==
  ASSUME PartsInv, FinishChat PROVE PartsInv'
<1> DEFINE last == [chat EXCEPT !.text = First(early), !.agentShown = TRUE, !.pendingAgent = FALSE,
                                !.ended = "completed"]
           ended == [chat EXCEPT !.pendingAgent = FALSE, !.ended = "completed"]
<1>1. /\ PartsTyped /\ TextKept /\ InputFollows /\ chat \in ChatRecords
      /\ UNCHANGED <<agent, early, given, seen, arguments>> /\ early \in 0 .. Pieces
      /\ \/ content' = CompleteText(First(early)) /\ chat' = last /\ early > 0
         \/ content' = content /\ chat' = ended
  BY DEF PartsInv, PartsTyped, FinishChat
<1>2. First(early) \in Seq(Nat)
  BY <1>1, FirstIsSeq, PiecesAssumption
<1>3. /\ last \in ChatRecords /\ last.text = First(early) /\ last.agentShown
      /\ last.textDone = chat.textDone
      /\ last.input = chat.input /\ last.closed = chat.closed /\ last.calls = chat.calls
  BY <1>1, <1>2 DEF ChatRecords
<1>4. /\ ended \in ChatRecords /\ ended.text = chat.text /\ ended.textDone = chat.textDone
      /\ ended.agentShown = chat.agentShown
      /\ ended.input = chat.input /\ ended.closed = chat.closed /\ ended.calls = chat.calls
  BY <1>1 DEF ChatRecords
<1> HIDE DEF last, ended
<1>5. PartsTyped'
  BY <1>1, <1>3, <1>4 DEF PartsTyped
<1>6. TextKept'
  <2>1. CASE chat' = ended /\ content' = content
    BY <1>1, <1>4, <2>1, MessageStandsKeeps DEF MessageStands
  <2>2. CASE content' = CompleteText(First(early)) /\ chat' = last /\ early > 0
    <3> SUFFICES ASSUME early \in {0, Pieces} PROVE TextKept'
      BY <1>1 DEF TextKept
    <3>1. First(early) = Whole
      BY <2>2, WholeIsFirst
    <3>2. ShownComplete(Whole)
      BY <1>3, <2>2, <3>1 DEF ShownComplete
    <3>3. "done" \in seen'["message"] => chat'.textDone
      BY <1>1, <1>3, <2>2 DEF TextKept, TextFollows
    <3> QED
      BY <1>1, <1>3, <2>2, <3>2, <3>3, ShownWholeKeeps
  <2> QED
    BY <1>1, <2>1, <2>2
<1>7. InputFollows'
  BY <1>1, <1>3, <1>4, CustomStandsKeeps DEF CustomStands
<1> QED
  BY <1>5, <1>6, <1>7 DEF PartsInv

LEMMA TextDeltaKeeps ==
  ASSUME PartsInv, TextDelta
  PROVE  PartsInv'
<1> DEFINE n == given["message"]
           longer == [chat EXCEPT !.text = Append(@, n + 1)]
<1>1. /\ PartsTyped /\ TextKept /\ InputFollows /\ chat \in ChatRecords
      /\ n \in 0 .. Pieces /\ n < Pieces /\ n \in Nat /\ Pieces \in Nat
      /\ UNCHANGED <<agent, early, seen, arguments>>
      /\ given' = [given EXCEPT !["message"] = n + 1]
  BY PiecesAssumption DEF PartsInv, PartsTyped, TextDelta, Parts
<1>2. /\ given' \in [Parts -> 0 .. Pieces] /\ given'["message"] = n + 1
      /\ given'["custom"] = given["custom"]
  BY <1>1 DEF PartsTyped, Parts
<1>3. CASE chat.agentShown \/ chat.textDone
  <2>1. UNCHANGED <<chat, content>>
    BY <1>3 DEF TextDelta
  <2>2. PartsTyped'
    BY <1>1, <1>2, <2>1 DEF PartsTyped
  <2>3. TextKept'
    BY <1>1, <1>2, <1>3, <2>1 DEF TextKept, TextFollows
  <2>4. InputFollows'
    BY <1>1, <1>2, <2>1, CustomStandsKeeps DEF CustomStands
  <2> QED
    BY <2>2, <2>3, <2>4 DEF PartsInv
<1>4. CASE ~(chat.agentShown \/ chat.textDone)
  <2>1. chat' = longer /\ content' = Append(content, n + 1)
    BY <1>4 DEF TextDelta
  <2>2. Append(chat.text, n + 1) \in Seq(Nat)
    BY <1>1, AppendProperties DEF ChatRecords
  <2>3. /\ longer \in ChatRecords /\ longer.text = Append(chat.text, n + 1)
        /\ longer.textDone = chat.textDone /\ longer.agentShown = chat.agentShown
        /\ longer.input = chat.input /\ longer.closed = chat.closed /\ longer.calls = chat.calls
    BY <1>1, <2>2 DEF ChatRecords
  <2> HIDE DEF longer
  <2>4. PartsTyped'
    BY <1>1, <1>2, <2>1, <2>3 DEF PartsTyped
  <2>5. TextKept'
    <3> SUFFICES ASSUME early \in {0, Pieces} PROVE TextFollows'
      BY <1>1 DEF TextKept
    <3>1. TextFollows
      BY <1>1 DEF TextKept
    <3>2. chat.text = First(n) /\ content = First(n)
      BY <1>4, <3>1 DEF TextFollows
    <3>3. Append(First(n), n + 1) = First(n + 1)
      <4>1. n \in Nat
        BY <1>1
      <4> HIDE DEF n
      <4> QED
        BY <4>1, NextPiece
    <3>4. Pieces # 0
      BY <1>1
    <3> HIDE DEF n
    <3> QED
      BY <1>1, <1>2, <1>4, <2>1, <2>3, <3>1, <3>2, <3>3, <3>4 DEF TextFollows
  <2>6. InputFollows'
    BY <1>1, <1>2, <2>1, <2>3, CustomStandsKeeps DEF CustomStands
  <2> QED
    BY <2>4, <2>5, <2>6 DEF PartsInv
<1> QED
  BY <1>3, <1>4

(* A call is added with the first pieces of its arguments or input.         *)
LEMMA CallAddedKeeps ==
  ASSUME PartsInv, NEW p \in {"function", "custom"}, NEW n \in 0 .. Pieces, CallAdded(p, n)
  PROVE  PartsInv'
<1> DEFINE input == IF p = "custom" THEN First(n) ELSE chat.input
           called == [chat EXCEPT !.calls = @ \cup {p}, !.input = input]
<1>1. /\ PartsTyped /\ TextKept /\ InputFollows /\ chat \in ChatRecords
      /\ seen[p] = {} /\ Came(p, "added") /\ p \in Parts
      /\ "message" \in Parts /\ "custom" \in Parts /\ p # "message"
      /\ given' = [given EXCEPT ![p] = n] /\ chat' = called /\ UNCHANGED <<agent, early, content>>
      /\ arguments' =
           [arguments EXCEPT ![p] = IF p = "custom" THEN <<OpenMark>> \o First(n) ELSE First(n)]
  BY DEF PartsInv, PartsTyped, CallAdded, Parts
<1>2. input \in Seq(Nat)
  BY <1>1, FirstIsSeq, PiecesAssumption DEF ChatRecords
<1> HIDE DEF input
<1>3. /\ called \in ChatRecords /\ called.text = chat.text /\ called.input = input
      /\ called.textDone = chat.textDone /\ called.agentShown = chat.agentShown
      /\ called.closed = chat.closed /\ called.calls = chat.calls \cup {p}
  BY <1>1, <1>2 DEF ChatRecords
<1> HIDE DEF called
<1>4. /\ seen' \in [Parts -> SUBSET {"added", "done", "item", "output"}]
      /\ seen'[p] = {"added"} /\ \A q \in Parts \ {p} : seen'[q] = seen[q]
  BY <1>1, SeenTyped
<1>5. given' \in [Parts -> 0 .. Pieces] /\ given'[p] = n /\ \A q \in Parts \ {p} : given'[q] = given[q]
  BY <1>1 DEF PartsTyped
<1>6. /\ DOMAIN arguments' = {"function", "custom"}
      /\ p = "custom" => arguments'["custom"] = <<OpenMark>> \o First(n)
      /\ p # "custom" => arguments'["custom"] = arguments["custom"]
  BY <1>1 DEF PartsTyped
<1>7. PartsTyped'
  BY <1>1, <1>3, <1>4, <1>5, <1>6 DEF PartsTyped
<1>8. TextKept'
  BY <1>1, <1>3, <1>4, <1>5, MessageStandsKeeps DEF MessageStands
<1>9. InputFollows'
  <2>1. CASE p = "custom"
    <3>1. ~chat.closed /\ input = First(n) /\ "added" \notin Ends
      BY <1>1, <2>1 DEF InputFollows, input, Ends
    <3> QED
      BY <1>1, <1>3, <1>4, <1>5, <1>6, <2>1, <3>1 DEF InputFollows
  <2>2. CASE p # "custom"
    <3>1. input = chat.input
      BY <2>2 DEF input
    <3> QED
      BY <1>1, <1>3, <1>4, <1>5, <1>6, <2>2, <3>1, CustomStandsKeeps DEF CustomStands
  <2> QED
    BY <2>1, <2>2
<1> QED
  BY <1>7, <1>8, <1>9 DEF PartsInv

(* The wrapped input grows by a piece.                                      *)
LEMMA WrappedGrows ==
  ASSUME NEW n \in Nat
  PROVE  Append(<<OpenMark>> \o First(n), n + 1) = <<OpenMark>> \o First(n + 1)
<1>1. /\ <<OpenMark>> \in Seq(Nat) /\ First(n) \in Seq(Nat) /\ n + 1 \in Nat /\ <<n + 1>> \in Seq(Nat)
  BY FirstIsSeq DEF OpenMark
<1>2. <<OpenMark>> \o First(n) \in Seq(Nat)
  BY <1>1, JoinedPieces
<1>3. Append(<<OpenMark>> \o First(n), n + 1) = (<<OpenMark>> \o First(n)) \o <<n + 1>>
  BY <1>1, <1>2, AppendIsConcat
<1>4. (<<OpenMark>> \o First(n)) \o <<n + 1>> = <<OpenMark>> \o (First(n) \o <<n + 1>>)
  BY <1>1, ConcatAssociative
<1>5. First(n) \o <<n + 1>> = Append(First(n), n + 1)
  BY <1>1, AppendIsConcat
<1> QED
  BY <1>3, <1>4, <1>5, NextPiece

LEMMA CallDeltaKeeps ==
  ASSUME PartsInv, NEW p \in {"function", "custom"}, CallDelta(p)
  PROVE  PartsInv'
<1> DEFINE n == given[p]
           input == IF p = "custom" THEN Append(chat.input, n + 1) ELSE chat.input
           called == [chat EXCEPT !.calls = @ \cup {p}, !.input = input]
<1>1. /\ PartsTyped /\ TextKept /\ InputFollows /\ chat \in ChatRecords
      /\ p \in Parts /\ "message" \in Parts /\ "custom" \in Parts /\ p # "message"
      /\ seen[p] \cap Ends = {}
      /\ n \in 0 .. Pieces /\ n < Pieces /\ n \in Nat /\ Pieces \in Nat
      /\ UNCHANGED <<agent, early, seen, content>>
      /\ given' = [given EXCEPT ![p] = n + 1]
      /\ arguments' = [arguments EXCEPT ![p] = Append(@, n + 1)]
      /\ chat' = called
  BY PiecesAssumption DEF PartsInv, PartsTyped, CallDelta, Parts
<1>2. n + 1 \in Nat
  BY <1>1
<1>3. input \in Seq(Nat)
  BY <1>1, <1>2, AppendProperties DEF ChatRecords
<1>4. /\ given' \in [Parts -> 0 .. Pieces] /\ given'[p] = n + 1
      /\ \A q \in Parts \ {p} : given'[q] = given[q]
  BY <1>1 DEF PartsTyped
<1>5. /\ DOMAIN arguments' = {"function", "custom"}
      /\ p = "custom" => arguments'["custom"] = Append(arguments["custom"], n + 1)
      /\ p # "custom" => arguments'["custom"] = arguments["custom"]
  BY <1>1 DEF PartsTyped
<1> HIDE DEF n, input
<1>6. /\ called \in ChatRecords /\ called.text = chat.text /\ called.input = input
      /\ called.textDone = chat.textDone /\ called.agentShown = chat.agentShown
      /\ called.closed = chat.closed /\ called.calls = chat.calls \cup {p}
  BY <1>1, <1>3 DEF ChatRecords
<1> HIDE DEF called
<1>7. PartsTyped'
  BY <1>1, <1>4, <1>5, <1>6 DEF PartsTyped
<1>8. TextKept'
  BY <1>1, <1>4, <1>6, MessageStandsKeeps DEF MessageStands
<1>9. InputFollows'
  <2>1. CASE p = "custom"
    <3>1. chat.input = First(n) /\ ~chat.closed /\ input = Append(First(n), n + 1)
      BY <1>1, <2>1 DEF InputFollows, n, input
    <3>2. "added" \in seen["custom"] => arguments["custom"] = <<OpenMark>> \o First(n)
      BY <1>1, <2>1 DEF InputFollows, n
    <3>3. /\ "added" \in seen["custom"] => arguments'["custom"] = <<OpenMark>> \o First(n + 1)
          /\ input = First(n + 1)
      BY <1>1, <1>5, <2>1, <3>1, <3>2, WrappedGrows, NextPiece
    <3> QED
      BY <1>1, <1>4, <1>6, <2>1, <3>1, <3>3 DEF InputFollows
  <2>2. CASE p # "custom"
    <3>1. input = chat.input
      BY <2>2 DEF input
    <3> QED
      BY <1>1, <1>4, <1>5, <1>6, <2>2, <3>1, CustomStandsKeeps DEF CustomStands
  <2> QED
    BY <2>1, <2>2
<1> QED
  BY <1>7, <1>8, <1>9 DEF PartsInv

(* The rest of the input, after the part that was streamed.                 *)
LEMMA WrappedWhole ==
  ASSUME NEW n \in 0 .. Pieces
  PROVE  (<<OpenMark>> \o First(n)) \o SubSeq(Whole, n + 1, Pieces) = <<OpenMark>> \o Whole
<1> DEFINE open == <<OpenMark>>
           rest == SubSeq(Whole, n + 1, Pieces)
<1>1. open \in Seq(Nat) /\ First(n) \in Seq(Nat)
  BY FirstIsSeq, PiecesAssumption DEF OpenMark
<1>2. rest \in Seq(Nat)
  BY RestOfWhole
<1>3. First(n) \o rest = Whole
  BY RestOfWhole
<1> HIDE DEF open, rest
<1>4. (open \o First(n)) \o rest = open \o (First(n) \o rest)
  BY <1>1, <1>2, ConcatAssociative
<1> QED
  BY <1>3, <1>4 DEF open, rest

(* input.done, and item.done after it, of a call the translator knows.      *)
LEMMA CustomDoneKeeps ==
  ASSUME PartsInv, NEW event \in Ends, CustomDone(event), "custom" \in chat.calls
  PROVE  PartsInv'
<1> DEFINE whole == [chat EXCEPT !.input = Whole, !.closed = TRUE]
           args == arguments["custom"]
           rest == SubSeq(Whole, Len(chat.input) + 1, Pieces)
<1>1. /\ PartsTyped /\ TextKept /\ InputFollows /\ chat \in ChatRecords
      /\ Came("custom", event) /\ UNCHANGED <<agent, early, given, content>>
      /\ arguments' = [arguments EXCEPT !["custom"] = @ \o rest \o CustomSuffix]
      /\ chat' = whole /\ "message" \in Parts /\ "custom" \in Parts
      /\ event \in {"added", "done", "item", "output"}
  BY DEF PartsInv, PartsTyped, CustomDone, Ending, Parts, Ends
<1>2. /\ Pieces \in Nat /\ CloseMark \in Nat /\ OpenMark \in Nat
      /\ Whole \in Seq(Nat) /\ Len(Whole) = Pieces /\ Whole = First(Pieces)
  BY PiecesAssumption, WholeIsFirst, FirstIsSeq DEF CloseMark, OpenMark
<1>3. <<OpenMark>> \in Seq(Nat) /\ <<CloseMark>> \in Seq(Nat)
  BY <1>2
<1>4. <<OpenMark>> \o Whole \in Seq(Nat)
  BY <1>2, <1>3, JoinedPieces
<1>5. <<OpenMark>> \o Whole \o <<CloseMark>> \in Seq(Nat)
  BY <1>3, <1>4, JoinedPieces
<1>6. ASSUME "added" \in seen["custom"]
      PROVE  args \o rest \o CustomSuffix = <<OpenMark>> \o Whole \o <<CloseMark>>
  <2>1. CASE seen["custom"] \cap Ends = {}
    <3> DEFINE n == given["custom"]
    <3>1. /\ args = <<OpenMark>> \o First(n) /\ chat.input = First(n) /\ ~chat.closed /\ n \in 0 .. Pieces
      BY <1>1, <1>6, <2>1 DEF InputFollows, PartsTyped, Parts
    <3> HIDE DEF n
    <3>2. n \in Nat /\ First(n) \in Seq(Nat) /\ Len(First(n)) = n
      BY <1>2, <3>1, FirstIsSeq
    <3>3. rest = SubSeq(Whole, n + 1, Pieces)
      BY <3>1, <3>2
    <3> HIDE DEF rest
    <3>4. (<<OpenMark>> \o First(n)) \o rest = <<OpenMark>> \o Whole
      BY <3>1, <3>3, WrappedWhole
    <3>5. CustomSuffix = <<CloseMark>>
      BY <3>1 DEF CustomSuffix
    <3> QED
      BY <3>1, <3>4, <3>5
  <2>2. CASE seen["custom"] \cap Ends # {}
    <3>1. /\ args = <<OpenMark>> \o Whole \o <<CloseMark>> /\ Len(chat.input) = Pieces /\ chat.closed
      BY <1>1, <1>2, <1>6, <2>2 DEF InputFollows
    <3>2. rest = <<>> /\ CustomSuffix = <<>>
      <4>1. Pieces < Len(chat.input) + 1 /\ Pieces + 1 \in Int /\ Pieces \in Int
        BY <1>2, <3>1
      <4> QED
        BY <3>1, <4>1, SubSeqEmpty DEF CustomSuffix
    <3> QED
      BY <1>5, <3>1, <3>2, ConcatEmptySeq
  <2> QED
    BY <2>1, <2>2
<1>7. DOMAIN arguments' = {"function", "custom"} /\ arguments'["custom"] = args \o rest \o CustomSuffix
  BY <1>1 DEF PartsTyped
<1>8. /\ whole \in ChatRecords /\ whole.text = chat.text /\ whole.input = Whole
      /\ whole.textDone = chat.textDone /\ whole.agentShown = chat.agentShown /\ whole.closed
      /\ whole.calls = chat.calls
  BY <1>1, <1>2 DEF ChatRecords
<1> HIDE DEF whole, rest
<1>9. /\ seen' \in [Parts -> SUBSET {"added", "done", "item", "output"}]
      /\ seen'["custom"] = seen["custom"] \cup {event} /\ seen'["message"] = seen["message"]
  BY <1>1, SeenTyped
<1>10. seen'["custom"] \cap Ends # {} /\ ("added" \in seen'["custom"] => "added" \in seen["custom"])
  BY <1>9 DEF Ends
<1>11. PartsTyped'
  BY <1>1, <1>7, <1>8, <1>9 DEF PartsTyped
<1>12. TextKept'
  BY <1>1, <1>8, <1>9, MessageStandsKeeps DEF MessageStands
<1>13. InputFollows'
  BY <1>1, <1>6, <1>7, <1>8, <1>10 DEF InputFollows
<1> QED
  BY <1>11, <1>12, <1>13 DEF PartsInv

(* The same of a call it does not know: an error, and nothing to keep.      *)
LEMMA UnknownDoneKeeps ==
  ASSUME PartsInv, NEW event \in Ends, CustomDone(event), "custom" \notin chat.calls
  PROVE  PartsInv'
<1> DEFINE failed == [chat EXCEPT !.ended = "failed"]
<1>1. /\ PartsTyped /\ TextKept /\ InputFollows /\ chat \in ChatRecords
      /\ Came("custom", event) /\ UNCHANGED <<agent, early, given, content, arguments>>
      /\ chat' = failed /\ "message" \in Parts /\ "custom" \in Parts
      /\ event \in {"added", "done", "item", "output"}
  BY DEF PartsInv, PartsTyped, CustomDone, Ending, Parts, Ends
<1>2. /\ failed \in ChatRecords /\ failed.text = chat.text
      /\ failed.textDone = chat.textDone /\ failed.agentShown = chat.agentShown
  BY <1>1 DEF ChatRecords
<1> HIDE DEF failed
<1>3. /\ seen' \in [Parts -> SUBSET {"added", "done", "item", "output"}]
      /\ seen'["custom"] = seen["custom"] \cup {event} /\ seen'["message"] = seen["message"]
  BY <1>1, SeenTyped
<1>4. seen'["custom"] \cap Ends # {} /\ "added" \notin seen'["custom"]
  BY <1>1, <1>3 DEF Ends, InputFollows
<1>5. PartsTyped'
  BY <1>1, <1>2, <1>3 DEF PartsTyped
<1>6. TextKept'
  BY <1>1, <1>2, <1>3, MessageStandsKeeps DEF MessageStands
<1>7. InputFollows'
  BY <1>4 DEF InputFollows
<1> QED
  BY <1>5, <1>6, <1>7 DEF PartsInv

LEMMA PartsStep == PartsInv /\ [ResponsesNext]_responsesVars => PartsInv'
<1> SUFFICES ASSUME PartsInv, [ResponsesNext]_responsesVars PROVE PartsInv'
  OBVIOUS
<1>1. ASSUME NEW event \in Ends, FunctionDone(event) PROVE PartsInv'
  <2>1. /\ PartsTyped /\ TextKept /\ InputFollows
        /\ UNCHANGED <<agent, early, given, chat, content, arguments>>
        /\ Came("function", event) /\ event \in {"added", "done", "item", "output"}
        /\ "function" \in Parts /\ "custom" \in Parts /\ "message" \in Parts
    BY <1>1 DEF PartsInv, FunctionDone, Ending, Ends, Parts
  <2>2. /\ seen' \in [Parts -> SUBSET {"added", "done", "item", "output"}]
        /\ seen'["custom"] = seen["custom"] /\ seen'["message"] = seen["message"]
    BY <2>1, SeenTyped
  <2>3. PartsTyped'
    BY <2>1, <2>2 DEF PartsTyped
  <2>4. TextKept' /\ InputFollows'
    BY <2>1, <2>2, MessageStandsKeeps, CustomStandsKeeps DEF MessageStands, CustomStands
  <2> QED
    BY <2>3, <2>4 DEF PartsInv
<1>2. ASSUME UNCHANGED responsesVars PROVE PartsInv'
  BY <1>2 DEF responsesVars, PartsInv, PartsTyped, TextKept, TextFollows, InputFollows
<1> QED
  BY <1>1, <1>2, MessageAddedKeeps, CallAddedKeeps, CallDeltaKeeps, TextDeltaKeeps, TextDoneKeeps,
     MessageItemDoneKeeps, CompletedWithOutputKeeps, FinishChatKeeps, CustomDoneKeeps, UnknownDoneKeeps
     DEF ResponsesNext

(* Whichever of the delta, done, item-done and completed events a Responses *)
(* provider sends, the Chat client has each piece of the text once and in   *)
(* its place, and all of it once an event that is translated brought it;    *)
(* and the input of a custom call that was added is one JSON object.        *)
THEOREM PartsAreTranslated == ResponsesSpec => []PartsTranslated
<1>1. PartsInv => PartsTranslated
  <2> SUFFICES ASSUME PartsInv PROVE PartsTranslated
    OBVIOUS
  <2>1. TextArrivesOnce
    <3> SUFFICES ASSUME early \in {0, Pieces} PROVE IsPrefix(content, Whole) /\ (TextBrought => content = Whole)
      BY DEF TextArrivesOnce
    <3>1. PartsTyped /\ TextFollows
      BY DEF PartsInv, TextKept
    <3>2. Pieces = 0 => given["message"] = Pieces
      BY <3>1 DEF PartsTyped, Parts
    <3>3. given["message"] = Pieces => chat.text = Whole
      BY <3>1, WholeIsFirst DEF TextFollows
    <3> QED
      BY <3>1, <3>2, <3>3, ShowsWhole DEF TextFollows, TextBrought
  <2>2. CustomInputWrapped
    BY DEF CustomInputWrapped, PartsInv, InputFollows
  <2> QED
    BY <2>1, <2>2 DEF PartsTranslated
<1> QED
  BY <1>1, PartsStart, PartsStep, PTL DEF ResponsesSpec

-----------------------------------------------------------------------------
(* ResponseHistory: the store in memory, the table and the claims.          *)

(* A set of naturals that is not empty has a least element.                 *)
LEMMA LeastOf ==
    ASSUME NEW S \in SUBSET Nat, S # {}
    PROVE  \E n \in S : \A j \in S : n <= j
  <1> DEFINE R == {ss \in Nat \X Nat : ss[1] < ss[2]}
  <1>1. IsWellFoundedOn(R, Nat)
    BY NatLessThanWellFounded DEF OpToRel
  <1>2. \E x \in S : \A y \in S : ~ (<<y, x>> \in R)
    <2> HIDE DEF R
    <2> QED BY <1>1, WFMin
  <1>3. \A x, y \in Nat : ~ (<<y, x>> \in R) => x <= y
    OBVIOUS
  <1> HIDE DEF R
  <1> QED BY <1>2, <1>3

(* Every place of an order holds another history.                           *)
Orderly(ord) ==
    /\ ord \in Seq(HistoryKeys)
    /\ \A i, j \in 1..Len(ord) : ord[i] = ord[j] => i = j

(* A store: its order is the set of its entries.                            *)
StoreSound(es, ord) ==
    /\ es \in [HistoryKeys -> Int]
    /\ Orderly(ord)
    /\ ToSet(ord) = {k \in HistoryKeys : es[k] # Unwritten}

(* The rest of an orderly order is orderly, and its histories are those of  *)
(* the places that are left.                                                *)
LEMMA RestOrderly ==
    ASSUME NEW ord, Orderly(ord), NEW m \in 1..(Len(ord) + 1)
    PROVE  LET rest == SubSeq(ord, m, Len(ord))
           IN  /\ Orderly(rest)
               /\ Len(rest) = Len(ord) - m + 1
               /\ ToSet(rest) = {ord[n] : n \in m..Len(ord)}
  <1> DEFINE rest == SubSeq(ord, m, Len(ord))
  <1>1. Len(ord) \in Nat /\ ord \in Seq(HistoryKeys)
    BY DEF Orderly
  <1>2. /\ rest \in Seq(HistoryKeys)
        /\ Len(rest) = Len(ord) - m + 1
        /\ \A i \in 1..Len(rest) : rest[i] = ord[m + i - 1]
    <2>1. \A i \in m..Len(ord) : ord[i] \in HistoryKeys
      BY <1>1
    <2>2. m \in 1..Len(ord) + 1 /\ Len(ord) \in m - 1..Len(ord)
      BY <1>1
    <2> QED BY <1>1, <2>1, <2>2, SubSeqProperties
  <1> HIDE DEF rest
  <1>3. ToSet(rest) = {ord[n] : n \in m..Len(ord)}
    <2>1. ASSUME NEW i \in 1..Len(rest)
          PROVE  rest[i] \in {ord[n] : n \in m..Len(ord)}
      <3>1. m + i - 1 \in m..Len(ord)
        BY <1>1, <1>2
      <3> QED BY <3>1, <1>2
    <2>2. ASSUME NEW n \in m..Len(ord)
          PROVE  ord[n] \in ToSet(rest)
      <3>1. n - m + 1 \in 1..Len(rest) /\ m + (n - m + 1) - 1 = n
        BY <1>1, <1>2
      <3>2. rest[n - m + 1] = ord[n] /\ DOMAIN rest = 1..Len(rest)
        BY <3>1, <1>2
      <3> QED BY <3>1, <3>2 DEF ToSet
    <2> QED BY <2>1, <2>2 DEF ToSet
  <1>4. Orderly(rest)
    <2> SUFFICES ASSUME NEW i \in 1..Len(rest), NEW j \in 1..Len(rest), rest[i] = rest[j]
                 PROVE  i = j
      BY <1>2 DEF Orderly
    <2>1. m + i - 1 \in 1..Len(ord) /\ m + j - 1 \in 1..Len(ord)
      BY <1>1, <1>2
    <2>2. m + i - 1 = m + j - 1
      BY <2>1, <1>2 DEF Orderly
    <2> QED BY <2>2, <1>1, <1>2
  <1> QED BY <1>2, <1>3, <1>4 DEF rest

-----------------------------------------------------------------------------
(* order.retain takes one history out of an orderly order.                  *)

Staying(ord, k) == {n \in 1..Len(ord) : ord[n] # k}
UpTo(S, n) == {m \in S : m <= n}
Rank(S, n) == Cardinality(UpTo(S, n))

(* Their ranks number the places that stay.                                 *)
LEMMA RanksOf ==
    ASSUME NEW ord, Orderly(ord), NEW k
    PROVE  /\ Cardinality(Staying(ord, k)) \in 0..Len(ord)
           /\ \A n \in Staying(ord, k) :
                Rank(Staying(ord, k), n) \in 1..Cardinality(Staying(ord, k))
           /\ \A i, j \in Staying(ord, k) :
                Rank(Staying(ord, k), i) = Rank(Staying(ord, k), j) => i = j
           /\ \A i \in 1..Cardinality(Staying(ord, k)) :
                \E n \in Staying(ord, k) : Rank(Staying(ord, k), n) = i
  <1> DEFINE L == Len(ord)
             stays == Staying(ord, k)
             rank(n) == Rank(stays, n)
  <1>1. L \in Nat
    BY DEF Orderly
  <1>2. \A n \in Nat : IsFiniteSet(1..n) /\ Cardinality(1..n) = n
    BY FS_Interval
  <1>3. ASSUME \A n \in 1..L : ord[n] # k
        PROVE  /\ Cardinality(stays) \in 0..L
               /\ \A n \in stays : rank(n) \in 1..Cardinality(stays)
               /\ \A i, j \in stays : rank(i) = rank(j) => i = j
               /\ \A i \in 1..Cardinality(stays) : \E n \in stays : rank(n) = i
    <2>1. stays = 1..L
      BY <1>3 DEF Staying
    <2> HIDE DEF stays
    <2>2. \A n \in 1..L : UpTo(stays, n) = 1..n
      BY <2>1, <1>1 DEF UpTo
    <2>3. Cardinality(stays) = L /\ \A n \in 1..L : rank(n) = n
      BY <2>1, <2>2, <1>1, <1>2 DEF Rank
    <2> HIDE DEF rank
    <2>4. QED
      <3>1. stays = 1..L /\ Cardinality(stays) \in 0..L
        BY <2>1, <2>3, <1>1
      <3>2. \A n \in stays : rank(n) \in 1..Cardinality(stays)
        BY <2>1, <2>3, <1>1
      <3>3. \A i, j \in stays : rank(i) = rank(j) => i = j
        BY <2>1, <2>3, <1>1
      <3>4. \A i \in 1..Cardinality(stays) : \E n \in stays : rank(n) = i
        BY <2>1, <2>3, <1>1
      <3> QED BY <3>1, <3>2, <3>3, <3>4
  <1>4. ASSUME NEW p \in 1..L, ord[p] = k
        PROVE  /\ Cardinality(stays) \in 0..L
               /\ \A n \in stays : rank(n) \in 1..Cardinality(stays)
               /\ \A i, j \in stays : rank(i) = rank(j) => i = j
               /\ \A i \in 1..Cardinality(stays) : \E n \in stays : rank(n) = i
    <2>1. stays = (1..L) \ {p}
      BY <1>4 DEF Orderly, Staying
    <2> HIDE DEF stays
    <2>2. Cardinality(stays) = L - 1
      BY <2>1, <1>1, <1>2, FS_RemoveElement
    <2>3. ASSUME NEW n \in stays PROVE rank(n) = IF n < p THEN n ELSE n - 1
      <3>1. n \in 1..L /\ n # p
        BY <2>1
      <3>2. UpTo(stays, n) = (1..n) \ {p}
        BY <2>1, <3>1, <1>1 DEF UpTo
      <3>3. Cardinality((1..n) \ {p}) = IF p \in 1..n THEN Cardinality(1..n) - 1 ELSE Cardinality(1..n)
        <4>1. n \in Nat /\ IsFiniteSet(1..n)
          BY <3>1, <1>1, <1>2
        <4> QED BY <4>1, FS_RemoveElement
      <3>4. Cardinality(1..n) = n /\ (p \in 1..n <=> ~ (n < p))
        BY <3>1, <1>1, <1>2
      <3> QED BY <3>2, <3>3, <3>4 DEF Rank
    <2> HIDE DEF rank
    <2>4. Cardinality(stays) \in 0..L
      BY <2>2, <1>1
    <2>5. \A n \in stays : rank(n) \in 1..Cardinality(stays)
      BY <2>1, <2>2, <2>3, <1>1
    <2>6. \A i, j \in stays : rank(i) = rank(j) => i = j
      BY <2>1, <2>3, <1>1
    <2>7. ASSUME NEW i \in 1..Cardinality(stays)
          PROVE  \E n \in stays : rank(n) = i
      <3>1. CASE i < p
        <4>1. i \in stays /\ rank(i) = i
          BY <3>1, <2>1, <2>2, <2>3, <1>1
        <4> QED BY <4>1
      <3>2. CASE ~ (i < p)
        <4>1. i + 1 \in stays /\ rank(i + 1) = i
          BY <3>2, <2>1, <2>2, <2>3, <1>1
        <4> QED BY <4>1
      <3> QED BY <3>1, <3>2
    <2> QED BY <2>4, <2>5, <2>6, <2>7
  <1> HIDE DEF stays, rank
  <1>5. /\ Cardinality(stays) \in 0..L
        /\ \A n \in stays : rank(n) \in 1..Cardinality(stays)
        /\ \A i, j \in stays : rank(i) = rank(j) => i = j
        /\ \A i \in 1..Cardinality(stays) : \E n \in stays : rank(n) = i
    BY <1>3, <1>4
  <1> QED BY <1>5 DEF stays, rank

LEMMA RetainedOrderly ==
    ASSUME NEW ord, Orderly(ord), NEW k
    PROVE  /\ Orderly(Retained(ord, k))
           /\ ToSet(Retained(ord, k)) = ToSet(ord) \ {k}
  <1> DEFINE stays == Staying(ord, k)
             rank(n) == Rank(stays, n)
             Place(i) == CHOOSE n \in stays : rank(n) = i
             R == Retained(ord, k)
             C == Cardinality(stays)
  <1>1. ord \in Seq(HistoryKeys) /\ Len(ord) \in Nat /\ DOMAIN ord = 1..Len(ord)
    BY DEF Orderly
  <1>2. /\ C \in 0..Len(ord)
        /\ \A n \in stays : rank(n) \in 1..C
        /\ \A i, j \in stays : rank(i) = rank(j) => i = j
        /\ \A i \in 1..C : \E n \in stays : rank(n) = i
    BY RanksOf
  <1>3. R = [i \in 1..C |-> ord[Place(i)]]
    BY DEF Retained, Staying, Rank, UpTo
  <1>4. \A n \in stays : n \in 1..Len(ord) /\ ord[n] # k /\ ord[n] \in HistoryKeys
    BY <1>1 DEF Staying
  <1>5. \A n \in 1..Len(ord) : ord[n] # k => n \in stays
    BY DEF Staying
  <1> HIDE DEF stays, rank, R, C
  <1>6. \A i \in 1..C : Place(i) \in stays /\ rank(Place(i)) = i
    BY <1>2
  <1>7. \A n \in stays : Place(rank(n)) = n
    BY <1>2, <1>6
  <1> HIDE DEF Place
  <1>8. R \in Seq(HistoryKeys) /\ Len(R) = C /\ DOMAIN R = 1..C
    <2>1. C \in Nat
      BY <1>1, <1>2
    <2>2. R \in [1..C -> HistoryKeys]
      BY <1>3, <1>4, <1>6
    <2>3. R \in Seq(HistoryKeys)
      BY <2>1, <2>2, SeqDef
    <2> QED BY <2>1, <2>2, <2>3
  <1>9. \A i, j \in 1..C : R[i] = R[j] => i = j
    <2> SUFFICES ASSUME NEW i \in 1..C, NEW j \in 1..C, R[i] = R[j]
                 PROVE  i = j
      OBVIOUS
    <2>1. ord[Place(i)] = ord[Place(j)]
      BY <1>3
    <2>2. Place(i) = Place(j)
      BY <2>1, <1>4, <1>6 DEF Orderly
    <2> QED BY <2>2, <1>6
  <1>10. ToSet(R) = ToSet(ord) \ {k}
    <2>1. ASSUME NEW i \in 1..C PROVE R[i] \in ToSet(ord) \ {k}
      <3>1. R[i] = ord[Place(i)] /\ Place(i) \in 1..Len(ord) /\ ord[Place(i)] # k
        BY <1>3, <1>4, <1>6
      <3> QED BY <3>1, <1>1 DEF ToSet
    <2>2. ASSUME NEW n \in 1..Len(ord), ord[n] # k PROVE ord[n] \in ToSet(R)
      <3>1. n \in stays /\ rank(n) \in 1..C /\ R[rank(n)] = ord[n]
        BY <2>2, <1>2, <1>3, <1>5, <1>7
      <3> QED BY <3>1, <1>8 DEF ToSet
    <2>3. ToSet(R) \subseteq ToSet(ord) \ {k}
      BY <2>1, <1>8 DEF ToSet
    <2>4. ToSet(ord) \ {k} \subseteq ToSet(R)
      BY <2>2, <1>1 DEF ToSet
    <2> QED BY <2>3, <2>4
  <1> QED BY <1>8, <1>9, <1>10 DEF Orderly, R
-----------------------------------------------------------------------------
(* What the operations of the store keep.                                   *)

(* evict_expired leaves a sound store with no new entry.                    *)
LEMMA ExpelledSound ==
    ASSUME NEW es, NEW ord, NEW now, StoreSound(es, ord)
    PROVE  /\ StoreSound(Expelled(es, ord, now).es, Expelled(es, ord, now).ord)
           /\ Len(Expelled(es, ord, now).ord) <= Len(ord)
           /\ \A k \in HistoryKeys :
                Expelled(es, ord, now).es[k] # Unwritten => es[k] # Unwritten
  <1> DEFINE fresh == {n \in 1..Len(ord) : es[ord[n]] # Unwritten /\ ~ TooOld(es[ord[n]], now)}
             first == IF fresh = {} THEN Len(ord) + 1
                                    ELSE CHOOSE n \in fresh : \A j \in fresh : n <= j
             rest == SubSeq(ord, first, Len(ord))
             es2 == [k \in HistoryKeys |-> IF k \in ToSet(rest) THEN es[k] ELSE Unwritten]
  <1>1. Len(ord) \in Nat /\ ord \in Seq(HistoryKeys) /\ DOMAIN ord = 1..Len(ord)
    BY DEF StoreSound, Orderly
  <1>2. first \in 1..(Len(ord) + 1)
    <2>1. fresh \in SUBSET (1..Len(ord)) /\ fresh \in SUBSET Nat
      BY <1>1
    <2> HIDE DEF fresh
    <2>2. fresh # {} => \E n \in fresh : \A j \in fresh : n <= j
      BY <2>1, LeastOf
    <2>3. fresh # {} => (CHOOSE n \in fresh : \A j \in fresh : n <= j) \in fresh
      BY <2>2
    <2>4. CASE fresh = {}
      BY <2>4, <1>1
    <2>5. CASE fresh # {}
      <3>1. first \in fresh
        BY <2>3, <2>5
      <3> HIDE DEF first
      <3> QED BY <3>1, <2>1, <1>1
    <2> QED BY <2>4, <2>5
  <1>3. Expelled(es, ord, now) = [es |-> es2, ord |-> rest]
    BY DEF Expelled
  <1> HIDE DEF first, fresh
  <1>4. /\ Orderly(rest)
        /\ Len(rest) = Len(ord) - first + 1
        /\ ToSet(rest) = {ord[n] : n \in first..Len(ord)}
    BY <1>2, RestOrderly DEF StoreSound
  <1>5. ToSet(rest) \subseteq ToSet(ord)
    <2>1. first..Len(ord) \subseteq DOMAIN ord
      BY <1>1, <1>2
    <2> QED BY <2>1, <1>4 DEF ToSet
  <1> HIDE DEF rest
  <1>6. es2 \in [HistoryKeys -> Int]
    BY DEF StoreSound, Unwritten
  <1>7. ToSet(rest) = {k \in HistoryKeys : es2[k] # Unwritten}
    BY <1>5 DEF StoreSound
  <1>8. \A k \in HistoryKeys : es2[k] # Unwritten => es[k] # Unwritten
    OBVIOUS
  <1>9. Len(rest) <= Len(ord)
    BY <1>1, <1>2, <1>4
  <1> HIDE DEF es2
  <1> QED BY <1>3, <1>4, <1>6, <1>7, <1>8, <1>9 DEF StoreSound

(* The trimming to the limit leaves a sound store within the limit.         *)
LEMMA TrimmedSound ==
    ASSUME NEW es, NEW ord, StoreSound(es, ord)
    PROVE  LET store == Trimmed([es |-> es, ord |-> ord])
           IN  /\ StoreSound(store.es, store.ord)
               /\ Len(store.ord) <= HistoryLimit
               /\ \A k \in HistoryKeys : store.es[k] # Unwritten => es[k] # Unwritten
  <1> DEFINE excess == IF Len(ord) > HistoryLimit THEN Len(ord) - HistoryLimit ELSE 0
             gone == {ord[n] : n \in 1..excess}
             es2 == [k \in HistoryKeys |-> IF k \in gone THEN Unwritten ELSE es[k]]
             rest == SubSeq(ord, excess + 1, Len(ord))
  <1>1. Len(ord) \in Nat /\ ord \in Seq(HistoryKeys) /\ DOMAIN ord = 1..Len(ord)
    BY DEF StoreSound, Orderly
  <1>2. HistoryLimit \in Nat \ {0}
    BY HistoryAssumption
  <1>3. /\ excess \in 0..Len(ord) /\ excess + 1 \in 1..(Len(ord) + 1)
        /\ Len(ord) - (excess + 1) + 1 <= HistoryLimit
    BY <1>1, <1>2
  <1>4. Trimmed([es |-> es, ord |-> ord]) = [es |-> es2, ord |-> rest]
    BY DEF Trimmed
  <1> HIDE DEF excess
  <1>5. /\ Orderly(rest)
        /\ Len(rest) = Len(ord) - (excess + 1) + 1
        /\ ToSet(rest) = {ord[n] : n \in (excess + 1)..Len(ord)}
    BY <1>3, RestOrderly DEF StoreSound
  <1> HIDE DEF rest
  <1>6. es2 \in [HistoryKeys -> Int]
    BY DEF StoreSound, Unwritten
  <1>7. ToSet(rest) = ToSet(ord) \ gone
    <2>1. ASSUME NEW n \in (excess + 1)..Len(ord)
          PROVE  ord[n] \in ToSet(ord) \ gone
      <3>1. n \in 1..Len(ord) /\ \A j \in 1..excess : j \in 1..Len(ord) /\ j # n
        BY <1>1, <1>3
      <3>2. \A j \in 1..excess : ord[j] # ord[n]
        BY <3>1 DEF StoreSound, Orderly
      <3>3. ord[n] \in ToSet(ord)
        BY <3>1, <1>1 DEF ToSet
      <3> QED BY <3>2, <3>3
    <2>2. ASSUME NEW n \in 1..Len(ord), ord[n] \notin gone
          PROVE  ord[n] \in ToSet(rest)
      <3>1. n \in (excess + 1)..Len(ord)
        BY <2>2, <1>1, <1>3
      <3> QED BY <3>1, <1>5
    <2>3. ToSet(rest) \subseteq ToSet(ord) \ gone
      BY <2>1, <1>5
    <2>4. ToSet(ord) \ gone \subseteq ToSet(rest)
      BY <2>2, <1>1 DEF ToSet
    <2> QED BY <2>3, <2>4
  <1>8. ToSet(rest) = {k \in HistoryKeys : es2[k] # Unwritten}
    BY <1>7 DEF StoreSound
  <1>9. \A k \in HistoryKeys : es2[k] # Unwritten => es[k] # Unwritten
    OBVIOUS
  <1>10. Len(rest) <= HistoryLimit
    BY <1>3, <1>5
  <1> HIDE DEF es2
  <1> QED BY <1>4, <1>5, <1>6, <1>8, <1>9, <1>10 DEF StoreSound

(* An insertion into a sound store leaves a sound one within the limit,     *)
(* whose only new entry is the one inserted.                                *)
LEMMA InsertedSound ==
    ASSUME StoreSound(kept, keptOrder), NEW k \in HistoryKeys,
           NEW created \in Int, created # Unwritten, NEW now
    PROVE  LET store == Inserted(k, created, now)
           IN  /\ StoreSound(store.es, store.ord)
               /\ Len(store.ord) <= HistoryLimit
               /\ \A j \in HistoryKeys : store.es[j] # Unwritten => j = k \/ kept[j] # Unwritten
  <1> DEFINE es1 == [kept EXCEPT ![k] = created]
             left == Retained(keptOrder, k)
             ord1 == Append(left, k)
             out == Expelled(es1, ord1, now)
  <1>1. Orderly(left) /\ ToSet(left) = ToSet(keptOrder) \ {k}
    BY RetainedOrderly DEF StoreSound
  <1> HIDE DEF left
  <1>2. left \in Seq(HistoryKeys) /\ Len(left) \in Nat /\ DOMAIN left = 1..Len(left)
    BY <1>1 DEF Orderly
  <1>3. /\ ord1 \in Seq(HistoryKeys) /\ Len(ord1) = Len(left) + 1
        /\ DOMAIN ord1 = 1..(Len(left) + 1)
        /\ ord1[Len(left) + 1] = k /\ \A i \in 1..Len(left) : ord1[i] = left[i]
    BY <1>2
  <1> HIDE DEF ord1
  <1>4. \A i \in 1..Len(left) : left[i] # k
    BY <1>1, <1>2 DEF ToSet
  <1>5. Orderly(ord1)
    <2> SUFFICES ASSUME NEW i \in 1..(Len(left) + 1), NEW j \in 1..(Len(left) + 1), ord1[i] = ord1[j]
                 PROVE  i = j
      BY <1>3 DEF Orderly
    <2>1. CASE i \in 1..Len(left) /\ j \in 1..Len(left)
      BY <2>1, <1>1, <1>3 DEF Orderly
    <2>2. CASE i = Len(left) + 1 /\ j \in 1..Len(left)
      BY <2>2, <1>3, <1>4
    <2>3. CASE j = Len(left) + 1 /\ i \in 1..Len(left)
      BY <2>3, <1>3, <1>4
    <2> QED BY <2>1, <2>2, <2>3, <1>2
  <1>6. ToSet(ord1) = ToSet(keptOrder) \cup {k}
    <2>1. ToSet(ord1) = ToSet(left) \cup {k}
      <3>1. ToSet(left) \cup {k} \subseteq ToSet(ord1)
        <4>1. \A i \in 1..Len(left) : i \in DOMAIN ord1
          BY <1>2, <1>3
        <4>2. Len(left) + 1 \in DOMAIN ord1
          BY <1>2, <1>3
        <4> QED BY <4>1, <4>2, <1>2, <1>3 DEF ToSet
      <3>2. ASSUME NEW i \in DOMAIN ord1 PROVE ord1[i] \in ToSet(left) \cup {k}
        <4>1. i \in 1..Len(left) \/ i = Len(left) + 1
          BY <1>2, <1>3
        <4> QED BY <4>1, <1>2, <1>3 DEF ToSet
      <3> QED BY <3>1, <3>2 DEF ToSet
    <2> QED BY <2>1, <1>1
  <1>7. es1 \in [HistoryKeys -> Int] /\ es1[k] = created /\ \A j \in HistoryKeys : j # k => es1[j] = kept[j]
    BY DEF StoreSound
  <1> HIDE DEF es1
  <1>8. ToSet(ord1) = {j \in HistoryKeys : es1[j] # Unwritten}
    BY <1>6, <1>7 DEF StoreSound
  <1>9. StoreSound(es1, ord1)
    BY <1>5, <1>7, <1>8 DEF StoreSound
  <1>10. /\ StoreSound(out.es, out.ord)
         /\ \A j \in HistoryKeys : out.es[j] # Unwritten => es1[j] # Unwritten
    BY <1>9, ExpelledSound
  <1>11. out = [es |-> out.es, ord |-> out.ord]
    BY DEF Expelled
  <1> HIDE DEF out
  <1>12. LET store == Trimmed([es |-> out.es, ord |-> out.ord])
         IN  /\ StoreSound(store.es, store.ord)
             /\ Len(store.ord) <= HistoryLimit
             /\ \A j \in HistoryKeys : store.es[j] # Unwritten => out.es[j] # Unwritten
    BY <1>10, TrimmedSound
  <1>13. Inserted(k, created, now) = Trimmed([es |-> out.es, ord |-> out.ord])
    BY <1>11 DEF Inserted, out, es1, ord1, left
  <1> QED BY <1>7, <1>10, <1>12, <1>13
-----------------------------------------------------------------------------
(* The inductive invariant.  A legacy row that is still unclaimed has no    *)
(* holder yet; no task writes a legacy history, so only a claim makes one.  *)

Holders == {o \in Owners : \/ kept[<<o, Legacy>>] # Unwritten
                           \/ rows[<<o, Legacy>>] # Unwritten}

HistoryTyped ==
    /\ hour \in Nat
    /\ rows \in [RowKeys -> Int]
    /\ \A w \in writing : w.key \in HistoryKeys /\ w.created \in Nat /\ w.key[2] # Legacy
    /\ \A q \in lookup : q.key \in HistoryKeys

HistoryInv ==
    /\ HistoryTyped
    /\ StoreSound(kept, keptOrder) /\ Len(keptOrder) <= HistoryLimit
    /\ \A o, p \in Holders : o = p
    /\ rows[<<"", Legacy>>] # Unwritten => Holders = {}

(* A step that gives no owner a legacy history keeps the claim unique.      *)
LEMMA HoldersKept ==
    ASSUME HistoryInv,
           \A o \in Owners : kept'[<<o, Legacy>>] # Unwritten => o \in Holders,
           \A o \in Owners : rows'[<<o, Legacy>>] # Unwritten => o \in Holders,
           rows'[<<"", Legacy>>] # Unwritten => rows[<<"", Legacy>>] # Unwritten
    PROVE  /\ \A o, p \in Holders' : o = p
           /\ rows'[<<"", Legacy>>] # Unwritten => Holders' = {}
  <1>1. Holders' \subseteq Holders
    BY DEF Holders
  <1> QED BY <1>1 DEF HistoryInv

LEMMA KeyFacts ==
    /\ \A o \in Owners : <<o, Legacy>> \in HistoryKeys /\ <<o, Legacy>> \in RowKeys
    /\ <<"", Legacy>> \in RowKeys
    /\ HistoryKeys \subseteq RowKeys
    /\ \A k \in HistoryKeys : k # <<"", Legacy>> /\ k[1] \in Owners /\ k[2] \in Ids /\ k = <<k[1], k[2]>>
    /\ \A k \in HistoryKeys : <<"", k[2]>> \in RowKeys /\ <<"", k[2]>> \notin HistoryKeys
  <1>1. Legacy \in Ids /\ "" \notin Owners
    BY HistoryAssumption
  <1>2. /\ \A o \in Owners : <<o, Legacy>> \in HistoryKeys /\ <<o, Legacy>> \in RowKeys
        /\ <<"", Legacy>> \in RowKeys
        /\ HistoryKeys \subseteq RowKeys
    BY <1>1 DEF HistoryKeys, RowKeys
  <1>3. ASSUME NEW k \in HistoryKeys
        PROVE  /\ k[1] \in Owners /\ k[2] \in Ids /\ k = <<k[1], k[2]>>
    BY DEF HistoryKeys
  <1>4. ASSUME NEW k \in HistoryKeys
        PROVE  /\ k # <<"", Legacy>>
               /\ <<"", k[2]>> \in RowKeys /\ <<"", k[2]>> \notin HistoryKeys
    BY <1>1, <1>3 DEF HistoryKeys, RowKeys
  <1> QED BY <1>2, <1>3, <1>4

(* The order of an empty store.                                             *)
LEMMA NothingOrdered ==
    /\ Orderly(<<>>) /\ Len(<<>>) = 0 /\ ToSet(<<>>) = {}
    /\ StoreSound([k \in HistoryKeys |-> Unwritten], <<>>)
    /\ Len(<<>>) <= HistoryLimit
  <1>1. Orderly(<<>>)
    BY DEF Orderly
  <1>2. ToSet(<<>>) = {}
    BY DEF ToSet
  <1>3. Len(<<>>) = 0 /\ HistoryLimit \in Nat
    BY HistoryAssumption
  <1>4. StoreSound([k \in HistoryKeys |-> Unwritten], <<>>)
    BY <1>1, <1>2 DEF StoreSound, Unwritten
  <1> QED BY <1>1, <1>2, <1>3, <1>4

LEMMA HistoryStart == HistoryInit => HistoryInv
  <1> SUFFICES ASSUME HistoryInit PROVE HistoryInv
    OBVIOUS
  <1>1. /\ hour = 0 /\ kept = [k \in HistoryKeys |-> Unwritten] /\ keptOrder = <<>>
        /\ rows = [k \in RowKeys |-> IF k = <<"", Legacy>> THEN 0 ELSE Unwritten]
        /\ writing = {} /\ lookup = {}
    BY DEF HistoryInit
  <1>2. HistoryTyped
    <2>1. rows \in [RowKeys -> Int]
      <3>1. Unwritten \in Int /\ 0 \in Int
        BY DEF Unwritten
      <3>2. \A k \in RowKeys : (IF k = <<"", Legacy>> THEN 0 ELSE Unwritten) \in Int
        BY <3>1
      <3> QED BY <1>1, <3>2
    <2> QED BY <1>1, <2>1 DEF HistoryTyped
  <1>4. StoreSound(kept, keptOrder)
    BY <1>1, NothingOrdered
  <1>5. Len(keptOrder) <= HistoryLimit
    BY <1>1, NothingOrdered
  <1>6. Holders = {}
    BY <1>1, KeyFacts DEF Holders
  <1> QED BY <1>2, <1>4, <1>5, <1>6 DEF HistoryInv

(* Store, Serve and AskPostgres.                                            *)
LEMMA RequestsKeep ==
    ASSUME HistoryInv, NEW k \in HistoryKeys, Store(k) \/ Serve(k) \/ AskPostgres(k)
    PROVE  HistoryInv'
  <1>0. /\ HistoryTyped /\ StoreSound(kept, keptOrder) /\ Len(keptOrder) <= HistoryLimit
        /\ HistoryLimit \in Nat
    BY HistoryAssumption DEF HistoryInv
  <1>1. ASSUME Store(k)
        PROVE  /\ StoreSound(kept', keptOrder') /\ Len(keptOrder') <= HistoryLimit
               /\ \A j \in HistoryKeys : kept'[j] # Unwritten => j = k \/ kept[j] # Unwritten
               /\ HistoryTyped' /\ rows' = rows /\ k[2] # Legacy
    <2>1. kept' = Inserted(k, hour, hour).es /\ keptOrder' = Inserted(k, hour, hour).ord
      BY <1>1 DEF Store
    <2>2. hour \in Int /\ hour # Unwritten
      BY <1>0 DEF HistoryTyped, Unwritten
    <2>3. HistoryTyped' /\ rows' = rows /\ k[2] # Legacy
      BY <1>0, <1>1 DEF Store, HistoryTyped
    <2> QED BY <2>1, <2>2, <2>3, <1>0, InsertedSound
  <1>2. ASSUME Serve(k) \/ AskPostgres(k)
        PROVE  /\ StoreSound(kept', keptOrder') /\ Len(keptOrder') <= HistoryLimit
               /\ \A j \in HistoryKeys : kept'[j] # Unwritten => kept[j] # Unwritten
               /\ HistoryTyped' /\ rows' = rows
    <2>1. /\ kept' = Expelled(kept, keptOrder, hour).es
          /\ keptOrder' = Expelled(kept, keptOrder, hour).ord
      BY <1>2 DEF Serve, AskPostgres
    <2>2. HistoryTyped' /\ rows' = rows
      BY <1>0, <1>2 DEF Serve, AskPostgres, HistoryTyped
    <2>3. /\ StoreSound(kept', keptOrder') /\ Len(keptOrder') <= Len(keptOrder)
          /\ \A j \in HistoryKeys : kept'[j] # Unwritten => kept[j] # Unwritten
      BY <2>1, <1>0, ExpelledSound
    <2>4. Len(keptOrder') \in Nat /\ Len(keptOrder) \in Nat
      BY <2>3, <1>0 DEF StoreSound, Orderly
    <2> QED BY <2>2, <2>3, <2>4, <1>0
  <1>3. /\ StoreSound(kept', keptOrder') /\ Len(keptOrder') <= HistoryLimit
        /\ HistoryTyped' /\ rows' = rows
        /\ \A o \in Owners : kept'[<<o, Legacy>>] # Unwritten => kept[<<o, Legacy>>] # Unwritten
    BY <1>1, <1>2, KeyFacts
  <1>4. /\ \A o \in Owners : kept'[<<o, Legacy>>] # Unwritten => o \in Holders
        /\ \A o \in Owners : rows'[<<o, Legacy>>] # Unwritten => o \in Holders
        /\ rows'[<<"", Legacy>>] # Unwritten => rows[<<"", Legacy>>] # Unwritten
    BY <1>3 DEF Holders
  <1>5. /\ \A o, p \in Holders' : o = p
        /\ rows'[<<"", Legacy>>] # Unwritten => Holders' = {}
    BY <1>4, HoldersKept
  <1> QED BY <1>3, <1>5 DEF HistoryInv

(* A write stores no legacy history, and the cutoff only removes rows.      *)
LEMMA PersistKeeps ==
    ASSUME HistoryInv, NEW w \in writing, Persist(w)
    PROVE  HistoryInv'
  <1>0. /\ HistoryTyped /\ StoreSound(kept, keptOrder) /\ Len(keptOrder) <= HistoryLimit
    BY DEF HistoryInv
  <1>1. /\ writing' \subseteq writing /\ lookup' = lookup /\ hour' = hour
        /\ kept' = kept /\ keptOrder' = keptOrder
        /\ rows' \in RowsAfter(w) \/ rows' = rows
    BY DEF Persist
  <1>2. w.key \in HistoryKeys /\ w.created \in Nat /\ w.key[2] # Legacy
    BY <1>0 DEF HistoryTyped
  <1>3. /\ rows' \in [RowKeys -> Int]
        /\ \A k \in RowKeys : rows'[k] # Unwritten => k = w.key \/ rows[k] # Unwritten
    <2>1. CASE rows' = rows
      BY <2>1, <1>0 DEF HistoryTyped
    <2>2. CASE rows' \in RowsAfter(w)
      <3> DEFINE all == [rows EXCEPT ![w.key] = w.created]
      <3>0. rows \in [RowKeys -> Int] /\ w.key \in RowKeys /\ w.created \in Int
        <4>1. rows \in [RowKeys -> Int]
          BY <1>0 DEF HistoryTyped
        <4>2. w.key \in RowKeys
          BY <1>2, KeyFacts
        <4>3. w.created \in Int
          BY <1>2
        <4> QED BY <4>1, <4>2, <4>3
      <3>1. /\ all \in [RowKeys -> Int]
            /\ \A k \in RowKeys : all[k] # Unwritten => k = w.key \/ rows[k] # Unwritten
        BY <3>0
      <3>2. \E S : rows' = [k \in RowKeys |-> IF k \in S THEN all[k] ELSE Unwritten]
        BY <2>2 DEF RowsAfter
      <3> HIDE DEF all
      <3> QED BY <3>1, <3>2 DEF Unwritten
    <2> QED BY <1>1, <2>1, <2>2
  <1>4. HistoryTyped'
    BY <1>0, <1>1, <1>3 DEF HistoryTyped
  <1>5. /\ \A o \in Owners : rows'[<<o, Legacy>>] # Unwritten => rows[<<o, Legacy>>] # Unwritten
        /\ rows'[<<"", Legacy>>] # Unwritten => rows[<<"", Legacy>>] # Unwritten
    BY <1>2, <1>3, KeyFacts
  <1>6. /\ \A o \in Owners : kept'[<<o, Legacy>>] # Unwritten => o \in Holders
        /\ \A o \in Owners : rows'[<<o, Legacy>>] # Unwritten => o \in Holders
    BY <1>1, <1>5 DEF Holders
  <1>7. /\ \A o, p \in Holders' : o = p
        /\ rows'[<<"", Legacy>>] # Unwritten => Holders' = {}
    BY <1>5, <1>6, HoldersKept
  <1> QED BY <1>0, <1>1, <1>4, <1>7 DEF HistoryInv

(* The entry of a row that was read, and the row that a lookup claims.      *)
LEMMA FetchKeeps ==
    ASSUME HistoryInv, NEW q \in lookup, Fetch(q)
    PROVE  HistoryInv'
  <1> DEFINE old == <<"", q.key[2]>>
             claims == ~ Readable(q.key, q) /\ q.claim /\ Readable(old, q)
             created == IF claims THEN rows[old] ELSE rows[q.key]
  <1>0. /\ HistoryTyped /\ StoreSound(kept, keptOrder) /\ Len(keptOrder) <= HistoryLimit
        /\ q.key \in HistoryKeys
    BY DEF HistoryInv, HistoryTyped
  <1>1. /\ lookup' \subseteq lookup /\ writing' = writing /\ hour' = hour
        /\ rows' = IF claims THEN Claimed(q) ELSE rows
        /\ ~ (Readable(q.key, q) \/ claims) => kept' = kept /\ keptOrder' = keptOrder
        /\ Readable(q.key, q) \/ claims =>
             /\ kept' = Inserted(q.key, created, q.now).es
             /\ keptOrder' = Inserted(q.key, created, q.now).ord
    BY DEF Fetch
  <1>2. rows \in [RowKeys -> Int] /\ q.key \in RowKeys /\ old \in RowKeys /\ old # q.key
    BY <1>0, KeyFacts DEF HistoryTyped
  <1>3. Readable(q.key, q) \/ claims => created \in Int /\ created # Unwritten
    BY <1>2 DEF Readable
  <1>4. /\ StoreSound(kept', keptOrder') /\ Len(keptOrder') <= HistoryLimit
        /\ \A j \in HistoryKeys : kept'[j] # Unwritten =>
             (j = q.key /\ (Readable(q.key, q) \/ claims)) \/ kept[j] # Unwritten
    <2>1. CASE Readable(q.key, q) \/ claims
      <3>1. created \in Int /\ created # Unwritten
        BY <2>1, <1>3
      <3>2. /\ kept' = Inserted(q.key, created, q.now).es
            /\ keptOrder' = Inserted(q.key, created, q.now).ord
        BY <2>1, <1>1
      <3> HIDE DEF created, claims
      <3> QED BY <2>1, <3>1, <3>2, <1>0, InsertedSound
    <2>2. CASE ~ (Readable(q.key, q) \/ claims)
      BY <2>2, <1>0, <1>1
    <2> QED BY <2>1, <2>2
  <1>5. /\ rows' \in [RowKeys -> Int]
        /\ claims => /\ rows'[old] = Unwritten
                     /\ \A k \in RowKeys : k # old /\ k # q.key => rows'[k] = rows[k]
        /\ ~ claims => rows' = rows
    <2>1. CASE claims
      <3>1. rows' = [rows EXCEPT ![q.key] = rows[old], ![old] = Unwritten]
        BY <2>1, <1>1 DEF Claimed
      <3>2. Unwritten \in Int
        BY DEF Unwritten
      <3>3. rows[old] \in Int
        <4> HIDE DEF old
        <4> QED BY <1>2
      <3> HIDE DEF old, claims
      <3> QED BY <2>1, <3>1, <3>2, <3>3, <1>2
    <2>2. CASE ~ claims
      BY <2>2, <1>1, <1>2
    <2> HIDE DEF claims
    <2> QED BY <2>1, <2>2
  <1>6. HistoryTyped'
    BY <1>0, <1>1, <1>5 DEF HistoryTyped
  <1>7. CASE claims /\ q.key[2] = Legacy
    <2>1. old = <<"", Legacy>> /\ rows[<<"", Legacy>>] # Unwritten /\ rows'[<<"", Legacy>>] = Unwritten
      BY <1>5, <1>7 DEF Readable
    <2>2. Holders = {}
      BY <2>1 DEF HistoryInv
    <2>3. \A o \in Holders' : <<o, Legacy>> = q.key
      <3> SUFFICES ASSUME NEW o \in Owners, <<o, Legacy>> # q.key,
                          kept'[<<o, Legacy>>] # Unwritten \/ rows'[<<o, Legacy>>] # Unwritten
                   PROVE  FALSE
        BY DEF Holders
      <3>1. <<o, Legacy>> \in HistoryKeys /\ <<o, Legacy>> \in RowKeys /\ <<o, Legacy>> # old
        BY <2>1, KeyFacts
      <3>2. kept[<<o, Legacy>>] # Unwritten \/ rows[<<o, Legacy>>] # Unwritten
        BY <3>1, <1>4, <1>5, <1>7
      <3> QED BY <3>2, <2>2 DEF Holders
    <2>4. \A o, p \in Holders' : o = p
      BY <2>3
    <2> QED BY <2>1, <2>4, <1>4, <1>6 DEF HistoryInv
  <1>8. CASE ~ (claims /\ q.key[2] = Legacy)
    <2>1. \A o \in Owners : kept'[<<o, Legacy>>] # Unwritten => o \in Holders
      <3> SUFFICES ASSUME NEW o \in Owners, kept'[<<o, Legacy>>] # Unwritten
                   PROVE  o \in Holders
        OBVIOUS
      <3>1. <<o, Legacy>> \in HistoryKeys
        BY KeyFacts
      <3>2. <<o, Legacy>> = q.key => q.key[2] = Legacy
        OBVIOUS
      <3>3. \/ <<o, Legacy>> = q.key /\ Readable(q.key, q)
            \/ kept[<<o, Legacy>>] # Unwritten
        BY <3>1, <3>2, <1>4, <1>8
      <3> QED BY <3>3 DEF Holders, Readable
    <2>2. \A o \in Owners : rows'[<<o, Legacy>>] # Unwritten => o \in Holders
      <3> SUFFICES ASSUME NEW o \in Owners, rows'[<<o, Legacy>>] # Unwritten
                   PROVE  o \in Holders
        OBVIOUS
      <3>1. <<o, Legacy>> \in RowKeys /\ <<o, Legacy>> \in HistoryKeys /\ old \notin HistoryKeys
        BY <1>0, KeyFacts
      <3>2. <<o, Legacy>> = q.key => q.key[2] = Legacy
        OBVIOUS
      <3>3. rows[<<o, Legacy>>] # Unwritten
        BY <3>1, <3>2, <1>5, <1>8
      <3> QED BY <3>3 DEF Holders
    <2>3. rows'[<<"", Legacy>>] # Unwritten => rows[<<"", Legacy>>] # Unwritten
      BY <1>0, <1>5, KeyFacts
    <2>4. /\ \A o, p \in Holders' : o = p
          /\ rows'[<<"", Legacy>>] # Unwritten => Holders' = {}
      BY <2>1, <2>2, <2>3, HoldersKept
    <2> QED BY <2>4, <1>4, <1>6 DEF HistoryInv
  <1> QED BY <1>7, <1>8

LEMMA HistoryStep == HistoryInv /\ [HistoryNext]_historyVars => HistoryInv'
  <1> SUFFICES ASSUME HistoryInv, [HistoryNext]_historyVars PROVE HistoryInv'
    OBVIOUS
  <1>0. /\ HistoryTyped /\ StoreSound(kept, keptOrder) /\ Len(keptOrder) <= HistoryLimit
        /\ HistoryLimit \in Nat
    BY HistoryAssumption DEF HistoryInv
  <1>1. CASE \E k \in HistoryKeys : Store(k) \/ Serve(k) \/ AskPostgres(k)
    BY <1>1, RequestsKeep
  <1>2. CASE \E w \in writing : Persist(w)
    BY <1>2, PersistKeeps
  <1>3. CASE \E q \in lookup : Fetch(q)
    BY <1>3, FetchKeeps
  <1>4. CASE Restart
    <2>1. /\ kept' = [k \in HistoryKeys |-> Unwritten] /\ keptOrder' = <<>>
          /\ writing' = {} /\ lookup' = {} /\ hour' = hour /\ rows' = rows
      BY <1>4 DEF Restart
    <2>3. StoreSound(kept', keptOrder') /\ Len(keptOrder') <= HistoryLimit
      BY <2>1, NothingOrdered
    <2>4. HistoryTyped'
      BY <2>1, <1>0 DEF HistoryTyped
    <2>5. /\ \A o \in Owners : kept'[<<o, Legacy>>] # Unwritten => o \in Holders
          /\ \A o \in Owners : rows'[<<o, Legacy>>] # Unwritten => o \in Holders
          /\ rows'[<<"", Legacy>>] # Unwritten => rows[<<"", Legacy>>] # Unwritten
      BY <2>1, KeyFacts DEF Holders
    <2>6. /\ \A o, p \in Holders' : o = p
          /\ rows'[<<"", Legacy>>] # Unwritten => Holders' = {}
      BY <2>5, HoldersKept
    <2> QED BY <2>3, <2>4, <2>6 DEF HistoryInv
  <1>5. CASE Configure \/ HourPasses \/ UNCHANGED historyVars
    <2>1. /\ kept' = kept /\ keptOrder' = keptOrder /\ rows' = rows
          /\ writing' = writing /\ lookup' = lookup /\ (hour' = hour \/ hour' = hour + 1)
      BY <1>5 DEF Configure, HourPasses, historyVars
    <2>2. HistoryTyped' /\ Holders' = Holders
      BY <2>1, <1>0 DEF HistoryTyped, Holders
    <2> QED BY <2>1, <2>2 DEF HistoryInv
  <1> QED BY <1>1, <1>2, <1>3, <1>4, <1>5 DEF HistoryNext

(* An orderly order has as many places as histories.                        *)
LEMMA OrderlyCounted ==
    ASSUME NEW ord, Orderly(ord)
    PROVE  Len(ord) = Cardinality(ToSet(ord))
  <1>1. Len(ord) \in Nat /\ DOMAIN ord = 1..Len(ord) /\ ord \in [1..Len(ord) -> HistoryKeys]
    BY DEF Orderly
  <1>2. ord \in [1..Len(ord) -> ToSet(ord)]
    BY <1>1 DEF ToSet
  <1>3. ord \in Bijection(1..Len(ord), ToSet(ord))
    <2>1. IsInjective(ord)
      BY <1>1 DEF Orderly, IsInjective
    <2>2. \A y \in ToSet(ord) : \E x \in 1..Len(ord) : ord[x] = y
      BY <1>1 DEF ToSet
    <2> QED BY <2>1, <2>2, <1>2 DEF Bijection, Injection, Surjection, IsInjective
  <1>4. IsFiniteSet(1..Len(ord)) /\ Cardinality(1..Len(ord)) = Len(ord)
    BY <1>1, FS_Interval, SMTT(30)
  <1> QED BY <1>3, <1>4, FS_Bijection DEF ExistsBijection

(* The histories in memory and in the database agree on what is kept and    *)
(* whose it is, for any number of owners, ids and tasks (insert,            *)
(* evict_expired, response_history).                                        *)
THEOREM HistoriesAreSafe == HistorySpec => []HistoriesSafe
  <1>1. HistoryInv => HistoriesSafe
    <2> SUFFICES ASSUME HistoryInv PROVE HistoriesSafe
      OBVIOUS
    <2>1. EveryEntryOrdered
      <3>1. Orderly(keptOrder) /\ ToSet(keptOrder) = {k \in HistoryKeys : kept[k] # Unwritten}
        BY DEF HistoryInv, StoreSound
      <3>2. Len(keptOrder) = Cardinality(ToSet(keptOrder))
        BY <3>1, OrderlyCounted
      <3> QED BY <3>1, <3>2 DEF HistoryInv, EveryEntryOrdered
    <2>2. Cardinality(Holders) <= 1
      <3>1. \A o, p \in Holders : o = p
        BY DEF HistoryInv
      <3>2. CASE Holders = {}
        BY <3>2, FS_EmptySet
      <3>3. CASE Holders # {}
        <4>1. PICK o \in Holders : TRUE
          BY <3>3
        <4>2. Holders = {o}
          BY <3>1
        <4>3. Cardinality({o}) = 1
          BY FS_Singleton
        <4> QED BY <4>2, <4>3
      <3> QED BY <3>2, <3>3
    <2> QED BY <2>1, <2>2 DEF HistoriesSafe, LegacyClaimedOnce, Holders
  <1> QED BY <1>1, HistoryStart, HistoryStep, PTL DEF HistorySpec

-----------------------------------------------------------------------------
(* ChatToResponses: the calls of a chat stream.                             *)

(* Min finds the least element of a set of naturals.                        *)
LEMMA MinIsLeast ==
    ASSUME NEW S \in SUBSET Nat, S # {}
    PROVE  Min(S) \in S /\ \A j \in S : Min(S) <= j
  <1>1. \E n \in S : \A j \in S : n <= j
    BY LeastOf
  <1> QED BY <1>1 DEF Min

(* Max finds the greatest element of a bounded set of naturals.             *)
LEMMA MaxIsGreatest ==
    ASSUME NEW S \in SUBSET Nat, S # {}, NEW b \in Nat, \A j \in S : j <= b
    PROVE  Max(S) \in S /\ \A j \in S : j <= Max(S)
  <1> DEFINE U == {u \in Nat : \A j \in S : j <= u}
  <1>1. U \in SUBSET Nat /\ U # {}
    OBVIOUS
  <1>2. PICK u \in U : \A w \in U : u <= w
    <2> HIDE DEF U
    <2> QED BY <1>1, LeastOf
  <1>3. u \in S
    <2> SUFFICES ASSUME u \notin S PROVE FALSE
      OBVIOUS
    <2>1. \A j \in S : j <= u - 1 /\ u - 1 \in Nat
      OBVIOUS
    <2>2. u - 1 \in Nat
      BY <2>1
    <2>3. u - 1 \in U
      BY <2>1, <2>2
    <2> QED BY <1>2, <2>3
  <1>4. \E x \in S : \A y \in S : x >= y
    BY <1>3
  <1>5. Max(S) \in S /\ \A j \in S : Max(S) >= j
    BY <1>4 DEF Max
  <1> QED BY <1>5

(* What the translator and the client are made of.                          *)
PieceKinds == {"whole", "open", "rest"}
Fragments == [call : Tools, piece : PieceKinds]
ShownPieces == Fragments \cup {"word", "thought"}
ClientItems == [what : {"reasoning", "text", "call"}, deltas : Seq(ShownPieces), closes : Nat,
          final : Seq(ShownPieces), reopened : BOOLEAN]
Entries == [key : Nat, id : Nat, name : Nat, args : Seq(Fragments), item : Nat,
            desynced : BOOLEAN]
Translators == [reasoning : Nat \cup {NoItem}, reasoned : BOOLEAN, text : Nat \cup {NoItem},
                calls : Seq(Entries), next : Nat, completed : BOOLEAN]

(* What an added event does to the items of the client.                     *)
LEMMA AddedView ==
    ASSUME NEW v \in Seq(ClientItems), NEW what \in {"reasoning", "text", "call"},
           NEW w, w = Added(v, what)
    PROVE  /\ w \in Seq(ClientItems) /\ Len(w) = Len(v) + 1
           /\ \A k \in 1 .. Len(v) : w[k] = v[k]
           /\ w[Len(v) + 1] = Item(what)
           /\ Item(what) \in ClientItems
  <1>1. Item(what) \in ClientItems
    BY DEF Item, ClientItems
  <1> HIDE DEF ClientItems
  <1> QED BY <1>1 DEF Added

(* w is v after a delta for item i.                                         *)
AfterDelta(w, v, i, piece) ==
    /\ w \in Seq(ClientItems) /\ Len(w) = Len(v)
    /\ \A k \in 1 .. Len(v) : k # i + 1 => w[k] = v[k]
    /\ \A k \in 1 .. Len(v) : w[k].what = v[k].what /\ w[k].closes = v[k].closes /\ w[k].final = v[k].final
    /\ w[i + 1].deltas = Append(v[i + 1].deltas, piece)
    /\ v[i + 1].closes = 0 => w[i + 1].reopened = v[i + 1].reopened

(* A delta event changes the one item it is for.                            *)
LEMMA DeltaView ==
    ASSUME NEW v \in Seq(ClientItems), NEW i \in Nat, i + 1 \in 1 .. Len(v), NEW piece \in ShownPieces,
           NEW w, w = Delta(v, i, piece)
    PROVE  AfterDelta(w, v, i, piece)
  <1> DEFINE x == v[i + 1]
             y == [x EXCEPT !.deltas = Append(@, piece), !.reopened = @ \/ x.closes > 0]
  <1>1. x \in ClientItems
    OBVIOUS
  <1>2. y \in ClientItems
    <2>1. Append(x.deltas, piece) \in Seq(ShownPieces)
      BY <1>1 DEF ClientItems
    <2>2. (x.reopened \/ x.closes > 0) \in BOOLEAN
      OBVIOUS
    <2> QED BY <1>1, <2>1, <2>2 DEF ClientItems
  <1>3. /\ y.what = x.what /\ y.closes = x.closes /\ y.final = x.final
        /\ y.deltas = Append(x.deltas, piece) /\ (x.closes = 0 => y.reopened = x.reopened)
    <2>1. y.what = x.what /\ y.closes = x.closes /\ y.final = x.final /\ y.deltas = Append(x.deltas, piece)
      BY <1>1 DEF ClientItems
    <2>2. y.reopened = (x.reopened \/ x.closes > 0) /\ x.reopened \in BOOLEAN
      BY <1>1 DEF ClientItems
    <2>3. x.closes = 0 => ~(x.closes > 0)
      OBVIOUS
    <2> HIDE DEF x, y
    <2> QED BY <2>1, <2>2, <2>3
  <1>4. w = [v EXCEPT ![i + 1] = y]
    BY <1>1 DEF Delta, ClientItems
  <1> HIDE DEF x, y
  <1>5. /\ w \in Seq(ClientItems) /\ Len(w) = Len(v) /\ w[i + 1] = y
        /\ \A k \in 1 .. Len(v) : k # i + 1 => w[k] = v[k]
    BY <1>2, <1>4
  <1> QED BY <1>3, <1>5 DEF x, AfterDelta

(* w is v after the done event of item i.                                   *)
AfterDone(w, v, i, said) ==
    /\ w \in Seq(ClientItems) /\ Len(w) = Len(v)
    /\ \A k \in 1 .. Len(v) : k # i + 1 => w[k] = v[k]
    /\ \A k \in 1 .. Len(v) : w[k].what = v[k].what /\ w[k].deltas = v[k].deltas /\ w[k].reopened = v[k].reopened
    /\ w[i + 1].closes = v[i + 1].closes + 1 /\ w[i + 1].final = said

(* A done event changes the one item it is for.                             *)
LEMMA DoneView ==
    ASSUME NEW v \in Seq(ClientItems), NEW i \in Nat, i + 1 \in 1 .. Len(v), NEW said \in Seq(ShownPieces),
           NEW w, w = Done(v, i, said)
    PROVE  AfterDone(w, v, i, said)
  <1> DEFINE x == v[i + 1]
             y == [x EXCEPT !.closes = @ + 1, !.final = said]
  <1>1. x \in ClientItems
    OBVIOUS
  <1>2. y \in ClientItems
    <2>1. x.closes + 1 \in Nat
      BY <1>1 DEF ClientItems
    <2> DEFINE z == x
    <2>2. z \in ClientItems /\ z.closes + 1 \in Nat
      BY <1>1, <2>1
    <2> HIDE DEF z
    <2>3. [z EXCEPT !.closes = @ + 1, !.final = said] \in ClientItems
      BY <2>2 DEF ClientItems
    <2> QED BY <2>3 DEF z
  <1>3. /\ y.what = x.what /\ y.deltas = x.deltas /\ y.reopened = x.reopened
        /\ y.closes = x.closes + 1 /\ y.final = said
    BY <1>1 DEF ClientItems
  <1>4. w = [v EXCEPT ![i + 1] = y]
    BY <1>1 DEF Done, ClientItems
  <1> HIDE DEF x, y
  <1>5. /\ w \in Seq(ClientItems) /\ Len(w) = Len(v) /\ w[i + 1] = y
        /\ \A k \in 1 .. Len(v) : k # i + 1 => w[k] = v[k]
    BY <1>2, <1>4
  <1> QED BY <1>3, <1>5 DEF x, AfterDone

-----------------------------------------------------------------------------

(* Each item of the client is the reasoning, the text or one of the calls.  *)
Placed(rs, tx, calls, v) ==
    /\ rs # NoItem => rs + 1 \in 1 .. Len(v) /\ v[rs + 1].what = "reasoning"
    /\ tx # NoItem => tx + 1 \in 1 .. Len(v) /\ v[tx + 1].what = "text"
    /\ \A j \in 1 .. Len(calls) : calls[j].item + 1 \in 1 .. Len(v) /\ v[calls[j].item + 1].what = "call"
    /\ \A j, k \in 1 .. Len(calls) : calls[j].item = calls[k].item => j = k
    /\ \A i \in 1 .. Len(v) : \/ v[i].what = "reasoning" /\ i = rs + 1
                              \/ v[i].what = "text" /\ i = tx + 1
                              \/ v[i].what = "call" /\ \E j \in 1 .. Len(calls) : i = calls[j].item + 1

(* Before the completed event only the reasoning may be closed.             *)
StillOpen(rd, v) ==
    \A i \in 1 .. Len(v) : /\ v[i].closes = IF v[i].what = "reasoning" /\ rd THEN 1 ELSE 0
                           /\ v[i].what # "reasoning" => ~v[i].reopened
                           /\ v[i].what = "call" => v[i].final = <<>>

(* After the completed event every item is closed once, the calls with      *)
(* their normalised arguments.                                              *)
AllClosed(calls, v) ==
    /\ \A i \in 1 .. Len(v) : v[i].closes = 1 /\ (v[i].what # "reasoning" => ~v[i].reopened)
    /\ \A j \in 1 .. Len(calls) : v[calls[j].item + 1].final = NormalizeArguments(calls[j].args)

(* The upstream call an entry is for.                                       *)
CallOwner(e) == e.args[1].call

(* An entry and what the client was shown of it belong to one call.         *)
EntryOwned(e, shown, style) ==
    /\ e.args # <<>>
    /\ \A i \in 1 .. Len(e.args) : e.args[i].call = CallOwner(e)
    /\ \A i \in 1 .. Len(shown) : shown[i] \in Fragments /\ shown[i].call = CallOwner(e)
    /\ ~e.desynced => shown = e.args
    /\ e.id \in {0, CallOwner(e)} /\ e.name \in {0, CallOwner(e)}
    /\ style = "indexed" => e.key = CallOwner(e)
    /\ style = "ided" => e.id = CallOwner(e)

(* No two entries have one key, and the first entry has the name of its     *)
(* tool.                                                                    *)
KeysApart(calls) ==
    /\ \A j, k \in 1 .. Len(calls) : calls[j].key = calls[k].key => j = k
    /\ \E b \in Nat : \A j \in 1 .. Len(calls) : calls[j].key <= b
    /\ calls # <<>> => calls[1].name # 0

(* What the upstream may have sent of a call, and what is left of it.       *)
SentShapes(c) ==
    LET w == Fragment(c, "whole")  o == Fragment(c, "open")  r == Fragment(c, "rest")
    IN {<<>>, <<w>>, <<o>>, <<w, o>>, <<o, r>>, <<w, o, r>>}

(* What merge_tool_call_arguments makes of what was sent.                   *)
MergedFrom(c, sent, args) ==
    LET w == Fragment(c, "whole")  o == Fragment(c, "open")  r == Fragment(c, "rest")
    IN \/ sent = <<w>> /\ args = <<w>>
       \/ sent \in {<<o>>, <<w, o>>} /\ args = <<o>>
       \/ sent \in {<<o, r>>, <<w, o, r>>} /\ args = <<o, r>>

(* The entries are of one call each; a call that was sent has one, and an   *)
(* identified call exactly one, with what was sent of it last.              *)
CallsSound(calls, v, sent, style) ==
    /\ \A j \in 1 .. Len(calls) : EntryOwned(calls[j], v[calls[j].item + 1].deltas, style)
    /\ KeysApart(calls)
    /\ \A c \in Tools : sent[c] # <<>> <=> \E j \in 1 .. Len(calls) : CallOwner(calls[j]) = c
    /\ style \in {"indexed", "ided"} =>
         /\ \A j, k \in 1 .. Len(calls) : CallOwner(calls[j]) = CallOwner(calls[k]) => j = k
         /\ \A j \in 1 .. Len(calls) : MergedFrom(CallOwner(calls[j]), sent[CallOwner(calls[j])], calls[j].args)

(* The upstream.                                                            *)
ChatTyped ==
    /\ callSent \in [Tools -> Seq(Fragments)] /\ callStyle \in Styles
    /\ \A c \in Tools : callSent[c] \in SentShapes(c)

(* The items of the client are where the translator has them.               *)
Translates(t, v) ==
    /\ t \in Translators /\ v \in Seq(ClientItems) /\ Len(v) = t.next
    /\ t.reasoned => t.reasoning # NoItem
    /\ Placed(t.reasoning, t.text, t.calls, v)

(* The inductive invariant of the translation.                              *)
ChatInv ==
    /\ ChatTyped /\ Translates(translator, view)
    /\ IF translator.completed THEN AllClosed(translator.calls, view) ELSE StillOpen(translator.reasoned, view)
    /\ CallsSound(translator.calls, view, callSent, callStyle)

(* The calls are sound while what the client was shown of them is the same. *)
LEMMA SameCalls ==
    ASSUME NEW calls, NEW v, NEW w, NEW sent, NEW style, CallsSound(calls, v, sent, style),
           \A j \in 1 .. Len(calls) : w[calls[j].item + 1].deltas = v[calls[j].item + 1].deltas
    PROVE  CallsSound(calls, w, sent, style)
BY DEF CallsSound

(* The places of the items depend on what they are.                         *)
LEMMA SamePlaces ==
    ASSUME NEW rs, NEW tx, NEW calls, NEW v, NEW w, Placed(rs, tx, calls, v),
           Len(w) = Len(v), \A k \in 1 .. Len(v) : w[k].what = v[k].what
    PROVE  Placed(rs, tx, calls, w)
BY DEF Placed

(* Closing the reasoning.                                                   *)
ReasoningClosed(r, t, v) ==
    /\ Translates(r[1], r[2]) /\ StillOpen(r[1].reasoned, r[2]) /\ r[1].completed = FALSE
    /\ r[1].calls = t.calls /\ r[1].text = t.text /\ r[1].next = t.next
    /\ r[1].reasoning # NoItem => r[1].reasoned
    /\ \A i \in 1 .. Len(v) : r[2][i].what = v[i].what /\ r[2][i].deltas = v[i].deltas

(* emit_reasoning_done closes the reasoning once and nothing else.          *)
LEMMA ReasoningCloses ==
    ASSUME NEW t, NEW v, Translates(t, v), StillOpen(t.reasoned, v), ~t.completed,
           NEW r, r = CloseReasoning(t, v)
    PROVE  ReasoningClosed(r, t, v)
  <1>1. t \in Translators /\ v \in Seq(ClientItems)
    BY DEF Translates
  <1>2. CASE t.reasoning = NoItem \/ t.reasoned
    <2>1. r = <<t, v>>
      BY <1>2 DEF CloseReasoning
    <2>2. r[1] = t /\ r[2] = v
      BY <2>1
    <2>3. t.completed = FALSE
      BY <1>1 DEF Translators
    <2> QED BY <1>2, <2>2, <2>3 DEF ReasoningClosed
  <1>3. CASE ~(t.reasoning = NoItem \/ t.reasoned)
    <2> DEFINE n == t.reasoning
               u == [t EXCEPT !.reasoned = TRUE]
               w == Done(v, n, v[n + 1].deltas)
    <2>1. r[1] = u /\ r[2] = w
      BY <1>3 DEF CloseReasoning
    <2>2. n \in Nat /\ n + 1 \in 1 .. Len(v) /\ v[n + 1].what = "reasoning"
      BY <1>1, <1>3 DEF Translates, Placed, Translators
    <2>4. /\ u \in Translators /\ u.reasoned = TRUE /\ u.calls = t.calls /\ u.text = t.text
          /\ u.next = t.next /\ u.reasoning = n /\ u.completed = FALSE
      BY <1>1 DEF Translators
    <2>8. Placed(n, t.text, t.calls, v) /\ n # NoItem /\ Len(v) = t.next
      BY <1>3 DEF Translates
    <2> HIDE DEF u, w, n
    <2>3. v[n + 1].deltas \in Seq(ShownPieces)
      <3>1. v[n + 1] \in ClientItems
        BY <1>1, <2>2
      <3> QED BY <3>1 DEF ClientItems
    <2>5. /\ w \in Seq(ClientItems) /\ Len(w) = Len(v)
          /\ \A k \in 1 .. Len(v) : k # n + 1 => w[k] = v[k]
          /\ \A k \in 1 .. Len(v) : /\ w[k].what = v[k].what /\ w[k].deltas = v[k].deltas
                                    /\ w[k].reopened = v[k].reopened
          /\ w[n + 1].closes = v[n + 1].closes + 1
      <3>1. AfterDone(w, v, n, v[n + 1].deltas)
        BY <1>1, <2>2, <2>3, DoneView DEF w
      <3> QED BY <3>1, Zenon DEF AfterDone
    <2>6. Translates(u, w)
      <3>1. Placed(n, t.text, t.calls, w)
        BY <2>5, <2>8, SamePlaces
      <3> QED BY <2>4, <2>5, <2>8, <3>1 DEF Translates
    <2>7. StillOpen(TRUE, w)
      <3>1. ~t.reasoned
        BY <1>3
      <3>2. v[n + 1].closes = 0 /\ w[n + 1].closes = 1
        BY <2>2, <2>5, <3>1 DEF StillOpen
      <3>3. \A k \in 1 .. Len(v) : k # n + 1 => v[k].what # "reasoning"
        BY <2>8 DEF Placed
      <3>4. \A k \in 1 .. Len(v) : w[k].closes = IF w[k].what = "reasoning" THEN 1 ELSE 0
        BY <2>2, <2>5, <3>2, <3>3 DEF StillOpen
      <3>5. \A k \in 1 .. Len(v) : w[k].what = "call" => w[k].final = <<>>
        BY <2>2, <2>5 DEF StillOpen
      <3>6. \A k \in 1 .. Len(v) : w[k].what # "reasoning" => ~w[k].reopened
        BY <2>5 DEF StillOpen
      <3> QED BY <2>5, <3>4, <3>5, <3>6 DEF StillOpen
    <2>9. Translates(r[1], r[2]) /\ StillOpen(r[1].reasoned, r[2])
      BY <2>1, <2>4, <2>6, <2>7, Zenon
    <2> QED BY <2>1, <2>4, <2>5, <2>9 DEF n, ReasoningClosed
  <1> QED BY <1>2, <1>3

(* The item with output index n is new in x, or was there.                  *)
ItemReady(n, what, new, x, v) ==
    /\ x \in Seq(ClientItems) /\ Len(x) = Len(v) + (IF new THEN 1 ELSE 0)
    /\ \A k \in 1 .. Len(v) : x[k] = v[k] /\ k \in 1 .. Len(x)
    /\ n + 1 \in 1 .. Len(x) /\ x[n + 1].what = what
    /\ \A k \in 1 .. Len(x) : k # n + 1 => k \in 1 .. Len(v)
    /\ new => x[n + 1] = Item(what) /\ n = Len(v) /\ n + 1 \notin 1 .. Len(v)
    /\ ~new => x = v

(* An added event makes its item ready for deltas.                          *)
LEMMA NewItemReady ==
    ASSUME NEW v \in Seq(ClientItems), NEW what \in {"reasoning", "text", "call"},
           NEW x, x = Added(v, what)
    PROVE  ItemReady(Len(v), what, TRUE, x, v)
  <1>1. /\ x \in Seq(ClientItems) /\ Len(x) = Len(v) + 1
        /\ \A k \in 1 .. Len(v) : x[k] = v[k]
        /\ x[Len(v) + 1] = Item(what)
    BY AddedView, Zenon
  <1>3. Len(v) \in Nat
    OBVIOUS
  <1>2. Item(what).what = what
    BY DEF Item
  <1> QED BY <1>1, <1>2, <1>3 DEF ItemReady

(* The text or the reasoning grows.                                         *)
UtteranceAt(what, new, n, rs, tx) ==
    (IF what = "text" THEN tx ELSE rs) = (IF new THEN NoItem ELSE n)

(* The indices after the reasoning or the text was found at n.              *)
Moved(what, n, rs, tx, rs2, tx2) ==
    /\ rs2 = (IF what = "reasoning" THEN n ELSE rs)
    /\ tx2 = (IF what = "text" THEN n ELSE tx)

(* The other items keep their places.                                       *)
LEMMA SpokenPlaces ==
    ASSUME NEW v \in Seq(ClientItems), NEW n \in Nat, NEW what \in {"reasoning", "text"},
           NEW new \in BOOLEAN, NEW x, ItemReady(n, what, new, x, v),
           NEW rs, NEW tx, NEW calls, Placed(rs, tx, calls, v),
           UtteranceAt(what, new, n, rs, tx), NEW rs2, NEW tx2, Moved(what, n, rs, tx, rs2, tx2)
    PROVE  Placed(rs2, tx2, calls, x)
  <1>7. /\ (IF what = "text" THEN tx ELSE rs) = (IF new THEN NoItem ELSE n)
        /\ rs2 = (IF what = "reasoning" THEN n ELSE rs) /\ tx2 = (IF what = "text" THEN n ELSE tx)
    BY DEF UtteranceAt, Moved
  <1>1. rs2 # NoItem => rs2 + 1 \in 1 .. Len(x) /\ x[rs2 + 1].what = "reasoning"
    BY <1>7 DEF Placed, ItemReady
  <1>2. tx2 # NoItem => tx2 + 1 \in 1 .. Len(x) /\ x[tx2 + 1].what = "text"
    BY <1>7 DEF Placed, ItemReady
  <1>3. \A j \in 1 .. Len(calls) : calls[j].item + 1 \in 1 .. Len(x) /\ x[calls[j].item + 1].what = "call"
    BY <1>7 DEF Placed, ItemReady
  <1>4. ASSUME NEW i \in 1 .. Len(x)
        PROVE  \/ x[i].what = "reasoning" /\ i = rs2 + 1
               \/ x[i].what = "text" /\ i = tx2 + 1
               \/ x[i].what = "call" /\ \E j \in 1 .. Len(calls) : i = calls[j].item + 1
    <2>1. CASE i = n + 1
      BY <1>7, <2>1 DEF ItemReady
    <2>2. CASE i # n + 1
      <3>1. i \in 1 .. Len(v) /\ x[i] = v[i] /\ i # 0
        BY <2>2 DEF ItemReady
      <3>2. \/ x[i].what = "reasoning" /\ i = rs + 1
            \/ x[i].what = "text" /\ i = tx + 1
            \/ x[i].what = "call" /\ \E j \in 1 .. Len(calls) : i = calls[j].item + 1
        BY <3>1 DEF Placed
      <3>3. (what = "text" => i # tx + 1) /\ (what = "reasoning" => i # rs + 1)
        BY <1>7, <2>2, <3>1 DEF NoItem
      <3> QED BY <1>7, <3>2, <3>3
    <2> QED BY <2>1, <2>2
  <1>5. \A j, k \in 1 .. Len(calls) : calls[j].item = calls[k].item => j = k
    BY DEF Placed
  <1> QED BY <1>1, <1>2, <1>3, <1>4, <1>5 DEF Placed

(* A delta closes nothing, and reopens only a reasoning that was closed.    *)
DeltaKeeps(w, x, n, piece, rd) ==
    /\ StillOpen(rd, w) /\ w \in Seq(ClientItems) /\ Len(w) = Len(x)
    /\ \A k \in 1 .. Len(x) : w[k].what = x[k].what
    /\ \A k \in 1 .. Len(x) : k # n + 1 => w[k] = x[k]
    /\ w[n + 1].deltas = Append(x[n + 1].deltas, piece)

(* A delta for a ready item leaves the stream open.                         *)
LEMMA DeltaOpen ==
    ASSUME NEW v \in Seq(ClientItems), NEW n \in Nat, NEW what \in {"reasoning", "text", "call"},
           NEW new \in BOOLEAN, NEW x, ItemReady(n, what, new, x, v),
           NEW rd, StillOpen(rd, v), new /\ what = "reasoning" => ~rd,
           NEW piece \in ShownPieces, NEW w, w = Delta(x, n, piece)
    PROVE  DeltaKeeps(w, x, n, piece, rd)
  <1>1. x \in Seq(ClientItems) /\ n + 1 \in 1 .. Len(x)
    BY DEF ItemReady
  <1>2. StillOpen(rd, x)
    <2>1. CASE new
      <3>1. /\ Item(what).what = what /\ Item(what).closes = 0 /\ ~Item(what).reopened
            /\ Item(what).final = <<>>
        BY DEF Item
      <3>2. x[n + 1] = Item(what) /\ \A k \in 1 .. Len(x) : k # n + 1 => k \in 1 .. Len(v) /\ x[k] = v[k]
        BY <2>1 DEF ItemReady
      <3> QED BY <2>1, <3>1, <3>2 DEF StillOpen
    <2>2. CASE ~new
      BY <2>2 DEF ItemReady
    <2> QED BY <2>1, <2>2
  <1>3. /\ w \in Seq(ClientItems) /\ Len(w) = Len(x)
        /\ \A k \in 1 .. Len(x) : k # n + 1 => w[k] = x[k]
        /\ \A k \in 1 .. Len(x) : w[k].what = x[k].what /\ w[k].closes = x[k].closes /\ w[k].final = x[k].final
        /\ w[n + 1].deltas = Append(x[n + 1].deltas, piece)
        /\ x[n + 1].closes = 0 => w[n + 1].reopened = x[n + 1].reopened
    <2>1. AfterDelta(w, x, n, piece)
      BY <1>1, DeltaView
    <2> QED BY <2>1, Zenon DEF AfterDelta
  <1>4. \A k \in 1 .. Len(x) : w[k].what # "reasoning" => ~w[k].reopened
    <2>1. x[n + 1].what # "reasoning" => x[n + 1].closes = 0 /\ ~x[n + 1].reopened
      BY <1>1, <1>2 DEF StillOpen
    <2> QED BY <1>1, <1>2, <1>3, <2>1 DEF StillOpen
  <1>5. StillOpen(rd, w)
    BY <1>2, <1>3, <1>4 DEF StillOpen
  <1> QED BY <1>3, <1>5 DEF DeltaKeeps

(* The entries of the translator.                                           *)
LEMMA EntryAt ==
    ASSUME NEW calls \in Seq(Entries), NEW j \in 1 .. Len(calls)
    PROVE  /\ calls[j] \in Entries /\ calls[j].key \in Nat /\ calls[j].item \in Nat
           /\ calls[j].args \in Seq(Fragments)
  <1>1. calls[j] \in Entries
    OBVIOUS
  <1> QED BY <1>1 DEF Entries

(* NextKey is a key that no entry has.                                      *)
LEMMA NextKeyFresh ==
    ASSUME NEW t, NEW calls \in Seq(Entries), calls = t.calls, KeysApart(calls)
    PROVE  NextKey(t) \in Nat /\ \A j \in 1 .. Len(calls) : calls[j].key # NextKey(t)
  <1>1. CASE calls = <<>>
    BY <1>1 DEF NextKey
  <1>2. CASE calls # <<>>
    <2> DEFINE K == {calls[i].key : i \in DOMAIN calls}
    <2>1. NextKey(t) = Max(K) + 1
      BY <1>2 DEF NextKey
    <2>2. \A i \in 1 .. Len(calls) : calls[i].key \in Nat
      BY EntryAt
    <2>3. PICK b \in Nat : \A j \in 1 .. Len(calls) : calls[j].key <= b
      BY DEF KeysApart
    <2>4. K \in SUBSET Nat /\ K # {} /\ (\A k \in K : k <= b) /\ \A j \in 1 .. Len(calls) : calls[j].key \in K
      <3>1. DOMAIN calls = 1 .. Len(calls) /\ 1 \in DOMAIN calls
        BY <1>2
      <3> QED BY <2>2, <2>3, <3>1
    <2> HIDE DEF K
    <2>5. Max(K) \in K /\ \A k \in K : k <= Max(K)
      BY <2>4, MaxIsGreatest
    <2>6. Max(K) \in Nat
      BY <2>4, <2>5
    <2>7. ASSUME NEW j \in 1 .. Len(calls) PROVE calls[j].key # Max(K) + 1
      BY <2>2, <2>4, <2>5, <2>6
    <2> QED BY <2>1, <2>6, <2>7
  <1> QED BY <1>1, <1>2

(* The entry that emit_chat_tool_call_delta finds for a fragment of call c  *)
(* is c's, and for an identified call there is one unless it is the first.  *)
FragmentNames(style, sent, c, index, id, name) ==
    /\ index = IF style = "indexed" THEN c ELSE 0
    /\ id = IF style = "ided" \/ (sent[c] = <<>> /\ style # "anon") THEN c ELSE 0
    /\ name = IF sent[c] = <<>> THEN c ELSE 0

(* A key for a new entry.                                                   *)
NewKey(calls, sent, style, c, key) ==
    /\ \A j \in 1 .. Len(calls) : calls[j].key # key
    /\ sent[c] # <<>> => style \notin {"indexed", "ided"} /\ calls # <<>>
    /\ style = "indexed" => key = c

(* The key is new, or that of an entry of the call.                         *)
KeyFound(calls, sent, style, c, key) ==
    /\ key \in Nat
    /\ \/ NewKey(calls, sent, style, c, key)
       \/ \E j \in 1 .. Len(calls) : calls[j].key = key /\ CallOwner(calls[j]) = c

(* KeyOf never finds the entry of another call.                             *)
LEMMA KeyChoice ==
    ASSUME NEW t \in Translators, NEW calls, calls = t.calls, NEW v, NEW sent, NEW style,
           CallsSound(calls, v, sent, style), NEW c \in Tools,
           NEW index, NEW id, NEW name, FragmentNames(style, sent, c, index, id, name),
           NEW key, key = KeyOf(t, index, id, name)
    PROVE  KeyFound(calls, sent, style, c, key)
  <1>1. calls \in Seq(Entries) /\ c \in Nat /\ c # 0
    BY ToolsAssumption DEF Translators
  <1>12. /\ index = IF style = "indexed" THEN c ELSE 0
         /\ id = IF style = "ided" \/ (sent[c] = <<>> /\ style # "anon") THEN c ELSE 0
         /\ name = IF sent[c] = <<>> THEN c ELSE 0
    BY DEF FragmentNames
  <1>2. /\ \A j \in 1 .. Len(calls) : EntryOwned(calls[j], v[calls[j].item + 1].deltas, style)
        /\ KeysApart(calls)
        /\ sent[c] # <<>> <=> \E j \in 1 .. Len(calls) : CallOwner(calls[j]) = c
    BY DEF CallsSound
  <1>3. \A j \in 1 .. Len(calls) : /\ calls[j].id \in {0, CallOwner(calls[j])}
                                   /\ calls[j].name \in {0, CallOwner(calls[j])}
                                   /\ style = "indexed" => calls[j].key = CallOwner(calls[j])
                                   /\ style = "ided" => calls[j].id = CallOwner(calls[j])
                                   /\ calls[j].key \in Nat
    <2>1. \A j \in 1 .. Len(calls) : calls[j].key \in Nat
      BY <1>1, EntryAt
    <2> QED BY <1>2, <2>1 DEF EntryOwned
  <1>4. NextKey(t) \in Nat /\ \A j \in 1 .. Len(calls) : calls[j].key # NextKey(t)
    BY <1>1, <1>2, NextKeyFresh
  <1> DEFINE known == {i \in DOMAIN calls : calls[i].id = id /\ id # 0}
             conflict == name # 0 /\ calls[1].name # 0 /\ name # calls[1].name
  <1>5. key = IF index # 0 THEN index
              ELSE IF known # {} THEN calls[Min(known)].key
              ELSE IF id # 0 \/ Len(calls) # 1 THEN NextKey(t)
              ELSE IF conflict THEN NextKey(t)
              ELSE calls[1].key
    BY DEF KeyOf
  <1>6. DOMAIN calls = 1 .. Len(calls) /\ Len(calls) \in Nat
    BY <1>1
  <1>7. \A i \in known : i \in 1 .. Len(calls) /\ CallOwner(calls[i]) = c
    BY <1>1, <1>3, <1>6, <1>12
  <1>8. CASE index # 0
    <2>1. style = "indexed" /\ key = c
      BY <1>5, <1>8, <1>12
    <2> QED BY <1>1, <1>2, <1>3, <2>1 DEF KeyFound, NewKey
  <1>9. CASE index = 0 /\ known # {}
    <2>1. known \in SUBSET Nat
      BY <1>6
    <2>2. Min(known) \in known
      <3> HIDE DEF known
      <3> QED BY <1>9, <2>1, MinIsLeast
    <2>3. key = calls[Min(known)].key
      BY <1>5, <1>9
    <2> HIDE DEF known
    <2> QED BY <1>3, <1>7, <2>2, <2>3 DEF KeyFound
  <1>10. CASE index = 0 /\ known = {} /\ (id # 0 \/ Len(calls) # 1)
    <2>1. key = NextKey(t) /\ style # "indexed"
      BY <1>1, <1>5, <1>10, <1>12
    <2>2. ASSUME sent[c] # <<>> PROVE style # "ided" /\ calls # <<>>
      <3>1. PICK j \in 1 .. Len(calls) : CallOwner(calls[j]) = c
        BY <1>2, <2>2
      <3>2. style = "ided" => j \in known
        BY <1>1, <1>3, <1>6, <1>12, <3>1
      <3>3. calls # <<>>
        BY <3>1
      <3> QED BY <1>10, <3>2, <3>3
    <2> HIDE DEF known
    <2> QED BY <1>4, <2>1, <2>2 DEF KeyFound, NewKey
  <1>11. CASE index = 0 /\ known = {} /\ id = 0 /\ Len(calls) = 1
    <2>1. style \notin {"indexed", "ided"}
      BY <1>1, <1>11, <1>12
    <2>2. CASE sent[c] # <<>>
      <3>1. name = 0 /\ key = calls[1].key
        BY <1>5, <1>11, <1>12, <2>2
      <3>2. CallOwner(calls[1]) = c
        BY <1>2, <1>11, <2>2
      <3> QED BY <1>3, <1>11, <3>1, <3>2 DEF KeyFound
    <2>3. CASE sent[c] = <<>>
      <3>5. name = c
        BY <1>12, <2>3
      <3>6. CallOwner(calls[1]) # c
        BY <1>2, <1>11, <2>3
      <3>1. name = c /\ CallOwner(calls[1]) # c
        BY <3>5, <3>6
      <3>2. calls[1].name # 0
        BY <1>2, <1>11 DEF KeysApart
      <3>3. conflict
        BY <1>1, <1>3, <1>11, <3>1, <3>2
      <3>4. key = NextKey(t)
        BY <1>5, <1>11, <3>3
      <3> QED BY <1>4, <2>1, <2>3, <3>4 DEF KeyFound, NewKey
    <2> QED BY <2>2, <2>3
  <1> QED BY <1>8, <1>9, <1>10, <1>11

(* A fragment merged into an entry of its call.                             *)
LEMMA MergeOwned ==
    ASSUME NEW e \in Entries, NEW shown \in Seq(ShownPieces), NEW style, EntryOwned(e, shown, style),
           NEW f \in Fragments, f.call = CallOwner(e), NEW m, m = MergeArguments(e, f)
    PROVE  /\ m \in Entries /\ m.key = e.key /\ m.id = e.id /\ m.name = e.name /\ m.item = e.item
           /\ CallOwner(m) = CallOwner(e)
           /\ m.args = IF Complete(e.args) /\ f.piece \in {"open", "whole"} THEN <<f>> ELSE Append(e.args, f)
           /\ EntryOwned(m, IF m.desynced THEN shown ELSE Append(shown, f), style)
  <1>1. /\ e.args \in Seq(Fragments) /\ e.args # <<>> /\ e.desynced \in BOOLEAN
        /\ <<f>> \in Seq(Fragments) /\ Append(e.args, f) \in Seq(Fragments)
    BY DEF Entries, EntryOwned
  <1>2. CASE Complete(e.args) /\ f.piece \in {"open", "whole"}
    <2>1. m = [e EXCEPT !.args = <<f>>, !.desynced = TRUE]
      BY <1>2 DEF MergeArguments
    <2>2. /\ m \in Entries /\ m.key = e.key /\ m.id = e.id /\ m.name = e.name /\ m.item = e.item
          /\ m.args = <<f>> /\ m.desynced = TRUE
      BY <1>1, <2>1 DEF Entries
    <2>3. CallOwner(m) = CallOwner(e)
      BY <2>2 DEF CallOwner
    <2>4. EntryOwned(m, shown, style)
      <3>1. m.args # <<>> /\ \A i \in 1 .. Len(m.args) : m.args[i].call = CallOwner(m)
        BY <2>2, <2>3
      <3> QED BY <2>2, <2>3, <3>1 DEF EntryOwned
    <2> QED BY <1>2, <2>2, <2>3, <2>4
  <1>3. CASE ~(Complete(e.args) /\ f.piece \in {"open", "whole"})
    <2> DEFINE a == Append(e.args, f)
    <2>1. m = [e EXCEPT !.args = a]
      BY <1>3 DEF MergeArguments
    <2>2. /\ m \in Entries /\ m.key = e.key /\ m.id = e.id /\ m.name = e.name /\ m.item = e.item
          /\ m.args = a /\ m.desynced = e.desynced
      BY <1>1, <2>1 DEF Entries
    <2>3. /\ a # <<>> /\ a[1] = e.args[1] /\ Len(a) = Len(e.args) + 1 /\ Len(e.args) \in Nat
          /\ (\A i \in 1 .. Len(e.args) : a[i] = e.args[i]) /\ a[Len(e.args) + 1] = f
      BY <1>1
    <2> HIDE DEF a
    <2>4. CallOwner(m) = CallOwner(e)
      BY <2>2, <2>3 DEF CallOwner
    <2>5. \A i \in 1 .. Len(a) : a[i].call = CallOwner(m)
      <3>1. \A i \in 1 .. Len(a) : i \in 1 .. Len(e.args) \/ i = Len(e.args) + 1
        BY <2>3
      <3> QED BY <2>3, <2>4, <3>1 DEF EntryOwned
    <2>6. m.desynced => EntryOwned(m, shown, style)
      BY <2>2, <2>3, <2>4, <2>5 DEF EntryOwned
    <2>7. ASSUME ~m.desynced PROVE EntryOwned(m, Append(shown, f), style)
      <3>1. shown = e.args
        BY <2>2, <2>7 DEF EntryOwned
      <3>2. Append(shown, f) = a
        BY <3>1 DEF a
      <3>3. \A i \in 1 .. Len(a) : a[i] \in Fragments
        BY <1>1 DEF a
      <3>4. EntryOwned(m, a, style)
        BY <2>2, <2>3, <2>4, <2>5, <3>3 DEF EntryOwned
      <3> QED BY <3>2, <3>4
    <2>8. EntryOwned(m, IF m.desynced THEN shown ELSE Append(shown, f), style)
      BY <2>6, <2>7
    <2> QED BY <1>3, <2>2, <2>4, <2>8 DEF a
  <1> QED BY <1>2, <1>3

(* How the arguments of a call go on.                                       *)
LEMMA PiecesAfter ==
    ASSUME NEW c, NEW w, w = Fragment(c, "whole"), NEW o, o = Fragment(c, "open"),
           NEW r, r = Fragment(c, "rest")
    PROVE  /\ NextPieces(<<>>) = {"whole", "open"} /\ NextPieces(<<w>>) = {"open"}
           /\ NextPieces(<<o>>) = {"rest"} /\ NextPieces(<<w, o>>) = {"rest"}
           /\ NextPieces(<<o, r>>) = {} /\ NextPieces(<<w, o, r>>) = {}
           /\ Complete(<<w>>) /\ ~Complete(<<>>) /\ ~Complete(<<o>>)
  <1>1. w.piece = "whole" /\ o.piece = "open" /\ r.piece = "rest"
    BY DEF Fragment
  <1>2. /\ Last(<<w>>) = w /\ Last(<<o>>) = o /\ Last(<<w, o>>) = o
        /\ Last(<<o, r>>) = r /\ Last(<<w, o, r>>) = r
    BY DEF Last
  <1>3. NextPieces(<<>>) = {"whole", "open"}
    BY DEF NextPieces
  <1>4. NextPieces(<<w>>) = {"open"}
    BY <1>1, <1>2 DEF NextPieces
  <1>5. NextPieces(<<o>>) = {"rest"}
    BY <1>1, <1>2 DEF NextPieces
  <1>6. NextPieces(<<w, o>>) = {"rest"}
    BY <1>1, <1>2 DEF NextPieces
  <1>7. NextPieces(<<o, r>>) = {}
    BY <1>1, <1>2 DEF NextPieces
  <1>8. NextPieces(<<w, o, r>>) = {}
    BY <1>1, <1>2 DEF NextPieces
  <1>9. Complete(<<w>>)
    <2>1. [i \in DOMAIN <<w>> |-> <<w>>[i].piece] = <<"whole">>
      BY <1>1
    <2> QED BY <2>1 DEF Complete
  <1>10. ~Complete(<<>>)
    <2>1. [i \in DOMAIN <<>> |-> <<>>[i].piece] = <<>>
      OBVIOUS
    <2> QED BY <2>1 DEF Complete
  <1>11. ~Complete(<<o>>)
    <2>1. [i \in DOMAIN <<o>> |-> <<o>>[i].piece] = <<"open">>
      BY <1>1
    <2> QED BY <2>1 DEF Complete
  <1> QED BY <1>3, <1>4, <1>5, <1>6, <1>7, <1>8, <1>9, <1>10, <1>11

(* Append to the short sequences of fragments.                              *)
LEMMA Appends ==
    ASSUME NEW x, NEW y, NEW z
    PROVE  Append(<<>>, x) = <<x>> /\ Append(<<x>>, y) = <<x, y>> /\ Append(<<x, y>>, z) = <<x, y, z>>
  <1>1. Append(<<>>, x) = <<x>>
    OBVIOUS
  <1> DEFINE S == {x, y, z}
  <1>2. Append(<<x>>, y) = <<x, y>>
    <2> DEFINE p == Append(<<x>>, y)
               q == <<x, y>>
    <2>1. <<x>> \in Seq(S) /\ Len(<<x>>) = 1 /\ <<x>>[1] = x
      OBVIOUS
    <2>2. p \in Seq(S) /\ Len(p) = 2 /\ p[1] = x /\ p[2] = y
      BY <2>1
    <2>3. q \in Seq(S) /\ Len(q) = 2 /\ q[1] = x /\ q[2] = y
      OBVIOUS
    <2> HIDE DEF p, q, S
    <2>4. p = q
      BY <2>2, <2>3
    <2> QED BY <2>4 DEF p, q
  <1>3. Append(<<x, y>>, z) = <<x, y, z>>
    <2> DEFINE p == Append(<<x, y>>, z)
               q == <<x, y, z>>
    <2>1. <<x, y>> \in Seq(S) /\ Len(<<x, y>>) = 2 /\ <<x, y>>[1] = x /\ <<x, y>>[2] = y
      OBVIOUS
    <2>2. p \in Seq(S) /\ Len(p) = 3 /\ p[1] = x /\ p[2] = y /\ p[3] = z
      BY <2>1
    <2>3. q \in Seq(S) /\ Len(q) = 3 /\ q[1] = x /\ q[2] = y /\ q[3] = z
      OBVIOUS
    <2> HIDE DEF p, q, S
    <2>4. p = q
      BY <2>2, <2>3
    <2> QED BY <2>4 DEF p, q
  <1> QED BY <1>1, <1>2, <1>3

(* What was sent keeps its shape.                                           *)
LEMMA ShapeGrows ==
    ASSUME NEW c \in Tools, NEW sent \in SentShapes(c), NEW piece \in NextPieces(sent)
    PROVE  /\ piece \in PieceKinds /\ Fragment(c, piece) \in Fragments
           /\ Append(sent, Fragment(c, piece)) \in SentShapes(c)
  <1>1. PICK w : w = Fragment(c, "whole")
    OBVIOUS
  <1>2. PICK o : o = Fragment(c, "open")
    OBVIOUS
  <1>3. PICK r : r = Fragment(c, "rest")
    OBVIOUS
  <1>4. sent \in {<<>>, <<w>>, <<o>>, <<w, o>>, <<o, r>>, <<w, o, r>>}
    BY <1>1, <1>2, <1>3 DEF SentShapes
  <1>8. /\ NextPieces(<<>>) = {"whole", "open"} /\ NextPieces(<<w>>) = {"open"}
        /\ NextPieces(<<o>>) = {"rest"} /\ NextPieces(<<w, o>>) = {"rest"}
        /\ NextPieces(<<o, r>>) = {} /\ NextPieces(<<w, o, r>>) = {}
    BY <1>1, <1>2, <1>3, PiecesAfter
  <1>5. \/ sent = <<>> /\ piece = "whole"
        \/ sent = <<>> /\ piece = "open"
        \/ sent = <<w>> /\ piece = "open"
        \/ sent = <<o>> /\ piece = "rest"
        \/ sent = <<w, o>> /\ piece = "rest"
    BY <1>4, <1>8
  <1>6. piece \in PieceKinds
    BY <1>5 DEF PieceKinds
  <1>7. Append(sent, Fragment(c, piece)) \in {<<>>, <<w>>, <<o>>, <<w, o>>, <<o, r>>, <<w, o, r>>}
    BY <1>1, <1>2, <1>3, <1>5, Appends, Zenon
  <1> QED BY <1>1, <1>2, <1>3, <1>6, <1>7 DEF SentShapes, Fragment, Fragments

(* What is left of a call after a placeholder was replaced.                 *)
LEMMA MergeWhole ==
    ASSUME NEW c, NEW sent, NEW args, MergedFrom(c, sent, args), NEW piece \in NextPieces(sent),
           NEW f, f = Fragment(c, piece),
           NEW a, a = (IF Complete(args) /\ f.piece \in {"open", "whole"} THEN <<f>> ELSE Append(args, f))
    PROVE  MergedFrom(c, Append(sent, f), a)
  <1>1. PICK w : w = Fragment(c, "whole")
    OBVIOUS
  <1>2. PICK o : o = Fragment(c, "open")
    OBVIOUS
  <1>3. PICK r : r = Fragment(c, "rest")
    OBVIOUS
  <1>4. /\ NextPieces(<<w>>) = {"open"} /\ NextPieces(<<o>>) = {"rest"} /\ NextPieces(<<w, o>>) = {"rest"}
        /\ NextPieces(<<o, r>>) = {} /\ NextPieces(<<w, o, r>>) = {}
        /\ Complete(<<w>>) /\ ~Complete(<<o>>)
    BY <1>1, <1>2, <1>3, PiecesAfter, SMTT(30)
  <1>5. \/ sent = <<w>> /\ args = <<w>> /\ piece = "open"
        \/ sent = <<o>> /\ args = <<o>> /\ piece = "rest"
        \/ sent = <<w, o>> /\ args = <<o>> /\ piece = "rest"
    BY <1>1, <1>2, <1>3, <1>4 DEF MergedFrom
  <1>6. f.piece = piece
    BY DEF Fragment
  <1>7. CASE sent = <<w>> /\ args = <<w>> /\ piece = "open"
    <2>1. Append(sent, f) = <<w, o>> /\ a = <<o>>
      BY <1>1, <1>2, <1>3, <1>4, <1>6, <1>7, Appends
    <2> QED BY <1>1, <1>2, <1>3, <2>1 DEF MergedFrom
  <1>8. CASE sent = <<o>> /\ args = <<o>> /\ piece = "rest"
    <2>1. Append(sent, f) = <<o, r>> /\ a = <<o, r>>
      BY <1>1, <1>2, <1>3, <1>4, <1>6, <1>8, Appends
    <2> QED BY <1>1, <1>2, <1>3, <2>1 DEF MergedFrom
  <1>9. CASE sent = <<w, o>> /\ args = <<o>> /\ piece = "rest"
    <2>1. Append(sent, f) = <<w, o, r>> /\ a = <<o, r>>
      BY <1>1, <1>2, <1>3, <1>4, <1>6, <1>9, Appends
    <2> QED BY <1>1, <1>2, <1>3, <2>1 DEF MergedFrom
  <1> QED BY <1>5, <1>7, <1>8, <1>9

(* An entry from its fields.                                                *)
LEMMA EntryTyped ==
    ASSUME NEW key \in Nat, NEW id \in Nat, NEW name \in Nat, NEW args \in Seq(Fragments),
           NEW item \in Nat, NEW desynced \in BOOLEAN
    PROVE  [key |-> key, id |-> id, name |-> name, args |-> args, item |-> item, desynced |-> desynced] \in Entries
BY DEF Entries

(* A fragment that opens an entry.                                          *)
EntryOpened(m, c, key, name, item, f, style) ==
    /\ m \in Entries /\ m.item = item /\ m.name = name /\ m.key = key /\ ~m.desynced
    /\ m.args = <<f>> /\ CallOwner(m) = c /\ EntryOwned(m, <<f>>, style)

(* A new entry belongs to the call of its fragment.                         *)
LEMMA NewEntryOwned ==
    ASSUME NEW c \in Tools, NEW key \in Nat, NEW id \in {0, c}, NEW name \in {0, c}, NEW item \in Nat,
           NEW f \in Fragments, f.call = c, NEW style,
           style = "indexed" => key = c, style = "ided" => id = c,
           NEW m, m = MergeArguments([key |-> key, id |-> id, name |-> name, args |-> <<>>,
                                      item |-> item, desynced |-> FALSE], f)
    PROVE  EntryOpened(m, c, key, name, item, f, style)
  <1>1. ~Complete(<<>>)
    <2>1. PICK o : o = Fragment(c, "open")
      OBVIOUS
    <2> QED BY <2>1, PiecesAfter
  <1>2. c \in Nat
    BY ToolsAssumption
  <1> DEFINE e == [key |-> key, id |-> id, name |-> name, args |-> <<>>, item |-> item, desynced |-> FALSE]
             a == Append(<<>>, f)
  <1>3. m = [e EXCEPT !.args = a]
    <2>1. e.args = <<>>
      OBVIOUS
    <2>2. m = MergeArguments(e, f)
      OBVIOUS
    <2> HIDE DEF e
    <2> QED BY <1>1, <2>1, <2>2 DEF MergeArguments
  <1>4. /\ a = <<f>> /\ a \in Seq(Fragments) /\ a # <<>>
        /\ a[1] = f /\ \A i \in 1 .. Len(a) : a[i] = f
    OBVIOUS
  <1> HIDE DEF a
  <1>5. /\ m.item = item /\ m.name = name /\ m.key = key /\ m.desynced = FALSE /\ m.id = id
        /\ m.args = a
    BY <1>3
  <1>6. m \in Entries
    <2>1. m = [key |-> key, id |-> id, name |-> name, args |-> a, item |-> item, desynced |-> FALSE]
      BY <1>3
    <2>2. id \in Nat /\ name \in Nat
      BY <1>2
    <2>3. a \in Seq(Fragments) /\ FALSE \in BOOLEAN
      BY <1>4
    <2>4. [key |-> key, id |-> id, name |-> name, args |-> a, item |-> item, desynced |-> FALSE] \in Entries
      BY <2>2, <2>3, EntryTyped
    <2> HIDE DEF e
    <2> QED BY <2>1, <2>4, Zenon
  <1>7. CallOwner(m) = c
    BY <1>4, <1>5 DEF CallOwner
  <1>8. EntryOwned(m, a, style)
    BY <1>4, <1>5, <1>7 DEF EntryOwned
  <1> QED BY <1>4, <1>5, <1>6, <1>7, <1>8 DEF EntryOpened

(* The first fragment of a call is left as it was sent.                     *)
LEMMA FirstWhole ==
    ASSUME NEW c, NEW piece \in NextPieces(<<>>), NEW f, f = Fragment(c, piece)
    PROVE  MergedFrom(c, <<f>>, <<f>>)
  <1>1. PICK w : w = Fragment(c, "whole")
    OBVIOUS
  <1>2. piece \in {"whole", "open"}
    BY <1>1, PiecesAfter
  <1> QED BY <1>2 DEF MergedFrom

(* Fragment f of call c was sent more.                                      *)
SentMore(sent, sent2, c, f) ==
    /\ sent2 \in [Tools -> Seq(Fragments)]
    /\ sent2[c] = Append(sent[c], f) /\ sent2[c] # <<>>
    /\ \A d \in Tools : d # c => sent2[d] = sent[d]

(* The upstream sends one fragment at a time.                               *)
LEMMA SentGrows ==
    ASSUME NEW sent \in [Tools -> Seq(Fragments)], NEW c \in Tools, NEW f \in Fragments,
           NEW sent2, sent2 = [sent EXCEPT ![c] = Append(@, f)]
    PROVE  SentMore(sent, sent2, c, f)
  <1>1. PICK s \in Seq(Fragments) : s = sent[c]
    OBVIOUS
  <1>2. Append(s, f) \in Seq(Fragments) /\ Append(s, f) # <<>>
    <2> HIDE DEF Fragments
    <2> QED BY SMTT(30)
  <1>3. sent2[c] = Append(s, f)
    BY <1>1
  <1> QED BY <1>1, <1>2, <1>3 DEF SentMore

(* The calls after an entry was added for call c.                           *)
LEMMA CallsAdded ==
    ASSUME NEW calls \in Seq(Entries), NEW v, NEW w, NEW style,
           NEW sent \in [Tools -> Seq(Fragments)], CallsSound(calls, v, sent, style),
           NEW c \in Tools, NEW piece \in NextPieces(sent[c]), NEW f \in Fragments, f = Fragment(c, piece),
           NEW m \in Entries, m.args = <<f>>, CallOwner(m) = c, EntryOwned(m, <<f>>, style),
           \A j \in 1 .. Len(calls) : calls[j].key # m.key, calls = <<>> => m.name # 0,
           sent[c] # <<>> => style \notin {"indexed", "ided"},
           \A j \in 1 .. Len(calls) : w[calls[j].item + 1].deltas = v[calls[j].item + 1].deltas,
           w[m.item + 1].deltas = <<f>>,
           NEW sent2, SentMore(sent, sent2, c, f),
           NEW calls2, calls2 = Append(calls, m)
    PROVE  calls2 \in Seq(Entries) /\ CallsSound(calls2, w, sent2, style)
  <1> DEFINE n == Len(calls) + 1
  <1>1. /\ calls2 \in Seq(Entries) /\ Len(calls2) = n /\ Len(calls) \in Nat
        /\ calls2[n] = m /\ \A j \in 1 .. Len(calls) : calls2[j] = calls[j]
        /\ n \in 1 .. n /\ n \notin 1 .. Len(calls) /\ \A j \in 1 .. n : j # n => j \in 1 .. Len(calls)
        /\ \A j \in 1 .. Len(calls) : j \in 1 .. n
    OBVIOUS
  <1>2. \A d \in Tools : d # c => sent2[d] = sent[d]
    BY DEF SentMore
  <1>3. sent2[c] = Append(sent[c], f) /\ sent2[c] # <<>>
    BY DEF SentMore
  <1> HIDE DEF n
  <1>4. \A j \in 1 .. n : EntryOwned(calls2[j], w[calls2[j].item + 1].deltas, style)
    <2>1. EntryOwned(calls2[n], w[calls2[n].item + 1].deltas, style)
      BY <1>1, Zenon
    <2>2. \A j \in 1 .. Len(calls) : EntryOwned(calls2[j], w[calls2[j].item + 1].deltas, style)
      BY <1>1 DEF CallsSound
    <2> QED BY <1>1, <2>1, <2>2, Zenon
  <1>5. KeysApart(calls2)
    <2>1. \A j, k \in 1 .. n : calls2[j].key = calls2[k].key => j = k
      BY <1>1 DEF CallsSound, KeysApart
    <2>2. PICK b \in Nat : \A j \in 1 .. Len(calls) : calls[j].key <= b
      BY DEF CallsSound, KeysApart
    <2>3. m.key \in Nat /\ \A j \in 1 .. Len(calls) : calls[j].key \in Nat
      BY EntryAt DEF Entries
    <2>4. b + m.key \in Nat /\ \A j \in 1 .. n : calls2[j].key <= b + m.key
      BY <1>1, <2>2, <2>3
    <2>5. calls2[1].name # 0
      <3>1. CASE calls = <<>>
        BY <1>1, <3>1 DEF n
      <3>2. CASE calls # <<>>
        BY <1>1, <3>2 DEF CallsSound, KeysApart
      <3> QED BY <3>1, <3>2
    <2> QED BY <1>1, <2>1, <2>4, <2>5 DEF KeysApart
  <1>6. ASSUME NEW d \in Tools PROVE sent2[d] # <<>> <=> \E j \in 1 .. n : CallOwner(calls2[j]) = d
    <2>1. CASE d = c
      BY <1>1, <1>3, <2>1
    <2>2. CASE d # c
      <3>1. sent[d] # <<>> <=> \E j \in 1 .. Len(calls) : CallOwner(calls[j]) = d
        BY DEF CallsSound
      <3>2. \A j \in 1 .. n : CallOwner(calls2[j]) = d => j # n
        BY <1>1, <2>2
      <3>3. (\E j \in 1 .. n : CallOwner(calls2[j]) = d) <=> \E j \in 1 .. Len(calls) : CallOwner(calls[j]) = d
        BY <1>1, <3>2
      <3> QED BY <1>2, <2>2, <3>1, <3>3
    <2> QED BY <2>1, <2>2
  <1>7. ASSUME style \in {"indexed", "ided"}
        PROVE  /\ \A j, k \in 1 .. n : CallOwner(calls2[j]) = CallOwner(calls2[k]) => j = k
               /\ \A j \in 1 .. n : MergedFrom(CallOwner(calls2[j]), sent2[CallOwner(calls2[j])], calls2[j].args)
    <2>1. sent[c] = <<>> /\ \A j \in 1 .. Len(calls) : CallOwner(calls[j]) # c
      BY <1>7 DEF CallsSound
    <2>2. \A j \in 1 .. Len(calls) : CallOwner(calls[j]) \in Tools
      <3> TAKE j \in 1 .. Len(calls)
      <3>1. calls[j].args \in Seq(Fragments) /\ calls[j].args # <<>>
        BY EntryAt DEF CallsSound, EntryOwned
      <3>2. calls[j].args[1] \in Fragments
        BY <3>1
      <3> QED BY <3>2 DEF CallOwner, Fragments
    <2>3. \A j, k \in 1 .. n : CallOwner(calls2[j]) = CallOwner(calls2[k]) => j = k
      BY <1>1, <1>7, <2>1 DEF CallsSound
    <2>4. MergedFrom(c, sent2[c], m.args)
      <3>1. sent2[c] = <<f>>
        BY <1>3, <2>1, Appends
      <3> QED BY <2>1, <3>1, FirstWhole
    <2>5. \A j \in 1 .. Len(calls) : MergedFrom(CallOwner(calls[j]), sent2[CallOwner(calls[j])], calls[j].args)
      BY <1>2, <1>7, <2>1, <2>2 DEF CallsSound
    <2> QED BY <1>1, <2>3, <2>4, <2>5
  <1> QED BY <1>1, <1>4, <1>5, <1>6, <1>7 DEF CallsSound

(* The calls after a fragment was merged into the entry i of call c.        *)
SameEntries(calls2, calls) ==
    /\ calls2 \in Seq(Entries) /\ Len(calls2) = Len(calls)
    /\ \A j \in 1 .. Len(calls) : calls2[j].item = calls[j].item

(* Merging keeps the calls sound.                                           *)
LEMMA CallsMerged ==
    ASSUME NEW calls \in Seq(Entries), NEW v, NEW w, NEW style,
           NEW sent \in [Tools -> Seq(Fragments)], CallsSound(calls, v, sent, style),
           NEW c \in Tools, NEW piece \in NextPieces(sent[c]), NEW f \in Fragments, f = Fragment(c, piece),
           NEW i \in 1 .. Len(calls), CallOwner(calls[i]) = c, NEW m, m = MergeArguments(calls[i], f),
           v[calls[i].item + 1].deltas \in Seq(ShownPieces),
           \A j \in 1 .. Len(calls) : j # i => w[calls[j].item + 1].deltas = v[calls[j].item + 1].deltas,
           w[calls[i].item + 1].deltas = (IF m.desynced THEN v[calls[i].item + 1].deltas
                                          ELSE Append(v[calls[i].item + 1].deltas, f)),
           NEW sent2, SentMore(sent, sent2, c, f),
           NEW calls2, calls2 = [calls EXCEPT ![i] = m]
    PROVE  SameEntries(calls2, calls) /\ CallsSound(calls2, w, sent2, style)
  <1> DEFINE e == calls[i]
             shown == v[calls[i].item + 1].deltas
  <1>1. e \in Entries /\ EntryOwned(e, shown, style) /\ f.call = c /\ shown \in Seq(ShownPieces)
    BY EntryAt DEF CallsSound, Fragment
  <1> HIDE DEF e, shown
  <1>2. /\ m \in Entries /\ m.key = e.key /\ m.id = e.id /\ m.name = e.name /\ m.item = e.item
        /\ CallOwner(m) = CallOwner(e)
        /\ m.args = IF Complete(e.args) /\ f.piece \in {"open", "whole"} THEN <<f>> ELSE Append(e.args, f)
        /\ EntryOwned(m, IF m.desynced THEN shown ELSE Append(shown, f), style)
    <2>1. f.call = CallOwner(e) /\ m = MergeArguments(e, f)
      BY <1>1 DEF e
    <2> QED BY <1>1, <2>1, MergeOwned
  <1>3. /\ calls2 \in Seq(Entries) /\ Len(calls2) = Len(calls)
        /\ calls2[i] = m /\ \A j \in 1 .. Len(calls) : j # i => calls2[j] = calls[j]
    BY <1>2
  <1>4. /\ CallOwner(m) = c /\ m.key = calls[i].key /\ m.item = calls[i].item /\ m.name = calls[i].name
    BY <1>2 DEF e
  <1>5. \A j \in 1 .. Len(calls) : /\ calls2[j].item = calls[j].item /\ calls2[j].key = calls[j].key
                                   /\ calls2[j].name = calls[j].name
                                   /\ CallOwner(calls2[j]) = CallOwner(calls[j])
    BY <1>3, <1>4
  <1>6. \A d \in Tools : d # c => sent2[d] = sent[d]
    BY DEF SentMore
  <1>7. sent2[c] = Append(sent[c], f) /\ sent2[c] # <<>>
    BY DEF SentMore
  <1>8. \A j \in 1 .. Len(calls2) : EntryOwned(calls2[j], w[calls2[j].item + 1].deltas, style)
    <2>1. w[m.item + 1].deltas = IF m.desynced THEN shown ELSE Append(shown, f)
      BY <1>4 DEF shown
    <2>2. EntryOwned(m, w[m.item + 1].deltas, style)
      BY <1>2, <2>1
    <2>3. \A j \in 1 .. Len(calls) : j # i => EntryOwned(calls2[j], w[calls2[j].item + 1].deltas, style)
      BY <1>3 DEF CallsSound
    <2> QED BY <1>3, <2>2, <2>3
  <1>9. KeysApart(calls2)
    <2>1. \A j, k \in 1 .. Len(calls2) : calls2[j].key = calls2[k].key => j = k
      BY <1>3, <1>5 DEF CallsSound, KeysApart
    <2>2. \E b \in Nat : \A j \in 1 .. Len(calls2) : calls2[j].key <= b
      BY <1>3, <1>5 DEF CallsSound, KeysApart
    <2>3. calls # <<>> /\ 1 \in 1 .. Len(calls)
      OBVIOUS
    <2>4. calls2[1].name # 0
      BY <1>5, <2>3 DEF CallsSound, KeysApart
    <2> QED BY <2>1, <2>2, <2>4 DEF KeysApart
  <1>10. \A d \in Tools : sent2[d] # <<>> <=> \E j \in 1 .. Len(calls2) : CallOwner(calls2[j]) = d
    <2> TAKE d \in Tools
    <2>1. sent[d] # <<>> <=> \E j \in 1 .. Len(calls2) : CallOwner(calls2[j]) = d
      BY <1>3, <1>5 DEF CallsSound
    <2>2. sent[c] # <<>>
      BY DEF CallsSound
    <2> QED BY <1>6, <1>7, <2>1, <2>2
  <1>11. ASSUME style \in {"indexed", "ided"}
         PROVE  /\ \A j, k \in 1 .. Len(calls2) : CallOwner(calls2[j]) = CallOwner(calls2[k]) => j = k
                /\ \A j \in 1 .. Len(calls2) :
                     MergedFrom(CallOwner(calls2[j]), sent2[CallOwner(calls2[j])], calls2[j].args)
    <2>1. \A j, k \in 1 .. Len(calls2) : CallOwner(calls2[j]) = CallOwner(calls2[k]) => j = k
      BY <1>3, <1>5, <1>11 DEF CallsSound
    <2>2. MergedFrom(c, sent2[c], m.args)
      <3>1. MergedFrom(c, sent[c], e.args)
        BY <1>11 DEF CallsSound, e
      <3>2. MergedFrom(c, Append(sent[c], f), m.args)
        BY <1>2, <3>1, MergeWhole, Zenon
      <3> QED BY <1>7, <3>2, Zenon
    <2>3. ASSUME NEW j \in 1 .. Len(calls), j # i
          PROVE  MergedFrom(CallOwner(calls2[j]), sent2[CallOwner(calls2[j])], calls2[j].args)
      <3>1. CallOwner(calls[j]) # c
        BY <1>11, <2>3 DEF CallsSound
      <3>2. CallOwner(calls[j]) \in Tools
        <4>1. calls[j].args \in Seq(Fragments) /\ calls[j].args # <<>>
          BY EntryAt DEF CallsSound, EntryOwned
        <4>2. calls[j].args[1] \in Fragments
          BY <4>1
        <4> QED BY <4>2 DEF CallOwner, Fragments
      <3> QED BY <1>3, <1>6, <1>11, <2>3, <3>1, <3>2 DEF CallsSound
    <2> QED BY <1>3, <1>4, <2>1, <2>2, <2>3
  <1> QED BY <1>3, <1>5, <1>8, <1>9, <1>10, <1>11 DEF CallsSound, SameEntries

(* A call's item is placed after the others.                                *)
LEMMA PlacedAdded ==
    ASSUME NEW v \in Seq(ClientItems), NEW x, ItemReady(Len(v), "call", TRUE, x, v),
           NEW rs, NEW tx, NEW calls \in Seq(Entries), Placed(rs, tx, calls, v),
           NEW m \in Entries, m.item = Len(v), NEW calls2, calls2 = Append(calls, m)
    PROVE  Placed(rs, tx, calls2, x)
  <1> DEFINE n == Len(calls) + 1
  <1>1. /\ Len(calls2) = n /\ Len(calls) \in Nat
        /\ calls2[n] = m /\ \A j \in 1 .. Len(calls) : calls2[j] = calls[j]
        /\ n \in 1 .. n /\ \A j \in 1 .. n : j # n => j \in 1 .. Len(calls)
        /\ \A j \in 1 .. Len(calls) : j \in 1 .. n
    OBVIOUS
  <1> HIDE DEF n
  <1>2. /\ Len(v) \in Nat /\ Len(v) + 1 \in 1 .. Len(x) /\ x[Len(v) + 1].what = "call"
        /\ \A k \in 1 .. Len(v) : x[k] = v[k] /\ k \in 1 .. Len(x)
        /\ \A k \in 1 .. Len(x) : k # Len(v) + 1 => k \in 1 .. Len(v)
    BY DEF ItemReady
  <1>3. rs # NoItem => rs + 1 \in 1 .. Len(x) /\ x[rs + 1].what = "reasoning"
    BY <1>2 DEF Placed
  <1>4. tx # NoItem => tx + 1 \in 1 .. Len(x) /\ x[tx + 1].what = "text"
    BY <1>2 DEF Placed
  <1>5. \A j \in 1 .. Len(calls) : calls[j].item \in Nat /\ calls[j].item + 1 \in 1 .. Len(v)
    BY EntryAt DEF Placed
  <1>6. \A j \in 1 .. n : calls2[j].item + 1 \in 1 .. Len(x) /\ x[calls2[j].item + 1].what = "call"
    <2>1. \A j \in 1 .. Len(calls) : calls[j].item + 1 \in 1 .. Len(x) /\ x[calls[j].item + 1].what = "call"
      BY <1>2, SMTT(30) DEF Placed
    <2> QED BY <1>1, <1>2, <2>1, SMTT(30)
  <1>7. \A j \in 1 .. Len(calls) : calls[j].item # m.item
    BY <1>2, <1>5
  <1>8. \A j, k \in 1 .. n : calls2[j].item = calls2[k].item => j = k
    BY <1>1, <1>7 DEF Placed
  <1>9. ASSUME NEW i \in 1 .. Len(x)
        PROVE  \/ x[i].what = "reasoning" /\ i = rs + 1
               \/ x[i].what = "text" /\ i = tx + 1
               \/ x[i].what = "call" /\ \E j \in 1 .. n : i = calls2[j].item + 1
    <2>1. CASE i = Len(v) + 1
      BY <1>1, <1>2, <2>1
    <2>2. CASE i # Len(v) + 1
      <3>1. i \in 1 .. Len(v) /\ x[i] = v[i]
        BY <1>2, <2>2
      <3>2. \/ x[i].what = "reasoning" /\ i = rs + 1
            \/ x[i].what = "text" /\ i = tx + 1
            \/ x[i].what = "call" /\ \E j \in 1 .. Len(calls) : i = calls[j].item + 1
        BY <3>1 DEF Placed
      <3> QED BY <1>1, <3>2
    <2> QED BY <2>1, <2>2
  <1> QED BY <1>1, <1>3, <1>4, <1>6, <1>8, <1>9 DEF Placed

(* Merging moves no item.                                                   *)
LEMMA PlacedMerged ==
    ASSUME NEW v, NEW rs, NEW tx, NEW calls, NEW calls2, Placed(rs, tx, calls, v), SameEntries(calls2, calls)
    PROVE  Placed(rs, tx, calls2, v)
  <1>1. Len(calls2) = Len(calls) /\ \A j \in 1 .. Len(calls) : calls2[j].item = calls[j].item
    BY DEF SameEntries
  <1>2. \A j \in 1 .. Len(calls2) : calls2[j].item + 1 \in 1 .. Len(v) /\ v[calls2[j].item + 1].what = "call"
    BY <1>1 DEF Placed
  <1>3. \A j, k \in 1 .. Len(calls2) : calls2[j].item = calls2[k].item => j = k
    BY <1>1 DEF Placed
  <1>4. ASSUME NEW i \in 1 .. Len(v)
        PROVE  \/ v[i].what = "reasoning" /\ i = rs + 1
               \/ v[i].what = "text" /\ i = tx + 1
               \/ v[i].what = "call" /\ \E j \in 1 .. Len(calls2) : i = calls2[j].item + 1
    <2>1. \/ v[i].what = "reasoning" /\ i = rs + 1
          \/ v[i].what = "text" /\ i = tx + 1
          \/ v[i].what = "call" /\ \E j \in 1 .. Len(calls) : i = calls[j].item + 1
      BY DEF Placed
    <2> QED BY <1>1, <2>1
  <1> QED BY <1>2, <1>3, <1>4 DEF Placed

(* The translator with other calls.                                         *)
OtherCalls(u, t, calls, n) ==
    /\ u \in Translators /\ u.calls = calls /\ u.next = n /\ u.reasoning = t.reasoning
    /\ u.reasoned = t.reasoned /\ u.text = t.text /\ u.completed = t.completed

(* An update of the calls leaves the rest of the translator.                *)
LEMMA WithCalls ==
    ASSUME NEW t \in Translators, NEW calls \in Seq(Entries), NEW n \in Nat,
           NEW u, u = [t EXCEPT !.calls = calls, !.next = n]
    PROVE  OtherCalls(u, t, calls, n)
BY DEF Translators, OtherCalls

(* emit_chat_tool_call_delta for a fragment whose key no entry has.         *)
OneCallMore(r, t, v, f, calls, m) ==
    r = <<[t EXCEPT !.calls = Append(calls, m), !.next = t.next + 1], Delta(Added(v, "call"), t.next, f)>>

(* A key no entry has adds an entry and an item.                            *)
LEMMA ToolAdds ==
    ASSUME NEW t, NEW v, NEW index, NEW id, NEW name, NEW f, NEW calls, calls = t.calls,
           NEW key, key = KeyOf(t, index, id, name), t \in Translators,
           \A j \in 1 .. Len(calls) : calls[j].key # key,
           NEW m, m = MergeArguments([key |-> key, id |-> id, name |-> name, args |-> <<>>,
                                      item |-> t.next, desynced |-> FALSE], f), ~m.desynced,
           NEW r, r = ToolDelta(t, v, index, id, name, f)
    PROVE  OneCallMore(r, t, v, f, calls, m)
  <1>1. calls \in Seq(Entries)
    BY DEF Translators
  <1>2. {i \in DOMAIN calls : calls[i].key = key} = {}
    BY <1>1
  <1> DEFINE e == [key |-> key, id |-> id, name |-> name, args |-> <<>>,
                   item |-> t.next, desynced |-> FALSE]
  <1>3. e.item = t.next /\ m = MergeArguments(e, f)
    OBVIOUS
  <1>4. r = <<[t EXCEPT !.calls = Append(calls, m), !.next = t.next + 1],
              Delta(Added(v, "call"), e.item, f)>>
    BY <1>2, <1>3 DEF ToolDelta
  <1> HIDE DEF e
  <1> QED BY <1>3, <1>4 DEF OneCallMore

(* emit_chat_tool_call_delta for a fragment of entry i.                     *)
CallMerged(r, t, v, f, calls, i, m) ==
    r = <<[t EXCEPT !.calls = [calls EXCEPT ![i] = m], !.next = t.next],
          IF m.desynced THEN v ELSE Delta(v, calls[i].item, f)>>

(* An entry's key merges the fragment into that entry.                      *)
LEMMA ToolMerges ==
    ASSUME NEW t, NEW v, NEW index, NEW id, NEW name, NEW f, NEW calls, calls = t.calls,
           NEW key, key = KeyOf(t, index, id, name), t \in Translators, KeysApart(calls),
           NEW i \in 1 .. Len(calls), calls[i].key = key,
           NEW m, m = MergeArguments(calls[i], f),
           NEW r, r = ToolDelta(t, v, index, id, name, f)
    PROVE  CallMerged(r, t, v, f, calls, i, m)
  <1>1. calls \in Seq(Entries) /\ DOMAIN calls = 1 .. Len(calls) /\ i \in Nat
    BY DEF Translators
  <1> DEFINE at == {k \in DOMAIN calls : calls[k].key = key}
  <1>2. at = {i}
    BY <1>1 DEF KeysApart
  <1>3. Min({i}) = i
    <2>1. {i} \in SUBSET Nat /\ {i} # {}
      BY <1>1
    <2>2. Min({i}) \in {i}
      BY <2>1, MinIsLeast
    <2> QED BY <2>2
  <1>4. at # {} /\ Min(at) = i
    BY <1>2, <1>3
  <1>5. r = <<[t EXCEPT !.calls = [calls EXCEPT ![i] = m], !.next = t.next],
              IF m.desynced THEN v ELSE Delta(v, calls[i].item, f)>>
    <2>1. at = {k \in DOMAIN t.calls : t.calls[k].key = KeyOf(t, index, id, name)}
      OBVIOUS
    <2> HIDE DEF at
    <2> QED BY <1>4, <2>1 DEF ToolDelta
  <1> HIDE DEF at
  <1> QED BY <1>5 DEF CallMerged

(* A fragment of call c keeps the calls sound, their items placed and open. *)
LEMMA ToolKeeps ==
    ASSUME NEW t, NEW v, Translates(t, v), StillOpen(t.reasoned, v), t.completed = FALSE,
           NEW style, NEW sent \in [Tools -> Seq(Fragments)], CallsSound(t.calls, v, sent, style),
           NEW c \in Tools, NEW piece \in NextPieces(sent[c]),
           NEW f \in Fragments, f = Fragment(c, piece),
           NEW index, NEW id, NEW name, FragmentNames(style, sent, c, index, id, name),
           NEW r, r = ToolDelta(t, v, index, id, name, f),
           NEW sent2, SentMore(sent, sent2, c, f)
    PROVE  /\ Translates(r[1], r[2]) /\ StillOpen(r[1].reasoned, r[2]) /\ r[1].completed = FALSE
           /\ CallsSound(r[1].calls, r[2], sent2, style)
  <1>1. PICK calls : calls = t.calls
    OBVIOUS
  <1>2. PICK key : key = KeyOf(t, index, id, name)
    OBVIOUS
  <1>3. /\ t \in Translators /\ v \in Seq(ClientItems) /\ Len(v) = t.next /\ t.next \in Nat
        /\ (t.reasoned => t.reasoning # NoItem) /\ Placed(t.reasoning, t.text, calls, v)
        /\ calls \in Seq(Entries) /\ f.call = c /\ c \in Nat \ {0}
    BY <1>1, ToolsAssumption DEF Translates, Translators, Fragment
  <1>4. CallsSound(calls, v, sent, style) /\ KeysApart(calls)
    BY <1>1 DEF CallsSound
  <1>9. KeyFound(calls, sent, style, c, key)
    BY <1>1, <1>2, <1>3, <1>4, KeyChoice, Zenon
  <1>5. /\ key \in Nat
        /\ \/ NewKey(calls, sent, style, c, key)
           \/ \E j \in 1 .. Len(calls) : calls[j].key = key /\ CallOwner(calls[j]) = c
    BY <1>9, Zenon DEF KeyFound
  <1>6. f \in ShownPieces
    BY DEF ShownPieces
  <1>7. CASE NewKey(calls, sent, style, c, key)
    <2>19. /\ \A j \in 1 .. Len(calls) : calls[j].key # key
           /\ sent[c] # <<>> => style \notin {"indexed", "ided"} /\ calls # <<>>
           /\ style = "indexed" => key = c
      BY <1>7, Zenon DEF NewKey
    <2>1. PICK m : m = MergeArguments([key |-> key, id |-> id, name |-> name, args |-> <<>>,
                                       item |-> t.next, desynced |-> FALSE], f)
      OBVIOUS
    <2>2. id \in {0, c} /\ name \in {0, c} /\ (style = "ided" => id = c)
      BY DEF FragmentNames
    <2>3. /\ m \in Entries /\ m.item = t.next /\ m.name = name /\ m.key = key /\ ~m.desynced
          /\ m.args = <<f>> /\ CallOwner(m) = c /\ EntryOwned(m, <<f>>, style)
      <3>1. EntryOpened(m, c, key, name, t.next, f, style)
        BY <1>3, <1>5, <2>1, <2>2, <2>19, NewEntryOwned, Zenon
      <3> QED BY <3>1, Zenon DEF EntryOpened
    <2>4. PICK calls2 : calls2 = Append(calls, m)
      OBVIOUS
    <2>5. PICK x : x = Added(v, "call")
      OBVIOUS
    <2>6. r[1] = [t EXCEPT !.calls = calls2, !.next = t.next + 1] /\ r[2] = Delta(x, t.next, f)
      <3>1. OneCallMore(r, t, v, f, calls, m)
        BY <1>1, <1>2, <1>3, <2>1, <2>3, <2>19, ToolAdds, Zenon
      <3> QED BY <2>4, <2>5, <3>1 DEF OneCallMore
    <2>7. ItemReady(t.next, "call", TRUE, x, v)
      <3>1. ItemReady(Len(v), "call", TRUE, x, v)
        BY <1>3, <2>5, NewItemReady
      <3> QED BY <1>3, <3>1
    <2>8. PICK w : w = r[2]
      OBVIOUS
    <2>9. /\ StillOpen(t.reasoned, w) /\ w \in Seq(ClientItems) /\ Len(w) = Len(x)
          /\ \A k \in 1 .. Len(x) : w[k].what = x[k].what
          /\ \A k \in 1 .. Len(x) : k # t.next + 1 => w[k] = x[k]
          /\ w[t.next + 1].deltas = Append(x[t.next + 1].deltas, f)
      <3>1. w = Delta(x, t.next, f) /\ "call" \in {"reasoning", "text", "call"} /\ "call" # "reasoning"
        BY <2>6, <2>8
      <3>2. DeltaKeeps(w, x, t.next, f, t.reasoned)
        BY <1>3, <1>6, <2>7, <3>1, DeltaOpen, Zenon
      <3> QED BY <3>2, Zenon DEF DeltaKeeps
    <2>10. Placed(t.reasoning, t.text, calls2, w)
      <3>1. Placed(t.reasoning, t.text, calls2, x)
        BY <1>3, <2>3, <2>4, <2>7, PlacedAdded
      <3> QED BY <2>9, <3>1, SamePlaces
    <2>11. w[m.item + 1].deltas = <<f>>
      <3>1. x[t.next + 1].deltas = <<>>
        BY <2>7 DEF ItemReady, Item
      <3> QED BY <2>3, <2>9, <3>1, Appends
    <2>12. \A j \in 1 .. Len(calls) : w[calls[j].item + 1].deltas = v[calls[j].item + 1].deltas
      <3> TAKE j \in 1 .. Len(calls)
      <3>1. calls[j].item \in Nat /\ calls[j].item + 1 \in 1 .. Len(v)
        BY <1>3, EntryAt DEF Placed
      <3>2. PICK k \in 1 .. Len(v) : k = calls[j].item + 1
        BY <3>1
      <3>3. k # t.next + 1 /\ k \in 1 .. Len(x) /\ x[k] = v[k]
        BY <1>3, <2>7 DEF ItemReady
      <3>4. w[k] = v[k]
        BY <2>9, <3>3
      <3> QED BY <3>2, <3>4
    <2>13. calls = <<>> => m.name # 0
      BY <1>3, <2>3, <2>19 DEF FragmentNames
    <2>14. calls2 \in Seq(Entries) /\ CallsSound(calls2, w, sent2, style)
      BY <1>3, <1>4, <2>3, <2>4, <2>11, <2>12, <2>13, <2>19, CallsAdded
    <2>15. PICK u : u = r[1]
      OBVIOUS
    <2>16. /\ u \in Translators /\ u.calls = calls2 /\ u.next = t.next + 1 /\ u.reasoning = t.reasoning
           /\ u.reasoned = t.reasoned /\ u.text = t.text /\ u.completed = t.completed
      <3>1. t.next + 1 \in Nat
        BY <1>3
      <3>2. OtherCalls(u, t, calls2, t.next + 1)
        BY <1>3, <2>6, <2>14, <2>15, <3>1, WithCalls, Zenon
      <3> QED BY <3>2, Zenon DEF OtherCalls
    <2>17. Len(w) = t.next + 1
      BY <1>3, <2>7, <2>9 DEF ItemReady
    <2>18. Translates(u, w)
      BY <1>3, <2>9, <2>10, <2>16, <2>17 DEF Translates
    <2> QED BY <2>8, <2>9, <2>14, <2>15, <2>16, <2>18
  <1>8. CASE \E j \in 1 .. Len(calls) : calls[j].key = key /\ CallOwner(calls[j]) = c
    <2>1. PICK i \in 1 .. Len(calls) : calls[i].key = key /\ CallOwner(calls[i]) = c
      BY <1>8
    <2>2. PICK m : m = MergeArguments(calls[i], f)
      OBVIOUS
    <2>3. PICK calls2 : calls2 = [calls EXCEPT ![i] = m]
      OBVIOUS
    <2>4. PICK n : n = calls[i].item
      OBVIOUS
    <2>5. /\ r[1] = [t EXCEPT !.calls = calls2, !.next = t.next]
          /\ r[2] = IF m.desynced THEN v ELSE Delta(v, n, f)
      <3>1. CallMerged(r, t, v, f, calls, i, m)
        BY <1>1, <1>2, <1>3, <1>4, <2>1, <2>2, ToolMerges, Zenon
      <3> QED BY <2>3, <2>4, <3>1 DEF CallMerged
    <2>6. n \in Nat /\ n + 1 \in 1 .. Len(v) /\ v[n + 1].what = "call"
      BY <1>3, <2>4, EntryAt DEF Placed
    <2>7. ItemReady(n, "call", FALSE, v, v)
      BY <1>3, <2>6 DEF ItemReady
    <2>8. v[n + 1].deltas \in Seq(ShownPieces)
      <3>1. v[n + 1] \in ClientItems
        BY <1>3, <2>6
      <3> QED BY <3>1 DEF ClientItems
    <2>9. PICK w : w = r[2]
      OBVIOUS
    <2>10. /\ StillOpen(t.reasoned, w) /\ w \in Seq(ClientItems) /\ Len(w) = Len(v)
           /\ \A k \in 1 .. Len(v) : w[k].what = v[k].what
           /\ \A k \in 1 .. Len(v) : k # n + 1 => w[k] = v[k]
           /\ w[n + 1].deltas = IF m.desynced THEN v[n + 1].deltas ELSE Append(v[n + 1].deltas, f)
      <3>1. CASE m.desynced
        <4>1. w = v
          BY <2>5, <2>9, <3>1
        <4> QED BY <1>3, <3>1, <4>1
      <3>2. CASE ~m.desynced
        <4>1. w = Delta(v, n, f)
          BY <2>5, <2>9, <3>2
        <4>2. /\ StillOpen(t.reasoned, w) /\ w \in Seq(ClientItems) /\ Len(w) = Len(v)
              /\ \A k \in 1 .. Len(v) : w[k].what = v[k].what
              /\ \A k \in 1 .. Len(v) : k # n + 1 => w[k] = v[k]
              /\ w[n + 1].deltas = Append(v[n + 1].deltas, f)
          <5>1. "call" \in {"reasoning", "text", "call"} /\ "call" # "reasoning"
            OBVIOUS
          <5>2. DeltaKeeps(w, v, n, f, t.reasoned)
            BY <1>3, <1>6, <2>6, <2>7, <4>1, <5>1, DeltaOpen, Zenon
          <5> QED BY <5>2, Zenon DEF DeltaKeeps
        <4> QED BY <3>2, <4>2
      <3> QED BY <3>1, <3>2
    <2>11. \A j \in 1 .. Len(calls) : j # i => w[calls[j].item + 1].deltas = v[calls[j].item + 1].deltas
      <3> SUFFICES ASSUME NEW j \in 1 .. Len(calls), j # i
                   PROVE  w[calls[j].item + 1].deltas = v[calls[j].item + 1].deltas
        OBVIOUS
      <3>1. calls[j].item \in Nat /\ calls[j].item + 1 \in 1 .. Len(v) /\ calls[j].item # n
        BY <1>3, <2>4, EntryAt DEF Placed
      <3>2. PICK k \in 1 .. Len(v) : k = calls[j].item + 1
        BY <3>1
      <3>3. k # n + 1
        BY <2>6, <3>1, <3>2
      <3>4. w[k] = v[k]
        BY <2>10, <3>3
      <3> QED BY <3>2, <3>4
    <2>12. /\ calls2 \in Seq(Entries) /\ Len(calls2) = Len(calls)
           /\ \A j \in 1 .. Len(calls) : calls2[j].item = calls[j].item
           /\ CallsSound(calls2, w, sent2, style)
      <3>1. /\ v[calls[i].item + 1].deltas \in Seq(ShownPieces)
            /\ w[calls[i].item + 1].deltas = (IF m.desynced THEN v[calls[i].item + 1].deltas
                                              ELSE Append(v[calls[i].item + 1].deltas, f))
        BY <2>4, <2>8, <2>10, Zenon
      <3>2. SameEntries(calls2, calls) /\ CallsSound(calls2, w, sent2, style)
        BY <1>3, <1>4, <2>1, <2>2, <2>3, <2>11, <3>1, CallsMerged, Zenon
      <3> QED BY <3>2, Zenon DEF SameEntries
    <2>20. SameEntries(calls2, calls)
      BY <2>12, Zenon DEF SameEntries
    <2>13. Placed(t.reasoning, t.text, calls2, w)
      <3>1. Placed(t.reasoning, t.text, calls2, v)
        BY <1>3, <2>12, <2>20, PlacedMerged
      <3> QED BY <2>10, <3>1, SamePlaces
    <2>15. PICK u : u = r[1]
      OBVIOUS
    <2>16. /\ u \in Translators /\ u.calls = calls2 /\ u.next = t.next /\ u.reasoning = t.reasoning
           /\ u.reasoned = t.reasoned /\ u.text = t.text /\ u.completed = t.completed
      <3>1. OtherCalls(u, t, calls2, t.next)
        BY <1>3, <2>5, <2>12, <2>15, WithCalls, Zenon
      <3> QED BY <3>1, Zenon DEF OtherCalls
    <2>18. Translates(u, w)
      BY <1>3, <2>10, <2>13, <2>16 DEF Translates
    <2> QED BY <2>9, <2>10, <2>12, <2>15, <2>16, <2>18
  <1> QED BY <1>5, <1>7, <1>8

-----------------------------------------------------------------------------
(* normalize_tool_arguments keeps fragments it was given, and never nothing. *)
LEMMA NormalizedKeeps ==
    ASSUME NEW args \in Seq(Fragments), args # <<>>, NEW a, a = NormalizeArguments(args)
    PROVE  /\ a \in Seq(Fragments) /\ a # <<>>
           /\ \A i \in 1 .. Len(a) : \E k \in 1 .. Len(args) : a[i] = args[k]
  <1> DEFINE wholes == {i \in DOMAIN args : \/ args[i].piece = "whole"
                                            \/ i > 1 /\ args[i].piece = "rest" /\ args[i - 1].piece = "open"}
             last == Max(wholes)
  <1>1. a = IF wholes = {} \/ args[1].piece = "rest" THEN args
            ELSE IF args[last].piece = "whole" THEN <<args[last]>>
            ELSE <<args[last - 1], args[last]>>
    BY DEF NormalizeArguments
  <1>2. DOMAIN args = 1 .. Len(args) /\ Len(args) \in Nat /\ \A k \in 1 .. Len(args) : args[k] \in Fragments
    OBVIOUS
  <1>3. CASE wholes = {} \/ args[1].piece = "rest"
    <2>1. a = args
      BY <1>1, <1>3
    <2> QED BY <2>1
  <1>4. CASE wholes # {} /\ args[1].piece # "rest"
    <2>1. wholes \in SUBSET Nat /\ \A k \in wholes : k <= Len(args)
      BY <1>2
    <2>2. last \in wholes
      <3> HIDE DEF wholes
      <3> QED BY <1>2, <1>4, <2>1, MaxIsGreatest
    <2>3. /\ last \in 1 .. Len(args)
          /\ args[last].piece = "whole" \/ (last > 1 /\ last - 1 \in 1 .. Len(args))
      <3>1. \A l \in wholes : l \in 1 .. Len(args) /\ (args[l].piece = "whole" \/ (l > 1 /\ l - 1 \in 1 .. Len(args)))
        <4> TAKE l \in wholes
        <4>1. l \in 1 .. Len(args) /\ (args[l].piece = "whole" \/ l > 1)
          BY <1>2
        <4>2. l > 1 => l - 1 \in 1 .. Len(args)
          BY <1>2, <4>1
        <4> QED BY <4>1, <4>2
      <3> HIDE DEF last, wholes
      <3> QED BY <2>2, <3>1
    <2>4. PICK l \in 1 .. Len(args) : l = last
      BY <2>3
    <2> HIDE DEF last, wholes
    <2>5. CASE args[l].piece = "whole"
      <3>1. a = <<args[l]>>
        BY <1>1, <1>4, <2>4, <2>5
      <3> QED BY <1>2, <3>1
    <2>6. CASE args[l].piece # "whole"
      <3>1. a = <<args[l - 1], args[l]>> /\ l - 1 \in 1 .. Len(args)
        BY <1>1, <1>4, <2>3, <2>4, <2>6
      <3>2. PICK x \in Fragments, y \in Fragments : x = args[l - 1] /\ y = args[l]
        BY <1>2, <3>1
      <3>3. a = <<x, y>>
        BY <3>1, <3>2
      <3>4. a \in Seq(Fragments) /\ a # <<>> /\ Len(a) = 2 /\ a[1] = x /\ a[2] = y
        <4> HIDE DEF Fragments
        <4> QED BY <3>3
      <3>5. \A i \in 1 .. Len(a) : i = 1 \/ i = 2
        BY <3>4
      <3> QED BY <3>1, <3>2, <3>4, <3>5
    <2> QED BY <2>5, <2>6
  <1> QED BY <1>3, <1>4

(* What is left of a finished call normalises to what was sent last.        *)
LEMMA NormalizedWhole ==
    ASSUME NEW c, NEW sent, NEW args, MergedFrom(c, sent, args), Last(sent).piece # "open"
    PROVE  NormalizeArguments(sent) = NormalizeArguments(args)
  <1>1. PICK w : w = Fragment(c, "whole")
    OBVIOUS
  <1>2. PICK o : o = Fragment(c, "open")
    OBVIOUS
  <1>3. PICK r : r = Fragment(c, "rest")
    OBVIOUS
  <1>4. w.piece = "whole" /\ o.piece = "open" /\ r.piece = "rest"
    BY <1>1, <1>2, <1>3 DEF Fragment
  <1>5. \/ sent = <<w>> /\ args = <<w>>
        \/ sent \in {<<o>>, <<w, o>>} /\ args = <<o>>
        \/ sent = <<o, r>> /\ args = <<o, r>>
        \/ sent = <<w, o, r>> /\ args = <<o, r>>
    BY <1>1, <1>2, <1>3 DEF MergedFrom
  <1>6. sent \notin {<<o>>, <<w, o>>}
    <2>1. Last(<<o>>) = o /\ Last(<<w, o>>) = o
      BY DEF Last
    <2> QED BY <1>4, <2>1
  <1>7. NormalizeArguments(<<o, r>>) = <<o, r>>
    <2> DEFINE q == <<o, r>>
               wholes == {i \in DOMAIN q : \/ q[i].piece = "whole"
                                           \/ i > 1 /\ q[i].piece = "rest" /\ q[i - 1].piece = "open"}
    <2>1. DOMAIN q = {1, 2} /\ q[1] = o /\ q[2] = r
      OBVIOUS
    <2> HIDE DEF q
    <2>2. wholes = {2}
      <3>1. 2 \in wholes
        BY <1>4, <2>1
      <3>2. 1 \notin wholes
        BY <1>4, <2>1
      <3> QED BY <2>1, <3>1, <3>2
    <2>3. Max({2}) = 2
      <3>1. {2} \in SUBSET Nat /\ {2} # {} /\ 2 \in Nat /\ \A j \in {2} : j <= 2
        OBVIOUS
      <3>2. Max({2}) \in {2}
        BY <3>1, MaxIsGreatest
      <3> QED BY <3>2
    <2>4. NormalizeArguments(q) = <<q[2 - 1], q[2]>>
      <3>1. wholes # {} /\ Max(wholes) = 2
        BY <2>2, <2>3
      <3>2. NormalizeArguments(q) = IF wholes = {} \/ q[1].piece = "rest" THEN q
                                    ELSE IF q[Max(wholes)].piece = "whole" THEN <<q[Max(wholes)]>>
                                    ELSE <<q[Max(wholes) - 1], q[Max(wholes)]>>
        BY DEF NormalizeArguments
      <3> HIDE DEF wholes
      <3> QED BY <1>4, <2>1, <3>1, <3>2
    <2> QED BY <2>1, <2>4 DEF q
  <1>8. NormalizeArguments(<<w, o, r>>) = <<o, r>>
    <2> DEFINE q == <<w, o, r>>
               wholes == {i \in DOMAIN q : \/ q[i].piece = "whole"
                                           \/ i > 1 /\ q[i].piece = "rest" /\ q[i - 1].piece = "open"}
    <2>1. DOMAIN q = {1, 2, 3} /\ q[1] = w /\ q[2] = o /\ q[3] = r
      OBVIOUS
    <2> HIDE DEF q
    <2>2. wholes = {1, 3}
      <3>1. 3 \in wholes /\ 1 \in wholes
        BY <1>4, <2>1
      <3>2. 2 \notin wholes
        BY <1>4, <2>1
      <3> QED BY <2>1, <3>1, <3>2
    <2>3. Max({1, 3}) = 3
      <3>1. {1, 3} \in SUBSET Nat /\ {1, 3} # {} /\ 3 \in Nat /\ \A j \in {1, 3} : j <= 3
        OBVIOUS
      <3>2. Max({1, 3}) \in {1, 3} /\ \A j \in {1, 3} : j <= Max({1, 3})
        BY <3>1, MaxIsGreatest
      <3> QED BY <3>2
    <2>4. NormalizeArguments(q) = <<q[3 - 1], q[3]>>
      <3>1. wholes # {} /\ Max(wholes) = 3
        BY <2>2, <2>3
      <3>2. NormalizeArguments(q) = IF wholes = {} \/ q[1].piece = "rest" THEN q
                                    ELSE IF q[Max(wholes)].piece = "whole" THEN <<q[Max(wholes)]>>
                                    ELSE <<q[Max(wholes) - 1], q[Max(wholes)]>>
        BY DEF NormalizeArguments
      <3> HIDE DEF wholes
      <3> QED BY <1>4, <2>1, <3>1, <3>2
    <2> QED BY <2>1, <2>4 DEF q
  <1> QED BY <1>5, <1>6, <1>7, <1>8

-----------------------------------------------------------------------------
(* finish closes the calls one after another.                               *)
CloseCall(v, e) == Done(v, e.item, NormalizeArguments(e.args))

(* g is the view after each of the first m calls was closed.                *)
IsClosing(g, m, calls, v) ==
    g = [n \in 0 .. m |-> IF n = 0 THEN v ELSE CloseCall(g[n - 1], calls[n])]

(* The loop over the calls has a run.                                       *)
LEMMA ClosingRuns ==
    ASSUME NEW calls \in Seq(Entries), NEW v
    PROVE  \E g : IsClosing(g, Len(calls), calls, v)
  <1> DEFINE HasRun(m) == \E g : IsClosing(g, m, calls, v)
             S == {m \in Nat : ~HasRun(m)}
  <1>1. Len(calls) \in Nat
    OBVIOUS
  <1>2. SUFFICES S = {}
    BY <1>1
  <1>3. SUFFICES ASSUME S # {} PROVE FALSE
    OBVIOUS
  <1>4. PICK m \in S : \A j \in S : m <= j
    <2> S \in SUBSET Nat
      OBVIOUS
    <2> HIDE DEF S
    <2> QED BY <1>3, LeastOf
  <1>5. CASE m = 0
    <2> DEFINE g == [n \in 0 .. 0 |-> v]
    <2>1. g = [n \in 0 .. m |-> IF n = 0 THEN v ELSE CloseCall(g[n - 1], calls[n])]
      BY <1>5
    <2>2. HasRun(m)
      BY <2>1 DEF IsClosing
    <2> QED BY <1>4, <2>2
  <1>6. CASE m # 0
    <2>1. m - 1 \in Nat /\ m - 1 < m /\ m \in Nat
      BY <1>4, <1>6
    <2>2. HasRun(m - 1)
      <3> HIDE DEF HasRun
      <3> QED BY <1>4, <2>1
    <2>3. PICK h : h = [n \in 0 .. m - 1 |-> IF n = 0 THEN v ELSE CloseCall(h[n - 1], calls[n])]
      BY <2>2 DEF IsClosing
    <2> DEFINE g == [n \in 0 .. m |-> IF n = m THEN CloseCall(h[m - 1], calls[m]) ELSE h[n]]
    <2>4. \A n \in 0 .. m - 1 : g[n] = h[n] /\ h[n] = IF n = 0 THEN v ELSE CloseCall(h[n - 1], calls[n])
      BY <2>1, <2>3
    <2>5. \A n \in 0 .. m : g[n] = IF n = 0 THEN v ELSE CloseCall(g[n - 1], calls[n])
      <3> TAKE n \in 0 .. m
      <3>1. CASE n = m
        <4>1. g[n] = CloseCall(h[m - 1], calls[m])
          BY <3>1
        <4>2. h[m - 1] = g[m - 1]
          BY <2>1, <2>4
        <4> QED BY <1>6, <3>1, <4>1, <4>2
      <3>2. CASE n # m
        <4>1. n \in 0 .. m - 1 /\ (n # 0 => n - 1 \in 0 .. m - 1)
          BY <2>1, <3>2
        <4> HIDE DEF g
        <4> QED BY <2>4, <4>1
      <3> QED BY <3>1, <3>2
    <2>6. g = [n \in 0 .. m |-> g[n]]
      OBVIOUS
    <2> HIDE DEF g
    <2>7. g = [n \in 0 .. m |-> IF n = 0 THEN v ELSE CloseCall(g[n - 1], calls[n])]
      BY <2>5, <2>6
    <2>8. HasRun(m)
      BY <2>7 DEF IsClosing
    <2> QED BY <1>4, <2>8
  <1> QED BY <1>5, <1>6

(* x is v after its first m calls were closed.                              *)
ClosedUpTo(x, m, calls, v) ==
    /\ x \in Seq(ClientItems) /\ Len(x) = Len(v)
    /\ \A i \in 1 .. Len(v) : x[i].what = v[i].what /\ x[i].deltas = v[i].deltas /\ x[i].reopened = v[i].reopened
    /\ \A j \in 1 .. m : /\ x[calls[j].item + 1].closes = 1
                         /\ x[calls[j].item + 1].final = NormalizeArguments(calls[j].args)
    /\ \A i \in 1 .. Len(v) : (\A j \in 1 .. m : i # calls[j].item + 1) => x[i] = v[i]

(* Closing the next call keeps what the calls before it show.               *)
LEMMA OneMoreClosed ==
    ASSUME NEW calls \in Seq(Entries), NEW v \in Seq(ClientItems),
           \A j \in 1 .. Len(calls) : /\ calls[j].item + 1 \in 1 .. Len(v)
                                      /\ v[calls[j].item + 1].closes = 0 /\ calls[j].args # <<>>,
           \A j, k \in 1 .. Len(calls) : calls[j].item = calls[k].item => j = k,
           NEW m \in Nat, m + 1 <= Len(calls), NEW x, ClosedUpTo(x, m, calls, v),
           NEW y, y = CloseCall(x, calls[m + 1])
    PROVE  ClosedUpTo(y, m + 1, calls, v)
  <1>1. Len(calls) \in Nat /\ m + 1 \in 1 .. Len(calls) /\ \A j \in 1 .. m : j \in 1 .. Len(calls) /\ j # m + 1
    OBVIOUS
  <1>2. PICK e : e = calls[m + 1]
    OBVIOUS
  <1>3. /\ e \in Entries /\ e.item \in Nat /\ e.args \in Seq(Fragments) /\ e.args # <<>>
        /\ e.item + 1 \in 1 .. Len(v) /\ v[e.item + 1].closes = 0
    BY <1>1, <1>2, EntryAt
  <1>4. PICK a : a = NormalizeArguments(e.args)
    OBVIOUS
  <1>5. a \in Seq(ShownPieces)
    <2>1. a \in Seq(Fragments)
      BY <1>3, <1>4, NormalizedKeeps
    <2> HIDE DEF Fragments
    <2> QED BY <2>1 DEF ShownPieces
  <1>6. x \in Seq(ClientItems) /\ Len(x) = Len(v) /\ y = Done(x, e.item, a)
    BY <1>2, <1>4 DEF ClosedUpTo, CloseCall
  <1>7. /\ y \in Seq(ClientItems) /\ Len(y) = Len(x)
        /\ \A k \in 1 .. Len(x) : k # e.item + 1 => y[k] = x[k]
        /\ \A k \in 1 .. Len(x) : /\ y[k].what = x[k].what /\ y[k].deltas = x[k].deltas
                                  /\ y[k].reopened = x[k].reopened
        /\ y[e.item + 1].closes = x[e.item + 1].closes + 1 /\ y[e.item + 1].final = a
    <2>1. e.item + 1 \in 1 .. Len(x)
      BY <1>3, <1>6
    <2>2. AfterDone(y, x, e.item, a)
      BY <1>3, <1>5, <1>6, <2>1, DoneView
    <2> QED BY <2>2, Zenon DEF AfterDone
  <1>8. \A j \in 1 .. m : calls[j].item \in Nat /\ calls[j].item + 1 \in 1 .. Len(v) /\ calls[j].item # e.item
    BY <1>1, <1>2, EntryAt
  <1>9. x[e.item + 1] = v[e.item + 1]
    <2>1. \A j \in 1 .. m : e.item + 1 # calls[j].item + 1
      <3> TAKE j \in 1 .. m
      <3>1. e.item \in Nat /\ calls[j].item \in Nat /\ calls[j].item # e.item
        BY <1>3, <1>8
      <3> QED BY ONLY <3>1
    <2> QED BY <1>3, <2>1 DEF ClosedUpTo
  <1>10. y[e.item + 1].closes = 1 /\ y[e.item + 1].final = a
    BY <1>3, <1>7, <1>9
  <1>11. \A j \in 1 .. m : y[calls[j].item + 1] = x[calls[j].item + 1]
    <2> TAKE j \in 1 .. m
    <2>1. PICK k \in 1 .. Len(x) : k = calls[j].item + 1
      BY <1>6, <1>8
    <2>2. k # e.item + 1
      BY <1>3, <1>8, <2>1
    <2> QED BY <1>7, <2>1, <2>2
  <1>12. \A j \in 1 .. m + 1 : j \in 1 .. m \/ j = m + 1
    OBVIOUS
  <1>13. \A j \in 1 .. m + 1 : /\ y[calls[j].item + 1].closes = 1
                               /\ y[calls[j].item + 1].final = NormalizeArguments(calls[j].args)
    BY <1>2, <1>4, <1>10, <1>11, <1>12 DEF ClosedUpTo
  <1>14. ASSUME NEW i \in 1 .. Len(v), \A j \in 1 .. m + 1 : i # calls[j].item + 1 PROVE y[i] = v[i]
    <2>1. i # e.item + 1
      BY <1>1, <1>2, <1>14
    <2>2. \A j \in 1 .. m : i # calls[j].item + 1
      BY <1>14
    <2>3. x[i] = v[i]
      BY <2>2 DEF ClosedUpTo
    <2> QED BY <1>6, <1>7, <2>1, <2>3
  <1>15. \A i \in 1 .. Len(v) : y[i].what = v[i].what /\ y[i].deltas = v[i].deltas /\ y[i].reopened = v[i].reopened
    BY <1>6, <1>7 DEF ClosedUpTo
  <1> QED BY <1>6, <1>7, <1>13, <1>14, <1>15 DEF ClosedUpTo

(* finish closes every call once, with its normalised arguments.            *)
LEMMA CallsClose ==
    ASSUME NEW t, NEW calls \in Seq(Entries), calls = t.calls, NEW v \in Seq(ClientItems),
           \A j \in 1 .. Len(calls) : /\ calls[j].item + 1 \in 1 .. Len(v)
                                      /\ v[calls[j].item + 1].closes = 0 /\ calls[j].args # <<>>,
           \A j, k \in 1 .. Len(calls) : calls[j].item = calls[k].item => j = k
    PROVE  ClosedUpTo(CloseCalls(t, v), Len(calls), calls, v)
  <1> DEFINE g == CHOOSE h : IsClosing(h, Len(t.calls), t.calls, v)
  <1>1. CloseCalls(t, v) = g[Len(t.calls)]
    BY Zenon DEF CloseCalls, IsClosing, CloseCall
  <1>2. g = [n \in 0 .. Len(calls) |-> IF n = 0 THEN v ELSE CloseCall(g[n - 1], calls[n])]
    <2>1. IsClosing(g, Len(t.calls), t.calls, v)
      BY ClosingRuns, Zenon
    <2> QED BY <2>1, SMTT(30) DEF IsClosing
  <1>3. Len(calls) \in Nat
    OBVIOUS
  <1> HIDE DEF g
  <1> DEFINE S == {m \in Nat : m <= Len(calls) /\ ~ClosedUpTo(g[m], m, calls, v)}
  <1>4. S = {}
    <2> SUFFICES ASSUME S # {} PROVE FALSE
      OBVIOUS
    <2>1. PICK m \in S : \A j \in S : m <= j
      <3> S \in SUBSET Nat
        OBVIOUS
      <3> HIDE DEF S
      <3> QED BY LeastOf
    <2>2. m \in Nat /\ m \in 0 .. Len(calls) /\ ~ClosedUpTo(g[m], m, calls, v)
      BY <1>3, <2>1, SMTT(30)
    <2>3. CASE m = 0
      <3>1. g[m] = v
        BY <1>2, <2>2, <2>3
      <3> QED BY <2>2, <2>3, <3>1 DEF ClosedUpTo
    <2>4. CASE m # 0
      <3>1. PICK n \in Nat : n + 1 = m /\ n = m - 1
        BY <2>2, <2>4
      <3>2. n <= Len(calls) /\ n + 1 <= Len(calls) /\ ~(m <= n)
        BY <1>3, <2>2, <3>1
      <3>3. ClosedUpTo(g[n], n, calls, v)
        BY <2>1, <3>2
      <3>4. g[m] = CloseCall(g[n], calls[n + 1])
        BY <1>2, <2>2, <2>4, <3>1, SMTT(30)
      <3>5. ClosedUpTo(g[m], n + 1, calls, v)
        BY <3>2, <3>3, <3>4, OneMoreClosed, Zenon
      <3> QED BY <2>2, <3>1, <3>5
    <2> QED BY <2>3, <2>4
  <1>5. ClosedUpTo(g[Len(calls)], Len(calls), calls, v)
    BY <1>3, <1>4
  <1> QED BY <1>1, <1>5

-----------------------------------------------------------------------------
(* The invariant gives the property.                                        *)

(* Fragments of one call have at most one owner.                            *)
LEMMA OneOwner ==
    ASSUME NEW args, DOMAIN args = 1 .. Len(args), NEW c,
           \A i \in 1 .. Len(args) : args[i].call = c
    PROVE  Cardinality(CallOwners(args)) <= 1
  <1>1. CallOwners(args) \subseteq {c}
    BY DEF CallOwners
  <1>2. CallOwners(args) = {} \/ CallOwners(args) = {c}
    BY <1>1
  <1>3. Cardinality({}) = 0 /\ Cardinality({c}) = 1
    BY FS_EmptySet, FS_Singleton
  <1> QED BY <1>2, <1>3

(* The invariant implies the property.                                      *)
LEMMA ChatInvGives ==
    ChatInv => CallsTranslated
  <1> SUFFICES ASSUME ChatInv PROVE CallsTranslated
    OBVIOUS
  <1> DEFINE calls == translator.calls
  <1>1. /\ translator \in Translators /\ view \in Seq(ClientItems) /\ calls \in Seq(Entries)
        /\ Placed(translator.reasoning, translator.text, calls, view)
        /\ CallsSound(calls, view, callSent, callStyle)
        /\ DOMAIN view = 1 .. Len(view) /\ DOMAIN calls = 1 .. Len(calls)
    BY DEF ChatInv, Translates, Translators
  <1>2. translator.completed => AllClosed(calls, view)
    BY DEF ChatInv
  <1>3. ~translator.completed => StillOpen(translator.reasoned, view)
    BY DEF ChatInv
  <1>4. \A j \in 1 .. Len(calls) :
          /\ calls[j] \in Entries /\ calls[j].args \in Seq(Fragments) /\ calls[j].args # <<>>
          /\ calls[j].item \in Nat /\ calls[j].item + 1 \in 1 .. Len(view) /\ view[calls[j].item + 1].what = "call"
          /\ EntryOwned(calls[j], view[calls[j].item + 1].deltas, callStyle)
    <2> HIDE DEF calls
    <2> TAKE j \in 1 .. Len(calls)
    <2>1. EntryOwned(calls[j], view[calls[j].item + 1].deltas, callStyle)
      BY <1>1 DEF CallsSound
    <2>2. calls[j].item + 1 \in 1 .. Len(view) /\ view[calls[j].item + 1].what = "call"
      BY <1>1 DEF Placed
    <2>3. calls[j].args # <<>>
      BY <2>1 DEF EntryOwned
    <2> QED BY <1>1, <2>1, <2>2, <2>3, EntryAt
  <1> HIDE DEF calls
  <1>5. \A j \in 1 .. Len(calls) :
          LET a == view[calls[j].item + 1].final
          IN IF translator.completed THEN a = NormalizeArguments(calls[j].args) ELSE a = <<>>
    BY <1>2, <1>3, <1>4 DEF AllClosed, StillOpen
  <1>6. ASSUME NEW j \in 1 .. Len(calls)
        PROVE  /\ Cardinality(CallOwners(view[calls[j].item + 1].deltas)) <= 1
               /\ Cardinality(CallOwners(view[calls[j].item + 1].final)) <= 1
               /\ ~calls[j].desynced => view[calls[j].item + 1].deltas = calls[j].args
               /\ ~translator.completed \/ view[calls[j].item + 1].final # <<>>
    <2>1. PICK e : e = calls[j]
      OBVIOUS
    <2>2. PICK it : it = view[e.item + 1]
      OBVIOUS
    <2>3. /\ e.args \in Seq(Fragments) /\ e.args # <<>> /\ EntryOwned(e, it.deltas, callStyle)
          /\ e.item + 1 \in 1 .. Len(view)
      BY <1>4, <2>1, <2>2
    <2>4. it.deltas \in Seq(ShownPieces)
      <3>1. it \in ClientItems
        BY <1>1, <2>2, <2>3
      <3> QED BY <3>1 DEF ClientItems
    <2>5. Cardinality(CallOwners(it.deltas)) <= 1
      <3>1. \A i \in 1 .. Len(it.deltas) : it.deltas[i].call = CallOwner(e)
        BY <2>3 DEF EntryOwned
      <3>2. DOMAIN it.deltas = 1 .. Len(it.deltas)
        BY <2>4
      <3> QED BY <3>1, <3>2, OneOwner, Zenon
    <2>6. PICK a : a = NormalizeArguments(e.args)
      OBVIOUS
    <2>7. /\ a \in Seq(Fragments) /\ a # <<>>
          /\ \A i \in 1 .. Len(a) : \E k \in 1 .. Len(e.args) : a[i] = e.args[k]
      <3>1. PICK args : args = e.args
        OBVIOUS
      <3>2. args \in Seq(Fragments) /\ args # <<>> /\ a = NormalizeArguments(args)
        BY <2>3, <2>6, <3>1
      <3>3. /\ a \in Seq(Fragments) /\ a # <<>>
            /\ \A i \in 1 .. Len(a) : \E k \in 1 .. Len(args) : a[i] = args[k]
        BY <3>2, NormalizedKeeps
      <3> QED BY <3>1, <3>3
    <2>8. Cardinality(CallOwners(a)) <= 1
      <3>1. \A i \in 1 .. Len(a) : a[i].call = CallOwner(e)
        BY <2>3, <2>7 DEF EntryOwned
      <3>2. DOMAIN a = 1 .. Len(a)
        BY <2>7
      <3> QED BY <3>1, <3>2, OneOwner, Zenon
    <2>9. Cardinality(CallOwners(<<>>)) <= 1
      <3>1. CallOwners(<<>>) = {}
        BY DEF CallOwners
      <3> QED BY <3>1, FS_EmptySet
    <2>10. IF translator.completed THEN it.final = a ELSE it.final = <<>>
      BY <1>5, <2>1, <2>2, <2>6
    <2>11. ~e.desynced => it.deltas = e.args
      BY <2>3 DEF EntryOwned
    <2> QED BY <2>1, <2>2, <2>5, <2>7, <2>8, <2>9, <2>10, <2>11
  <1>7. CallsKeptApart
    <2>1. ASSUME NEW i \in DOMAIN view, view[i].what = "call"
          PROVE  Cardinality(CallOwners(view[i].deltas)) <= 1 /\ Cardinality(CallOwners(view[i].final)) <= 1
      <3>1. PICK j \in 1 .. Len(calls) : i = calls[j].item + 1
        BY <1>1, <2>1 DEF Placed
      <3> QED BY <1>6, <3>1
    <2>2. \A i \in DOMAIN calls :
            /\ view[calls[i].item + 1].what = "call"
            /\ ~calls[i].desynced => view[calls[i].item + 1].deltas = calls[i].args
            /\ ~translator.completed \/ view[calls[i].item + 1].final # <<>>
      BY <1>1, <1>4, <1>6
    <2> QED BY <2>1, <2>2, Zenon DEF CallsKeptApart, calls
  <1>8. IdentifiedCallsWhole
    <2> SUFFICES ASSUME translator.completed, callStyle \in {"indexed", "ided"}, NEW c \in Tools, Finished(c)
                 PROVE  \E i \in DOMAIN view : view[i].what = "call" /\ view[i].final = NormalizeArguments(callSent[c])
      BY DEF IdentifiedCallsWhole
    <2>1. callSent[c] # <<>> /\ Last(callSent[c]).piece # "open"
      BY DEF Finished
    <2>2. PICK j \in 1 .. Len(calls) : CallOwner(calls[j]) = c
      BY <1>1, <2>1 DEF CallsSound
    <2>3. MergedFrom(c, callSent[c], calls[j].args)
      BY <1>1, <2>2 DEF CallsSound
    <2>4. NormalizeArguments(callSent[c]) = NormalizeArguments(calls[j].args)
      BY <2>1, <2>3, NormalizedWhole
    <2> QED BY <1>1, <1>4, <1>5, <2>4
  <1>9. ItemsClosedOnce
    <2> SUFFICES ASSUME NEW i \in 1 .. Len(view)
                 PROVE  /\ view[i].closes <= 1 /\ (view[i].what # "reasoning" => ~view[i].reopened)
                        /\ translator.completed => view[i].closes = 1
      BY <1>1 DEF ItemsClosedOnce
    <2>1. CASE translator.completed
      BY <1>2, <2>1 DEF AllClosed
    <2>2. CASE ~translator.completed
      BY <1>3, <2>2 DEF StillOpen
    <2> QED BY <2>1, <2>2
  <1> QED BY <1>7, <1>8, <1>9 DEF CallsTranslated

-----------------------------------------------------------------------------
(* The steps of the translator.                                             *)

(* The translator and the client while the stream goes on.                  *)
Streaming(t, v, sent, style) ==
    /\ Translates(t, v) /\ StillOpen(t.reasoned, v) /\ t.completed = FALSE
    /\ CallsSound(t.calls, v, sent, style)

(* u is t with its reasoning or its text at output index n.                 *)
Uttered(u, t, what, n, next) ==
    /\ u \in Translators /\ u.calls = t.calls /\ u.reasoned = t.reasoned /\ u.completed = t.completed
    /\ u.next = next
    /\ Moved(what, n, t.reasoning, t.text, u.reasoning, u.text)

(* The translator with an output index for its reasoning.                   *)
LEMMA WithReasoning ==
    ASSUME NEW t \in Translators, NEW n \in Nat, NEW m \in Nat,
           NEW u, u = [t EXCEPT !.reasoning = n, !.next = m]
    PROVE  Uttered(u, t, "reasoning", n, m)
BY DEF Translators, Uttered, Moved

(* The translator with an output index for its text.                        *)
LEMMA WithText ==
    ASSUME NEW t \in Translators, NEW n \in Nat, NEW m \in Nat,
           NEW u, u = [t EXCEPT !.text = n, !.next = m]
    PROVE  Uttered(u, t, "text", n, m)
BY DEF Translators, Uttered, Moved

(* A delta of the reasoning or of the text, added first where it is new.    *)
LEMMA SpeechKeeps ==
    ASSUME NEW t, NEW v, NEW sent, NEW style, Streaming(t, v, sent, style),
           NEW what \in {"reasoning", "text"}, NEW new \in BOOLEAN, NEW n \in Nat,
           NEW x, ItemReady(n, what, new, x, v),
           UtteranceAt(what, new, n, t.reasoning, t.text),
           NEW u, Uttered(u, t, what, n, Len(x)),
           NEW piece \in ShownPieces, NEW w, w = Delta(x, n, piece)
    PROVE  Streaming(u, w, sent, style)
  <1>1. /\ t \in Translators /\ v \in Seq(ClientItems) /\ (t.reasoned => t.reasoning # NoItem)
        /\ Placed(t.reasoning, t.text, t.calls, v) /\ StillOpen(t.reasoned, v)
        /\ CallsSound(t.calls, v, sent, style) /\ t.completed = FALSE
    BY DEF Streaming, Translates
  <1>2. DeltaKeeps(w, x, n, piece, t.reasoned)
    <2>1. what \in {"reasoning", "text", "call"} /\ (new /\ what = "reasoning" => ~t.reasoned)
      BY <1>1 DEF UtteranceAt
    <2> QED BY <1>1, <2>1, DeltaOpen, Zenon
  <1>3. /\ StillOpen(t.reasoned, w) /\ w \in Seq(ClientItems) /\ Len(w) = Len(x)
        /\ \A k \in 1 .. Len(x) : w[k].what = x[k].what
        /\ \A k \in 1 .. Len(x) : k # n + 1 => w[k] = x[k]
    BY <1>2, Zenon DEF DeltaKeeps
  <1>4. Placed(u.reasoning, u.text, u.calls, x)
    <2>1. Moved(what, n, t.reasoning, t.text, u.reasoning, u.text) /\ u.calls = t.calls
      BY Zenon DEF Uttered
    <2>2. Placed(u.reasoning, u.text, t.calls, x)
      BY <1>1, <2>1, SpokenPlaces, Zenon
    <2> QED BY <2>1, <2>2, Zenon
  <1>5. Placed(u.reasoning, u.text, u.calls, w)
    BY <1>3, <1>4, SamePlaces
  <1>6. Translates(u, w)
    <2>1. u.reasoned => u.reasoning # NoItem
      BY <1>1 DEF Uttered, Moved, NoItem
    <2> QED BY <1>3, <1>5, <2>1 DEF Uttered, Translates
  <1>7. CallsSound(t.calls, w, sent, style)
    <2>1. ASSUME NEW j \in 1 .. Len(t.calls)
          PROVE  w[t.calls[j].item + 1].deltas = v[t.calls[j].item + 1].deltas
      <3>1. PICK k \in 1 .. Len(v) : k = t.calls[j].item + 1 /\ v[k].what = "call"
        BY <1>1 DEF Placed
      <3>2. x[k] = v[k] /\ k \in 1 .. Len(x) /\ x[n + 1].what = what
        BY DEF ItemReady
      <3>3. k # n + 1
        BY <3>1, <3>2
      <3> QED BY <1>3, <3>1, <3>2, <3>3
    <2> QED BY <1>1, <2>1, SameCalls
  <1> QED BY <1>1, <1>3, <1>6, <1>7 DEF Uttered, Streaming

(* A stream that goes on is what the invariant says of it.                  *)
LEMMA StreamingIs ==
    ASSUME ChatInv, ~translator.completed
    PROVE  Streaming(translator, view, callSent, callStyle)
  <1>1. translator.completed = FALSE
    BY DEF ChatInv, Translates, Translators
  <1> QED BY <1>1 DEF ChatInv, Streaming

(* A step after which the stream goes on.                                   *)
LEMMA StreamingKeeps ==
    ASSUME ChatTyped', Streaming(translator', view', callSent', callStyle')
    PROVE  ChatInv'
BY DEF ChatInv, Streaming

(* No item yet is not an output index.                                      *)
LEMMA OutputIndex ==
    ASSUME NEW t, NEW v, Translates(t, v)
    PROVE  /\ t.next \in Nat /\ t.next = Len(v)
           /\ t.text # NoItem => t.text \in Nat /\ t.text + 1 \in 1 .. Len(v) /\ v[t.text + 1].what = "text"
           /\ t.reasoning # NoItem => /\ t.reasoning \in Nat /\ t.reasoning + 1 \in 1 .. Len(v)
                                      /\ v[t.reasoning + 1].what = "reasoning"
BY DEF Translates, Placed, Translators

(* Reasoning, also after it was closed.                                     *)
LEMMA ReasonKeeps ==
    ASSUME ChatInv, Reason
    PROVE  ChatInv'
  <1>1. /\ ~translator.completed /\ callStyle' = callStyle /\ callSent' = callSent
    BY DEF Reason, Sending
  <1>2. Streaming(translator, view, callSent, callStyle) /\ ChatTyped'
    BY <1>1, StreamingIs DEF ChatInv, ChatTyped
  <1>3. translator \in Translators /\ view \in Seq(ClientItems) /\ Translates(translator, view)
    BY <1>2 DEF Streaming, Translates
  <1>4. /\ "thought" \in ShownPieces /\ "reasoning" \in {"reasoning", "text"}
        /\ "reasoning" \in {"reasoning", "text", "call"}
    BY DEF ShownPieces
  <1>5. CASE translator.reasoning = NoItem
    <2>1. PICK n : n = translator.next
      OBVIOUS
    <2>2. PICK u : u = [translator EXCEPT !.reasoning = n, !.next = n + 1]
      OBVIOUS
    <2>3. PICK x : x = Added(view, "reasoning")
      OBVIOUS
    <2>4. n \in Nat /\ n = Len(view)
      BY <1>3, <2>1, OutputIndex
    <2>5. ItemReady(n, "reasoning", TRUE, x, view)
      BY <1>3, <1>4, <2>3, <2>4, NewItemReady
    <2>6. u.reasoning = n /\ Uttered(u, translator, "reasoning", n, n + 1)
      <3>1. n + 1 \in Nat
        BY <2>4
      <3>2. Uttered(u, translator, "reasoning", n, n + 1)
        BY <1>3, <2>2, <2>4, <3>1, WithReasoning
      <3> QED BY <3>2 DEF Uttered, Moved
    <2>7. n + 1 = Len(x)
      BY <1>3, <2>4, <2>5 DEF ItemReady
    <2>8. translator' = u /\ view' = Delta(x, n, "thought")
      BY <1>5, <2>1, <2>2, <2>3, <2>6 DEF Reason
    <2>9. Uttered(u, translator, "reasoning", n, Len(x))
      BY <2>6, <2>7
    <2>10. UtteranceAt("reasoning", TRUE, n, translator.reasoning, translator.text)
      BY <1>5 DEF UtteranceAt
    <2>11. Streaming(u, view', callSent, callStyle)
      BY <1>2, <1>4, <2>4, <2>5, <2>8, <2>9, <2>10, SpeechKeeps, Zenon
    <2> QED BY <1>1, <1>2, <2>8, <2>11, StreamingKeeps
  <1>6. CASE translator.reasoning # NoItem
    <2>1. PICK n : n = translator.reasoning
      OBVIOUS
    <2>2. n \in Nat /\ n + 1 \in 1 .. Len(view) /\ view[n + 1].what = "reasoning"
      BY <1>3, <1>6, <2>1, OutputIndex
    <2>3. ItemReady(n, "reasoning", FALSE, view, view)
      BY <1>3, <2>2 DEF ItemReady
    <2>4. Uttered(translator, translator, "reasoning", n, Len(view))
      BY <1>3, <2>1, OutputIndex DEF Uttered, Moved
    <2>5. translator' = translator /\ view' = Delta(view, n, "thought")
      BY <1>6, <2>1 DEF Reason
    <2>6. UtteranceAt("reasoning", FALSE, n, translator.reasoning, translator.text)
      BY <2>1 DEF UtteranceAt
    <2>7. Streaming(translator, view', callSent, callStyle)
      BY <1>2, <1>4, <2>2, <2>3, <2>4, <2>5, <2>6, SpeechKeeps, Zenon
    <2> QED BY <1>1, <1>2, <2>5, <2>7, StreamingKeeps
  <1> QED BY <1>5, <1>6

(* Closing the reasoning leaves a stream that goes on.                      *)
LEMMA ClosedStreams ==
    ASSUME NEW t, NEW v, NEW sent, NEW style, Streaming(t, v, sent, style),
           NEW r, r = CloseReasoning(t, v)
    PROVE  /\ Streaming(r[1], r[2], sent, style) /\ r[1].calls = t.calls /\ r[1].text = t.text
           /\ r[1].next = t.next /\ (r[1].reasoning # NoItem => r[1].reasoned)
  <1>1. /\ Translates(r[1], r[2]) /\ StillOpen(r[1].reasoned, r[2]) /\ r[1].completed = FALSE
        /\ r[1].calls = t.calls /\ r[1].text = t.text /\ r[1].next = t.next
        /\ r[1].reasoning # NoItem => r[1].reasoned
        /\ \A i \in 1 .. Len(v) : r[2][i].what = v[i].what /\ r[2][i].deltas = v[i].deltas
    <2>1. Translates(t, v) /\ StillOpen(t.reasoned, v) /\ ~t.completed
      BY DEF Streaming
    <2>2. ReasoningClosed(r, t, v)
      BY <2>1, ReasoningCloses, Zenon
    <2> QED BY <2>2, Zenon DEF ReasoningClosed
  <1>2. CallsSound(t.calls, r[2], sent, style)
    <2>1. \A j \in 1 .. Len(t.calls) : t.calls[j].item + 1 \in 1 .. Len(v)
      BY DEF Streaming, Translates, Placed
    <2> QED BY <1>1, <2>1, SameCalls DEF Streaming
  <1> QED BY <1>1, <1>2 DEF Streaming

(* Text, after the reasoning was closed.                                    *)
LEMMA SpeakKeeps ==
    ASSUME ChatInv, Speak
    PROVE  ChatInv'
  <1>1. /\ ~translator.completed /\ callStyle' = callStyle /\ callSent' = callSent
    BY DEF Speak, Sending
  <1>2. Streaming(translator, view, callSent, callStyle) /\ ChatTyped'
    BY <1>1, StreamingIs DEF ChatInv, ChatTyped
  <1>3. PICK r : r = CloseReasoning(translator, view)
    OBVIOUS
  <1>4. PICK t : t = r[1]
    OBVIOUS
  <1>5. PICK v : v = r[2]
    OBVIOUS
  <1>6. Streaming(t, v, callSent, callStyle) /\ t.text = translator.text
    BY <1>2, <1>3, <1>4, <1>5, ClosedStreams
  <1>7. t \in Translators /\ v \in Seq(ClientItems) /\ Translates(t, v)
    BY <1>6 DEF Streaming, Translates
  <1>8. "word" \in ShownPieces /\ "text" \in {"reasoning", "text"} /\ "text" \in {"reasoning", "text", "call"}
    BY DEF ShownPieces
  <1>9. CASE t.text = NoItem
    <2>1. PICK n : n = t.next
      OBVIOUS
    <2>2. PICK u : u = [t EXCEPT !.text = n, !.next = n + 1]
      OBVIOUS
    <2>3. PICK x : x = Added(v, "text")
      OBVIOUS
    <2>4. n \in Nat /\ n = Len(v)
      BY <1>7, <2>1, OutputIndex
    <2>5. ItemReady(n, "text", TRUE, x, v)
      BY <1>7, <1>8, <2>3, <2>4, NewItemReady
    <2>6. u.text = n /\ Uttered(u, t, "text", n, n + 1)
      <3>1. n + 1 \in Nat
        BY <2>4
      <3>2. Uttered(u, t, "text", n, n + 1)
        BY <1>7, <2>2, <2>4, <3>1, WithText
      <3> QED BY <3>2 DEF Uttered, Moved
    <2>7. n + 1 = Len(x)
      BY <1>7, <2>4, <2>5 DEF ItemReady
    <2>8. translator' = u /\ view' = Delta(x, n, "word")
      BY <1>3, <1>4, <1>5, <1>6, <1>9, <2>1, <2>2, <2>3, <2>6 DEF Speak
    <2>9. Uttered(u, t, "text", n, Len(x))
      BY <2>6, <2>7
    <2>10. UtteranceAt("text", TRUE, n, t.reasoning, t.text)
      BY <1>9 DEF UtteranceAt
    <2>11. Streaming(u, view', callSent, callStyle)
      BY <1>6, <1>8, <2>4, <2>5, <2>8, <2>9, <2>10, SpeechKeeps, Zenon
    <2> QED BY <1>1, <1>2, <2>8, <2>11, StreamingKeeps
  <1>10. CASE t.text # NoItem
    <2>1. PICK n : n = t.text
      OBVIOUS
    <2>2. n \in Nat /\ n + 1 \in 1 .. Len(v) /\ v[n + 1].what = "text"
      BY <1>7, <1>10, <2>1, OutputIndex
    <2>3. ItemReady(n, "text", FALSE, v, v)
      BY <1>7, <2>2 DEF ItemReady
    <2>4. Uttered(t, t, "text", n, Len(v))
      BY <1>7, <2>1, OutputIndex DEF Uttered, Moved
    <2>5. translator' = t /\ view' = Delta(v, n, "word")
      BY <1>3, <1>4, <1>5, <1>6, <1>10, <2>1 DEF Speak
    <2>6. UtteranceAt("text", FALSE, n, t.reasoning, t.text)
      BY <2>1 DEF UtteranceAt
    <2>7. Streaming(t, view', callSent, callStyle)
      BY <1>6, <1>8, <2>2, <2>3, <2>4, <2>5, <2>6, SpeechKeeps, Zenon
    <2> QED BY <1>1, <1>2, <2>5, <2>7, StreamingKeeps
  <1> QED BY <1>9, <1>10

(* A fragment of a call, after the reasoning was closed.                    *)
LEMMA CallKeeps ==
    ASSUME ChatInv, NEW c \in Tools, CallTool(c)
    PROVE  ChatInv'
  <1>1. ~translator.completed /\ callStyle' = callStyle
    BY DEF CallTool, Sending
  <1>2. Streaming(translator, view, callSent, callStyle) /\ ChatTyped
    BY <1>1, StreamingIs DEF ChatInv
  <1>3. PICK k : k = CloseReasoning(translator, view)
    OBVIOUS
  <1>4. PICK t : t = k[1]
    OBVIOUS
  <1>5. PICK v : v = k[2]
    OBVIOUS
  <1>6. Streaming(t, v, callSent, callStyle)
    BY <1>2, <1>3, <1>4, <1>5, ClosedStreams
  <1>7. PICK index : index = IF callStyle = "indexed" THEN c ELSE 0
    OBVIOUS
  <1>8. PICK id : id = IF callStyle = "ided" \/ (callSent[c] = <<>> /\ callStyle # "anon") THEN c ELSE 0
    OBVIOUS
  <1>9. PICK name : name = IF callSent[c] = <<>> THEN c ELSE 0
    OBVIOUS
  <1>10. FragmentNames(callStyle, callSent, c, index, id, name)
    BY <1>7, <1>8, <1>9 DEF FragmentNames
  <1>11. PICK piece \in NextPieces(callSent[c]) :
           LET r == ToolDelta(t, v, index, id, name, Fragment(c, piece))
           IN /\ translator' = r[1] /\ view' = r[2]
              /\ callSent' = [callSent EXCEPT ![c] = Append(@, Fragment(c, piece))]
    BY <1>3, <1>4, <1>5, <1>7, <1>8, <1>9 DEF CallTool
  <1>12. PICK f : f = Fragment(c, piece)
    OBVIOUS
  <1>13. PICK r : r = ToolDelta(t, v, index, id, name, f)
    OBVIOUS
  <1>14. translator' = r[1] /\ view' = r[2] /\ callSent' = [callSent EXCEPT ![c] = Append(@, f)]
    BY <1>11, <1>12, <1>13
  <1>15. /\ callSent \in [Tools -> Seq(Fragments)] /\ callStyle \in Styles
         /\ \A d \in Tools : callSent[d] \in SentShapes(d)
    BY <1>2 DEF ChatTyped
  <1>16. f \in Fragments /\ Append(callSent[c], f) \in SentShapes(c)
    BY <1>12, <1>15, ShapeGrows
  <1>17. SentMore(callSent, callSent', c, f)
    BY <1>14, <1>15, <1>16, SentGrows
  <1>18. ChatTyped'
    BY <1>1, <1>15, <1>16, <1>17 DEF SentMore, ChatTyped
  <1>19. /\ Translates(r[1], r[2]) /\ StillOpen(r[1].reasoned, r[2]) /\ r[1].completed = FALSE
         /\ CallsSound(r[1].calls, r[2], callSent', callStyle)
    <2>1. /\ Translates(t, v) /\ StillOpen(t.reasoned, v) /\ t.completed = FALSE
          /\ CallsSound(t.calls, v, callSent, callStyle)
      BY <1>6 DEF Streaming
    <2> QED BY <1>10, <1>12, <1>13, <1>15, <1>16, <1>17, <2>1, ToolKeeps, Zenon
  <1>20. Streaming(translator', view', callSent', callStyle')
    BY <1>1, <1>14, <1>19 DEF Streaming
  <1> QED BY <1>18, <1>20, StreamingKeeps

(* finish closes all that is still open.                                    *)
LEMMA CompleteKeeps ==
    ASSUME ChatInv, CompleteResponse
    PROVE  ChatInv'
  <1>1. ~translator.completed /\ callStyle' = callStyle /\ callSent' = callSent
    BY DEF CompleteResponse
  <1>2. Streaming(translator, view, callSent, callStyle) /\ ChatTyped'
    BY <1>1, StreamingIs DEF ChatInv, ChatTyped
  <1>3. PICK k : k = CloseReasoning(translator, view)
    OBVIOUS
  <1>4. PICK t : t = k[1]
    OBVIOUS
  <1>5. PICK v : v = k[2]
    OBVIOUS
  <1>6. Streaming(t, v, callSent, callStyle) /\ t.text = translator.text /\ (t.reasoning # NoItem => t.reasoned)
    BY <1>2, <1>3, <1>4, <1>5, ClosedStreams
  <1>7. /\ t \in Translators /\ v \in Seq(ClientItems) /\ Translates(t, v) /\ t.calls \in Seq(Entries)
        /\ Placed(t.reasoning, t.text, t.calls, v) /\ StillOpen(t.reasoned, v)
        /\ CallsSound(t.calls, v, callSent, callStyle)
        /\ Len(v) = t.next /\ (t.reasoned => t.reasoning # NoItem)
    BY <1>6 DEF Streaming, Translates, Translators
  <1>8. PICK calls : calls = t.calls
    OBVIOUS
  <1>9. PICK x : x = IF t.text = NoItem THEN v ELSE Done(v, t.text, v[t.text + 1].deltas)
    OBVIOUS
  <1>10. view' = CloseCalls(t, x) /\ translator' = [t EXCEPT !.completed = TRUE]
    BY <1>3, <1>4, <1>5, <1>6, <1>9 DEF CompleteResponse
  <1>11. PICK y : y = view'
    OBVIOUS
  <1>12. PICK u : u = translator'
    OBVIOUS
  <1>13. /\ u \in Translators /\ u.completed = TRUE /\ u.calls = calls /\ u.text = t.text /\ u.next = t.next
         /\ u.reasoning = t.reasoning /\ u.reasoned = t.reasoned
    BY <1>7, <1>8, <1>10, <1>12 DEF Translators
  <1>14. /\ x \in Seq(ClientItems) /\ Len(x) = Len(v)
         /\ \A i \in 1 .. Len(v) : x[i].what = v[i].what /\ x[i].deltas = v[i].deltas /\ x[i].reopened = v[i].reopened
         /\ \A i \in 1 .. Len(v) : v[i].what # "text" => x[i] = v[i]
         /\ \A i \in 1 .. Len(v) : v[i].what = "text" => x[i].closes = 1
    <2>1. CASE t.text = NoItem
      <3>1. x = v
        BY <1>9, <2>1
      <3>2. \A i \in 1 .. Len(v) : v[i].what # "text"
        BY <1>7, <2>1 DEF Placed, NoItem
      <3> QED BY <1>7, <3>1, <3>2
    <2>2. CASE t.text # NoItem
      <3>1. PICK n : n = t.text
        OBVIOUS
      <3>2. n \in Nat /\ n + 1 \in 1 .. Len(v) /\ v[n + 1].what = "text"
        BY <1>7, <2>2, <3>1, OutputIndex
      <3>3. v[n + 1].deltas \in Seq(ShownPieces)
        <4>1. v[n + 1] \in ClientItems
          BY <1>7, <3>2
        <4> QED BY <4>1 DEF ClientItems
      <3>4. AfterDone(x, v, n, v[n + 1].deltas)
        <4>1. x = Done(v, n, v[n + 1].deltas)
          BY <1>9, <2>2, <3>1
        <4> QED BY <1>7, <3>2, <3>3, <4>1, DoneView
      <3>5. \A i \in 1 .. Len(v) : v[i].what = "text" => i = n + 1
        BY <1>7, <3>1 DEF Placed
      <3>6. v[n + 1].closes = 0
        BY <1>7, <3>2 DEF StillOpen
      <3>7. x[n + 1].closes = 1
        BY <3>4, <3>6 DEF AfterDone
      <3> QED BY <3>2, <3>4, <3>5, <3>7 DEF AfterDone
    <2> QED BY <2>1, <2>2
  <1>15. \A j \in 1 .. Len(calls) : calls[j].item + 1 \in 1 .. Len(v) /\ v[calls[j].item + 1].what = "call"
    BY <1>7, <1>8 DEF Placed
  <1>16. \A j, i \in 1 .. Len(calls) : calls[j].item = calls[i].item => j = i
    BY <1>7, <1>8 DEF Placed
  <1>17. \A j \in 1 .. Len(calls) : /\ calls[j].item + 1 \in 1 .. Len(x)
                                    /\ x[calls[j].item + 1].closes = 0 /\ calls[j].args # <<>>
    <2> TAKE j \in 1 .. Len(calls)
    <2>1. PICK i \in 1 .. Len(v) : i = calls[j].item + 1 /\ v[i].what = "call"
      BY <1>15
    <2>2. x[i] = v[i] /\ v[i].closes = 0
      BY <1>7, <1>14, <2>1 DEF StillOpen
    <2>3. calls[j].args # <<>>
      BY <1>7, <1>8 DEF CallsSound, EntryOwned
    <2> QED BY <1>14, <2>1, <2>2, <2>3
  <1>18. ClosedUpTo(y, Len(calls), calls, x)
    BY <1>7, <1>8, <1>10, <1>11, <1>14, <1>16, <1>17, CallsClose
  <1>19. /\ y \in Seq(ClientItems) /\ Len(y) = Len(v)
         /\ \A i \in 1 .. Len(v) : y[i].what = v[i].what /\ y[i].deltas = v[i].deltas /\ y[i].reopened = v[i].reopened
         /\ \A j \in 1 .. Len(calls) : /\ y[calls[j].item + 1].closes = 1
                                       /\ y[calls[j].item + 1].final = NormalizeArguments(calls[j].args)
         /\ \A i \in 1 .. Len(v) : (\A j \in 1 .. Len(calls) : i # calls[j].item + 1) => y[i] = x[i]
    BY <1>14, <1>18 DEF ClosedUpTo
  <1>20. AllClosed(calls, y)
    <2>1. ASSUME NEW i \in 1 .. Len(v) PROVE y[i].closes = 1
      <3>1. CASE v[i].what = "call"
        <4>1. PICK j \in 1 .. Len(calls) : i = calls[j].item + 1
          BY <1>7, <1>8, <3>1 DEF Placed
        <4> QED BY <1>19, <4>1
      <3>2. CASE v[i].what # "call"
        <4>1. y[i] = x[i]
          BY <1>15, <1>19, <3>2
        <4>2. CASE v[i].what = "text"
          BY <1>14, <4>1, <4>2
        <4>3. CASE v[i].what = "reasoning"
          <5>1. x[i] = v[i] /\ i = t.reasoning + 1
            BY <1>7, <1>14, <4>3 DEF Placed
          <5>2. t.reasoned
            BY <1>6, <5>1 DEF NoItem
          <5> QED BY <1>7, <4>1, <4>3, <5>1, <5>2 DEF StillOpen
        <4> QED BY <1>7, <3>2, <4>2, <4>3 DEF Placed
      <3> QED BY <3>1, <3>2
    <2>2. \A i \in 1 .. Len(v) : y[i].what # "reasoning" => ~y[i].reopened
      BY <1>7, <1>19 DEF StillOpen
    <2> QED BY <1>19, <2>1, <2>2 DEF AllClosed
  <1>21. Placed(t.reasoning, t.text, t.calls, y)
    BY <1>7, <1>19, SamePlaces
  <1>22. Translates(u, y)
    BY <1>7, <1>8, <1>13, <1>19, <1>21 DEF Translates
  <1>23. CallsSound(calls, y, callSent, callStyle)
    <2>1. \A j \in 1 .. Len(calls) : y[calls[j].item + 1].deltas = v[calls[j].item + 1].deltas
      BY <1>15, <1>19
    <2> QED BY <1>7, <1>8, <2>1, SameCalls
  <1> QED BY <1>1, <1>2, <1>11, <1>12, <1>13, <1>20, <1>22, <1>23 DEF ChatInv

(* Nothing was sent or shown at first.                                      *)
LEMMA ChatInitially ==
    ASSUME ChatInit
    PROVE  ChatInv
  <1>1. /\ callSent = [c \in Tools |-> <<>>] /\ callStyle \in Styles /\ view = <<>>
        /\ translator = [reasoning |-> NoItem, reasoned |-> FALSE, text |-> NoItem,
                         calls |-> <<>>, next |-> 0, completed |-> FALSE]
    BY DEF ChatInit
  <1>2. /\ translator.reasoning = NoItem /\ translator.reasoned = FALSE /\ translator.text = NoItem
        /\ translator.calls = <<>> /\ translator.next = 0 /\ translator.completed = FALSE
    BY <1>1
  <1>3. translator \in Translators
    BY <1>1 DEF Translators, NoItem
  <1>4. ChatTyped
    <2>1. callSent \in [Tools -> Seq(Fragments)] /\ \A c \in Tools : callSent[c] = <<>>
      BY <1>1
    <2> QED BY <1>1, <2>1 DEF ChatTyped, SentShapes
  <1>5. view \in Seq(ClientItems) /\ Len(view) = 0 /\ Len(translator.calls) = 0 /\ \A i \in 1 .. 0 : FALSE
    BY <1>1, <1>2
  <1>6. Placed(translator.reasoning, translator.text, translator.calls, view)
    BY <1>2, <1>5 DEF Placed
  <1>7. StillOpen(translator.reasoned, view)
    BY <1>5 DEF StillOpen
  <1>8. CallsSound(translator.calls, view, callSent, callStyle)
    <2>1. KeysApart(translator.calls)
      BY <1>2, <1>5 DEF KeysApart
    <2>2. \A c \in Tools : callSent[c] = <<>>
      BY <1>1
    <2> QED BY <1>5, <2>1, <2>2 DEF CallsSound
  <1> QED BY <1>2, <1>3, <1>4, <1>5, <1>6, <1>7, <1>8 DEF ChatInv, Translates

(* The translation of a chat stream's calls, ChatToResponsesState of        *)
(* src/src/protocol.rs: the fragments of two upstream calls never end up in *)
(* one call of the client, what the client was shown of a call is what its  *)
(* done event carries, identified calls arrive whole, and every item is     *)
(* closed once.                                                             *)
THEOREM CallsTranslatedTheorem ==
    ChatSpec => []CallsTranslated
  <1>1. ChatInit => ChatInv
    BY ChatInitially
  <1>2. ChatInv /\ [ChatNext]_chatVars => ChatInv'
    <2> SUFFICES ASSUME ChatInv, [ChatNext]_chatVars PROVE ChatInv'
      OBVIOUS
    <2>1. CASE UNCHANGED chatVars
      BY <2>1 DEF ChatInv, ChatTyped, chatVars
    <2>2. CASE ChatNext
      BY <2>2, ReasonKeeps, SpeakKeeps, CallKeeps, CompleteKeeps DEF ChatNext
    <2> QED BY <2>1, <2>2
  <1>3. ChatInv => CallsTranslated
    BY ChatInvGives
  <1> QED BY <1>1, <1>2, <1>3, PTL DEF ChatSpec
=============================================================================
