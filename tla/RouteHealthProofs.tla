-------------------------- MODULE RouteHealthProofs --------------------------
(***************************************************************************)
(* Proofs about RouteHealth, for every value of its constants.             *)
(*                                                                         *)
(* The invariant speaks of one entry of a table at a time: Sound(s) is the *)
(* type of an entry together with what ClassRetained, LeaseWithinTtl and   *)
(* StepBounded say of it.  Each helper of the registry is shown once to    *)
(* preserve it; an action then only has to be taken apart into helpers.    *)
(*                                                                         *)
(* The probes need a second invariant, ProbeInv, that relates entries and  *)
(* permits: every generation was handed out once, the owner of a lease     *)
(* will still report, and nothing newer was recorded while it held the     *)
(* lease.  Calm(s, n) and PermitMoves(p) say what a step may do to one     *)
(* entry and to one permit; ProbesKept shows once that nothing more is     *)
(* needed.  The bounds of the two maps are counted over MadeRoom.          *)
(***************************************************************************)
EXTENDS RouteHealth, FiniteSetTheorems, TLAPS

StepKept(s) ==
    s.fail.class \notin StepExempt => \E t \in Tunings : s.fail.failures <= t.maxStep

Sound(s) ==
    /\ s \in HealthState
    /\ ClassKept(s)
    /\ StepKept(s)
    /\ s.lease.expires <= now + tuning.ttl

SoundTable(table, ids) == table \in [ids -> HealthState] /\ \A x \in ids : Sound(table[x])

ClockOK == now \in 0 .. MaxClock /\ tuning \in Tunings

-----------------------------------------------------------------------------
(* Helpers on one entry.                                                    *)

(* The fields of the tuning in force have the types update_runtime_tuning   *)
(* gives them.                                                              *)
LEMMA TuningTyped ==
    ASSUME ClockOK
    PROVE  /\ now \in Nat
           /\ tuning.ttl \in Nat \ {0}
           /\ tuning.window \in Nat
           /\ tuning.maxStep \in Nat \ {0}
           /\ tuning.routeDelay \in [RouteCooldownClasses -> [1 .. ScheduleLen -> Nat]]
           /\ tuning.keyDelay \in [KeyCooldownClasses -> [1 .. ScheduleLen -> Nat]]
BY ConstantsAssumption DEF ClockOK, Tuning

(* An identity the map does not hold is sound.                              *)
LEMMA NoEntrySound == ASSUME ClockOK PROVE Sound(NoEntry)
<1>1. NoEntry \in HealthState
  BY DEF NoEntry, HealthState, Failure, HalfOpenLease, NoFailure, NoLease, None
<1>2. ClassKept(NoEntry) /\ NoEntry.lease.expires <= now + tuning.ttl
  BY TuningTyped DEF ClassKept, NoEntry, NoFailure, NoLease, None
<1>3. StepKept(NoEntry)
  BY TuningTyped DEF StepKept, NoEntry, NoFailure, ClockOK
<1> QED BY <1>1, <1>2, <1>3 DEF Sound

(* HealthState::clear: class, deadline, step and lease go together.         *)
LEMMA ClearSound == ASSUME ClockOK, NEW s, Sound(s) PROVE Sound(Clear(s))
<1>1. Clear(s) \in HealthState
  BY DEF Sound, Clear, HealthState, Failure, HalfOpenLease, NoFailure, NoLease, None
<1>2. ClassKept(Clear(s)) /\ Clear(s).lease.expires <= now + tuning.ttl
  BY TuningTyped DEF ClassKept, Clear, NoFailure, NoLease, None
<1>3. StepKept(Clear(s))
  BY TuningTyped DEF StepKept, Clear, NoFailure, ClockOK
<1> QED BY <1>1, <1>2, <1>3 DEF Sound

(* Replacing the half-open lease of an entry that has a class, or removing  *)
(* it, leaves the failure record alone.                                     *)
LEMMA NewLeaseSound ==
    ASSUME ClockOK, NEW s, Sound(s), NEW l \in HalfOpenLease,
           l.expires <= now + tuning.ttl, l.gen = 0 \/ s.fail.class # NoClass
    PROVE  Sound([s EXCEPT !.lease = l])
<1> DEFINE n == [s EXCEPT !.lease = l]
<1>1. n \in HealthState /\ n.fail = s.fail /\ n.lease = l
  BY DEF Sound, HealthState
<1> QED BY <1>1 DEF Sound, ClassKept, StepKept

LEMMA DropLeaseSound == ASSUME ClockOK, NEW s, Sound(s) PROVE Sound(DropLease(s))
<1>1. NoLease \in HalfOpenLease /\ NoLease.gen = 0 /\ NoLease.expires <= now + tuning.ttl
  BY TuningTyped DEF NoLease, HalfOpenLease, None
<1> QED BY <1>1, NewLeaseSound DEF DropLease

LEMMA ReleaseSound ==
    ASSUME ClockOK, NEW s, NEW g, Sound(s)
    PROVE  Sound(ReleaseHalfOpen(s, g)) /\ Sound(DropExpiredLease(s))
BY DropLeaseSound DEF ReleaseHalfOpen, DropExpiredLease

(* A half-open lease is only granted to an entry that has a failure class.  *)
LEMMA HalfOpenSound ==
    ASSUME ClockOK, NEW s, Sound(s), s.fail.class # NoClass,
           NEW g \in Nat, NEW e \in Int
    PROVE  Sound(HalfOpen(s, g, e))
<1> DEFINE l == [gen |-> g, expires |-> now + tuning.ttl, exclusive |-> e]
<1>1. l \in HalfOpenLease /\ l.expires <= now + tuning.ttl
  BY TuningTyped DEF HalfOpenLease
<1> QED BY <1>1, NewLeaseSound DEF HalfOpen

LEMMA CurveIndexTyped ==
    ASSUME NEW step \in Nat PROVE CurveIndex(step) \in 1 .. ScheduleLen
BY ConstantsAssumption DEF CurveIndex, Least, Greatest

(* The step of a new failure: a natural number, and within the configured   *)
(* maximum unless the class is exempt.                                      *)
LEMMA FailureStepBounded ==
    ASSUME ClockOK, NEW s, Sound(s), NEW class, NEW repeat \in BOOLEAN, NEW shared \in BOOLEAN
    PROVE  /\ FailureStep(s, class, repeat, shared) \in Nat
           /\ class \notin StepExempt =>
                \E t \in Tunings : FailureStep(s, class, repeat, shared) <= t.maxStep
<1>1. s.fail.failures \in Nat
  BY DEF Sound, HealthState, Failure
<1>2. FailureStep(s, class, repeat, shared) \in Nat
  BY <1>1, TuningTyped, ConstantsAssumption DEF FailureStep, Capped, Least, Greatest
<1>3. ASSUME class \notin StepExempt
      PROVE  \E t \in Tunings : FailureStep(s, class, repeat, shared) <= t.maxStep
  <2>1. CASE repeat /\ s.fail.class = class
    <3>1. PICK t \in Tunings : s.fail.failures <= t.maxStep
      BY <1>3, <2>1 DEF Sound, StepKept
    <3>2. t.maxStep \in Nat \ {0}
      BY ConstantsAssumption DEF Tuning
    <3>3. FailureStep(s, class, repeat, shared) <= t.maxStep
      BY <1>1, <2>1, <3>1, <3>2 DEF FailureStep, Greatest
    <3> QED BY <3>3
  <2>2. CASE ~(repeat /\ s.fail.class = class)
    <3>1. class # "ConcurrencySaturated"
      BY <1>3 DEF StepExempt
    <3>2. FailureStep(s, class, repeat, shared) <= tuning.maxStep
      BY <1>1, <2>2, <3>1, TuningTyped, ConstantsAssumption DEF FailureStep, Capped, Least
    <3> QED BY <3>2 DEF ClockOK
  <2> QED BY <2>1, <2>2
<1> QED BY <1>2, <1>3

(* A fresh cooldown of either kind.                                         *)
LEMMA CooledSound ==
    ASSUME ClockOK, NEW s, Sound(s), NEW class \in Classes, NEW step \in Nat,
           class \notin StepExempt => \E t \in Tunings : step <= t.maxStep,
           NEW cooldown \in Nat, NEW g \in Nat
    PROVE  Sound(Entry(Cooled(step, class, cooldown), NoLease, s.earlyAt, g))
<1> DEFINE n == Entry(Cooled(step, class, cooldown), NoLease, s.earlyAt, g)
<1>1. Cooled(step, class, cooldown) \in Failure
  BY TuningTyped DEF Cooled, Failure
<1>2. NoLease \in HalfOpenLease /\ s.earlyAt \in Int
  BY DEF NoLease, HalfOpenLease, None, Sound, HealthState
<1>3. n \in HealthState
  BY <1>1, <1>2 DEF Entry, HealthState
<1>4. class # NoClass
  BY DEF Classes, RouteCooldownClasses, KeyCooldownClasses, NoClass
<1>5. n.fail.class = class /\ n.fail.failures = step /\ n.lease = NoLease
  BY DEF Entry, Cooled
<1>6. NoLease.expires <= now + tuning.ttl
  BY TuningTyped DEF NoLease, None
<1> QED BY <1>3, <1>4, <1>5, <1>6 DEF Sound, ClassKept, StepKept

LEMMA RetryTyped ==
    ASSUME NEW class, NEW retry \in Retries, NEW local \in Nat
    PROVE  EffectiveCooldown(class, retry, local) \in Nat
BY ConstantsAssumption DEF EffectiveCooldown, Retries, Greatest

LEMMA CooledRouteSound ==
    ASSUME ClockOK, NEW s, Sound(s), NEW class \in RouteCooldownClasses,
           NEW retry \in Retries, NEW repeat \in BOOLEAN, NEW shared \in BOOLEAN
    PROVE  Sound(CooledRoute(s, class, retry, repeat, shared))
<1> DEFINE step == FailureStep(s, class, repeat, shared)
           curve == IF shared /\ class \in SharedHostClasses THEN "EdgeProxyError" ELSE class
           local == RouteCooldown(curve, step)
<1>1. step \in Nat /\ (class \notin StepExempt => \E t \in Tunings : step <= t.maxStep)
  BY FailureStepBounded
<1> HIDE DEF step
<1>2. curve \in RouteCooldownClasses
  BY DEF RouteCooldownClasses
<1> HIDE DEF curve
<1>3. local \in Nat
  BY <1>1, <1>2, CurveIndexTyped, TuningTyped DEF RouteCooldown
<1> HIDE DEF local
<1>4. EffectiveCooldown(class, retry, local) \in Nat
  BY <1>3, RetryTyped
<1>5. class \in Classes /\ s.stateGen + 1 \in Nat
  BY DEF Classes, Sound, HealthState
<1>6. Sound(Entry(Cooled(step, class, EffectiveCooldown(class, retry, local)),
                  NoLease, s.earlyAt, s.stateGen + 1))
  BY <1>1, <1>4, <1>5, CooledSound
<1> QED BY <1>6 DEF CooledRoute, step, curve, local

LEMMA CooledKeySound ==
    ASSUME ClockOK, NEW s, Sound(s), NEW class \in KeyCooldownClasses, NEW retry \in Retries
    PROVE  Sound(CooledKey(s, class, retry))
<1> DEFINE step == FailureStep(s, class, FALSE, FALSE)
           local == KeyCooldown(class, step)
<1>1. step \in Nat /\ (class \notin StepExempt => \E t \in Tunings : step <= t.maxStep)
  BY FailureStepBounded
<1> HIDE DEF step
<1>3. local \in Nat
  BY <1>1, CurveIndexTyped, TuningTyped DEF KeyCooldown
<1> HIDE DEF local
<1>4. EffectiveCooldown(class, retry, local) \in Nat
  BY <1>3, RetryTyped
<1>5. class \in Classes /\ s.stateGen \in Nat
  BY DEF Classes, Sound, HealthState
<1>6. Sound(Entry(Cooled(step, class, EffectiveCooldown(class, retry, local)),
                  NoLease, s.earlyAt, s.stateGen))
  BY <1>1, <1>4, <1>5, CooledSound
<1> QED BY <1>6 DEF CooledKey, step, local

(* A capacity observation may overwrite the class, never remove it.         *)
LEMMA CapacityObservedSound ==
    ASSUME ClockOK, NEW s, Sound(s), NEW class \in CapacityClasses
    PROVE  Sound(CapacityObserved(s, class))
<1> DEFINE f == [failures |-> s.fail.failures, class |-> class, at |-> now,
                 until |-> s.fail.until]
           n == Entry(f, s.lease, s.earlyAt, s.stateGen)
<1>1. class \in Classes /\ class # NoClass /\ class \in StepExempt
  BY DEF CapacityClasses, Classes, RouteCooldownClasses, NoClass, StepExempt
<1>2. f \in Failure
  BY <1>1, TuningTyped DEF Failure, Sound, HealthState
<1>3. f.class = class
  OBVIOUS
<1> HIDE DEF f
<1>4. n \in HealthState /\ n.fail = f /\ n.lease = s.lease
  BY <1>2 DEF Entry, Sound, HealthState
<1>5. Sound(n)
  BY <1>1, <1>3, <1>4 DEF Sound, ClassKept, StepKept
<1> QED BY <1>5 DEF CapacityObserved, f

(* Putting the delay back on a saturated route keeps its class.             *)
LEMMA ReappliedSound ==
    ASSUME ClockOK, NEW s, Sound(s), s.fail.class = "ConcurrencySaturated"
    PROVE  Sound(Reapplied(s))
<1> DEFINE d == DropLease(s)
           until == now + RouteCooldown("ConcurrencySaturated", s.fail.failures)
           n == [d EXCEPT !.fail.until = until]
<1>1. Sound(d) /\ d.fail = s.fail /\ d.lease = NoLease
  BY DropLeaseSound DEF DropLease, Sound, HealthState
<1>2. until \in Int
  <2>1. s.fail.failures \in Nat
    BY DEF Sound, HealthState, Failure
  <2>2. CurveIndex(s.fail.failures) \in 1 .. ScheduleLen
    BY <2>1, CurveIndexTyped
  <2>3. "ConcurrencySaturated" \in RouteCooldownClasses
    BY DEF RouteCooldownClasses
  <2>4. tuning.routeDelay["ConcurrencySaturated"] \in [1 .. ScheduleLen -> Nat]
    BY <2>3, TuningTyped
  <2>5. RouteCooldown("ConcurrencySaturated", s.fail.failures) \in Nat
    BY <2>2, <2>4 DEF RouteCooldown
  <2> QED BY <2>5, TuningTyped
<1> HIDE DEF d, until
<1>3. n \in HealthState /\ n.fail.class = d.fail.class /\ n.lease = d.lease
      /\ n.fail.failures = d.fail.failures
  BY <1>1, <1>2 DEF Sound, HealthState, Failure
<1>4. Sound(n)
  BY <1>1, <1>3 DEF Sound, ClassKept, StepKept, NoClass
<1> QED BY <1>4 DEF Reapplied, d, until

-----------------------------------------------------------------------------
(* Helpers on a table.                                                      *)

LEMMA UpdateSound ==
    ASSUME NEW table, NEW ids, SoundTable(table, ids), NEW x \in ids, NEW s, Sound(s)
    PROVE  SoundTable([table EXCEPT ![x] = s], ids)
<1> DEFINE t == [table EXCEPT ![x] = s]
<1>1. s \in HealthState BY DEF Sound
<1>2. t \in [ids -> HealthState] BY <1>1 DEF SoundTable
<1>3. \A y \in ids : t[y] = IF y = x THEN s ELSE table[y] BY DEF SoundTable
<1> HIDE DEF t
<1>4. \A y \in ids : Sound(t[y]) BY <1>3 DEF SoundTable
<1>5. SoundTable(t, ids) BY <1>2, <1>4 DEF SoundTable
<1> QED BY <1>5 DEF t

(* Making room evicts at most one entry.                                    *)
LEMMA MadeRoomSound ==
    ASSUME ClockOK, NEW table, NEW ids, SoundTable(table, ids), NEW x \in ids, NEW up,
           NEW t \in MadeRoom(table, x, up)
    PROVE  SoundTable(t, ids)
<1>1. DOMAIN table = ids BY DEF SoundTable
<1>2. t = table \/ \E y \in ids : t = [table EXCEPT ![y] = NoEntry]
  BY <1>1 DEF MadeRoom, Tracked
<1> QED BY <1>2, NoEntrySound, UpdateSound

LEMMA ObservedRoutesSound ==
    ASSUME ClockOK, SoundTable(routes, Routes), NEW r \in Routes, NEW class \in Classes,
           NEW retry \in Retries, NEW repeat \in BOOLEAN, NEW sole \in BOOLEAN,
           NEW shared \in BOOLEAN,
           NEW t \in ObservedRoutes(routes, r, class, retry, repeat, sole, shared)
    PROVE  SoundTable(t, Routes)
<1>1. CASE class \notin RouteCooldownClasses
  <2>1. t = [routes EXCEPT ![r] = Clear(routes[r])]
    BY <1>1 DEF ObservedRoutes
  <2>2. Sound(Clear(routes[r]))
    BY ClearSound DEF SoundTable
  <2> QED BY <2>1, <2>2, UpdateSound
<1>2. CASE class \in RouteCooldownClasses /\ MadeRoom(routes, r, RouteUpstream) = {}
  BY <1>2 DEF ObservedRoutes
<1>3. CASE class \in RouteCooldownClasses /\ MadeRoom(routes, r, RouteUpstream) # {}
  <2>1. PICK u \in MadeRoom(routes, r, RouteUpstream) :
            \/ class \in CapacityClasses /\ t = [u EXCEPT ![r] = CapacityObserved(u[r], class)]
            \/ t = [u EXCEPT ![r] = CooledRoute(u[r], class, retry, repeat, shared)]
    BY <1>3 DEF ObservedRoutes
  <2>2. SoundTable(u, Routes) BY MadeRoomSound
  <2>3. Sound(u[r]) BY <2>2 DEF SoundTable
  <2>4. class \in CapacityClasses => Sound(CapacityObserved(u[r], class))
    BY <2>3, CapacityObservedSound
  <2>5. Sound(CooledRoute(u[r], class, retry, repeat, shared))
    BY <1>3, <2>3, CooledRouteSound
  <2> QED BY <2>1, <2>2, <2>4, <2>5, UpdateSound
<1> QED BY <1>1, <1>2, <1>3

LEMMA ObservedKeysSound ==
    ASSUME ClockOK, SoundTable(keys, Keys), NEW k \in Keys, NEW class \in Classes,
           NEW retry \in Retries, NEW t \in ObservedKeys(keys, k, class, retry)
    PROVE  SoundTable(t, Keys)
<1>1. CASE class \notin KeyCooldownClasses
  <2>1. t = [keys EXCEPT ![k] = Clear(keys[k])]
    BY <1>1 DEF ObservedKeys
  <2>2. Sound(Clear(keys[k]))
    BY ClearSound DEF SoundTable
  <2> QED BY <2>1, <2>2, UpdateSound
<1>2. CASE class \in KeyCooldownClasses /\ MadeRoom(keys, k, UpstreamOf) = {}
  BY <1>2 DEF ObservedKeys
<1>3. CASE class \in KeyCooldownClasses /\ MadeRoom(keys, k, UpstreamOf) # {}
  <2>1. PICK u \in MadeRoom(keys, k, UpstreamOf) :
            \/ class \in CapacityClasses /\ t = [u EXCEPT ![k] = CapacityObserved(u[k], class)]
            \/ t = [u EXCEPT ![k] = CooledKey(u[k], class, retry)]
    BY <1>3 DEF ObservedKeys
  <2>2. SoundTable(u, Keys) BY MadeRoomSound
  <2>3. Sound(u[k]) BY <2>2 DEF SoundTable
  <2>4. class \in CapacityClasses => Sound(CapacityObserved(u[k], class))
    BY <2>3, CapacityObservedSound
  <2>5. Sound(CooledKey(u[k], class, retry))
    BY <1>3, <2>3, CooledKeySound
  <2> QED BY <2>1, <2>2, <2>4, <2>5, UpdateSound
<1> QED BY <1>1, <1>2, <1>3

-----------------------------------------------------------------------------
(* The inductive invariant.                                                 *)

PermitsOK ==
    /\ nextGen \in 0 .. MaxGen
    /\ permit \in [Requests -> Permit]
    /\ \A p \in Requests : permit[p].st # "none" => permit[p].route \in Routes
    /\ armed \in [Requests -> Routes \cup {NoRoute}]

HealthInv ==
    /\ ClockOK
    /\ SoundTable(routes, Routes)
    /\ SoundTable(keys, Keys)
    /\ PermitsOK

(* Where the clock and the tuning stand still, a sound next table is sound  *)
(* in the next state.                                                       *)
LEMMA TablesKept ==
    ASSUME ClockOK, now' = now, tuning' = tuning,
           SoundTable(routes', Routes), SoundTable(keys', Keys)
    PROVE  ClockOK' /\ SoundTable(routes, Routes)' /\ SoundTable(keys, Keys)'
BY DEF ClockOK, SoundTable, Sound, ClassKept, StepKept

(* A granted lease is a permit.                                             *)
LEMMA LeaseTyped ==
    ASSUME HealthInv, NEW p \in Requests, NEW r \in Routes, NEW kg \in Nat, NEW rg \in Nat,
           permit' = [permit EXCEPT ![p] = Lease(r, kg, rg)]
    PROVE  /\ permit' \in [Requests -> Permit]
           /\ \A q \in Requests : permit'[q].st # "none" => permit'[q].route \in Routes
<1>1. routes[r].stateGen \in Nat
  BY DEF HealthInv, SoundTable, HealthState
<1>2. Lease(r, kg, rg) \in Permit
  BY <1>1, TuningTyped DEF Lease, Permit, StateGenOf, HealthInv, None
<1>3. Lease(r, kg, rg).route = r
  BY DEF Lease
<1> QED BY <1>2, <1>3 DEF HealthInv, PermitsOK

(* So is a permit that ended, was dropped or was settled.                   *)
LEMMA EndedTyped ==
    ASSUME HealthInv, NEW p \in Requests, permit[p].st # "none",
           \/ Finished(p)
           \/ permit' = [permit EXCEPT ![p].st = "dropped"]
           \/ permit' = [permit EXCEPT ![p] = Settled(permit[p].route)]
    PROVE  /\ permit' \in [Requests -> Permit]
           /\ \A q \in Requests : permit'[q].st # "none" => permit'[q].route \in Routes
<1>1. permit \in [Requests -> Permit] /\ permit[p].route \in Routes
  BY DEF HealthInv, PermitsOK
<1>2. NoPermit \in Permit /\ NoPermit.st = "none"
  BY DEF NoPermit, Permit, None
<1>3. CASE Finished(p)
  BY <1>1, <1>2, <1>3 DEF Finished, HealthInv, PermitsOK
<1>4. CASE permit' = [permit EXCEPT ![p].st = "dropped"]
  BY <1>1, <1>4 DEF Permit, HealthInv, PermitsOK
<1>5. CASE permit' = [permit EXCEPT ![p] = Settled(permit[p].route)]
  <2>1. Settled(permit[p].route) \in Permit /\ Settled(permit[p].route).route \in Routes
    BY <1>1 DEF Permit, Settled, None
  <2> QED BY <1>1, <1>5, <2>1 DEF HealthInv, PermitsOK
<1> QED BY <1>3, <1>4, <1>5

LEMMA ArmTyped ==
    ASSUME HealthInv, NEW p \in Requests,
           TakeArm(p) \/ armed' = armed
               \/ \E r \in Routes, class \in Classes \cup {NoClass} : MayArm(p, r, class)
    PROVE  armed' \in [Requests -> Routes \cup {NoRoute}]
BY DEF TakeArm, MayArm, HealthInv, PermitsOK

LEMMA HealthInit == Init => HealthInv
<1> SUFFICES ASSUME Init PROVE HealthInv OBVIOUS
<1>1. ClockOK
  BY ConstantsAssumption DEF Init, ClockOK
<1>2. Sound(NoEntry) /\ NoEntry \in HealthState
  BY <1>1, NoEntrySound DEF Sound
<1>3. SoundTable(routes, Routes) /\ SoundTable(keys, Keys)
  BY <1>2 DEF Init, SoundTable
<1>4. NoPermit \in Permit /\ NoPermit.st = "none"
  BY DEF NoPermit, Permit, None
<1>5. PermitsOK
  BY <1>4, ConstantsAssumption DEF Init, PermitsOK
<1> QED BY <1>1, <1>3, <1>5 DEF HealthInv

(* An action that leaves the clock and the tuning alone preserves the       *)
(* invariant when its tables and its permits are in order.                  *)
LEMMA Combine ==
    ASSUME HealthInv, now' = now, tuning' = tuning,
           SoundTable(routes', Routes), SoundTable(keys', Keys),
           nextGen' \in 0 .. MaxGen, permit' \in [Requests -> Permit],
           \A q \in Requests : permit'[q].st # "none" => permit'[q].route \in Routes,
           armed' \in [Requests -> Routes \cup {NoRoute}]
    PROVE  HealthInv'
<1>1. ClockOK' /\ SoundTable(routes, Routes)' /\ SoundTable(keys, Keys)'
  BY TablesKept DEF HealthInv
<1>2. PermitsOK' BY DEF PermitsOK
<1> QED BY <1>1, <1>2 DEF HealthInv

LEMMA EntriesTyped ==
    ASSUME HealthInv, NEW r \in Routes
    PROVE  /\ ClockOK /\ KeyOf[r] \in Keys
           /\ SoundTable(routes, Routes) /\ SoundTable(keys, Keys)
           /\ Sound(routes[r]) /\ Sound(keys[KeyOf[r]])
           /\ routes[r].fail.class \in Classes \cup {NoClass}
           /\ keys[KeyOf[r]].fail.class \in Classes \cup {NoClass}
<1>1. ClockOK /\ KeyOf[r] \in Keys /\ SoundTable(routes, Routes) /\ SoundTable(keys, Keys)
  BY ConstantsAssumption DEF HealthInv
<1>2. Sound(routes[r]) /\ Sound(keys[KeyOf[r]])
  BY <1>1 DEF SoundTable
<1> QED BY <1>1, <1>2 DEF Sound, HealthState, Failure

LEMMA ReserveStep ==
    ASSUME HealthInv, NEW p \in Requests, NEW r \in Routes, Reserve(p, r)
    PROVE  HealthInv'
<1>0. PermitsOK BY DEF HealthInv
<1>1. CASE ReservePassthrough(p, r)
  <2>1. permit' \in [Requests -> Permit]
        /\ \A q \in Requests : permit'[q].st # "none" => permit'[q].route \in Routes
    BY <1>1, LeaseTyped DEF ReservePassthrough
  <2> QED BY <1>0, <1>1, <2>1, EntriesTyped, Combine DEF ReservePassthrough, PermitsOK
<1>2. CASE ReserveRefusedByKey(p, r)
  <2>1. armed' \in [Requests -> Routes \cup {NoRoute}]
    BY <1>2, ArmTyped, EntriesTyped DEF ReserveRefusedByKey
  <2> QED BY <1>0, <1>2, <2>1, EntriesTyped, Combine DEF ReserveRefusedByKey, PermitsOK
<1>3. CASE ReserveRefusedByRoute(p, r)
  <2>1. armed' \in [Requests -> Routes \cup {NoRoute}]
    BY <1>3, ArmTyped, EntriesTyped DEF ReserveRefusedByRoute
  <2>2. keys' = [keys EXCEPT ![KeyOf[r]] = DropExpiredLease(keys[KeyOf[r]])]
    BY <1>3 DEF ReserveRefusedByRoute
  <2>3. SoundTable(keys', Keys)
    BY <2>2, EntriesTyped, ReleaseSound, UpdateSound
  <2> QED BY <1>0, <1>3, <2>1, <2>3, EntriesTyped, Combine DEF ReserveRefusedByRoute, PermitsOK
<1>4. CASE ReserveGranted(p, r)
  <2> DEFINE k == KeyOf[r]
             kg == IF ProbeDue(keys[k]) THEN NextGeneration(nextGen) ELSE 0
             last == IF kg # 0 THEN kg ELSE nextGen
             rg == IF ProbeDue(routes[r]) THEN NextGeneration(last) ELSE 0
             exclusive == now + tuning.window
  <2>1. kg \in Nat /\ rg \in Nat /\ (kg # 0 => ProbeDue(keys[k])) /\ (rg # 0 => ProbeDue(routes[r]))
    BY <1>0, ConstantsAssumption DEF PermitsOK, NextGeneration
  <2>2. nextGen' \in 0 .. MaxGen
    BY <1>0, <1>4, ConstantsAssumption DEF ReserveGranted, PermitsOK, NextGeneration
  <2>3. exclusive \in Int
    BY TuningTyped, EntriesTyped
  <2>4. keys' = [keys EXCEPT ![k] = IF kg # 0 THEN HalfOpen(keys[k], kg, exclusive)
                                              ELSE DropExpiredLease(keys[k])]
        /\ routes' = [routes EXCEPT ![r] = IF rg # 0 THEN HalfOpen(routes[r], rg, exclusive)
                                                     ELSE DropExpiredLease(routes[r])]
        /\ permit' = [permit EXCEPT ![p] = Lease(r, kg, rg)]
    BY <1>4 DEF ReserveGranted
  <2> HIDE DEF kg, rg, last, exclusive
  <2>5. Sound(IF kg # 0 THEN HalfOpen(keys[k], kg, exclusive) ELSE DropExpiredLease(keys[k]))
    BY <2>1, <2>3, EntriesTyped, HalfOpenSound, ReleaseSound DEF ProbeDue
  <2>6. Sound(IF rg # 0 THEN HalfOpen(routes[r], rg, exclusive) ELSE DropExpiredLease(routes[r]))
    BY <2>1, <2>3, EntriesTyped, HalfOpenSound, ReleaseSound DEF ProbeDue
  <2>7. SoundTable(keys', Keys)
    BY <2>4, <2>5, EntriesTyped, UpdateSound
  <2>8. SoundTable(routes', Routes)
    BY <2>4, <2>6, EntriesTyped, UpdateSound
  <2>9. permit' \in [Requests -> Permit]
        /\ \A q \in Requests : permit'[q].st # "none" => permit'[q].route \in Routes
    BY <2>1, <2>4, LeaseTyped
  <2> QED BY <1>0, <1>4, <2>2, <2>7, <2>8, <2>9, Combine DEF ReserveGranted, PermitsOK
<1> QED BY <1>1, <1>2, <1>3, <1>4 DEF Reserve

LEMMA EarlyProbeStep ==
    ASSUME HealthInv, NEW p \in Requests, EarlyProbe(p) \/ Disarm(p)
    PROVE  HealthInv'
<1>0. PermitsOK /\ armed[p] \in Routes \cup {NoRoute} BY DEF HealthInv, PermitsOK
<1>1. armed' \in [Requests -> Routes \cup {NoRoute}]
  BY ArmTyped DEF EarlyProbe, EarlyProbePassthrough, EarlyProbeRefused, EarlyProbeGranted, Disarm
<1>2. SoundTable(routes, Routes) /\ SoundTable(keys, Keys) BY DEF HealthInv
<1>3. CASE EarlyProbePassthrough(p)
  <2>1. permit' \in [Requests -> Permit]
        /\ \A q \in Requests : permit'[q].st # "none" => permit'[q].route \in Routes
    BY <1>0, <1>3, LeaseTyped DEF EarlyProbePassthrough
  <2> QED BY <1>0, <1>1, <1>2, <1>3, <2>1, Combine DEF EarlyProbePassthrough, PermitsOK
<1>4. CASE EarlyProbeRefused(p) \/ Disarm(p)
  BY <1>0, <1>1, <1>2, <1>4, Combine DEF EarlyProbeRefused, Disarm, PermitsOK
<1>5. CASE EarlyProbeGranted(p)
  <2> DEFINE r == armed[p]
             k == KeyOf[r]
             kg == IF ProbeDue(keys[k]) THEN NextGeneration(nextGen) ELSE 0
             rg == NextGeneration(IF kg # 0 THEN kg ELSE nextGen)
             window == now + tuning.window
             exclusive == Least(Greatest(routes[r].fail.until, window), now + tuning.ttl)
             h == HalfOpen(routes[r], rg, exclusive)
  <2>1. r \in Routes /\ ProbeGrantable(r)
    BY <1>0, <1>5 DEF EarlyProbeGranted
  <2>2. kg \in Nat /\ rg \in Nat /\ (kg # 0 => ProbeDue(keys[k]))
    BY <1>0, ConstantsAssumption DEF PermitsOK, NextGeneration
  <2>3. nextGen' \in 0 .. MaxGen
    BY <1>0, <1>5, ConstantsAssumption DEF EarlyProbeGranted, PermitsOK, NextGeneration
  <2>4. window \in Int /\ routes[r].fail.until \in Int /\ now + tuning.ttl \in Int
    BY <2>1, TuningTyped, EntriesTyped DEF Sound, HealthState, Failure
  <2>5. exclusive \in Int
    BY <2>4 DEF Least, Greatest
  <2>6. keys' = [keys EXCEPT ![k] = IF kg # 0 THEN HalfOpen(keys[k], kg, window) ELSE keys[k]]
        /\ routes' = [routes EXCEPT ![r] = [h EXCEPT !.earlyAt = now]]
        /\ permit' = [permit EXCEPT ![p] = Lease(r, kg, rg)]
    BY <1>5 DEF EarlyProbeGranted
  <2> HIDE DEF kg, rg, exclusive, window
  <2>7. Sound(IF kg # 0 THEN HalfOpen(keys[k], kg, window) ELSE keys[k])
    BY <2>1, <2>2, <2>4, EntriesTyped, HalfOpenSound DEF ProbeDue
  <2>8. Sound(h)
    BY <2>1, <2>2, <2>5, EntriesTyped, HalfOpenSound DEF ProbeGrantable
  <2> HIDE DEF h
  <2>9. Sound([h EXCEPT !.earlyAt = now])
    <3> DEFINE n == [h EXCEPT !.earlyAt = now]
    <3>1. n \in HealthState /\ n.fail = h.fail /\ n.lease = h.lease
      BY <2>8, TuningTyped DEF Sound, HealthState, HealthInv
    <3> QED BY <2>8, <3>1 DEF Sound, ClassKept, StepKept
  <2>10. SoundTable(keys', Keys)
    BY <2>1, <2>6, <2>7, EntriesTyped, UpdateSound
  <2>11. SoundTable(routes', Routes)
    BY <2>1, <2>6, <2>9, EntriesTyped, UpdateSound
  <2>12. permit' \in [Requests -> Permit]
        /\ \A q \in Requests : permit'[q].st # "none" => permit'[q].route \in Routes
    BY <2>1, <2>2, <2>6, LeaseTyped
  <2> QED BY <1>1, <1>5, <2>3, <2>10, <2>11, <2>12, Combine DEF EarlyProbeGranted
<1> QED BY <1>3, <1>4, <1>5 DEF EarlyProbe

(* What each outcome leaves of the entries of the reporting permit.         *)
LEMMA OutcomeSound ==
    ASSUME HealthInv, NEW p \in Requests, permit[p].st # "none"
    PROVE  LET r == permit[p].route IN
           /\ r \in Routes
           /\ Sound(RouteAfterSuccess(p)) /\ Sound(KeyAfterSuccess(p))
           /\ Sound(ReleaseHalfOpen(routes[r], permit[p].routeGen))
           /\ Reapplies(p) => Sound(Reapplied(routes[r]))
           /\ SoundTable([keys EXCEPT ![KeyOf[r]] =
                    ReleaseHalfOpen(keys[KeyOf[r]], permit[p].keyGen)], Keys)
<1> DEFINE r == permit[p].route
<1>1. r \in Routes BY DEF HealthInv, PermitsOK
<1>2. Sound(RouteAfterSuccess(p)) /\ Sound(KeyAfterSuccess(p))
  BY <1>1, EntriesTyped, ClearSound DEF RouteAfterSuccess, KeyAfterSuccess
<1>3. Sound(ReleaseHalfOpen(routes[r], permit[p].routeGen))
      /\ Sound(ReleaseHalfOpen(keys[KeyOf[r]], permit[p].keyGen))
  BY <1>1, EntriesTyped, ReleaseSound
<1>4. Reapplies(p) => Sound(Reapplied(routes[r]))
  BY <1>1, EntriesTyped, ReappliedSound DEF Reapplies
<1>5. SoundTable([keys EXCEPT ![KeyOf[r]] =
                    ReleaseHalfOpen(keys[KeyOf[r]], permit[p].keyGen)], Keys)
  BY <1>1, <1>3, EntriesTyped, UpdateSound
<1> QED BY <1>1, <1>2, <1>3, <1>4, <1>5

LEMMA FinishStep ==
    ASSUME HealthInv, NEW p \in Requests, Report(p)
    PROVE  HealthInv'
<1> DEFINE r == permit[p].route
           PermitsTyped ==
               /\ permit' \in [Requests -> Permit]
               /\ \A q \in Requests : permit'[q].st # "none" => permit'[q].route \in Routes
<1>0. PermitsOK /\ SoundTable(routes, Routes) /\ SoundTable(keys, Keys) /\ ClockOK
  BY DEF HealthInv
<1>1. permit[p].st # "none" /\ now' = now /\ tuning' = tuning /\ nextGen' = nextGen
  BY DEF Report, FinishSuccess, FinishRouteFailure, FinishKeyFailure, FinishUncertain,
         FinishCancelled, DropPermit, SettleHealthy, SettledDone, SettledRouteFailure,
         SettledKeyFailure
<1>2. r \in Routes /\ KeyOf[r] \in Keys
  BY <1>1, OutcomeSound, EntriesTyped
<1>3. ASSUME Finished(p) PROVE PermitsTyped
  BY <1>1, <1>3, EndedTyped
<1>4. ASSUME armed' = armed PROVE armed' \in [Requests -> Routes \cup {NoRoute}]
  BY <1>0, <1>4 DEF PermitsOK
<1>5. nextGen' \in 0 .. MaxGen
  BY <1>0, <1>1 DEF PermitsOK
<1>6. ASSUME ReleaseKey(p) PROVE SoundTable(keys', Keys)
  BY <1>1, <1>6, OutcomeSound DEF ReleaseKey
<1>7. CASE FinishSuccess(p)
  <2>1. SoundTable(routes', Routes)
    BY <1>0, <1>1, <1>2, <1>7, OutcomeSound, UpdateSound DEF FinishSuccess
  <2>2. SoundTable(keys', Keys)
    BY <1>0, <1>1, <1>2, <1>7, OutcomeSound, UpdateSound DEF FinishSuccess
  <2>3. PermitsTyped /\ armed' \in [Requests -> Routes \cup {NoRoute}]
    BY <1>3, <1>7, ArmTyped DEF FinishSuccess
  <2> QED BY <1>1, <1>5, <2>1, <2>2, <2>3, Combine
<1>8. ASSUME NEW class \in RouteFailures, NEW retry \in Retries, NEW repeat \in BOOLEAN,
             NEW sole \in BOOLEAN, NEW shared \in BOOLEAN,
             FinishRouteFailure(p, class, retry, repeat, sole, shared)
      PROVE  HealthInv'
  <2>1. class \in Classes BY ConstantsAssumption
  <2>2. SoundTable(routes', Routes)
    BY <1>0, <1>2, <1>8, <2>1, ObservedRoutesSound DEF FinishRouteFailure
  <2>3. SoundTable(keys', Keys) BY <1>6, <1>8 DEF FinishRouteFailure
  <2>4. PermitsTyped /\ armed' \in [Requests -> Routes \cup {NoRoute}]
    BY <1>2, <1>3, <1>8, <2>1, ArmTyped DEF FinishRouteFailure
  <2> QED BY <1>1, <1>5, <2>2, <2>3, <2>4, Combine
<1>9. ASSUME NEW class \in KeyFailures, NEW retry \in Retries,
             FinishKeyFailure(p, class, retry)
      PROVE  HealthInv'
  <2>1. class \in Classes BY ConstantsAssumption
  <2>2. SoundTable(routes', Routes)
    BY <1>0, <1>1, <1>2, <1>9, OutcomeSound, UpdateSound DEF FinishKeyFailure
  <2>3. SoundTable(keys', Keys)
    BY <1>0, <1>2, <1>9, <2>1, ObservedKeysSound DEF FinishKeyFailure
  <2>4. PermitsTyped /\ armed' \in [Requests -> Routes \cup {NoRoute}]
    BY <1>3, <1>4, <1>9 DEF FinishKeyFailure
  <2> QED BY <1>1, <1>5, <2>2, <2>3, <2>4, Combine
<1>10. CASE FinishUncertain(p)
  <2>1. "Transport" \in Classes /\ None \in Retries
    BY DEF Classes, RouteCooldownClasses, Retries
  <2>2. SoundTable(routes', Routes)
    <3>1. CASE Reapplies(p)
      <4>1. routes' = [routes EXCEPT ![r] = Reapplied(routes[r])]
        BY <1>10, <3>1 DEF FinishUncertain
      <4>2. Sound(Reapplied(routes[r])) BY <1>1, <3>1, OutcomeSound
      <4> QED BY <1>0, <1>2, <4>1, <4>2, UpdateSound
    <3>2. CASE ~Reapplies(p)
      <4>1. routes' \in ObservedRoutes(routes, r, "Transport", None, FALSE, FALSE, FALSE)
        BY <1>10, <3>2 DEF FinishUncertain
      <4> QED BY <1>0, <1>2, <2>1, <4>1, ObservedRoutesSound
    <3> QED BY <3>1, <3>2
  <2>3. SoundTable(keys', Keys) BY <1>6, <1>10 DEF FinishUncertain
  <2>4. PermitsTyped /\ armed' \in [Requests -> Routes \cup {NoRoute}]
    BY <1>3, <1>4, <1>10 DEF FinishUncertain
  <2> QED BY <1>1, <1>5, <2>2, <2>3, <2>4, Combine
<1>11. CASE FinishCancelled(p)
  <2>1. SoundTable(routes', Routes)
    BY <1>0, <1>1, <1>2, <1>11, OutcomeSound, UpdateSound DEF FinishCancelled
  <2>2. SoundTable(keys', Keys) BY <1>6, <1>11 DEF FinishCancelled
  <2>3. PermitsTyped /\ armed' \in [Requests -> Routes \cup {NoRoute}]
    BY <1>3, <1>4, <1>11 DEF FinishCancelled
  <2> QED BY <1>1, <1>5, <2>1, <2>2, <2>3, Combine
<1>12. CASE DropPermit(p)
  <2>1. PermitsTyped BY <1>1, <1>12, EndedTyped DEF DropPermit
  <2> QED BY <1>0, <1>1, <1>4, <1>5, <1>12, <2>1, Combine DEF DropPermit
<1>13. CASE SettleHealthy(p)
  <2> DEFINE Removed(s) == IF s.tracked /\ IsClear(s) THEN NoEntry ELSE s
  <2>1. Sound(Removed(RouteAfterSuccess(p))) /\ Sound(Removed(KeyAfterSuccess(p)))
    BY <1>0, <1>1, OutcomeSound, NoEntrySound
  <2>2. SoundTable(routes', Routes)
    BY <1>0, <1>2, <1>13, <2>1, UpdateSound DEF SettleHealthy
  <2>3. SoundTable(keys', Keys)
    BY <1>0, <1>2, <1>13, <2>1, UpdateSound DEF SettleHealthy
  <2>4. PermitsTyped /\ armed' \in [Requests -> Routes \cup {NoRoute}]
    BY <1>1, <1>13, EndedTyped, ArmTyped DEF SettleHealthy
  <2> QED BY <1>1, <1>5, <2>2, <2>3, <2>4, Combine
<1>14. CASE SettledDone(p)
  BY <1>0, <1>1, <1>3, <1>4, <1>5, <1>14, Combine DEF SettledDone
<1>15. ASSUME NEW class \in RouteFailures, NEW retry \in Retries, NEW shared \in BOOLEAN,
              SettledRouteFailure(p, class, retry, shared)
       PROVE  HealthInv'
  <2>1. class \in Classes BY ConstantsAssumption
  <2>2. routes' \in ObservedRoutes(routes, r, class, retry, FALSE, FALSE, shared)
    BY <1>15 DEF SettledRouteFailure
  <2>3. SoundTable(routes', Routes)
    BY <1>0, <1>2, <2>1, <2>2, ObservedRoutesSound
  <2> QED BY <1>0, <1>1, <1>3, <1>4, <1>5, <1>15, <2>3, Combine DEF SettledRouteFailure
<1>16. ASSUME NEW class \in KeyFailures, NEW retry \in Retries,
              SettledKeyFailure(p, class, retry)
       PROVE  HealthInv'
  <2>1. class \in Classes BY ConstantsAssumption
  <2>2. SoundTable(keys', Keys)
    BY <1>0, <1>2, <1>16, <2>1, ObservedKeysSound DEF SettledKeyFailure
  <2> QED BY <1>0, <1>1, <1>3, <1>4, <1>5, <1>16, <2>2, Combine DEF SettledKeyFailure
<1> QED
  BY <1>7, <1>8, <1>9, <1>10, <1>11, <1>12, <1>13, <1>14, <1>15, <1>16 DEF Report

LEMMA OperatorStep ==
    ASSUME HealthInv, Operator
    PROVE  HealthInv'
<1>0. ClockOK /\ PermitsOK /\ SoundTable(routes, Routes) /\ SoundTable(keys, Keys)
  BY DEF HealthInv
<1>1. ASSUME NEW r \in Routes, ClearRouteHealth(r) PROVE HealthInv'
  <2>1. SoundTable(routes', Routes)
    BY <1>1, EntriesTyped, ClearSound, UpdateSound DEF ClearRouteHealth
  <2> QED BY <1>0, <1>1, <2>1, Combine DEF ClearRouteHealth, PermitsOK
<1>2. ASSUME NEW R, NEW K, Reconcile(R, K) PROVE HealthInv'
  <2>1. Sound(NoEntry) /\ NoEntry \in HealthState BY <1>0, NoEntrySound DEF Sound
  <2>2. SoundTable(routes', Routes) BY <1>0, <1>2, <2>1 DEF Reconcile, SoundTable
  <2>3. SoundTable(keys', Keys) BY <1>0, <1>2, <2>1 DEF Reconcile, SoundTable
  <2> QED BY <1>0, <1>2, <2>2, <2>3, Combine DEF Reconcile, PermitsOK
<1>3. ASSUME NEW t \in Tunings, UpdateTuning(t) PROVE HealthInv'
  <2>1. tuning' = t /\ now' = now /\ t.ttl \in Nat /\ t.window \in Nat
        /\ t.transientMax \in Nat /\ now \in Nat
    BY <1>0, <1>3, ConstantsAssumption, TuningTyped DEF UpdateTuning, Tuning
  <2>2. ASSUME NEW s, Sound(s)
        PROVE  LET c == ClampLease(s, t) IN
               /\ c \in HealthState /\ ClassKept(c) /\ StepKept(c)
               /\ c.lease.expires <= now + t.ttl
    <3> DEFINE l == [gen |-> s.lease.gen,
                     expires |-> Least(s.lease.expires, now + t.ttl),
                     exclusive |-> Least(s.lease.exclusive, now + t.window)]
               c == [s EXCEPT !.lease = l]
    <3>1. s.lease \in HalfOpenLease /\ s \in HealthState BY <2>2 DEF Sound, HealthState
    <3>2. l \in HalfOpenLease /\ l.gen = s.lease.gen /\ l.expires <= now + t.ttl
      BY <2>1, <3>1 DEF HalfOpenLease, Least
    <3> HIDE DEF l
    <3>3. c \in HealthState /\ c.fail = s.fail /\ c.lease = l
      BY <3>1, <3>2 DEF HealthState
    <3>4. c = ClampLease(s, t) BY DEF ClampLease, l
    <3> QED BY <2>2, <3>2, <3>3, <3>4 DEF Sound, ClassKept, StepKept
  <2>3. ASSUME NEW c \in HealthState, ClassKept(c), StepKept(c), c.lease.expires <= now + t.ttl
        PROVE  LET d == ClampCooldown(c, t) IN
               /\ d \in HealthState /\ ClassKept(d) /\ StepKept(d)
               /\ d.lease.expires <= now + t.ttl
    <3>1. CASE c.fail.class # "TransientServer" BY <2>3, <3>1 DEF ClampCooldown
    <3>2. CASE c.fail.class = "TransientServer"
      <4> DEFINE x == Least(c.fail.until, now + t.transientMax)
                 d == [c EXCEPT !.fail.until = x]
      <4>1. x \in Int BY <2>1, <2>3 DEF Least, HealthState, Failure
      <4>2. d = ClampCooldown(c, t) BY <3>2 DEF ClampCooldown
      <4> HIDE DEF x
      <4>3. d \in HealthState /\ d.lease = c.lease /\ d.fail.class = c.fail.class
            /\ d.fail.failures = c.fail.failures
        BY <2>3, <4>1 DEF HealthState, Failure
      <4> QED BY <2>3, <3>2, <4>2, <4>3 DEF ClassKept, StepKept, NoClass
    <3> QED BY <3>1, <3>2
  <2>4. SoundTable(routes, Routes)'
    <3>1. \A r \in Routes : LET d == ClampCooldown(ClampLease(routes[r], t), t) IN
            /\ d \in HealthState /\ ClassKept(d) /\ StepKept(d)
            /\ d.lease.expires <= now + t.ttl
      BY <1>0, <2>2, <2>3 DEF SoundTable
    <3>2. routes' = [r \in Routes |-> ClampCooldown(ClampLease(routes[r], t), t)]
      BY <1>3 DEF UpdateTuning
    <3> QED BY <2>1, <3>1, <3>2 DEF SoundTable, Sound, ClassKept, StepKept
  <2>5. SoundTable(keys, Keys)'
    <3>1. \A k \in Keys : LET c == ClampLease(keys[k], t) IN
            /\ c \in HealthState /\ ClassKept(c) /\ StepKept(c)
            /\ c.lease.expires <= now + t.ttl
      BY <1>0, <2>2 DEF SoundTable
    <3>2. keys' = [k \in Keys |-> ClampLease(keys[k], t)]
      BY <1>3 DEF UpdateTuning
    <3> QED BY <2>1, <3>1, <3>2 DEF SoundTable, Sound, ClassKept, StepKept
  <2>6. ClockOK' BY <1>0, <2>1 DEF ClockOK
  <2>7. PermitsOK' BY <1>0, <1>3 DEF UpdateTuning, PermitsOK
  <2> QED BY <2>4, <2>5, <2>6, <2>7 DEF HealthInv
<1> QED BY <1>1, <1>2, <1>3 DEF Operator

LEMMA TickStep ==
    ASSUME HealthInv, Tick
    PROVE  HealthInv'
<1>1. now' = now + 1 /\ now' \in 0 .. MaxClock /\ tuning' = tuning /\ routes' = routes /\ keys' = keys
  BY ConstantsAssumption DEF Tick, HealthInv, ClockOK
<1>2. ASSUME NEW s, Sound(s) PROVE s.lease.expires <= now' + tuning'.ttl
  <2>1. s.lease.expires \in Int BY <1>2 DEF Sound, HealthState, HalfOpenLease
  <2>2. s.lease.expires <= now + tuning.ttl BY <1>2 DEF Sound
  <2> QED BY <1>1, <2>1, <2>2, TuningTyped DEF HealthInv
<1>3. SoundTable(routes, Routes)' /\ SoundTable(keys, Keys)'
  BY <1>1, <1>2 DEF HealthInv, SoundTable, Sound, ClassKept, StepKept
<1>4. PermitsOK' BY DEF Tick, HealthInv, PermitsOK
<1> QED BY <1>1, <1>3, <1>4 DEF HealthInv, ClockOK

(* The invariant is inductive.                                              *)
LEMMA HealthNext == HealthInv /\ [Next]_vars => HealthInv'
<1> SUFFICES ASSUME HealthInv, [Next]_vars PROVE HealthInv' OBVIOUS
<1>1. CASE UNCHANGED vars
  BY <1>1 DEF vars, HealthInv, ClockOK, PermitsOK, SoundTable, Sound, ClassKept, StepKept
<1>2. ASSUME NEW p \in Requests, Attempt(p) PROVE HealthInv'
  BY <1>2, ReserveStep, EarlyProbeStep DEF Attempt
<1>3. ASSUME NEW p \in Requests, Report(p) PROVE HealthInv'
  BY <1>3, FinishStep
<1> QED BY <1>1, <1>2, <1>3, OperatorStep, TickStep DEF Next

LEMMA HealthInvariant == Spec => []HealthInv
BY HealthInit, HealthNext, PTL DEF Spec

-----------------------------------------------------------------------------
(* The registry's state is always well typed.                               *)
THEOREM TypeCorrect == Spec => []TypeOK
<1>1. HealthInv => TypeOK
  BY DEF HealthInv, ClockOK, SoundTable, PermitsOK, TypeOK
<1> QED BY <1>1, HealthInvariant, PTL

(* A cooling or half-open entry always has the failure class that reserve() *)
(* unwraps: the four expects of reserve() never fire.                       *)
THEOREM ClassAlwaysRetained == Spec => []ClassRetained
<1>1. HealthInv => ClassRetained
  BY DEF HealthInv, SoundTable, Sound, ClassRetained
<1> QED BY <1>1, HealthInvariant, PTL

(* No half-open lease outlives the TTL in force, whatever operators tune.   *)
THEOREM LeasesEndWithinTtl == Spec => []LeaseWithinTtl
<1>1. HealthInv => LeaseWithinTtl
  BY DEF HealthInv, SoundTable, Sound, LeaseWithinTtl
<1> QED BY <1>1, HealthInvariant, PTL

(* Health-class failures never escalate past the configured step.           *)
THEOREM StepsBounded == Spec => []StepBounded
<1>1. HealthInv => StepBounded
  BY DEF HealthInv, SoundTable, Sound, StepKept, StepBounded
<1> QED BY <1>1, HealthInvariant, PTL

-----------------------------------------------------------------------------
(* Probes: who owns a half-open lease, and what its owner may clear.        *)

(* An entry that is not in the map has no failure class, and no failure is  *)
(* recorded in the future.                                                  *)
Fit(s) == (s.tracked \/ s.fail.class = NoClass) /\ s.fail.at <= now

(* A generation is at most the last one handed out, and only a permit that  *)
(* will still report has one.                                               *)
GensOld ==
    \A p \in Requests :
        /\ permit[p].routeGen <= nextGen /\ permit[p].keyGen <= nextGen
        /\ ~ Holding(p) => permit[p].routeGen = 0 /\ permit[p].keyGen = 0

(* While a request owns the probe of its route, no failure but a capacity   *)
(* observation has been recorded since the probe was granted.               *)
NothingNewer ==
    \A p \in Requests :
        OwnsRoute(p) =>
            LET s == routes[permit[p].route] IN
            s.fail.at <= permit[p].since \/ s.fail.class \in CapacityClasses

ProbeInv ==
    /\ \A r \in Routes : Fit(routes[r])
    /\ \A k \in Keys : Fit(keys[k])
    /\ GensOld
    /\ OwnerUnique
    /\ LeaseOwned
    /\ NothingNewer

(* What a step may do to an entry: leave it without a lease; leave lease    *)
(* and failure alone; note a capacity failure; or open probe g.             *)
Bare(s) == s.lease.gen = 0 /\ (s.tracked \/ s.fail.class = NoClass) /\ s.fail.at <= now

SameProbe(s, n) ==
    /\ n.lease.gen = s.lease.gen /\ n.tracked = s.tracked
    /\ n.fail.class = s.fail.class /\ n.fail.at = s.fail.at

Noted(s, n) ==
    /\ n.lease.gen = s.lease.gen /\ n.tracked
    /\ n.fail.class \in CapacityClasses /\ n.fail.at <= now

Calm(s, n) == Bare(n) \/ SameProbe(s, n) \/ Noted(s, n)

Opened(s, n, g) ==
    /\ n.lease.gen = g /\ n.tracked = s.tracked
    /\ n.fail.class = s.fail.class /\ n.fail.at = s.fail.at

(* The lease that generation g owned is gone, or kept by a capacity note.   *)
Ceded(n, g) == g = 0 \/ n.lease.gen # g \/ n.fail.class \in CapacityClasses

LEMMA NoEntryBare == ASSUME ClockOK PROVE Bare(NoEntry)
BY TuningTyped DEF Bare, NoEntry, NoLease, NoFailure, None

LEMMA ClearBare == ASSUME ClockOK, NEW s PROVE Bare(Clear(s))
BY TuningTyped DEF Bare, Clear, NoLease, NoFailure, None

LEMMA DropBare ==
    ASSUME NEW s \in HealthState, Fit(s)
    PROVE  Bare(DropLease(s))
<1>1. DropLease(s).lease = NoLease /\ DropLease(s).fail = s.fail
      /\ DropLease(s).tracked = s.tracked
  BY DEF DropLease, HealthState
<1> QED BY <1>1 DEF Bare, Fit, NoLease

LEMMA ReleaseCalm ==
    ASSUME NEW s \in HealthState, Fit(s), NEW g
    PROVE  /\ Calm(s, ReleaseHalfOpen(s, g)) /\ Ceded(ReleaseHalfOpen(s, g), g)
           /\ Calm(s, DropExpiredLease(s))
<1>1. Bare(DropLease(s)) BY DropBare
<1>2. SameProbe(s, s) BY DEF SameProbe
<1>3. Bare(DropLease(s)) => Ceded(DropLease(s), g) BY DEF Bare, Ceded
<1> QED BY <1>1, <1>2, <1>3 DEF ReleaseHalfOpen, DropExpiredLease, Calm, Ceded

LEMMA CooledBare ==
    ASSUME ClockOK, NEW step, NEW class, NEW cooldown, NEW e, NEW g
    PROVE  Bare(Entry(Cooled(step, class, cooldown), NoLease, e, g))
BY TuningTyped DEF Entry, Cooled, Bare, NoLease

LEMMA CapacityNoted ==
    ASSUME ClockOK, NEW s \in HealthState, NEW class \in CapacityClasses
    PROVE  Noted(s, CapacityObserved(s, class))
BY TuningTyped DEF CapacityObserved, Entry, Noted

LEMMA ReappliedBare ==
    ASSUME NEW s \in HealthState, Fit(s)
    PROVE  Bare(Reapplied(s))
<1> DEFINE d == DropLease(s)
           until == now + RouteCooldown("ConcurrencySaturated", s.fail.failures)
           n == [d EXCEPT !.fail.until = until]
<1>1. d.lease = NoLease /\ d.fail = s.fail /\ d.tracked = s.tracked /\ d \in HealthState
  BY DEF DropLease, HealthState, NoLease, HalfOpenLease, None
<1> HIDE DEF d, until
<1>2. n.lease = d.lease /\ n.tracked = d.tracked /\ n.fail.class = d.fail.class
      /\ n.fail.at = d.fail.at
  BY <1>1 DEF HealthState, Failure
<1>3. Bare(n) BY <1>1, <1>2 DEF Bare, Fit, NoLease
<1> QED BY <1>3 DEF Reapplied, d, until

LEMMA HalfOpenOpens ==
    ASSUME NEW s \in HealthState, NEW g, NEW e
    PROVE  Opened(s, HalfOpen(s, g, e), g)
<1> DEFINE l == [gen |-> g, expires |-> now + tuning.ttl, exclusive |-> e]
<1>1. l.gen = g OBVIOUS
<1> HIDE DEF l
<1>2. [s EXCEPT !.lease = l].lease = l /\ [s EXCEPT !.lease = l].fail = s.fail
      /\ [s EXCEPT !.lease = l].tracked = s.tracked
  BY DEF HealthState
<1>3. HalfOpen(s, g, e) = [s EXCEPT !.lease = l] BY DEF HalfOpen, l
<1> QED BY <1>1, <1>2, <1>3 DEF Opened

LEMMA ClampSame ==
    ASSUME NEW s \in HealthState, NEW t
    PROVE  SameProbe(s, ClampLease(s, t)) /\ SameProbe(s, ClampCooldown(ClampLease(s, t), t))
<1> DEFINE l == [gen |-> s.lease.gen, expires |-> Least(s.lease.expires, now + t.ttl),
                 exclusive |-> Least(s.lease.exclusive, now + t.window)]
           c == [s EXCEPT !.lease = l]
<1>1. l.gen = s.lease.gen OBVIOUS
<1> HIDE DEF l
<1>2. c.lease = l /\ c.fail = s.fail /\ c.tracked = s.tracked
      /\ c.fail \in Failure /\ "fail" \in DOMAIN c
  BY DEF HealthState
<1>3. ClampLease(s, t) = c BY DEF ClampLease, l
<1> HIDE DEF c
<1>4. SameProbe(s, c) BY <1>1, <1>2 DEF SameProbe
<1>5. CASE c.fail.class # "TransientServer" BY <1>3, <1>4, <1>5 DEF ClampCooldown
<1>6. CASE c.fail.class = "TransientServer"
  <2> DEFINE x == Least(c.fail.until, now + t.transientMax)
             d == [c EXCEPT !.fail.until = x]
  <2>1. d = ClampCooldown(c, t) BY <1>6 DEF ClampCooldown
  <2> HIDE DEF x
  <2>2. d.fail = [c.fail EXCEPT !.until = x] /\ d.lease = c.lease /\ d.tracked = c.tracked
    BY <1>2
  <2>3. d.fail.class = c.fail.class /\ d.fail.at = c.fail.at
    BY <1>2, <2>2 DEF Failure
  <2>4. SameProbe(s, d) BY <1>4, <2>2, <2>3 DEF SameProbe
  <2> QED BY <1>3, <1>4, <2>1, <2>4
<1> QED BY <1>5, <1>6

(* What making room and an observation leave of a table.                    *)
LEMMA RoomBare ==
    ASSUME ClockOK, NEW ids, NEW table \in [ids -> HealthState], NEW x \in ids, NEW up,
           NEW t \in MadeRoom(table, x, up)
    PROVE  /\ t \in [ids -> HealthState]
           /\ \A y \in ids : t[y] = table[y] \/ t[y] = NoEntry
<1>1. NoEntry \in HealthState BY NoEntrySound DEF Sound
<1>2. t = table \/ \E y \in ids : t = [table EXCEPT ![y] = NoEntry]
  BY DEF MadeRoom, Tracked
<1> QED BY <1>1, <1>2

LEMMA NoRoomUntracked ==
    ASSUME NEW table, NEW x, NEW up, MadeRoom(table, x, up) = {}
    PROVE  ~ table[x].tracked
BY DEF MadeRoom

(* The lease of an untracked entry is none.                                 *)
LEMMA UntrackedBare ==
    ASSUME NEW s, Sound(s), Fit(s), ~ s.tracked
    PROVE  Bare(s)
<1>1. s.lease.gen = 0 BY DEF Sound, ClassKept, Fit
<1> QED BY <1>1 DEF Bare, Fit

LEMMA RoutesCalm ==
    ASSUME ClockOK, SoundTable(routes, Routes), \A y \in Routes : Fit(routes[y]),
           NEW r \in Routes, NEW class, NEW retry, NEW repeat, NEW sole, NEW shared,
           NEW t \in ObservedRoutes(routes, r, class, retry, repeat, sole, shared)
    PROVE  /\ \A y \in Routes : Calm(routes[y], t[y])
           /\ \A g : Ceded(t[r], g)
<1>0. routes \in [Routes -> HealthState] BY DEF SoundTable
<1>1. \A s : SameProbe(s, s) BY DEF SameProbe
<1>2. \A s, g : Bare(s) => Ceded(s, g) BY DEF Bare, Ceded
<1>3. CASE class \notin RouteCooldownClasses
  <2>1. t = [routes EXCEPT ![r] = Clear(routes[r])]
    BY <1>3 DEF ObservedRoutes
  <2>2. t[r] = Clear(routes[r]) /\ \A y \in Routes : y # r => t[y] = routes[y]
    BY <1>0, <2>1
  <2>3. Bare(t[r]) BY <2>2, ClearBare
  <2> QED BY <1>1, <1>2, <2>2, <2>3 DEF Calm
<1>4. CASE class \in RouteCooldownClasses /\ MadeRoom(routes, r, RouteUpstream) = {}
  <2>1. t = routes BY <1>4 DEF ObservedRoutes
  <2>2. ~ routes[r].tracked BY <1>4, NoRoomUntracked
  <2>3. Bare(routes[r]) BY <2>2, UntrackedBare DEF SoundTable
  <2> QED BY <1>1, <1>2, <2>1, <2>3 DEF Calm
<1>5. CASE class \in RouteCooldownClasses /\ MadeRoom(routes, r, RouteUpstream) # {}
  <2>1. PICK u \in MadeRoom(routes, r, RouteUpstream) :
            \/ class \in CapacityClasses /\ t = [u EXCEPT ![r] = CapacityObserved(u[r], class)]
            \/ t = [u EXCEPT ![r] = CooledRoute(u[r], class, retry, repeat, shared)]
    BY <1>5 DEF ObservedRoutes
  <2>2. /\ u \in [Routes -> HealthState]
        /\ \A y \in Routes : u[y] = routes[y] \/ u[y] = NoEntry
    BY <1>0, RoomBare
  <2>3. \A y \in Routes : y # r => t[y] = u[y]
    BY <2>1, <2>2
  <2>4. \A y \in Routes : y # r => Calm(routes[y], t[y])
    BY <1>1, <2>2, <2>3, NoEntryBare DEF Calm
  <2>5. CASE class \in CapacityClasses /\ t = [u EXCEPT ![r] = CapacityObserved(u[r], class)]
    <3>1. t[r] = CapacityObserved(u[r], class) BY <2>2, <2>5
    <3>2. Noted(u[r], t[r]) BY <2>2, <2>5, <3>1, CapacityNoted
    <3>3. \A g : Ceded(t[r], g) BY <3>2 DEF Noted, Ceded
    <3>4. Calm(routes[r], t[r])
      <4>1. CASE u[r] = routes[r] BY <3>2, <4>1 DEF Calm
      <4>2. CASE u[r] = NoEntry
        <5>1. u[r].lease.gen = 0 BY <4>2 DEF NoEntry, NoLease
        <5>2. Bare(t[r]) BY <3>2, <5>1 DEF Noted, Bare
        <5> QED BY <5>2 DEF Calm
      <4> QED BY <2>2, <4>1, <4>2
    <3> QED BY <2>4, <3>3, <3>4
  <2>6. CASE t = [u EXCEPT ![r] = CooledRoute(u[r], class, retry, repeat, shared)]
    <3>1. t[r] = CooledRoute(u[r], class, retry, repeat, shared) BY <2>2, <2>6
    <3>2. Bare(t[r]) BY <3>1, CooledBare DEF CooledRoute
    <3> QED BY <1>2, <2>4, <3>2 DEF Calm
  <2> QED BY <2>1, <2>5, <2>6
<1> QED BY <1>3, <1>4, <1>5

LEMMA KeysCalm ==
    ASSUME ClockOK, SoundTable(keys, Keys), \A y \in Keys : Fit(keys[y]),
           NEW k \in Keys, NEW class, NEW retry, NEW t \in ObservedKeys(keys, k, class, retry)
    PROVE  /\ \A y \in Keys : Calm(keys[y], t[y])
           /\ \A g : Ceded(t[k], g)
<1>0. keys \in [Keys -> HealthState] BY DEF SoundTable
<1>1. \A s : SameProbe(s, s) BY DEF SameProbe
<1>2. \A s, g : Bare(s) => Ceded(s, g) BY DEF Bare, Ceded
<1>3. CASE class \notin KeyCooldownClasses
  <2>1. t = [keys EXCEPT ![k] = Clear(keys[k])]
    BY <1>3 DEF ObservedKeys
  <2>2. t[k] = Clear(keys[k]) /\ \A y \in Keys : y # k => t[y] = keys[y]
    BY <1>0, <2>1
  <2>3. Bare(t[k]) BY <2>2, ClearBare
  <2> QED BY <1>1, <1>2, <2>2, <2>3 DEF Calm
<1>4. CASE class \in KeyCooldownClasses /\ MadeRoom(keys, k, UpstreamOf) = {}
  <2>1. t = keys BY <1>4 DEF ObservedKeys
  <2>2. ~ keys[k].tracked BY <1>4, NoRoomUntracked
  <2>3. Bare(keys[k]) BY <2>2, UntrackedBare DEF SoundTable
  <2> QED BY <1>1, <1>2, <2>1, <2>3 DEF Calm
<1>5. CASE class \in KeyCooldownClasses /\ MadeRoom(keys, k, UpstreamOf) # {}
  <2>1. PICK u \in MadeRoom(keys, k, UpstreamOf) :
            \/ class \in CapacityClasses /\ t = [u EXCEPT ![k] = CapacityObserved(u[k], class)]
            \/ t = [u EXCEPT ![k] = CooledKey(u[k], class, retry)]
    BY <1>5 DEF ObservedKeys
  <2>2. /\ u \in [Keys -> HealthState]
        /\ \A y \in Keys : u[y] = keys[y] \/ u[y] = NoEntry
    BY <1>0, RoomBare
  <2>3. \A y \in Keys : y # k => t[y] = u[y]
    BY <2>1, <2>2
  <2>4. \A y \in Keys : y # k => Calm(keys[y], t[y])
    BY <1>1, <2>2, <2>3, NoEntryBare DEF Calm
  <2>5. CASE class \in CapacityClasses /\ t = [u EXCEPT ![k] = CapacityObserved(u[k], class)]
    <3>1. t[k] = CapacityObserved(u[k], class) BY <2>2, <2>5
    <3>2. Noted(u[k], t[k]) BY <2>2, <2>5, <3>1, CapacityNoted
    <3>3. \A g : Ceded(t[k], g) BY <3>2 DEF Noted, Ceded
    <3>4. Calm(keys[k], t[k])
      <4>1. CASE u[k] = keys[k] BY <3>2, <4>1 DEF Calm
      <4>2. CASE u[k] = NoEntry
        <5>1. u[k].lease.gen = 0 BY <4>2 DEF NoEntry, NoLease
        <5>2. Bare(t[k]) BY <3>2, <5>1 DEF Noted, Bare
        <5> QED BY <5>2 DEF Calm
      <4> QED BY <2>2, <4>1, <4>2
    <3> QED BY <2>4, <3>3, <3>4
  <2>6. CASE t = [u EXCEPT ![k] = CooledKey(u[k], class, retry)]
    <3>1. t[k] = CooledKey(u[k], class, retry) BY <2>2, <2>6
    <3>2. Bare(t[k]) BY <3>1, CooledBare DEF CooledKey
    <3> QED BY <1>2, <2>4, <3>2 DEF Calm
  <2> QED BY <2>1, <2>5, <2>6
<1> QED BY <1>3, <1>4, <1>5

-----------------------------------------------------------------------------
(* What a step may do to the permit of the request p that takes it.         *)

(* The permit keeps its generations and will still report.                  *)
PermitKept(p) ==
    /\ permit'[p].route = permit[p].route /\ permit'[p].since = permit[p].since
    /\ permit'[p].routeGen = permit[p].routeGen /\ permit'[p].keyGen = permit[p].keyGen
    /\ Holding(p) <=> Holding(p)'

(* A fresh permit: each generation it has was never handed out before, and  *)
(* opened the probe of its route or of its key in this step.                *)
PermitNew(p) ==
    /\ permit[p].st = "none" /\ permit'[p].st = "live"
    /\ permit'[p].route \in Routes /\ permit'[p].since = now
    /\ \/ permit'[p].routeGen = 0
       \/ /\ permit'[p].routeGen > nextGen /\ permit'[p].routeGen <= nextGen'
          /\ Opened(routes[permit'[p].route], routes'[permit'[p].route], permit'[p].routeGen)
    /\ permit'[p].keyGen = 0 \/ (permit'[p].keyGen > nextGen /\ permit'[p].keyGen <= nextGen')

(* The permit ends, and with it the leases it owned.                        *)
PermitEnds(p) ==
    /\ permit'[p].st \in {"none", "settled"}
    /\ permit'[p].routeGen = 0 /\ permit'[p].keyGen = 0
    /\ Holding(p) =>
          /\ Ceded(routes'[permit[p].route], permit[p].routeGen)
          /\ Ceded(keys'[KeyOf[permit[p].route]], permit[p].keyGen)

PermitMoves(p) == PermitKept(p) \/ PermitNew(p) \/ PermitEnds(p)

(* The probe that the fresh permit of p opened.                             *)
RouteOpened(p, r) ==
    /\ p \in Requests /\ permit'[p].st = "live" /\ permit'[p].route = r
    /\ permit'[p].routeGen > nextGen
    /\ Opened(routes[r], routes'[r], permit'[p].routeGen)
KeyOpened(p, k) ==
    /\ p \in Requests /\ permit'[p].st = "live" /\ KeyOf[permit'[p].route] = k
    /\ permit'[p].keyGen > nextGen
    /\ Opened(keys[k], keys'[k], permit'[p].keyGen)

(* A step of p, or of nobody, keeps the invariant if it does no more.       *)
LEMMA ProbesKept ==
    ASSUME HealthInv, ProbeInv, NEW p, nextGen' \in Nat, nextGen <= nextGen',
           now' \in Nat, now <= now',
           permit' \in [Requests -> Permit],
           \A r \in Routes : routes'[r] \in HealthState,
           \A k \in Keys : keys'[k] \in HealthState,
           \A q \in Requests : q # p => permit'[q] = permit[q],
           p \in Requests => PermitMoves(p),
           \A r \in Routes : Calm(routes[r], routes'[r]) \/ RouteOpened(p, r),
           \A k \in Keys : Calm(keys[k], keys'[k]) \/ KeyOpened(p, k)
    PROVE  ProbeInv'
<1>0. /\ now \in Nat /\ nextGen \in Nat
      /\ routes \in [Routes -> HealthState] /\ keys \in [Keys -> HealthState]
      /\ permit \in [Requests -> Permit]
      /\ \A q \in Requests : permit[q].st # "none" => permit[q].route \in Routes
      /\ \A r \in Routes : KeyOf[r] \in Keys
  BY TuningTyped, ConstantsAssumption DEF HealthInv, PermitsOK, SoundTable
<1>1. /\ \A r \in Routes : Fit(routes[r])
      /\ \A k \in Keys : Fit(keys[k])
      /\ GensOld /\ OwnerUnique /\ LeaseOwned /\ NothingNewer
  BY DEF ProbeInv
<1>2. ASSUME NEW s \in HealthState, NEW n \in HealthState, Fit(s), Calm(s, n) \/ (\E g : Opened(s, n, g))
      PROVE  Fit(n)'
  <2>1. s.fail.at \in Int /\ n.fail.at \in Int BY DEF HealthState, Failure
  <2>2. n.fail.at <= now /\ (n.tracked \/ n.fail.class = NoClass)
    BY <1>2 DEF Fit, Calm, Bare, SameProbe, Noted, Opened
  <2>3. n.fail.at <= now' BY <1>0, <2>1, <2>2
  <2> QED BY <2>2, <2>3 DEF Fit
<1>3. \A r \in Routes : Fit(routes[r])'
  BY <1>0, <1>1, <1>2 DEF RouteOpened, Fit
<1>4. \A k \in Keys : Fit(keys[k])'
  BY <1>0, <1>1, <1>2 DEF KeyOpened, Fit
<1>5. \A q \in Requests : /\ permit[q].routeGen \in Nat /\ permit[q].keyGen \in Nat
                          /\ permit'[q].routeGen \in Nat /\ permit'[q].keyGen \in Nat
                          /\ permit[q].since \in Int /\ permit'[q].since \in Int
  BY <1>0 DEF Permit
<1>6. GensOld'
  <2> SUFFICES ASSUME NEW q \in Requests
               PROVE  /\ permit'[q].routeGen <= nextGen' /\ permit'[q].keyGen <= nextGen'
                      /\ ~ Holding(q)' => permit'[q].routeGen = 0 /\ permit'[q].keyGen = 0
    BY DEF GensOld
  <2>0. /\ permit[q].routeGen <= nextGen /\ permit[q].keyGen <= nextGen
        /\ ~ Holding(q) => permit[q].routeGen = 0 /\ permit[q].keyGen = 0
    BY <1>1 DEF GensOld
  <2>1. CASE q # p
    <3>1. permit'[q] = permit[q] /\ (Holding(q) <=> Holding(q)') BY <2>1 DEF Holding
    <3> QED BY <1>0, <1>5, <2>0, <3>1
  <2>2. CASE q = p /\ PermitKept(p)
    <3>1. permit'[q].routeGen = permit[q].routeGen /\ permit'[q].keyGen = permit[q].keyGen
          /\ (Holding(q) <=> Holding(q)')
      BY <2>2 DEF PermitKept
    <3> QED BY <1>0, <1>5, <2>0, <3>1
  <2>3. CASE q = p /\ PermitNew(p) BY <1>0, <1>5, <2>3 DEF PermitNew, Holding
  <2>4. CASE q = p /\ PermitEnds(p) BY <1>0, <2>4 DEF PermitEnds
  <2> QED BY <2>1, <2>2, <2>3, <2>4 DEF PermitMoves
<1>7. \A q \in Requests : q # p =>
         /\ permit'[q].routeGen = permit[q].routeGen /\ permit'[q].keyGen = permit[q].keyGen
         /\ permit[q].routeGen <= nextGen /\ permit[q].keyGen <= nextGen
  BY <1>1 DEF GensOld
<1>8. OwnerUnique'
  <2>1. ASSUME NEW q \in Requests, q # p, p \in Requests
        PROVE  /\ permit'[p].routeGen # 0 => permit'[p].routeGen # permit'[q].routeGen
               /\ permit'[p].keyGen # 0 => permit'[p].keyGen # permit'[q].keyGen
    <3>1. CASE PermitKept(p) BY <1>1, <1>7, <2>1, <3>1 DEF PermitKept, OwnerUnique
    <3>2. CASE PermitNew(p) BY <1>0, <1>5, <1>7, <2>1, <3>2 DEF PermitNew
    <3>3. CASE PermitEnds(p) BY <3>3 DEF PermitEnds
    <3> QED BY <2>1, <3>1, <3>2, <3>3 DEF PermitMoves
  <2>2. ASSUME NEW q \in Requests, NEW o \in Requests, q # p, o # p, q # o
        PROVE  /\ permit'[q].routeGen # 0 => permit'[q].routeGen # permit'[o].routeGen
               /\ permit'[q].keyGen # 0 => permit'[q].keyGen # permit'[o].keyGen
    BY <1>1, <1>7, <2>2 DEF OwnerUnique
  <2> QED BY <2>1, <2>2 DEF OwnerUnique
<1>9. LeaseOwned'
  <2>1. ASSUME NEW r \in Routes, routes'[r].lease.gen # 0,
               routes'[r].fail.class \notin CapacityClasses
        PROVE  \E q \in Requests : /\ Holding(q)' /\ permit'[q].route = r
                                   /\ permit'[q].routeGen = routes'[r].lease.gen
    <3>1. CASE RouteOpened(p, r)
      BY <3>1 DEF RouteOpened, Opened, Holding
    <3>2. CASE Calm(routes[r], routes'[r])
      <4>1. routes'[r].lease.gen = routes[r].lease.gen
            /\ routes'[r].fail.class = routes[r].fail.class
        BY <2>1, <3>2 DEF Calm, Bare, SameProbe, Noted
      <4>2. PICK q \in Requests : /\ Holding(q) /\ permit[q].route = r
                                  /\ permit[q].routeGen = routes[r].lease.gen
        BY <1>1, <2>1, <4>1 DEF LeaseOwned, RouteLeaseOwned
      <4>3. CASE q # p
        <5>1. permit'[q] = permit[q] BY <4>3
        <5> QED BY <4>1, <4>2, <5>1 DEF Holding
      <4>4. CASE q = p /\ PermitKept(p)
        BY <4>1, <4>2, <4>4 DEF PermitKept
      <4>5. CASE q = p /\ PermitNew(p)
        BY <4>2, <4>5 DEF PermitNew, Holding
      <4>6. CASE q = p /\ PermitEnds(p)
        BY <2>1, <4>1, <4>2, <4>6 DEF PermitEnds, Ceded
      <4> QED BY <4>3, <4>4, <4>5, <4>6 DEF PermitMoves
    <3> QED BY <3>1, <3>2
  <2>2. ASSUME NEW k \in Keys, keys'[k].lease.gen # 0,
               keys'[k].fail.class \notin CapacityClasses
        PROVE  \E q \in Requests : /\ Holding(q)' /\ KeyOf[permit'[q].route] = k
                                   /\ permit'[q].keyGen = keys'[k].lease.gen
    <3>1. CASE KeyOpened(p, k)
      BY <3>1 DEF KeyOpened, Opened, Holding
    <3>2. CASE Calm(keys[k], keys'[k])
      <4>1. keys'[k].lease.gen = keys[k].lease.gen
            /\ keys'[k].fail.class = keys[k].fail.class
        BY <2>2, <3>2 DEF Calm, Bare, SameProbe, Noted
      <4>2. PICK q \in Requests : /\ Holding(q) /\ KeyOf[permit[q].route] = k
                                  /\ permit[q].keyGen = keys[k].lease.gen
        BY <1>1, <2>2, <4>1 DEF LeaseOwned, KeyLeaseOwned
      <4>3. CASE q # p
        <5>1. permit'[q] = permit[q] BY <4>3
        <5> QED BY <4>1, <4>2, <5>1 DEF Holding
      <4>4. CASE q = p /\ PermitKept(p)
        BY <4>1, <4>2, <4>4 DEF PermitKept
      <4>5. CASE q = p /\ PermitNew(p)
        BY <4>2, <4>5 DEF PermitNew, Holding
      <4>6. CASE q = p /\ PermitEnds(p)
        BY <2>2, <4>1, <4>2, <4>6 DEF PermitEnds, Ceded
      <4> QED BY <4>3, <4>4, <4>5, <4>6 DEF PermitMoves
    <3> QED BY <3>1, <3>2
  <2> QED BY <2>1, <2>2 DEF LeaseOwned, RouteLeaseOwned, KeyLeaseOwned
<1>10. NothingNewer'
  <2> SUFFICES ASSUME NEW q \in Requests, OwnsRoute(q)'
               PROVE  \/ routes'[permit'[q].route].fail.at <= permit'[q].since
                      \/ routes'[permit'[q].route].fail.class \in CapacityClasses
    BY DEF NothingNewer
  <2> DEFINE r == permit'[q].route
  <2>0. permit'[q].routeGen # 0 /\ routes'[r].lease.gen = permit'[q].routeGen
    BY DEF OwnsRoute
  <2>1. CASE permit'[q].route = permit[q].route /\ permit'[q].since = permit[q].since
             /\ permit'[q].routeGen = permit[q].routeGen /\ permit[q].routeGen <= nextGen
             /\ ~ PermitNew(q)
    <3>1. r \in Routes
      BY <1>0, <1>1, <2>0, <2>1 DEF GensOld, Holding
    <3>2. ~ RouteOpened(p, r)
      <4>1. CASE q # p
        BY <1>0, <1>5, <2>0, <2>1 DEF RouteOpened, Opened
      <4>2. CASE q = p
        BY <1>0, <1>5, <2>0, <2>1, <4>2 DEF RouteOpened
      <4> QED BY <4>1, <4>2
    <3>3. Calm(routes[r], routes'[r]) BY <3>1, <3>2
    <3>4. CASE Noted(routes[r], routes'[r]) BY <3>4 DEF Noted
    <3>5. CASE SameProbe(routes[r], routes'[r])
      <4>1. OwnsRoute(q) BY <2>0, <2>1, <3>5 DEF SameProbe, OwnsRoute
      <4>2. \/ routes[r].fail.at <= permit[q].since
            \/ routes[r].fail.class \in CapacityClasses
        BY <1>1, <2>1, <4>1 DEF NothingNewer
      <4> QED BY <2>1, <3>5, <4>2 DEF SameProbe
    <3>6. CASE Bare(routes'[r]) BY <2>0, <3>6 DEF Bare
    <3> QED BY <3>3, <3>4, <3>5, <3>6 DEF Calm
  <2>2. CASE q = p /\ PermitNew(p)
    <3>1. /\ r \in Routes /\ permit'[p].since = now
          /\ Opened(routes[r], routes'[r], permit'[p].routeGen)
      BY <2>0, <2>2 DEF PermitNew
    <3>2. routes[r].fail.at <= now BY <1>1, <3>1 DEF Fit
    <3> QED BY <2>2, <3>1, <3>2 DEF Opened
  <2>3. CASE q = p /\ PermitEnds(p) BY <2>0, <2>3 DEF PermitEnds
  <2>4. CASE q = p /\ PermitKept(p) /\ ~ PermitNew(p)
    BY <1>1, <2>1, <2>4 DEF PermitKept, GensOld
  <2>5. CASE q # p
    <3>1. permit'[q] = permit[q] BY <2>5
    <3>2. ~ PermitNew(q) BY <3>1 DEF PermitNew
    <3> QED BY <1>7, <2>1, <2>5, <3>1, <3>2
  <2> QED BY <2>2, <2>3, <2>4, <2>5 DEF PermitMoves
<1> QED BY <1>3, <1>4, <1>6, <1>8, <1>9, <1>10 DEF ProbeInv

-----------------------------------------------------------------------------
(* Each action does no more.                                                *)

(* The types of the next state, where the clock does not run back and the   *)
(* generations grow.                                                        *)
LEMMA NextTyped ==
    ASSUME HealthInv, HealthInv', nextGen <= nextGen', now <= now'
    PROVE  /\ nextGen' \in Nat /\ now' \in Nat
           /\ permit' \in [Requests -> Permit]
           /\ routes' \in [Routes -> HealthState]
           /\ keys' \in [Keys -> HealthState]
           /\ \A r \in Routes : routes'[r] \in HealthState
           /\ \A k \in Keys : keys'[k] \in HealthState
BY ConstantsAssumption DEF HealthInv, PermitsOK, ClockOK, SoundTable

LEMMA SameCalm == \A s : Calm(s, s)
BY DEF Calm, SameProbe

(* An update of one entry.                                                  *)
LEMMA OneCalm ==
    ASSUME NEW ids, NEW table \in [ids -> HealthState], NEW x \in ids, NEW n,
           NEW new, new = [table EXCEPT ![x] = n], Calm(table[x], n)
    PROVE  new[x] = n /\ \A y \in ids : Calm(table[y], new[y])
BY SameCalm

(* The lemma for an action that ends or keeps the permit of p and opens no  *)
(* probe.                                                                   *)
LEMMA CalmStep ==
    ASSUME HealthInv, HealthInv', ProbeInv, NEW p,
           now' \in Nat, now <= now', nextGen' = nextGen,
           \A q \in Requests : q # p => permit'[q] = permit[q],
           p \in Requests => PermitMoves(p),
           \A r \in Routes : Calm(routes[r], routes'[r]),
           \A k \in Keys : Calm(keys[k], keys'[k])
    PROVE  ProbeInv'
<1>1. nextGen \in Nat /\ nextGen <= nextGen'
  BY ConstantsAssumption DEF HealthInv, PermitsOK
<1> QED BY <1>1, NextTyped, ProbesKept

LEMMA PlainFacts ==
    ASSUME HealthInv, ProbeInv
    PROVE  /\ ClockOK /\ now \in Nat /\ nextGen \in Nat
           /\ SoundTable(routes, Routes) /\ SoundTable(keys, Keys)
           /\ routes \in [Routes -> HealthState] /\ keys \in [Keys -> HealthState]
           /\ \A r \in Routes : Fit(routes[r]) /\ KeyOf[r] \in Keys
           /\ \A k \in Keys : Fit(keys[k])
           /\ permit \in [Requests -> Permit]
           /\ \A q \in Requests : permit[q].st # "none" => permit[q].route \in Routes
BY TuningTyped, ConstantsAssumption DEF HealthInv, ProbeInv, SoundTable, PermitsOK

LEMMA ReserveProbes ==
    ASSUME HealthInv, HealthInv', ProbeInv, NEW p \in Requests, NEW r \in Routes, Reserve(p, r)
    PROVE  ProbeInv'
<1> DEFINE k == KeyOf[r]
<1>0. /\ now \in Nat /\ nextGen \in Nat /\ k \in Keys
      /\ routes \in [Routes -> HealthState] /\ keys \in [Keys -> HealthState]
      /\ Fit(routes[r]) /\ Fit(keys[k])
      /\ permit \in [Requests -> Permit]
  BY PlainFacts
<1>1. now' = now /\ now <= now'
  BY <1>0 DEF Reserve, ReservePassthrough, ReserveRefusedByKey, ReserveRefusedByRoute, ReserveGranted
<1>2. CASE ReservePassthrough(p, r)
  <2>1. PermitMoves(p)
    BY <1>0, <1>2 DEF ReservePassthrough, PermitMoves, PermitNew, Lease
  <2>2. \A q \in Requests : q # p => permit'[q] = permit[q]
    BY <1>0, <1>2 DEF ReservePassthrough
  <2>3. nextGen' = nextGen /\ routes' = routes /\ keys' = keys
    BY <1>2 DEF ReservePassthrough
  <2> QED BY <1>0, <1>1, <2>1, <2>2, <2>3, SameCalm, CalmStep
<1>3. CASE ReserveRefusedByKey(p, r) \/ ReserveRefusedByRoute(p, r)
  <2>1. nextGen' = nextGen /\ routes' = routes /\ permit' = permit
    BY <1>3 DEF ReserveRefusedByKey, ReserveRefusedByRoute
  <2>2. keys' = keys \/ keys' = [keys EXCEPT ![k] = DropExpiredLease(keys[k])]
    BY <1>3 DEF ReserveRefusedByKey, ReserveRefusedByRoute
  <2>3. \A y \in Keys : Calm(keys[y], keys'[y])
    <3>1. Calm(keys[k], DropExpiredLease(keys[k])) BY <1>0, ReleaseCalm
    <3> QED BY <1>0, <2>2, <3>1, SameCalm, OneCalm
  <2>4. PermitMoves(p) BY <2>1 DEF PermitMoves, PermitKept, Holding
  <2> QED BY <1>0, <1>1, <2>1, <2>3, <2>4, SameCalm, CalmStep
<1>4. CASE ReserveGranted(p, r)
  <2> DEFINE kg == IF ProbeDue(keys[k]) THEN NextGeneration(nextGen) ELSE 0
             last == IF kg # 0 THEN kg ELSE nextGen
             rg == IF ProbeDue(routes[r]) THEN NextGeneration(last) ELSE 0
             exclusive == now + tuning.window
  <2>1. /\ permit[p].st = "none"
        /\ permit' = [permit EXCEPT ![p] = Lease(r, kg, rg)]
        /\ keys' = [keys EXCEPT ![k] = IF kg # 0 THEN HalfOpen(keys[k], kg, exclusive)
                                                 ELSE DropExpiredLease(keys[k])]
        /\ routes' = [routes EXCEPT ![r] = IF rg # 0 THEN HalfOpen(routes[r], rg, exclusive)
                                                     ELSE DropExpiredLease(routes[r])]
        /\ nextGen' = IF rg # 0 THEN rg ELSE last
    BY <1>4 DEF ReserveGranted
  <2>2. /\ kg = 0 \/ (kg \in Nat /\ kg > nextGen /\ kg <= nextGen')
        /\ rg = 0 \/ (rg \in Nat /\ rg > nextGen /\ rg <= nextGen')
        /\ nextGen <= nextGen'
    BY <1>0, <2>1 DEF NextGeneration
  <2> HIDE DEF kg, rg, last, exclusive
  <2>3. /\ permit'[p].st = "live" /\ permit'[p].route = r /\ permit'[p].since = now
        /\ permit'[p].routeGen = rg /\ permit'[p].keyGen = kg
        /\ \A q \in Requests : q # p => permit'[q] = permit[q]
    BY <1>0, <2>1 DEF Lease
  <2>4. /\ rg # 0 => Opened(routes[r], routes'[r], rg)
        /\ rg = 0 => Calm(routes[r], routes'[r])
        /\ \A y \in Routes : y # r => Calm(routes[y], routes'[y])
    <3>1. routes'[r] = IF rg # 0 THEN HalfOpen(routes[r], rg, exclusive)
                                 ELSE DropExpiredLease(routes[r])
      BY <1>0, <2>1
    <3>2. Opened(routes[r], HalfOpen(routes[r], rg, exclusive), rg) BY <1>0, HalfOpenOpens
    <3>3. Calm(routes[r], DropExpiredLease(routes[r])) BY <1>0, ReleaseCalm
    <3>4. \A y \in Routes : y # r => routes'[y] = routes[y] BY <1>0, <2>1
    <3> QED BY <3>1, <3>2, <3>3, <3>4, SameCalm
  <2>5. /\ kg # 0 => Opened(keys[k], keys'[k], kg)
        /\ kg = 0 => Calm(keys[k], keys'[k])
        /\ \A y \in Keys : y # k => Calm(keys[y], keys'[y])
    <3>1. keys'[k] = IF kg # 0 THEN HalfOpen(keys[k], kg, exclusive)
                               ELSE DropExpiredLease(keys[k])
      BY <1>0, <2>1
    <3>2. Opened(keys[k], HalfOpen(keys[k], kg, exclusive), kg) BY <1>0, HalfOpenOpens
    <3>3. Calm(keys[k], DropExpiredLease(keys[k])) BY <1>0, ReleaseCalm
    <3>4. \A y \in Keys : y # k => keys'[y] = keys[y] BY <1>0, <2>1
    <3> QED BY <3>1, <3>2, <3>3, <3>4, SameCalm
  <2>6. PermitMoves(p)
    BY <2>1, <2>2, <2>3, <2>4 DEF PermitMoves, PermitNew
  <2>7. \A y \in Routes : Calm(routes[y], routes'[y]) \/ RouteOpened(p, y)
    BY <2>2, <2>3, <2>4 DEF RouteOpened
  <2>8. \A y \in Keys : Calm(keys[y], keys'[y]) \/ KeyOpened(p, y)
    BY <2>2, <2>3, <2>5 DEF KeyOpened
  <2> HIDE DEF k
  <2> QED BY <1>0, <1>1, <2>2, <2>3, <2>6, <2>7, <2>8, NextTyped, ProbesKept
<1> QED BY <1>2, <1>3, <1>4 DEF Reserve

LEMMA EarlyProbes ==
    ASSUME HealthInv, HealthInv', ProbeInv, NEW p \in Requests, EarlyProbe(p) \/ Disarm(p)
    PROVE  ProbeInv'
<1> DEFINE r == armed[p]
           k == KeyOf[r]
<1>0. /\ now \in Nat /\ nextGen \in Nat
      /\ routes \in [Routes -> HealthState] /\ keys \in [Keys -> HealthState]
      /\ permit \in [Requests -> Permit] /\ r \in Routes \cup {NoRoute}
      /\ \A x \in Routes : KeyOf[x] \in Keys
  BY PlainFacts DEF HealthInv, PermitsOK
<1>1. now' = now /\ now <= now'
  BY <1>0 DEF EarlyProbe, EarlyProbePassthrough, EarlyProbeRefused, EarlyProbeGranted, Disarm
<1>2. CASE EarlyProbePassthrough(p)
  <2>1. PermitMoves(p)
    BY <1>0, <1>2 DEF EarlyProbePassthrough, PermitMoves, PermitNew, Lease
  <2>2. \A q \in Requests : q # p => permit'[q] = permit[q]
    BY <1>0, <1>2 DEF EarlyProbePassthrough
  <2>3. nextGen' = nextGen /\ routes' = routes /\ keys' = keys
    BY <1>2 DEF EarlyProbePassthrough
  <2> QED BY <1>0, <1>1, <2>1, <2>2, <2>3, SameCalm, CalmStep
<1>3. CASE EarlyProbeRefused(p) \/ Disarm(p)
  <2>1. nextGen' = nextGen /\ routes' = routes /\ keys' = keys /\ permit' = permit
    BY <1>3 DEF EarlyProbeRefused, Disarm
  <2>2. PermitMoves(p) BY <2>1 DEF PermitMoves, PermitKept, Holding
  <2> QED BY <1>0, <1>1, <2>1, <2>2, SameCalm, CalmStep
<1>4. CASE EarlyProbeGranted(p)
  <2> DEFINE kg == IF ProbeDue(keys[k]) THEN NextGeneration(nextGen) ELSE 0
             rg == NextGeneration(IF kg # 0 THEN kg ELSE nextGen)
             window == now + tuning.window
             exclusive == Least(Greatest(routes[r].fail.until, window), now + tuning.ttl)
             h == HalfOpen(routes[r], rg, exclusive)
  <2>1. /\ permit[p].st = "none" /\ r # NoRoute
        /\ permit' = [permit EXCEPT ![p] = Lease(r, kg, rg)]
        /\ keys' = [keys EXCEPT ![k] = IF kg # 0 THEN HalfOpen(keys[k], kg, window)
                                                 ELSE keys[k]]
        /\ routes' = [routes EXCEPT ![r] = [h EXCEPT !.earlyAt = now]]
        /\ nextGen' = rg
    BY <1>4 DEF EarlyProbeGranted
  <2>2. /\ kg = 0 \/ (kg \in Nat /\ kg > nextGen /\ kg <= nextGen')
        /\ rg # 0 /\ rg \in Nat /\ rg > nextGen /\ rg <= nextGen'
        /\ nextGen <= nextGen'
    BY <1>0, <2>1 DEF NextGeneration
  <2> HIDE DEF kg, rg, window, exclusive
  <2>3. r \in Routes /\ k \in Keys BY <1>0, <2>1
  <2>4. /\ permit'[p].st = "live" /\ permit'[p].route = r /\ permit'[p].since = now
        /\ permit'[p].routeGen = rg /\ permit'[p].keyGen = kg
        /\ \A q \in Requests : q # p => permit'[q] = permit[q]
    BY <1>0, <2>1 DEF Lease
  <2>5. /\ Opened(routes[r], routes'[r], rg)
        /\ \A y \in Routes : y # r => Calm(routes[y], routes'[y])
    <3>1. Opened(routes[r], h, rg) BY <1>0, <2>3, HalfOpenOpens
    <3>2. h.fail = routes[r].fail /\ "fail" \in DOMAIN h /\ DOMAIN h = DOMAIN routes[r]
      BY <1>0, <2>3 DEF HalfOpen, HealthState
    <3>3. routes[r] \in HealthState BY <1>0, <2>3
    <3> DEFINE n == [h EXCEPT !.earlyAt = now]
    <3> HIDE DEF h
    <3>4. n.lease = h.lease /\ n.fail = h.fail /\ n.tracked = h.tracked
      BY <3>2, <3>3 DEF HealthState
    <3>5. routes'[r] = n /\ \A y \in Routes : y # r => routes'[y] = routes[y]
      BY <1>0, <2>1, <2>3
    <3>6. Opened(routes[r], n, rg) BY <3>1, <3>4 DEF Opened
    <3> QED BY <3>5, <3>6, SameCalm
  <2>6. /\ kg # 0 => Opened(keys[k], keys'[k], kg)
        /\ kg = 0 => Calm(keys[k], keys'[k])
        /\ \A y \in Keys : y # k => Calm(keys[y], keys'[y])
    <3>1. keys'[k] = IF kg # 0 THEN HalfOpen(keys[k], kg, window) ELSE keys[k]
      BY <1>0, <2>1, <2>3
    <3>2. Opened(keys[k], HalfOpen(keys[k], kg, window), kg) BY <1>0, <2>3, HalfOpenOpens
    <3>3. \A y \in Keys : y # k => keys'[y] = keys[y] BY <1>0, <2>1
    <3> QED BY <3>1, <3>2, <3>3, SameCalm
  <2> HIDE DEF h
  <2>7. PermitMoves(p)
    BY <2>1, <2>2, <2>3, <2>4, <2>5 DEF PermitMoves, PermitNew
  <2>8. \A y \in Routes : Calm(routes[y], routes'[y]) \/ RouteOpened(p, y)
    BY <2>2, <2>4, <2>5 DEF RouteOpened
  <2>9. \A y \in Keys : Calm(keys[y], keys'[y]) \/ KeyOpened(p, y)
    BY <2>2, <2>4, <2>6 DEF KeyOpened
  <2> HIDE DEF k, r
  <2> QED BY <1>0, <1>1, <2>2, <2>4, <2>7, <2>8, <2>9, NextTyped, ProbesKept
<1> QED BY <1>2, <1>3, <1>4 DEF EarlyProbe

(* What a success leaves of the two entries of the permit.                  *)
LEMMA SuccessCalm ==
    ASSUME HealthInv, ProbeInv, NEW p \in Requests, permit[p].route \in Routes
    PROVE  LET r == permit[p].route
               k == KeyOf[r]
           IN  /\ Calm(routes[r], RouteAfterSuccess(p))
               /\ Ceded(RouteAfterSuccess(p), permit[p].routeGen)
               /\ Calm(keys[k], KeyAfterSuccess(p))
               /\ Ceded(KeyAfterSuccess(p), permit[p].keyGen)
<1> DEFINE r == permit[p].route
           k == KeyOf[r]
<1>0. ClockOK /\ Sound(routes[r]) /\ Fit(routes[r])
  BY PlainFacts DEF SoundTable
<1>1. Bare(Clear(routes[r])) /\ Bare(Clear(keys[k])) BY <1>0, ClearBare
<1>2. \A s, g : Bare(s) => Ceded(s, g) BY DEF Bare, Ceded
<1>3. OwnsRoute(p) => SuccessClears(p)
  <2> SUFFICES ASSUME OwnsRoute(p) PROVE routes[r].tracked BY DEF SuccessClears
  <2>1. routes[r].lease.gen # 0 BY DEF OwnsRoute
  <2> QED BY <1>0, <2>1 DEF Sound, ClassKept, Fit
<1>4. ~ OwnsRoute(p) => Ceded(routes[r], permit[p].routeGen) BY DEF OwnsRoute, Ceded
<1>5. Calm(routes[r], RouteAfterSuccess(p)) /\ Ceded(RouteAfterSuccess(p), permit[p].routeGen)
  BY <1>1, <1>2, <1>3, <1>4, SameCalm DEF RouteAfterSuccess, Calm
<1>6. Calm(keys[k], KeyAfterSuccess(p)) /\ Ceded(KeyAfterSuccess(p), permit[p].keyGen)
  BY <1>1, <1>2, SameCalm DEF KeyAfterSuccess, Calm, Ceded
<1> QED BY <1>5, <1>6

LEMMA RemovedCalm ==
    ASSUME ClockOK, NEW s, NEW n, NEW g, Calm(s, n), Ceded(n, g), NEW m, m = n \/ m = NoEntry
    PROVE  Calm(s, m) /\ Ceded(m, g)
<1>1. Bare(NoEntry) BY NoEntryBare
<1> QED BY <1>1 DEF Calm, Bare, Ceded

(* The end of a permit, in a step that gives up the leases it owned.        *)
LEMMA EndStep ==
    ASSUME HealthInv, HealthInv', ProbeInv, NEW p \in Requests, now' = now, nextGen' = nextGen,
           Finished(p) \/ permit' = [permit EXCEPT ![p] = Settled(permit[p].route)],
           \A r \in Routes : Calm(routes[r], routes'[r]),
           \A k \in Keys : Calm(keys[k], keys'[k]),
           Holding(p) => /\ Ceded(routes'[permit[p].route], permit[p].routeGen)
                         /\ Ceded(keys'[KeyOf[permit[p].route]], permit[p].keyGen)
    PROVE  ProbeInv'
<1>0. permit \in [Requests -> Permit] /\ now \in Nat BY PlainFacts
<1>1. \A q \in Requests : q # p => permit'[q] = permit[q] BY <1>0 DEF Finished
<1>2. PermitEnds(p)
  <2>1. permit'[p].st \in {"none", "settled"} /\ permit'[p].routeGen = 0 /\ permit'[p].keyGen = 0
    BY <1>0 DEF Finished, NoPermit, Settled
  <2> QED BY <2>1 DEF PermitEnds
<1>3. PermitMoves(p) BY <1>2 DEF PermitMoves
<1> HIDE DEF Ceded
<1> QED BY <1>0, <1>1, <1>3, CalmStep

LEMMA ReportProbes ==
    ASSUME HealthInv, HealthInv', ProbeInv, NEW p \in Requests, Report(p)
    PROVE  ProbeInv'
<1> DEFINE r == permit[p].route
           k == KeyOf[r]
           rg == permit[p].routeGen
           kg == permit[p].keyGen
<1>1. permit[p].st # "none" /\ now' = now /\ nextGen' = nextGen
  BY DEF Report, FinishSuccess, FinishRouteFailure, FinishKeyFailure, FinishUncertain,
         FinishCancelled, DropPermit, SettleHealthy, SettledDone, SettledRouteFailure,
         SettledKeyFailure
<1>0. /\ ClockOK /\ now \in Nat /\ r \in Routes /\ k \in Keys
      /\ SoundTable(routes, Routes) /\ SoundTable(keys, Keys)
      /\ routes \in [Routes -> HealthState] /\ keys \in [Keys -> HealthState]
      /\ routes[r] \in HealthState /\ keys[k] \in HealthState
      /\ Fit(routes[r]) /\ Fit(keys[k])
      /\ \A y \in Routes : Fit(routes[y])
      /\ \A y \in Keys : Fit(keys[y])
      /\ permit \in [Requests -> Permit]
  BY <1>1, PlainFacts
<1>2. ASSUME ReleaseKey(p)
      PROVE  (\A y \in Keys : Calm(keys[y], keys'[y])) /\ Ceded(keys'[k], kg)
  <2>1. keys' = [keys EXCEPT ![k] = ReleaseHalfOpen(keys[k], kg)] BY <1>2 DEF ReleaseKey
  <2>2. Calm(keys[k], ReleaseHalfOpen(keys[k], kg)) /\ Ceded(ReleaseHalfOpen(keys[k], kg), kg)
    BY <1>0, ReleaseCalm
  <2> QED BY <1>0, <2>1, <2>2, OneCalm
<1>3. /\ Calm(routes[r], ReleaseHalfOpen(routes[r], rg))
      /\ Ceded(ReleaseHalfOpen(routes[r], rg), rg)
  BY <1>0, ReleaseCalm
<1>4. Calm(routes[r], Reapplied(routes[r])) /\ Ceded(Reapplied(routes[r]), rg)
  <2>1. Bare(Reapplied(routes[r])) BY <1>0, ReappliedBare
  <2> QED BY <2>1 DEF Calm, Bare, Ceded
<1>5. CASE FinishSuccess(p)
  <2>1. /\ routes' = [routes EXCEPT ![r] = RouteAfterSuccess(p)]
        /\ keys' = [keys EXCEPT ![k] = KeyAfterSuccess(p)] /\ Finished(p)
    BY <1>5 DEF FinishSuccess
  <2>4. /\ Calm(routes[r], RouteAfterSuccess(p)) /\ Ceded(RouteAfterSuccess(p), rg)
        /\ Calm(keys[k], KeyAfterSuccess(p)) /\ Ceded(KeyAfterSuccess(p), kg)
    BY <1>0, SuccessCalm
  <2>2. (\A y \in Routes : Calm(routes[y], routes'[y])) /\ Ceded(routes'[r], rg)
    BY <1>0, <2>1, <2>4, OneCalm
  <2>3. (\A y \in Keys : Calm(keys[y], keys'[y])) /\ Ceded(keys'[k], kg)
    BY <1>0, <2>1, <2>4, OneCalm
  <2> QED BY <1>1, <2>1, <2>2, <2>3, EndStep
<1>6. CASE SettleHealthy(p)
  <2> DEFINE Removed(s) == IF s.tracked /\ IsClear(s) THEN NoEntry ELSE s
             nr == Removed(RouteAfterSuccess(p))
             nk == Removed(KeyAfterSuccess(p))
  <2>1. /\ routes' = [routes EXCEPT ![r] = nr] /\ keys' = [keys EXCEPT ![k] = nk]
        /\ permit' = [permit EXCEPT ![p] = Settled(permit[p].route)]
    BY <1>6 DEF SettleHealthy
  <2>2. (nr = RouteAfterSuccess(p) \/ nr = NoEntry) /\ (nk = KeyAfterSuccess(p) \/ nk = NoEntry)
    OBVIOUS
  <2> HIDE DEF nr, nk
  <2>3. Calm(routes[r], nr) /\ Ceded(nr, rg)
    BY <1>0, <2>2, SuccessCalm, RemovedCalm
  <2>4. Calm(keys[k], nk) /\ Ceded(nk, kg)
    BY <1>0, <2>2, SuccessCalm, RemovedCalm
  <2>5. (\A y \in Routes : Calm(routes[y], routes'[y])) /\ Ceded(routes'[r], rg)
    BY <1>0, <2>1, <2>3, OneCalm
  <2>6. (\A y \in Keys : Calm(keys[y], keys'[y])) /\ Ceded(keys'[k], kg)
    BY <1>0, <2>1, <2>4, OneCalm
  <2> QED BY <1>1, <2>1, <2>5, <2>6, EndStep
<1>7. ASSUME NEW class, NEW retry, NEW repeat, NEW sole, NEW shared,
             FinishRouteFailure(p, class, retry, repeat, sole, shared)
      PROVE  ProbeInv'
  <2>1. /\ routes' \in ObservedRoutes(routes, r, class, retry, repeat, sole, shared)
        /\ ReleaseKey(p) /\ Finished(p)
    BY <1>7 DEF FinishRouteFailure
  <2>2. (\A y \in Routes : Calm(routes[y], routes'[y])) /\ Ceded(routes'[r], rg)
    BY <1>0, <2>1, RoutesCalm
  <2> QED BY <1>1, <1>2, <2>1, <2>2, EndStep
<1>8. ASSUME NEW class, NEW retry, FinishKeyFailure(p, class, retry)
      PROVE  ProbeInv'
  <2>1. /\ routes' = [routes EXCEPT ![r] = ReleaseHalfOpen(routes[r], rg)]
        /\ keys' \in ObservedKeys(keys, k, class, retry) /\ Finished(p)
    BY <1>8 DEF FinishKeyFailure
  <2>2. (\A y \in Routes : Calm(routes[y], routes'[y])) /\ Ceded(routes'[r], rg)
    BY <1>0, <1>3, <2>1, OneCalm
  <2>3. (\A y \in Keys : Calm(keys[y], keys'[y])) /\ Ceded(keys'[k], kg)
    BY <1>0, <2>1, KeysCalm
  <2> QED BY <1>1, <2>1, <2>2, <2>3, EndStep
<1>9. CASE FinishUncertain(p)
  <2>1. ReleaseKey(p) /\ Finished(p) BY <1>9 DEF FinishUncertain
  <2>2. CASE Reapplies(p)
    <3>1. routes' = [routes EXCEPT ![r] = Reapplied(routes[r])]
      BY <1>9, <2>2 DEF FinishUncertain
    <3>2. (\A y \in Routes : Calm(routes[y], routes'[y])) /\ Ceded(routes'[r], rg)
      BY <1>0, <1>4, <3>1, OneCalm
    <3> QED BY <1>1, <1>2, <2>1, <3>2, EndStep
  <2>3. CASE ~ Reapplies(p)
    <3>1. routes' \in ObservedRoutes(routes, r, "Transport", None, FALSE, FALSE, FALSE)
      BY <1>9, <2>3 DEF FinishUncertain
    <3>2. (\A y \in Routes : Calm(routes[y], routes'[y])) /\ Ceded(routes'[r], rg)
      BY <1>0, <3>1, RoutesCalm
    <3> QED BY <1>1, <1>2, <2>1, <3>2, EndStep
  <2> QED BY <2>2, <2>3
<1>10. CASE FinishCancelled(p)
  <2> DEFINE n == IF Reapplies(p) THEN Reapplied(routes[r]) ELSE ReleaseHalfOpen(routes[r], rg)
  <2>1. ReleaseKey(p) /\ Finished(p) /\ routes' = [routes EXCEPT ![r] = n]
    BY <1>10 DEF FinishCancelled
  <2>2. Calm(routes[r], n) /\ Ceded(n, rg) BY <1>3, <1>4
  <2> HIDE DEF n
  <2>3. (\A y \in Routes : Calm(routes[y], routes'[y])) /\ Ceded(routes'[r], rg)
    BY <1>0, <2>1, <2>2, OneCalm
  <2> QED BY <1>1, <1>2, <2>1, <2>3, EndStep
<1>11. CASE DropPermit(p)
  <2>1. permit' = [permit EXCEPT ![p].st = "dropped"] /\ permit[p].st = "live"
        /\ routes' = routes /\ keys' = keys
    BY <1>11 DEF DropPermit
  <2>2. /\ permit'[p].st = "dropped" /\ permit'[p].route = permit[p].route
        /\ permit'[p].since = permit[p].since /\ permit'[p].routeGen = rg /\ permit'[p].keyGen = kg
        /\ \A q \in Requests : q # p => permit'[q] = permit[q]
    BY <1>0, <2>1 DEF Permit
  <2>3. PermitMoves(p) BY <2>1, <2>2 DEF PermitMoves, PermitKept, Holding
  <2> QED BY <1>0, <1>1, <2>1, <2>2, <2>3, SameCalm, CalmStep
<1>12. ASSUME permit[p].st = "settled" PROVE ~ Holding(p) BY <1>12 DEF Holding
<1>13. CASE SettledDone(p)
  <2>1. Finished(p) /\ routes' = routes /\ keys' = keys /\ permit[p].st = "settled"
    BY <1>13 DEF SettledDone
  <2> QED BY <1>1, <1>12, <2>1, SameCalm, EndStep
<1>14. ASSUME NEW class, NEW retry, NEW shared, SettledRouteFailure(p, class, retry, shared)
       PROVE  ProbeInv'
  <2>1. /\ routes' \in ObservedRoutes(routes, r, class, retry, FALSE, FALSE, shared)
        /\ Finished(p) /\ keys' = keys /\ permit[p].st = "settled"
    BY <1>14 DEF SettledRouteFailure
  <2>2. \A y \in Routes : Calm(routes[y], routes'[y])
    BY <1>0, <2>1, RoutesCalm
  <2> QED BY <1>1, <1>12, <2>1, <2>2, SameCalm, EndStep
<1>15. ASSUME NEW class, NEW retry, SettledKeyFailure(p, class, retry)
       PROVE  ProbeInv'
  <2>1. /\ keys' \in ObservedKeys(keys, k, class, retry)
        /\ Finished(p) /\ routes' = routes /\ permit[p].st = "settled"
    BY <1>15 DEF SettledKeyFailure
  <2>2. \A y \in Keys : Calm(keys[y], keys'[y])
    BY <1>0, <2>1, KeysCalm
  <2> QED BY <1>1, <1>12, <2>1, <2>2, SameCalm, EndStep
<1> QED BY <1>5, <1>6, <1>7, <1>8, <1>9, <1>10, <1>11, <1>13, <1>14, <1>15 DEF Report

LEMMA OperatorProbes ==
    ASSUME HealthInv, HealthInv', ProbeInv, Operator \/ Tick \/ UNCHANGED vars
    PROVE  ProbeInv'
<1>0. /\ ClockOK /\ now \in Nat
      /\ routes \in [Routes -> HealthState] /\ keys \in [Keys -> HealthState]
  BY PlainFacts
<1>1. permit' = permit /\ nextGen' = nextGen /\ (now' = now \/ now' = now + 1)
  BY DEF Operator, ClearRouteHealth, Reconcile, UpdateTuning, Tick, vars
<1>2. now' \in Nat /\ now <= now' BY <1>0, <1>1
<1>3. (\A y \in Routes : Calm(routes[y], routes'[y])) /\ (\A y \in Keys : Calm(keys[y], keys'[y]))
  <2>1. CASE Tick \/ UNCHANGED vars
    <3>1. routes' = routes /\ keys' = keys BY <2>1 DEF Tick, vars
    <3> QED BY <3>1, SameCalm
  <2>2. ASSUME NEW r \in Routes, ClearRouteHealth(r)
        PROVE  (\A y \in Routes : Calm(routes[y], routes'[y])) /\ keys' = keys
    <3>1. routes' = [routes EXCEPT ![r] = Clear(routes[r])] /\ keys' = keys
      BY <2>2 DEF ClearRouteHealth
    <3>2. Calm(routes[r], Clear(routes[r])) BY <1>0, ClearBare DEF Calm
    <3> QED BY <1>0, <3>1, <3>2, OneCalm
  <2>3. ASSUME NEW R, NEW K, Reconcile(R, K)
        PROVE  (\A y \in Routes : Calm(routes[y], routes'[y]))
               /\ (\A y \in Keys : Calm(keys[y], keys'[y]))
    <3>1. /\ \A y \in Routes : routes'[y] = routes[y] \/ routes'[y] = NoEntry
          /\ \A y \in Keys : keys'[y] = keys[y] \/ keys'[y] = NoEntry
      BY <2>3 DEF Reconcile
    <3>2. \A s : Calm(s, NoEntry) BY <1>0, NoEntryBare DEF Calm
    <3> QED BY <3>1, <3>2, SameCalm
  <2>4. ASSUME NEW t \in Tunings, UpdateTuning(t)
        PROVE  (\A y \in Routes : Calm(routes[y], routes'[y]))
               /\ (\A y \in Keys : Calm(keys[y], keys'[y]))
    <3>1. /\ \A y \in Routes : routes'[y] = ClampCooldown(ClampLease(routes[y], t), t)
          /\ \A y \in Keys : keys'[y] = ClampLease(keys[y], t)
      BY <2>4 DEF UpdateTuning
    <3> QED BY <1>0, <3>1, ClampSame DEF Calm
  <2> QED BY <2>1, <2>2, <2>3, <2>4, SameCalm DEF Operator
<1>4. PICK x : x \notin Requests BY NoSetContainsEverything
<1> QED BY <1>1, <1>2, <1>3, <1>4, CalmStep

LEMMA ProbeNext == HealthInv /\ ProbeInv /\ [Next]_vars => HealthInv' /\ ProbeInv'
<1> SUFFICES ASSUME HealthInv, ProbeInv, [Next]_vars PROVE HealthInv' /\ ProbeInv' OBVIOUS
<1>1. HealthInv' BY HealthNext
<1>2. ASSUME NEW p \in Requests, Attempt(p) PROVE ProbeInv'
  BY <1>1, <1>2, ReserveProbes, EarlyProbes DEF Attempt
<1>3. ASSUME NEW p \in Requests, Report(p) PROVE ProbeInv'
  BY <1>1, <1>3, ReportProbes
<1> QED BY <1>1, <1>2, <1>3, OperatorProbes DEF Next

LEMMA ProbeInit == Init => ProbeInv
<1> SUFFICES ASSUME Init PROVE ProbeInv OBVIOUS
<1>1. /\ \A r \in Routes : routes[r] = NoEntry
      /\ \A k \in Keys : keys[k] = NoEntry
      /\ \A p \in Requests : permit[p] = NoPermit
      /\ now = 0 /\ nextGen = 0
  BY DEF Init
<1>2. Fit(NoEntry) /\ NoEntry.lease.gen = 0
  BY <1>1 DEF Fit, NoEntry, NoFailure, NoLease, None
<1>3. NoPermit.routeGen = 0 /\ NoPermit.keyGen = 0 BY DEF NoPermit
<1> QED BY <1>1, <1>2, <1>3
    DEF ProbeInv, GensOld, OwnerUnique, LeaseOwned, RouteLeaseOwned, KeyLeaseOwned,
        NothingNewer, OwnsRoute

LEMMA ProbeInvariant == Spec => [](HealthInv /\ ProbeInv)
BY HealthInit, ProbeInit, ProbeNext, PTL DEF Spec

-----------------------------------------------------------------------------
(* Only reserve and the last-resort probe let a request through, and both   *)
(* look at the exclusive windows first.                                     *)
LEMMA AdmittedBy ==
    ASSUME HealthInv, [Next]_vars, NEW p \in Requests, NEW r \in Routes, Admits(p, r)
    PROVE  /\ ~ UNCHANGED vars
           /\ (\E x \in Routes : Reserve(p, x)) \/ EarlyProbe(p)
<1>0. permit \in [Requests -> Permit] BY DEF HealthInv, PermitsOK
<1>1. permit[p].st = "none" /\ permit'[p].st = "live" BY DEF Admits
<1>2. permit' # permit BY <1>1
<1>3. ~ UNCHANGED vars /\ ~ Operator /\ ~ Tick
  BY <1>2 DEF vars, Operator, ClearRouteHealth, Reconcile, UpdateTuning, Tick
<1>4. PICK q \in Requests : Attempt(q) \/ Report(q) BY <1>3 DEF Next
<1>5. CASE Report(q)
  <2>1. /\ permit[q].st # "none"
        /\ \/ permit' = [permit EXCEPT ![q] = NoPermit]
           \/ permit' = [permit EXCEPT ![q] = Settled(permit[q].route)]
           \/ permit' = [permit EXCEPT ![q].st = "dropped"]
    BY <1>5 DEF Report, FinishSuccess, FinishRouteFailure, FinishKeyFailure, FinishUncertain,
         FinishCancelled, DropPermit, SettleHealthy, SettledDone, SettledRouteFailure,
         SettledKeyFailure, Finished
  <2> QED BY <1>0, <1>1, <2>1
<1>6. CASE Attempt(q)
  <2>1. permit' = permit \/ \E l : permit' = [permit EXCEPT ![q] = l]
    BY <1>6 DEF Attempt, Reserve, ReservePassthrough, ReserveRefusedByKey,
         ReserveRefusedByRoute, ReserveGranted, EarlyProbe, EarlyProbePassthrough,
         EarlyProbeRefused, EarlyProbeGranted, Disarm
  <2>2. p = q BY <1>0, <1>1, <2>1
  <2>3. ~ Disarm(q) BY <1>2 DEF Disarm
  <2> QED BY <1>3, <1>6, <2>2, <2>3 DEF Attempt
<1> QED BY <1>4, <1>5, <1>6

LEMMA WindowStep ==
    ASSUME HealthInv, [Next]_vars, NEW p \in Requests, NEW r \in Routes,
           Admits(p, r), tuning.enforced
    PROVE  ~Busy(routes[r]) /\ ~Busy(keys[KeyOf[r]])
<1>0. permit \in [Requests -> Permit] BY DEF HealthInv, PermitsOK
<1>1. permit[p].st = "none" /\ permit'[p].st = "live" /\ permit'[p].route = r BY DEF Admits
<1>2. ASSUME NEW x \in Routes, Reserve(p, x) PROVE ~Busy(routes[r]) /\ ~Busy(keys[KeyOf[r]])
  <2>1. ReserveGranted(p, x)
    BY <1>1, <1>2 DEF Reserve, ReservePassthrough, ReserveRefusedByKey, ReserveRefusedByRoute
  <2>2. x = r /\ ~Busy(routes[x]) /\ ~Busy(keys[KeyOf[x]])
    BY <1>0, <1>1, <2>1 DEF ReserveGranted, Lease
  <2> QED BY <2>2
<1>3. CASE EarlyProbe(p)
  <2>1. EarlyProbeGranted(p)
    BY <1>1, <1>3 DEF EarlyProbe, EarlyProbePassthrough, EarlyProbeRefused
  <2>2. armed[p] = r /\ ProbeGrantable(armed[p])
    BY <1>0, <1>1, <2>1 DEF EarlyProbeGranted, Lease
  <2> QED BY <2>2 DEF ProbeGrantable, ProbeKeyFree, Busy
<1> QED BY <1>2, <1>3, AdmittedBy

(* Half-open probes are exclusive (reserve, reserve_route_health_probe,     *)
(* finish, cancel): a generation has one owner, the owner of a lease will   *)
(* still report, and nobody else is admitted inside its window.             *)
THEOREM ProbesAreExclusive == Spec => ProbeExclusive
<1>1. HealthInv /\ ProbeInv => OwnerUnique /\ LeaseOwned BY DEF ProbeInv
<1>2. HealthInv /\ ProbeInv /\ [Next]_vars =>
         [\A p \in Requests, r \in Routes :
            Admits(p, r) /\ tuning.enforced => ~Busy(routes[r]) /\ ~Busy(keys[KeyOf[r]])]_vars
  BY WindowStep
<1>3. Spec => ExclusiveWindow
  BY <1>2, ProbeInvariant, PTL DEF Spec, ExclusiveWindow
<1>4. Spec => [](OwnerUnique /\ LeaseOwned)
  BY <1>1, ProbeInvariant, PTL
<1> QED BY <1>3, <1>4 DEF ProbeExclusive

LEMMA SuccessSpares ==
    ASSUME HealthInv, ProbeInv, NEW p \in Requests, Succeeds(p), permit[p].routeGen # 0,
           IsCooling(routes[permit[p].route]),
           routes[permit[p].route].fail.at > permit[p].since,
           routes[permit[p].route].fail.class \notin CapacityClasses
    PROVE  routes'[permit[p].route] = routes[permit[p].route]
<1> DEFINE r == permit[p].route
           s == routes[r]
<1>0. /\ now \in Nat /\ r \in Routes
      /\ routes \in [Routes -> HealthState] /\ permit \in [Requests -> Permit]
  BY PlainFacts DEF Succeeds
<1>1. s.fail.at \in Int /\ permit[p].since \in Int BY <1>0 DEF HealthState, Failure, Permit
<1>2. ~ OwnsRoute(p) BY <1>1 DEF ProbeInv, NothingNewer
<1>3. RouteAfterSuccess(p) = s BY <1>2 DEF RouteAfterSuccess, SuccessClears
<1>4. ~ IsClear(s) BY <1>0 DEF IsClear, IsCooling, NoFailure, None
<1>5. routes' = [routes EXCEPT ![r] = s]
  BY <1>3, <1>4 DEF Succeeds, FinishSuccess, SettleHealthy
<1> QED BY <1>0, <1>5

(* The success of a half-open probe never wipes a cooldown recorded after   *)
(* the probe was granted (clear_route_for_success).                         *)
THEOREM ProbeSuccessSpares == Spec => ProbeSuccessKeepsNewer
<1>1. HealthInv /\ ProbeInv /\ [Next]_vars =>
         [\A p \in Requests :
            LET s == routes[permit[p].route] IN
            Succeeds(p) /\ permit[p].routeGen # 0 =>
                (IsCooling(s) /\ s.fail.at > permit[p].since /\ s.fail.class \notin CapacityClasses
                    => routes'[permit[p].route] = s)]_vars
  BY SuccessSpares
<1> QED BY <1>1, ProbeInvariant, PTL DEF Spec, ProbeSuccessKeepsNewer

-----------------------------------------------------------------------------
(* Room: what the registry tracks, and what it gives up for a new entry.    *)

Bounded(table, up) ==
    /\ IsFiniteSet(Tracked(table))
    /\ Cardinality(Tracked(table)) <= RouteCapacity
    /\ \A u \in Upstreams :
        Cardinality({x \in Tracked(table) : up[x] = u}) <= PerUpstreamCapacity

(* A step tracks nothing new, or one identity that room was made for.       *)
Within(table, new, ids, up) ==
    \/ \A x \in ids : new[x].tracked => table[x].tracked
    \/ \E x \in ids : \E t \in MadeRoom(table, x, up) :
          \A y \in ids : new[y].tracked => t[y].tracked \/ y = x

(* No entry with an active probe is given up.                               *)
Spared(table, new, ids) == \A x \in ids : IsActive(table[x]) => new[x].tracked

RoomInv == Bounded(routes, RouteUpstream) /\ Bounded(keys, UpstreamOf)

LEMMA FewerFit ==
    ASSUME NEW T, IsFiniteSet(T), NEW C \in Nat, Cardinality(T) <= C, NEW N, N \subseteq T
    PROVE  IsFiniteSet(N) /\ Cardinality(N) <= C
<1>1. /\ IsFiniteSet(N) /\ Cardinality(N) <= Cardinality(T)
      /\ Cardinality(N) \in Nat /\ Cardinality(T) \in Nat
  BY FS_Subset, FS_CardinalityType
<1> QED BY <1>1

LEMMA OneMoreFits ==
    ASSUME NEW T, IsFiniteSet(T), NEW C \in Nat, Cardinality(T) < C,
           NEW x, NEW N, N \subseteq T \cup {x}
    PROVE  IsFiniteSet(N) /\ Cardinality(N) <= C
<1>1. IsFiniteSet(T \cup {x}) /\ Cardinality(T) \in Nat /\ Cardinality(T \cup {x}) <= C
  BY FS_AddElement, FS_CardinalityType
<1> QED BY <1>1, FewerFit

LEMMA SwapFits ==
    ASSUME NEW T, IsFiniteSet(T), NEW C \in Nat, Cardinality(T) <= C, NEW v \in T,
           NEW x, NEW N, N \subseteq (T \ {v}) \cup {x}
    PROVE  IsFiniteSet(N) /\ Cardinality(N) <= C
<1>1. IsFiniteSet(T \ {v}) /\ Cardinality(T \ {v}) = Cardinality(T) - 1 /\ Cardinality(T) \in Nat
  BY FS_RemoveElement, FS_CardinalityType
<1>2. Cardinality(T \ {v}) < C BY <1>1
<1> QED BY <1>1, <1>2, OneMoreFits

LEMMA ShrinkBounded ==
    ASSUME NEW ids, NEW table \in [ids -> HealthState], NEW new \in [ids -> HealthState],
           NEW up, Bounded(table, up), \A x \in ids : new[x].tracked => table[x].tracked
    PROVE  Bounded(new, up)
<1>0. RouteCapacity \in Nat /\ PerUpstreamCapacity \in Nat BY ConstantsAssumption
<1>1. Tracked(new) \subseteq Tracked(table) BY DEF Tracked
<1>2. IsFiniteSet(Tracked(new)) /\ Cardinality(Tracked(new)) <= RouteCapacity
  BY <1>0, <1>1, FewerFit DEF Bounded
<1>3. ASSUME NEW u \in Upstreams
      PROVE  Cardinality({x \in Tracked(new) : up[x] = u}) <= PerUpstreamCapacity
  <2> DEFINE T == {x \in Tracked(table) : up[x] = u}
             N == {x \in Tracked(new) : up[x] = u}
  <2>1. IsFiniteSet(T)
    <3>1. T \subseteq Tracked(table) OBVIOUS
    <3> QED BY <3>1, FS_Subset DEF Bounded
  <2>2. Cardinality(T) <= PerUpstreamCapacity BY DEF Bounded
  <2>3. N \subseteq T BY <1>1
  <2> QED BY <1>0, <2>1, <2>2, <2>3, FewerFit
<1> QED BY <1>2, <1>3 DEF Bounded

(* Room was made, so one more entry keeps both bounds.                      *)
LEMMA RoomBounded ==
    ASSUME NEW ids, NEW table \in [ids -> HealthState], NEW new \in [ids -> HealthState],
           NEW up, Bounded(table, up), NEW x \in ids, NEW t \in MadeRoom(table, x, up),
           \A y \in ids : new[y].tracked => t[y].tracked \/ y = x
    PROVE  Bounded(new, up)
<1> DEFINE T == Tracked(table)
           N == Tracked(new)
           Of(S, u) == {y \in S : up[y] = u}
           siblings == Of(T, up[x])
           full == Cardinality(siblings) >= PerUpstreamCapacity
<1>0. RouteCapacity \in Nat /\ PerUpstreamCapacity \in Nat BY ConstantsAssumption
<1>1. IsFiniteSet(T) /\ Cardinality(T) <= RouteCapacity /\ Cardinality(T) \in Nat
  BY FS_CardinalityType DEF Bounded
<1>2. \A u : IsFiniteSet(Of(T, u)) /\ Cardinality(Of(T, u)) \in Nat
  <2>1. \A u : Of(T, u) \subseteq T OBVIOUS
  <2> QED BY <1>1, <2>1, FS_Subset, FS_CardinalityType
<1>3. \A u \in Upstreams : Cardinality(Of(T, u)) <= PerUpstreamCapacity BY DEF Bounded
<1>4. CASE table[x].tracked
  <2>1. t = table BY <1>4 DEF MadeRoom
  <2>2. \A y \in ids : new[y].tracked => table[y].tracked BY <1>4, <2>1
  <2> QED BY <2>2, ShrinkBounded
<1>5. CASE ~ table[x].tracked /\ Cardinality(T) < RouteCapacity /\ ~ full
  <2>1. t = table BY <1>0, <1>1, <1>2, <1>5 DEF MadeRoom, Full
  <2>2. N \subseteq T \cup {x} BY <2>1 DEF Tracked
  <2>3. IsFiniteSet(N) /\ Cardinality(N) <= RouteCapacity
    BY <1>0, <1>1, <1>5, <2>2, OneMoreFits
  <2>4. ASSUME NEW u \in Upstreams PROVE Cardinality(Of(N, u)) <= PerUpstreamCapacity
    <3>1. CASE u = up[x]
      <4>1. Of(N, u) \subseteq Of(T, u) \cup {x} BY <2>2
      <4>2. Cardinality(Of(T, u)) < PerUpstreamCapacity BY <1>0, <1>2, <1>5, <3>1
      <4> HIDE DEF Of
      <4> QED BY <1>0, <1>2, <4>1, <4>2, OneMoreFits
    <3>2. CASE u # up[x]
      <4>1. Of(N, u) \subseteq Of(T, u) BY <2>2, <3>2
      <4> HIDE DEF Of
      <4> QED BY <1>0, <1>2, <1>3, <4>1, FewerFit
    <3> QED BY <3>1, <3>2
  <2> QED BY <2>3, <2>4 DEF Bounded
<1>6. CASE ~ table[x].tracked /\ ~ (Cardinality(T) < RouteCapacity /\ ~ full)
  <2>1. PICK v \in T : (full => up[v] = up[x]) /\ t = [table EXCEPT ![v] = NoEntry]
    BY <1>0, <1>1, <1>2, <1>6 DEF MadeRoom, Full
  <2>2. N \subseteq (T \ {v}) \cup {x}
    <3>1. v \in ids /\ ~ t[v].tracked /\ \A y \in ids : y # v => t[y] = table[y]
      BY <2>1 DEF Tracked, NoEntry
    <3> QED BY <3>1 DEF Tracked
  <2>3. IsFiniteSet(N) /\ Cardinality(N) <= RouteCapacity
    BY <1>0, <1>1, <2>2, SwapFits
  <2>4. ASSUME NEW u \in Upstreams PROVE Cardinality(Of(N, u)) <= PerUpstreamCapacity
    <3>1. CASE u = up[x] /\ full
      <4>1. Of(N, u) \subseteq (Of(T, u) \ {v}) \cup {x} BY <2>2
      <4>2. v \in Of(T, u) BY <2>1, <3>1
      <4> HIDE DEF Of
      <4> QED BY <1>0, <1>2, <1>3, <4>1, <4>2, SwapFits
    <3>2. CASE u = up[x] /\ ~ full
      <4>1. Of(N, u) \subseteq Of(T, u) \cup {x} BY <2>2
      <4>2. Of(T, u) = siblings BY <3>2
      <4>3. Cardinality(Of(T, u)) < PerUpstreamCapacity
        <5>1. Cardinality(siblings) \in Nat BY <1>2
        <5> HIDE DEF siblings, Of
        <5> QED BY <1>0, <3>2, <4>2, <5>1
      <4> HIDE DEF Of
      <4> QED BY <1>0, <1>2, <4>1, <4>3, OneMoreFits
    <3>3. CASE u # up[x]
      <4>1. Of(N, u) \subseteq Of(T, u) BY <2>2, <3>3
      <4> HIDE DEF Of
      <4> QED BY <1>0, <1>2, <1>3, <4>1, FewerFit
    <3> QED BY <3>1, <3>2, <3>3
  <2> QED BY <2>3, <2>4 DEF Bounded
<1> QED BY <1>4, <1>5, <1>6

LEMMA WithinBounded ==
    ASSUME NEW ids, NEW table \in [ids -> HealthState], NEW new \in [ids -> HealthState],
           NEW up, Bounded(table, up), Within(table, new, ids, up)
    PROVE  Bounded(new, up)
<1>1. CASE \A x \in ids : new[x].tracked => table[x].tracked BY <1>1, ShrinkBounded
<1>2. CASE \E x \in ids : \E t \in MadeRoom(table, x, up) :
                \A y \in ids : new[y].tracked => t[y].tracked \/ y = x
  BY <1>2, RoomBounded
<1> QED BY <1>1, <1>2 DEF Within

(* An entry with a lease is in the map.                                     *)
LEMMA ActiveTracked ==
    ASSUME NEW s, Sound(s), Fit(s), IsActive(s) PROVE s.tracked
BY DEF Sound, ClassKept, Fit, IsActive

(* A victim is never one with an active probe (ensure_route_capacity).      *)
LEMMA RoomSpares ==
    ASSUME NEW ids, NEW table \in [ids -> HealthState], NEW x \in ids, NEW up,
           NEW t \in MadeRoom(table, x, up), NEW y \in ids, IsActive(table[y])
    PROVE  t[y] = table[y]
<1>1. t = table \/ \E v \in ids : ~ IsActive(table[v]) /\ t = [table EXCEPT ![v] = NoEntry]
  BY DEF MadeRoom, Tracked, Evictable
<1> QED BY <1>1

LEMMA RoutesWithin ==
    ASSUME SoundTable(routes, Routes), \A y \in Routes : Fit(routes[y]), ClockOK,
           NEW r \in Routes, NEW class, NEW retry, NEW repeat, NEW sole, NEW shared,
           NEW t \in ObservedRoutes(routes, r, class, retry, repeat, sole, shared)
    PROVE  Within(routes, t, Routes, RouteUpstream) /\ Spared(routes, t, Routes)
<1>0. routes \in [Routes -> HealthState] /\ \A y \in Routes : Sound(routes[y]) BY DEF SoundTable
<1>1. \A y \in Routes : IsActive(routes[y]) => routes[y].tracked BY <1>0, ActiveTracked
<1>2. CASE class \notin RouteCooldownClasses
  <2>1. t = [routes EXCEPT ![r] = Clear(routes[r])] BY <1>2 DEF ObservedRoutes
  <2>2. \A y \in Routes : t[y].tracked = routes[y].tracked BY <1>0, <2>1 DEF Clear
  <2> QED BY <1>1, <2>2 DEF Within, Spared
<1>3. CASE class \in RouteCooldownClasses /\ MadeRoom(routes, r, RouteUpstream) = {}
  <2>1. t = routes BY <1>3 DEF ObservedRoutes
  <2> QED BY <1>1, <2>1 DEF Within, Spared
<1>4. CASE class \in RouteCooldownClasses /\ MadeRoom(routes, r, RouteUpstream) # {}
  <2>1. PICK u \in MadeRoom(routes, r, RouteUpstream) :
            \/ t = [u EXCEPT ![r] = CapacityObserved(u[r], class)]
            \/ t = [u EXCEPT ![r] = CooledRoute(u[r], class, retry, repeat, shared)]
    BY <1>4 DEF ObservedRoutes
  <2>2. u \in [Routes -> HealthState] BY <1>0, RoomBare
  <2>3. t[r].tracked /\ \A y \in Routes : y # r => t[y] = u[y]
    BY <2>1, <2>2 DEF CapacityObserved, CooledRoute, Entry
  <2>4. \A y \in Routes : IsActive(routes[y]) => u[y] = routes[y] BY <1>0, RoomSpares
  <2> QED BY <1>1, <2>3, <2>4 DEF Within, Spared
<1> QED BY <1>2, <1>3, <1>4

LEMMA KeysWithin ==
    ASSUME SoundTable(keys, Keys), \A y \in Keys : Fit(keys[y]), ClockOK,
           NEW k \in Keys, NEW class, NEW retry, NEW t \in ObservedKeys(keys, k, class, retry)
    PROVE  Within(keys, t, Keys, UpstreamOf)
<1>0. keys \in [Keys -> HealthState] BY DEF SoundTable
<1>2. CASE class \notin KeyCooldownClasses
  <2>1. t = [keys EXCEPT ![k] = Clear(keys[k])] BY <1>2 DEF ObservedKeys
  <2>2. \A y \in Keys : t[y].tracked = keys[y].tracked BY <1>0, <2>1 DEF Clear
  <2> QED BY <2>2 DEF Within
<1>3. CASE class \in KeyCooldownClasses /\ MadeRoom(keys, k, UpstreamOf) = {}
  <2>1. t = keys BY <1>3 DEF ObservedKeys
  <2> QED BY <2>1 DEF Within
<1>4. CASE class \in KeyCooldownClasses /\ MadeRoom(keys, k, UpstreamOf) # {}
  <2>1. PICK u \in MadeRoom(keys, k, UpstreamOf) :
            \/ t = [u EXCEPT ![k] = CapacityObserved(u[k], class)]
            \/ t = [u EXCEPT ![k] = CooledKey(u[k], class, retry)]
    BY <1>4 DEF ObservedKeys
  <2>2. u \in [Keys -> HealthState] BY <1>0, RoomBare
  <2>3. \A y \in Keys : y # k => t[y] = u[y] BY <2>1, <2>2
  <2> QED BY <2>3 DEF Within
<1> QED BY <1>2, <1>3, <1>4

(* Helpers that leave an entry in the map, or out of it.                    *)
LEMMA HelpersKeepTracked ==
    ASSUME NEW s \in HealthState, NEW g, NEW e, NEW t
    PROVE  /\ Clear(s).tracked = s.tracked
           /\ ReleaseHalfOpen(s, g).tracked = s.tracked
           /\ DropExpiredLease(s).tracked = s.tracked
           /\ HalfOpen(s, g, e).tracked = s.tracked
           /\ [HalfOpen(s, g, e) EXCEPT !.earlyAt = now].tracked = s.tracked
           /\ Reapplied(s).tracked = s.tracked
           /\ ClampLease(s, t).tracked = s.tracked
           /\ ClampCooldown(ClampLease(s, t), t).tracked = s.tracked
<1>1. Clear(s).tracked = s.tracked BY DEF Clear
<1>2. DropLease(s).tracked = s.tracked BY DEF DropLease, HealthState
<1>3. HalfOpen(s, g, e).tracked = s.tracked
      /\ [HalfOpen(s, g, e) EXCEPT !.earlyAt = now].tracked = s.tracked
  BY DEF HalfOpen, HealthState
<1>4. Reapplied(s).tracked = s.tracked
  BY DEF Reapplied, DropLease, HealthState
<1>5. ClampLease(s, t).tracked = s.tracked /\ ClampCooldown(ClampLease(s, t), t).tracked = s.tracked
  BY ClampSame DEF SameProbe
<1> QED BY <1>1, <1>2, <1>3, <1>4, <1>5 DEF ReleaseHalfOpen, DropExpiredLease

LEMMA OneTracked ==
    ASSUME NEW ids, NEW table \in [ids -> HealthState], NEW x \in ids, NEW n,
           NEW new, new = [table EXCEPT ![x] = n], n.tracked = table[x].tracked
    PROVE  \A y \in ids : new[y].tracked = table[y].tracked
OBVIOUS

(* What each step does to the two tables: an active probe is given up only  *)
(* by the success that settles it.                                          *)
RoomKept ==
    /\ Within(routes, routes', Routes, RouteUpstream)
    /\ Within(keys, keys', Keys, UpstreamOf)
    /\ \/ Spared(routes, routes', Routes)
       \/ \E p \in Requests :
            /\ permit'[p].st = "settled"
            /\ \A y \in Routes : IsActive(routes[y]) => routes'[y].tracked \/ permit'[p].route = y

LEMMA SameRoom ==
    ASSUME HealthInv, ProbeInv,
           \A y \in Routes : routes'[y].tracked = routes[y].tracked,
           \A y \in Keys : keys'[y].tracked = keys[y].tracked
    PROVE  RoomKept
<1>1. \A y \in Routes : IsActive(routes[y]) => routes[y].tracked
  BY PlainFacts, ActiveTracked DEF SoundTable
<1> QED BY <1>1 DEF RoomKept, Within, Spared

LEMMA AttemptRoom ==
    ASSUME HealthInv, ProbeInv, NEW p \in Requests, Attempt(p)
    PROVE  RoomKept
<1>0. /\ routes \in [Routes -> HealthState] /\ keys \in [Keys -> HealthState]
      /\ armed[p] \in Routes \cup {NoRoute}
      /\ \A r \in Routes : KeyOf[r] \in Keys
  BY PlainFacts DEF HealthInv, PermitsOK
<1>1. \/ routes' = routes
      \/ \E r \in Routes : \E n : /\ routes' = [routes EXCEPT ![r] = n]
                                    /\ n.tracked = routes[r].tracked
  <2>1. ASSUME NEW r \in Routes, ReserveGranted(p, r)
        PROVE  \E n : routes' = [routes EXCEPT ![r] = n] /\ n.tracked = routes[r].tracked
    <3>1. PICK g, e : \/ routes' = [routes EXCEPT ![r] = HalfOpen(routes[r], g, e)]
                      \/ routes' = [routes EXCEPT ![r] = DropExpiredLease(routes[r])]
      BY <2>1 DEF ReserveGranted
    <3> QED BY <1>0, <3>1, HelpersKeepTracked
  <2>2. ASSUME EarlyProbeGranted(p)
        PROVE  \E r \in Routes : \E n :
                    routes' = [routes EXCEPT ![r] = n] /\ n.tracked = routes[r].tracked
    <3>1. armed[p] \in Routes BY <1>0, <2>2 DEF EarlyProbeGranted
    <3>2. PICK g, e : routes' = [routes EXCEPT ![armed[p]] =
                                    [HalfOpen(routes[armed[p]], g, e) EXCEPT !.earlyAt = now]]
      BY <2>2 DEF EarlyProbeGranted
    <3>3. [HalfOpen(routes[armed[p]], g, e) EXCEPT !.earlyAt = now].tracked
            = routes[armed[p]].tracked
      BY <1>0, <3>1, HelpersKeepTracked
    <3> QED BY <3>1, <3>2, <3>3
  <2> QED BY <2>1, <2>2
      DEF Attempt, Reserve, ReservePassthrough, ReserveRefusedByKey, ReserveRefusedByRoute,
          EarlyProbe, EarlyProbePassthrough, EarlyProbeRefused, Disarm
<1>2. \/ keys' = keys
      \/ \E k \in Keys : \E n : /\ keys' = [keys EXCEPT ![k] = n]
                                  /\ n.tracked = keys[k].tracked
  <2>1. ASSUME NEW r \in Routes, ReserveGranted(p, r) \/ ReserveRefusedByRoute(p, r)
        PROVE  \E k \in Keys : \E n :
                    keys' = [keys EXCEPT ![k] = n] /\ n.tracked = keys[k].tracked
    <3>1. PICK g, e : \/ keys' = [keys EXCEPT ![KeyOf[r]] = HalfOpen(keys[KeyOf[r]], g, e)]
                      \/ keys' = [keys EXCEPT ![KeyOf[r]] = DropExpiredLease(keys[KeyOf[r]])]
      BY <2>1 DEF ReserveGranted, ReserveRefusedByRoute
    <3>2. /\ HalfOpen(keys[KeyOf[r]], g, e).tracked = keys[KeyOf[r]].tracked
          /\ DropExpiredLease(keys[KeyOf[r]]).tracked = keys[KeyOf[r]].tracked
      BY <1>0, HelpersKeepTracked
    <3> QED BY <1>0, <3>1, <3>2
  <2>2. ASSUME EarlyProbeGranted(p)
        PROVE  \E k \in Keys : \E n :
                    keys' = [keys EXCEPT ![k] = n] /\ n.tracked = keys[k].tracked
    <3> DEFINE k == KeyOf[armed[p]]
    <3>1. k \in Keys BY <1>0, <2>2 DEF EarlyProbeGranted
    <3>2. PICK g, e : \/ keys' = [keys EXCEPT ![k] = HalfOpen(keys[k], g, e)]
                      \/ keys' = [keys EXCEPT ![k] = keys[k]]
      BY <2>2 DEF EarlyProbeGranted
    <3> HIDE DEF k
    <3> QED BY <1>0, <3>1, <3>2, HelpersKeepTracked
  <2> QED BY <2>1, <2>2
      DEF Attempt, Reserve, ReservePassthrough, ReserveRefusedByKey,
          EarlyProbe, EarlyProbePassthrough, EarlyProbeRefused, Disarm
<1>3. \A y \in Routes : routes'[y].tracked = routes[y].tracked BY <1>0, <1>1, OneTracked
<1>4. \A y \in Keys : keys'[y].tracked = keys[y].tracked BY <1>0, <1>2, OneTracked
<1> QED BY <1>3, <1>4, SameRoom

LEMMA ReportRoom ==
    ASSUME HealthInv, ProbeInv, NEW p \in Requests, Report(p)
    PROVE  RoomKept
<1> DEFINE r == permit[p].route
           k == KeyOf[r]
           SameRoutes == \A y \in Routes : routes'[y].tracked = routes[y].tracked
           SameKeys == \A y \in Keys : keys'[y].tracked = keys[y].tracked
<1>1. permit[p].st # "none"
  BY DEF Report, FinishSuccess, FinishRouteFailure, FinishKeyFailure, FinishUncertain,
         FinishCancelled, DropPermit, SettleHealthy, SettledDone, SettledRouteFailure,
         SettledKeyFailure
<1>0. /\ ClockOK /\ r \in Routes /\ k \in Keys
      /\ SoundTable(routes, Routes) /\ SoundTable(keys, Keys)
      /\ routes \in [Routes -> HealthState] /\ keys \in [Keys -> HealthState]
      /\ routes[r] \in HealthState /\ keys[k] \in HealthState
      /\ \A y \in Routes : Fit(routes[y])
      /\ \A y \in Keys : Fit(keys[y])
      /\ permit \in [Requests -> Permit]
  BY <1>1, PlainFacts
<1>2. \A y \in Routes : IsActive(routes[y]) => routes[y].tracked
  BY <1>0, ActiveTracked DEF SoundTable
<1>3. /\ SameRoutes => Within(routes, routes', Routes, RouteUpstream) /\ Spared(routes, routes', Routes)
      /\ SameKeys => Within(keys, keys', Keys, UpstreamOf)
  BY <1>2 DEF Within, Spared
<1>4. ASSUME ReleaseKey(p) PROVE SameKeys
  <2>1. keys' = [keys EXCEPT ![k] = ReleaseHalfOpen(keys[k], permit[p].keyGen)]
    BY <1>4 DEF ReleaseKey
  <2>2. ReleaseHalfOpen(keys[k], permit[p].keyGen).tracked = keys[k].tracked
    BY <1>0, HelpersKeepTracked
  <2> QED BY <1>0, <2>1, <2>2, OneTracked
<1>5. ASSUME NEW class, NEW retry, NEW repeat, NEW sole, NEW shared,
             routes' \in ObservedRoutes(routes, r, class, retry, repeat, sole, shared)
      PROVE  Within(routes, routes', Routes, RouteUpstream) /\ Spared(routes, routes', Routes)
  BY <1>0, <1>5, RoutesWithin
<1>6. ASSUME NEW class, NEW retry, keys' \in ObservedKeys(keys, k, class, retry)
      PROVE  Within(keys, keys', Keys, UpstreamOf)
  BY <1>0, <1>6, KeysWithin
<1>7. RouteAfterSuccess(p).tracked = routes[r].tracked /\ KeyAfterSuccess(p).tracked = keys[k].tracked
  BY <1>0, HelpersKeepTracked DEF RouteAfterSuccess, KeyAfterSuccess
<1>8. CASE FinishSuccess(p)
  <2>1. /\ routes' = [routes EXCEPT ![r] = RouteAfterSuccess(p)]
        /\ keys' = [keys EXCEPT ![k] = KeyAfterSuccess(p)]
    BY <1>8 DEF FinishSuccess
  <2>2. SameRoutes BY <1>0, <1>7, <2>1, OneTracked
  <2>3. SameKeys BY <1>0, <1>7, <2>1, OneTracked
  <2> QED BY <2>2, <2>3, SameRoom
<1>9. CASE SettleHealthy(p)
  <2> DEFINE Removed(s) == IF s.tracked /\ IsClear(s) THEN NoEntry ELSE s
             nr == Removed(RouteAfterSuccess(p))
             nk == Removed(KeyAfterSuccess(p))
  <2>1. /\ routes' = [routes EXCEPT ![r] = nr] /\ keys' = [keys EXCEPT ![k] = nk]
        /\ permit' = [permit EXCEPT ![p] = Settled(r)]
    BY <1>9 DEF SettleHealthy
  <2>2. (nr.tracked => routes[r].tracked) /\ (nk.tracked => keys[k].tracked)
    BY <1>7 DEF NoEntry
  <2> HIDE DEF nr, nk
  <2>3. /\ \A y \in Routes : routes'[y].tracked => routes[y].tracked
        /\ \A y \in Keys : keys'[y].tracked => keys[y].tracked
        /\ \A y \in Routes : y # r => routes'[y] = routes[y]
    BY <1>0, <2>1, <2>2
  <2>4. permit'[p].st = "settled" /\ permit'[p].route = r BY <1>0, <2>1 DEF Settled
  <2> QED BY <1>2, <2>3, <2>4 DEF RoomKept, Within
<1>10. ASSUME NEW class, NEW retry, NEW repeat, NEW sole, NEW shared,
              FinishRouteFailure(p, class, retry, repeat, sole, shared)
       PROVE  RoomKept
  BY <1>3, <1>4, <1>5, <1>10 DEF FinishRouteFailure, RoomKept
<1>11. ASSUME NEW class, NEW retry, FinishKeyFailure(p, class, retry) PROVE RoomKept
  <2>1. routes' = [routes EXCEPT ![r] = ReleaseHalfOpen(routes[r], permit[p].routeGen)]
        /\ keys' \in ObservedKeys(keys, k, class, retry)
    BY <1>11 DEF FinishKeyFailure
  <2>2. SameRoutes BY <1>0, <2>1, HelpersKeepTracked, OneTracked
  <2> QED BY <1>3, <1>6, <2>1, <2>2 DEF RoomKept
<1>12. CASE FinishUncertain(p)
  <2>1. SameKeys BY <1>4, <1>12 DEF FinishUncertain
  <2>2. CASE Reapplies(p)
    <3>1. routes' = [routes EXCEPT ![r] = Reapplied(routes[r])]
      BY <1>12, <2>2 DEF FinishUncertain
    <3>2. SameRoutes BY <1>0, <3>1, HelpersKeepTracked, OneTracked
    <3> QED BY <2>1, <3>2, SameRoom
  <2>3. CASE ~ Reapplies(p)
    <3>1. routes' \in ObservedRoutes(routes, r, "Transport", None, FALSE, FALSE, FALSE)
      BY <1>12, <2>3 DEF FinishUncertain
    <3> QED BY <1>3, <1>5, <2>1, <3>1 DEF RoomKept
  <2> QED BY <2>2, <2>3
<1>13. CASE FinishCancelled(p)
  <2>1. SameKeys BY <1>4, <1>13 DEF FinishCancelled
  <2>2. \/ routes' = [routes EXCEPT ![r] = Reapplied(routes[r])]
        \/ routes' = [routes EXCEPT ![r] = ReleaseHalfOpen(routes[r], permit[p].routeGen)]
    BY <1>13 DEF FinishCancelled
  <2>4. /\ Reapplied(routes[r]).tracked = routes[r].tracked
        /\ ReleaseHalfOpen(routes[r], permit[p].routeGen).tracked = routes[r].tracked
    BY <1>0, HelpersKeepTracked
  <2>3. SameRoutes BY <1>0, <2>2, <2>4, OneTracked
  <2> QED BY <2>1, <2>3, SameRoom
<1>14. CASE DropPermit(p) \/ SettledDone(p)
  <2>1. routes' = routes /\ keys' = keys BY <1>14 DEF DropPermit, SettledDone
  <2> QED BY <2>1, SameRoom
<1>15. ASSUME NEW class, NEW retry, NEW shared, SettledRouteFailure(p, class, retry, shared)
       PROVE  RoomKept
  <2>1. routes' \in ObservedRoutes(routes, r, class, retry, FALSE, FALSE, shared) /\ keys' = keys
    BY <1>15 DEF SettledRouteFailure
  <2> QED BY <1>3, <1>5, <2>1 DEF RoomKept
<1>16. ASSUME NEW class, NEW retry, SettledKeyFailure(p, class, retry) PROVE RoomKept
  <2>1. routes' = routes /\ keys' \in ObservedKeys(keys, k, class, retry)
    BY <1>16 DEF SettledKeyFailure
  <2> QED BY <1>3, <1>6, <2>1 DEF RoomKept
<1> QED BY <1>8, <1>9, <1>10, <1>11, <1>12, <1>13, <1>14, <1>15, <1>16 DEF Report

LEMMA OperatorRoom ==
    ASSUME HealthInv, ProbeInv, Operator \/ Tick \/ UNCHANGED vars
    PROVE  RoomKept
<1>0. routes \in [Routes -> HealthState] /\ keys \in [Keys -> HealthState]
  BY PlainFacts
<1>1. CASE Tick \/ UNCHANGED vars
  <2>1. routes' = routes /\ keys' = keys BY <1>1 DEF Tick, vars
  <2> QED BY <2>1, SameRoom
<1>2. ASSUME NEW r \in Routes, ClearRouteHealth(r) PROVE RoomKept
  <2>1. routes' = [routes EXCEPT ![r] = Clear(routes[r])] /\ keys' = keys
    BY <1>2 DEF ClearRouteHealth
  <2>2. \A y \in Routes : routes'[y].tracked = routes[y].tracked
    BY <1>0, <2>1, HelpersKeepTracked, OneTracked
  <2> QED BY <2>1, <2>2, SameRoom
<1>3. ASSUME NEW R, NEW K, Reconcile(R, K) PROVE RoomKept
  <2>0. \A y \in Routes : IsActive(routes[y]) => routes[y].tracked
    BY PlainFacts, ActiveTracked DEF SoundTable
  <2>1. /\ \A y \in Routes : \/ routes'[y] = routes[y]
                             \/ routes'[y] = NoEntry /\ ~ IsActive(routes[y])
        /\ \A y \in Keys : keys'[y] = keys[y] \/ keys'[y] = NoEntry
    BY <1>3 DEF Reconcile
  <2>2. ~ NoEntry.tracked BY DEF NoEntry
  <2> QED BY <2>0, <2>1, <2>2 DEF RoomKept, Within, Spared
<1>4. ASSUME NEW t \in Tunings, UpdateTuning(t) PROVE RoomKept
  <2>1. /\ \A y \in Routes : routes'[y] = ClampCooldown(ClampLease(routes[y], t), t)
        /\ \A y \in Keys : keys'[y] = ClampLease(keys[y], t)
    BY <1>4 DEF UpdateTuning
  <2>2. /\ \A y \in Routes : routes'[y].tracked = routes[y].tracked
        /\ \A y \in Keys : keys'[y].tracked = keys[y].tracked
    <3>1. \A s \in HealthState :
            /\ ClampLease(s, t).tracked = s.tracked
            /\ ClampCooldown(ClampLease(s, t), t).tracked = s.tracked
      BY HelpersKeepTracked
    <3> QED BY <1>0, <2>1, <3>1
  <2> QED BY <2>2, SameRoom
<1> QED BY <1>1, <1>2, <1>3, <1>4 DEF Operator

LEMMA RoomStep ==
    ASSUME HealthInv, ProbeInv, [Next]_vars PROVE RoomKept
<1>1. ASSUME NEW p \in Requests, Attempt(p) \/ Report(p) PROVE RoomKept
  BY <1>1, AttemptRoom, ReportRoom
<1> QED BY <1>1, OperatorRoom DEF Next

LEMMA RoomInit == Init => RoomInv
<1> SUFFICES ASSUME Init PROVE RoomInv OBVIOUS
<1>1. Tracked(routes) = {} /\ Tracked(keys) = {} BY DEF Init, Tracked, NoEntry
<1>2. IsFiniteSet({}) /\ Cardinality({}) = 0 BY FS_EmptySet
<1>3. /\ \A u : {x \in Tracked(routes) : RouteUpstream[x] = u} = {}
      /\ \A u : {x \in Tracked(keys) : UpstreamOf[x] = u} = {}
  BY <1>1
<1>4. 0 <= RouteCapacity /\ 0 <= PerUpstreamCapacity BY ConstantsAssumption
<1> QED BY <1>1, <1>2, <1>3, <1>4 DEF RoomInv, Bounded

LEMMA RoomNext ==
    HealthInv /\ ProbeInv /\ RoomInv /\ [Next]_vars => HealthInv' /\ ProbeInv' /\ RoomInv'
<1> SUFFICES ASSUME HealthInv, ProbeInv, RoomInv, [Next]_vars
             PROVE  HealthInv' /\ ProbeInv' /\ RoomInv'
  OBVIOUS
<1>1. HealthInv' /\ ProbeInv' BY ProbeNext
<1>2. /\ routes \in [Routes -> HealthState] /\ keys \in [Keys -> HealthState]
      /\ routes' \in [Routes -> HealthState] /\ keys' \in [Keys -> HealthState]
  BY <1>1 DEF HealthInv, SoundTable
<1>3. Within(routes, routes', Routes, RouteUpstream) /\ Within(keys, keys', Keys, UpstreamOf)
  BY RoomStep DEF RoomKept
<1>4. Bounded(routes', RouteUpstream) /\ Bounded(keys', UpstreamOf)
  BY <1>2, <1>3, WithinBounded DEF RoomInv
<1> QED BY <1>1, <1>4 DEF RoomInv, Bounded, Tracked, RouteUpstream

(* The registry stays within its two capacities, and neither the making of  *)
(* room nor a configuration change takes an entry whose probe is active     *)
(* (ensure_route_capacity, ensure_key_capacity, retain_routes).             *)
THEOREM CapacityIsSafe == Spec => CapacitySafe
<1>1. Spec => [](HealthInv /\ ProbeInv /\ RoomInv)
  BY HealthInit, ProbeInit, RoomInit, RoomNext, PTL DEF Spec
<1>2. HealthInv /\ ProbeInv /\ RoomInv => TrackedBounded
  BY DEF RoomInv, Bounded, TrackedBounded
<1>3. HealthInv /\ ProbeInv /\ RoomInv /\ [Next]_vars =>
         [\A r \in Routes :
            IsActive(routes[r]) /\ ~routes'[r].tracked =>
                \E p \in Requests : permit'[p].st = "settled" /\ permit'[p].route = r]_vars
  BY RoomStep DEF RoomKept, Spared
<1>4. Spec => ProbeNeverEvicted
  BY <1>1, <1>3, PTL DEF Spec, ProbeNeverEvicted
<1>5. Spec => []TrackedBounded BY <1>1, <1>2, PTL
<1> QED BY <1>4, <1>5 DEF CapacitySafe

=============================================================================
