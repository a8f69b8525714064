---------------------- MODULE DownstreamAdmissionProofs ----------------------
(***************************************************************************)
(* Proofs about how long and how often a request may be held or refused.   *)
(*                                                                         *)
(* DownstreamAdmission: the limits of a key, for every set of requests,    *)
(* every grouping of them, every limit and every window length.            *)
(* RequestRouting: the sum of the waits of one routed request.             *)
(***************************************************************************)
EXTENDS DownstreamAdmission, RequestRouting, FiniteSetTheorems, WellFoundedInduction, TLAPS

(* What a rollback needs: a request that has taken no slot, or has lost its *)
(* admission, is in no window.                                              *)
SlotOwned == \A r \in Requests : status[r] \in {"new", "rejected"} => slot[r] = None

IInv ==
    /\ TypeOK
    /\ WaitingAdmitted
    /\ LeaseHeld
    /\ SlotOwned
    /\ CapRespected
    /\ QuotaRespected

-----------------------------------------------------------------------------
(* Sets of requests.                                                        *)

LEMMA RequestSets ==
    ASSUME NEW S \in SUBSET Requests
    PROVE  IsFiniteSet(S) /\ Cardinality(S) \in Nat
BY FS_Subset, FS_CardinalityType, AdmissionAssumption DEF AdmissionAssumption

(* Fewer requests count for no more.                                        *)
LEMMA FewerRequests ==
    ASSUME NEW S \in SUBSET Requests, NEW T \in SUBSET S
    PROVE  Cardinality(T) <= Cardinality(S)
BY RequestSets, FS_Subset

(* One more request below a limit stays within it.                          *)
LEMMA OneMore ==
    ASSUME NEW S \in SUBSET Requests, NEW r \in Requests, NEW limit \in Nat,
           ~AtLimit(Cardinality(S), limit),
           NEW T \in SUBSET (S \cup {r})
    PROVE  Cardinality(T) <= limit
<1>1. Cardinality(S \cup {r}) <= Cardinality(S) + 1
  BY RequestSets, FS_AddElement
<1>2. Cardinality(T) <= Cardinality(S \cup {r})
  BY FewerRequests, S \cup {r} \in SUBSET Requests
<1>3. Cardinality(S) < limit
  BY RequestSets DEF AtLimit
<1> QED BY <1>1, <1>2, <1>3, RequestSets

LEMMA LimitsTyped ==
    /\ {MaxConcurrency, PerMinute, MinuteLen, QuotaLimit, QuotaLen, LeaseTtl} \subseteq Nat \ {0}
    /\ MaxClock \in Nat
    /\ \A g \in Groups : GroupCap[g] \in Nat \ {0}
BY AdmissionAssumption DEF AdmissionAssumption

-----------------------------------------------------------------------------
(* A step that only removes leases, or only removes window events, keeps    *)
(* what the limits say of them.                                             *)

LEMMA FewerLeases ==
    ASSUME CapRespected, NEW table,
           \A r \in Requests : table[r] # None => lease[r] # None
    PROVE  /\ Cardinality(Admitted(table)) <= MaxConcurrency
           /\ \A g \in Groups : Cardinality(Bucket(table, g)) <= GroupCap[g]
<1>1. /\ Admitted(table) \in SUBSET Admitted(lease)
      /\ Admitted(lease) \in SUBSET Requests
      /\ \A g : Bucket(table, g) \in SUBSET Bucket(lease, g)
      /\ \A g : Bucket(lease, g) \in SUBSET Requests
  BY DEF Admitted, Bucket
<1>2. Admitted(table) \in SUBSET Requests /\ \A g : Bucket(table, g) \in SUBSET Requests
  BY <1>1
<1>3. Cardinality(Admitted(table)) <= MaxConcurrency
  <2>1. Cardinality(Admitted(table)) <= Cardinality(Admitted(lease))
    BY <1>1, FewerRequests
  <2> QED BY <2>1, <1>1, <1>2, RequestSets, LimitsTyped DEF CapRespected
<1>4. ASSUME NEW g \in Groups
      PROVE  Cardinality(Bucket(table, g)) <= GroupCap[g]
  <2>1. Cardinality(Bucket(table, g)) <= Cardinality(Bucket(lease, g))
    BY <1>1, FewerRequests
  <2> QED BY <2>1, <1>1, <1>2, RequestSets, LimitsTyped DEF CapRespected
<1> QED BY <1>3, <1>4

LEMMA FewerEvents ==
    ASSUME QuotaRespected, TypeOK, TypeOK', now' >= now,
           \A r \in Requests : slot'[r] # None => slot'[r] = slot[r]
    PROVE  QuotaRespected'
<1>1. ASSUME NEW len \in Nat
      PROVE  /\ Counted(now, len)' \in SUBSET Counted(now, len)
             /\ Counted(now, len) \in SUBSET Requests
             /\ Counted(now, len)' \in SUBSET Requests
  BY DEF Counted, InWindow, TypeOK, None
<1>2. Cardinality(Counted(now, MinuteLen)') <= Cardinality(Counted(now, MinuteLen))
  BY <1>1, FewerRequests, LimitsTyped
<1>3. Cardinality(Counted(now, QuotaLen)') <= Cardinality(Counted(now, QuotaLen))
  BY <1>1, FewerRequests, LimitsTyped
<1>4. Cardinality(Counted(now, MinuteLen)') <= PerMinute
  BY <1>1, <1>2, RequestSets, LimitsTyped DEF QuotaRespected
<1>5. Cardinality(Counted(now, QuotaLen)') <= QuotaLimit
  BY <1>1, <1>3, RequestSets, LimitsTyped DEF QuotaRespected
<1> QED BY <1>4, <1>5 DEF QuotaRespected

-----------------------------------------------------------------------------
(* The two steps that add: a slot and a lease.                              *)

LEMMA EvictedTyped ==
    ASSUME TypeOK
    PROVE  /\ Evicted \in [Requests -> (0 .. now) \cup {None}]
           /\ \A r \in Requests : Evicted[r] # None => Evicted[r] = slot[r]
BY DEF TypeOK, Evicted

LEMMA PrunedTyped ==
    ASSUME TypeOK, NEW g
    PROVE  /\ Pruned(g) \in [Requests -> (0 .. now + LeaseTtl) \cup {None}]
           /\ \A r \in Requests : Pruned(g)[r] # None => Pruned(g)[r] = lease[r]
BY DEF TypeOK, Pruned

LEMMA CountedTyped ==
    ASSUME TypeOK, NEW g
    PROVE  /\ CountedLeases(g) \in [Requests -> (0 .. now + LeaseTtl) \cup {None}]
           /\ \A r \in Requests : /\ CountedLeases(g)[r] # None => lease[r] # None
                                  /\ Pruned(g)[r] # None => CountedLeases(g)[r] # None
<1>1. CASE g = NoGroup
  BY <1>1, PrunedTyped DEF TypeOK, CountedLeases
<1>2. CASE g # NoGroup
  BY <1>2, PrunedTyped DEF CountedLeases
<1> QED BY <1>1, <1>2

(* A slot is taken only below both window limits.                           *)
LEMMA SlotKeepsQuota ==
    ASSUME TypeOK, QuotaRespected, NEW r \in Requests, SlotTaken(r)
    PROVE  QuotaRespected'
<1>1. /\ now' = now /\ slot' = [Evicted EXCEPT ![r] = now]
      /\ ~AtLimit(Cardinality(Counted(now, MinuteLen)), PerMinute)
      /\ ~AtLimit(Cardinality(Counted(now, QuotaLen)), QuotaLimit)
  BY DEF SlotTaken, MinuteFull, QuotaFull
<1>2. \A q \in Requests \ {r} : slot'[q] # None => slot'[q] = slot[q]
  BY <1>1, EvictedTyped
<1>3. \A len \in Nat : /\ Counted(now, len)' \in SUBSET (Counted(now, len) \cup {r})
                       /\ Counted(now, len) \in SUBSET Requests
  BY <1>1, <1>2 DEF Counted, InWindow
<1>4. Cardinality(Counted(now, MinuteLen)') <= PerMinute
  BY <1>1, <1>3, OneMore, LimitsTyped
<1>5. Cardinality(Counted(now, QuotaLen)') <= QuotaLimit
  BY <1>1, <1>3, OneMore, LimitsTyped
<1> QED BY <1>4, <1>5 DEF QuotaRespected

(* A lease is granted only below the cap of its group and of the key.       *)
LEMMA GrantKeepsCap ==
    ASSUME TypeOK, CapRespected, NEW r \in Requests, LeaseGranted(r)
    PROVE  CapRespected'
<1> DEFINE h == GroupOf[r]
<1>1. /\ lease' = [Pruned(h) EXCEPT ![r] = now + LeaseTtl]
      /\ ~GroupFull(h) /\ ~KeyFull(h)
  BY DEF LeaseGranted
<1>2. Pruned(h) \in [Requests -> (0 .. now + LeaseTtl) \cup {None}]
  BY PrunedTyped
<1>3. \A q \in Requests \ {r} : lease'[q] = Pruned(h)[q]
  BY <1>1, <1>2
<1> HIDE DEF h
<1>4. Cardinality(Admitted(lease)') <= MaxConcurrency
  <2>1. /\ Admitted(lease)' \in SUBSET (Admitted(CountedLeases(h)) \cup {r})
        /\ Admitted(CountedLeases(h)) \in SUBSET Requests
    BY <1>3, CountedTyped DEF Admitted
  <2>2. ~AtLimit(Cardinality(Admitted(CountedLeases(h))), MaxConcurrency)
    BY <1>1 DEF KeyFull
  <2> QED BY <2>1, <2>2, OneMore, LimitsTyped
<1>5. ASSUME NEW g \in Groups
      PROVE  Cardinality(Bucket(lease, g)') <= GroupCap[g]
  <2>1. CASE g = h
    <3>1. /\ Bucket(lease, g)' \in SUBSET (Bucket(Pruned(h), h) \cup {r})
          /\ Bucket(Pruned(h), h) \in SUBSET Requests
      BY <1>3, <2>1 DEF Bucket, Admitted
    <3>2. ~AtLimit(Cardinality(Bucket(Pruned(h), h)), GroupCap[h])
      BY <1>1, <2>1, AdmissionAssumption DEF GroupFull, AdmissionAssumption
    <3>3. GroupCap[h] \in Nat
      BY <2>1, LimitsTyped
    <3> QED BY <3>1, <3>2, <3>3, <2>1, OneMore
  <2>2. CASE g # h
    <3>1. /\ Bucket(lease, g)' \in SUBSET Bucket(Pruned(h), g)
          /\ Bucket(Pruned(h), g) \in SUBSET Requests
      BY <1>3, <2>2 DEF Bucket, Admitted, h
    <3>2. Cardinality(Bucket(lease, g)') <= Cardinality(Bucket(Pruned(h), g))
      BY <3>1, FewerRequests
    <3>3. Cardinality(Bucket(Pruned(h), g)) <= GroupCap[g]
      BY PrunedTyped, FewerLeases
    <3>4. Bucket(lease, g)' \in SUBSET Requests
      BY <3>1
    <3> QED BY <3>1, <3>2, <3>3, <3>4, RequestSets, LimitsTyped
  <2> QED BY <2>1, <2>2
<1> QED BY <1>4, <1>5 DEF CapRespected

-----------------------------------------------------------------------------
(* Types.                                                                   *)

LEMMA AdmissionTyped ==
    ASSUME TypeOK, NEW r \in Requests, Admission(r)
    PROVE  TypeOK'
<1>0. status \in [Requests -> Status] /\ LeaseTtl \in Nat /\ now \in Nat
  BY LimitsTyped DEF TypeOK
<1>1. CASE SlotRejected(r) \/ CostRejected(r)
  BY <1>0, <1>1, EvictedTyped DEF SlotRejected, CostRejected, TypeOK, Status
<1>2. CASE SlotTaken(r)
  BY <1>0, <1>2, EvictedTyped DEF SlotTaken, TypeOK, Status
<1>3. CASE LeaseGranted(r)
  BY <1>0, <1>3, PrunedTyped DEF LeaseGranted, TypeOK, Status, StillWaiting
<1>4. CASE LeaseRefused(r)
  BY <1>0, <1>4, CountedTyped DEF LeaseRefused, TypeOK, Status, StillWaiting
<1>5. CASE RollbackRefused(r)
  BY <1>0, <1>5 DEF RollbackRefused, WithoutSlot, TypeOK, Status
<1>6. CASE AbandonRefused(r)
  BY <1>0, <1>6 DEF AbandonRefused, TypeOK, Status
<1> QED BY <1>1, <1>2, <1>3, <1>4, <1>5, <1>6 DEF Admission

LEMMA RunningTyped ==
    ASSUME TypeOK, NEW r \in Requests, Running(r)
    PROVE  TypeOK'
<1>0. status \in [Requests -> Status] /\ LeaseTtl \in Nat /\ now \in Nat
  BY LimitsTyped DEF TypeOK
<1>1. CASE Renew(r)
  BY <1>0, <1>1 DEF Renew, Renewed, TypeOK
<1>2. CASE MarkWaiting(r)
  BY <1>0, <1>2, PrunedTyped DEF MarkWaiting, TypeOK, Status, StillWaiting
<1>3. CASE UnmarkWaiting(r)
  BY <1>0, <1>3 DEF UnmarkWaiting, TypeOK
<1>4. CASE RollbackFailed(r)
  BY <1>0, <1>4 DEF RollbackFailed, WithoutSlot, TypeOK, Status
<1>5. CASE End(r)
  BY <1>0, <1>5 DEF End, TypeOK, Status
<1>6. CASE Release(r)
  BY <1>0, <1>6 DEF Release, TypeOK, Status
<1> QED BY <1>1, <1>2, <1>3, <1>4, <1>5, <1>6 DEF Running

LEMMA NextTyped ==
    ASSUME TypeOK, [Next]_vars
    PROVE  TypeOK'
<1>0. LeaseTtl \in Nat /\ MaxClock \in Nat
  BY LimitsTyped
<1>1. ASSUME NEW r \in Requests, Admission(r) \/ Running(r) PROVE TypeOK'
  BY <1>1, AdmissionTyped, RunningTyped
<1>2. CASE Snapshot
  BY <1>0, <1>2 DEF Snapshot, TypeOK, Admitted
<1>3. CASE ClearDownstream
  BY <1>0, <1>3 DEF ClearDownstream, TypeOK
<1>4. CASE Tick
  <2>1. now' \in 0 .. MaxClock /\ now' = now + 1
    BY <1>0, <1>4 DEF Tick, TypeOK
  <2>2. /\ (0 .. now) \subseteq (0 .. now')
        /\ (0 .. now + LeaseTtl) \subseteq (0 .. now' + LeaseTtl)
    BY <1>0, <2>1 DEF TypeOK
  <2> QED BY <1>4, <2>1, <2>2 DEF Tick, TypeOK
<1>5. CASE UNCHANGED vars
  BY <1>5 DEF vars, TypeOK
<1> QED BY <1>1, <1>2, <1>3, <1>4, <1>5 DEF Next

-----------------------------------------------------------------------------
(* Who holds what.                                                          *)

Owned == WaitingAdmitted /\ LeaseHeld /\ SlotOwned

LEMMA AdmissionOwned ==
    ASSUME TypeOK, Owned, NEW r \in Requests, Admission(r)
    PROVE  Owned'
<1>0. status \in [Requests -> Status] /\ LeaseTtl \in Nat /\ now \in Nat
  BY LimitsTyped DEF TypeOK
<1>1. CASE SlotRejected(r) \/ CostRejected(r)
  BY <1>0, <1>1, EvictedTyped
     DEF SlotRejected, CostRejected, Owned, WaitingAdmitted, LeaseHeld, SlotOwned, Admitted
<1>2. CASE SlotTaken(r)
  BY <1>0, <1>2, EvictedTyped DEF SlotTaken, Owned, WaitingAdmitted, LeaseHeld, SlotOwned, Admitted
<1>3. CASE LeaseGranted(r)
  BY <1>0, <1>3, PrunedTyped
     DEF LeaseGranted, Owned, WaitingAdmitted, LeaseHeld, SlotOwned, StillWaiting, Admitted, None
<1>4. CASE LeaseRefused(r)
  BY <1>0, <1>4, CountedTyped
     DEF LeaseRefused, Owned, WaitingAdmitted, LeaseHeld, SlotOwned, StillWaiting, Admitted
<1>5. CASE RollbackRefused(r)
  BY <1>0, <1>5 DEF RollbackRefused, WithoutSlot, TypeOK,
                    Owned, WaitingAdmitted, LeaseHeld, SlotOwned, Admitted
<1>6. CASE AbandonRefused(r)
  BY <1>0, <1>6 DEF AbandonRefused, Owned, WaitingAdmitted, LeaseHeld, SlotOwned, Admitted
<1> QED BY <1>1, <1>2, <1>3, <1>4, <1>5, <1>6 DEF Admission

LEMMA RunningOwned ==
    ASSUME TypeOK, Owned, NEW r \in Requests, Running(r)
    PROVE  Owned'
<1>0. status \in [Requests -> Status] /\ LeaseTtl \in Nat /\ now \in Nat
  BY LimitsTyped DEF TypeOK
<1>1. CASE Renew(r)
  BY <1>0, <1>1 DEF Renew, Renewed, TypeOK,
                    Owned, WaitingAdmitted, LeaseHeld, SlotOwned, Admitted, None
<1>2. CASE MarkWaiting(r)
  BY <1>0, <1>2, PrunedTyped DEF MarkWaiting, StillWaiting,
                    Owned, WaitingAdmitted, LeaseHeld, SlotOwned, Admitted
<1>3. CASE UnmarkWaiting(r)
  BY <1>0, <1>3 DEF UnmarkWaiting, Owned, WaitingAdmitted, LeaseHeld, SlotOwned, Admitted
<1>4. CASE RollbackFailed(r)
  BY <1>0, <1>4 DEF RollbackFailed, WithoutSlot, TypeOK,
                    Owned, WaitingAdmitted, LeaseHeld, SlotOwned, Admitted
<1>5. CASE End(r)
  BY <1>0, <1>5 DEF End, Owned, WaitingAdmitted, LeaseHeld, SlotOwned, Admitted
<1>6. CASE Release(r)
  BY <1>0, <1>6 DEF Release, TypeOK, Owned, WaitingAdmitted, LeaseHeld, SlotOwned, Admitted
<1> QED BY <1>1, <1>2, <1>3, <1>4, <1>5, <1>6 DEF Running

LEMMA NextOwned ==
    ASSUME TypeOK, Owned, [Next]_vars
    PROVE  Owned'
<1>1. ASSUME NEW r \in Requests, Admission(r) \/ Running(r) PROVE Owned'
  BY <1>1, AdmissionOwned, RunningOwned
<1>2. CASE Snapshot
  BY <1>2 DEF Snapshot, Owned, WaitingAdmitted, LeaseHeld, SlotOwned, Admitted
<1>3. CASE ClearDownstream
  BY <1>3 DEF ClearDownstream, Owned, WaitingAdmitted, LeaseHeld, SlotOwned, Admitted
<1>4. CASE Tick
  BY <1>4 DEF Tick, Owned, WaitingAdmitted, LeaseHeld, SlotOwned, Admitted
<1>5. CASE UNCHANGED vars
  BY <1>5 DEF vars, Owned, WaitingAdmitted, LeaseHeld, SlotOwned, Admitted
<1> QED BY <1>1, <1>2, <1>3, <1>4, <1>5 DEF Next

-----------------------------------------------------------------------------
(* The limits.                                                              *)

Lessening ==
    /\ \A r \in Requests : lease'[r] # None => lease[r] # None
    /\ \A r \in Requests : slot'[r] # None => slot'[r] = slot[r]
    /\ now' >= now

LEMMA OnlyLess ==
    ASSUME TypeOK, TypeOK', CapRespected, QuotaRespected, Lessening
    PROVE  CapRespected' /\ QuotaRespected'
<1>1. QuotaRespected'
  BY FewerEvents DEF Lessening
<1>2. /\ Cardinality(Admitted(lease')) <= MaxConcurrency
      /\ \A g \in Groups : Cardinality(Bucket(lease', g)) <= GroupCap[g]
  BY FewerLeases DEF Lessening
<1> QED BY <1>1, <1>2 DEF CapRespected, Admitted, Bucket

LEMMA NextLimited ==
    ASSUME TypeOK, TypeOK', CapRespected, QuotaRespected, [Next]_vars
    PROVE  CapRespected' /\ QuotaRespected'
<1>0. now \in Nat
  BY DEF TypeOK
<1>1. ASSUME NEW r \in Requests, SlotTaken(r)
      PROVE  CapRespected' /\ QuotaRespected'
  <2>1. lease' = lease
    BY <1>1 DEF SlotTaken
  <2>2. CapRespected'
    BY <2>1 DEF CapRespected, Admitted, Bucket
  <2> QED BY <1>1, <2>2, SlotKeepsQuota
<1>2. ASSUME NEW r \in Requests, LeaseGranted(r)
      PROVE  CapRespected' /\ QuotaRespected'
  <2>1. slot' = slot /\ now' = now
    BY <1>2 DEF LeaseGranted
  <2>2. QuotaRespected'
    BY <2>1 DEF QuotaRespected, Counted
  <2> QED BY <1>2, <2>2, GrantKeepsCap
<1>3. ASSUME NEW r \in Requests, Admission(r), ~SlotTaken(r), ~LeaseGranted(r)
      PROVE  Lessening
  <2>1. CASE SlotRejected(r) \/ CostRejected(r)
    BY <1>0, <2>1, EvictedTyped DEF SlotRejected, CostRejected, Lessening
  <2>2. CASE LeaseRefused(r)
    BY <1>0, <2>2, CountedTyped DEF LeaseRefused, Lessening
  <2>3. CASE RollbackRefused(r)
    BY <1>0, <2>3 DEF RollbackRefused, WithoutSlot, Lessening, TypeOK
  <2>4. CASE AbandonRefused(r)
    BY <1>0, <2>4 DEF AbandonRefused, Lessening
  <2> QED BY <1>3, <2>1, <2>2, <2>3, <2>4 DEF Admission
<1>4. ASSUME NEW r \in Requests, Running(r)
      PROVE  Lessening
  <2>1. CASE Renew(r)
    BY <1>0, <2>1 DEF Renew, Renewed, Lessening, TypeOK
  <2>2. CASE MarkWaiting(r)
    BY <1>0, <2>2, PrunedTyped DEF MarkWaiting, Lessening
  <2>3. CASE UnmarkWaiting(r) \/ End(r)
    BY <1>0, <2>3 DEF UnmarkWaiting, End, Lessening
  <2>4. CASE RollbackFailed(r)
    BY <1>0, <2>4 DEF RollbackFailed, WithoutSlot, Lessening, TypeOK
  <2>5. CASE Release(r)
    BY <1>0, <2>5 DEF Release, Lessening, TypeOK
  <2> QED BY <1>4, <2>1, <2>2, <2>3, <2>4, <2>5 DEF Running
<1>5. CASE Snapshot
  BY <1>0, <1>5, OnlyLess DEF Snapshot, Lessening
<1>6. CASE ClearDownstream
  BY <1>0, <1>6, OnlyLess DEF ClearDownstream, Lessening
<1>7. CASE Tick
  BY <1>0, <1>7, OnlyLess DEF Tick, Lessening
<1>8. CASE UNCHANGED vars
  BY <1>0, <1>8, OnlyLess DEF vars, Lessening
<1> QED BY <1>1, <1>2, <1>3, <1>4, <1>5, <1>6, <1>7, <1>8, OnlyLess DEF Next

-----------------------------------------------------------------------------
(* The inductive invariant holds in every reachable state.                  *)
THEOREM AdmissionInvariant == Spec => []IInv
<1>1. Init => IInv
  <2> SUFFICES ASSUME Init PROVE IInv
    OBVIOUS
  <2>1. TypeOK
    BY LimitsTyped DEF Init, TypeOK, Status
  <2>2. Owned
    BY DEF Init, Owned, WaitingAdmitted, LeaseHeld, SlotOwned, Admitted
  <2>3. /\ Admitted(lease) = {}
        /\ \A g \in Groups : Bucket(lease, g) = {}
        /\ \A len \in Nat : Counted(now, len) = {}
    BY DEF Init, Admitted, Bucket, Counted, InWindow
  <2>4. CapRespected /\ QuotaRespected
    BY <2>3, LimitsTyped, FS_EmptySet DEF CapRespected, QuotaRespected
  <2> QED BY <2>1, <2>2, <2>4 DEF IInv, Owned
<1>2. IInv /\ [Next]_vars => IInv'
  <2> SUFFICES ASSUME IInv, [Next]_vars PROVE IInv'
    OBVIOUS
  <2>1. TypeOK'
    BY NextTyped DEF IInv
  <2>2. Owned'
    BY NextOwned DEF IInv, Owned
  <2>3. CapRespected' /\ QuotaRespected'
    BY <2>1, NextLimited DEF IInv
  <2> QED BY <2>1, <2>2, <2>3 DEF IInv, Owned
<1> QED BY <1>1, <1>2, PTL DEF Spec

(* Whatever requests overlap, expire, renew and roll back, neither a model  *)
(* group nor the key holds more leases than its cap.                        *)
THEOREM CapTheorem == Spec => []CapRespected
<1>1. IInv => CapRespected
  BY DEF IInv
<1> QED BY <1>1, AdmissionInvariant, PTL

(* No sliding window admits more requests than its limit.                   *)
THEOREM QuotaTheorem == Spec => []QuotaRespected
<1>1. IInv => QuotaRespected
  BY DEF IInv
<1> QED BY <1>1, AdmissionInvariant, PTL

(* A waiting mark never outlives its lease, so the runtime snapshot's       *)
(* subtraction never underflows.                                            *)
THEOREM WaitingTheorem == Spec => []WaitingAdmitted
<1>1. IInv => WaitingAdmitted
  BY DEF IInv
<1> QED BY <1>1, AdmissionInvariant, PTL

(* Only a request that still has to release it holds a lease: a late        *)
(* renewal never revives one.                                               *)
THEOREM LeaseHeldTheorem == Spec => []LeaseHeld
<1>1. IInv => LeaseHeld
  BY DEF IInv
<1> QED BY <1>1, AdmissionInvariant, PTL

(* A request answered with a rejection occupies no window slot.             *)
THEOREM RejectedTheorem == Spec => []RejectedFreesSlot
<1>1. IInv => RejectedFreesSlot
  BY DEF IInv, SlotOwned, RejectedFreesSlot
<1> QED BY <1>1, AdmissionInvariant, PTL

-----------------------------------------------------------------------------
(* The Retry-After of a full window.                                        *)

LEMMA LessThanRelation ==
    \E R : IsWellFoundedOn(R, Nat) /\ \A t, u \in Nat : <<u, t>> \in R <=> u < t
<1> DEFINE R == OpToRel(<, Nat)
<1>1. IsWellFoundedOn(R, Nat)
  BY NatLessThanWellFounded
<1>2. \A t, u \in Nat : <<u, t>> \in R <=> u < t
  BY DEF OpToRel
<1> HIDE DEF R
<1> QED BY <1>1, <1>2

LEMMA LeastElement ==
    ASSUME NEW S \in SUBSET Nat, S # {}
    PROVE  \E t \in S : \A u \in S : t <= u
<1>1. PICK R : IsWellFoundedOn(R, Nat) /\ \A t, u \in Nat : <<u, t>> \in R <=> u < t
  BY LessThanRelation
<1>2. \E t \in S : \A u \in S : ~(<<u, t>> \in R)
  BY <1>1, WFMin
<1>3. PICK t \in S : \A u \in S : ~(<<u, t>> \in R)
  BY <1>2
<1>4. \A u \in S : ~(u < t)
  <2> TAKE u \in S
  <2>1. u \in Nat /\ t \in Nat
    OBVIOUS
  <2>2. <<u, t>> \in R <=> u < t
    BY <1>1, <2>1, Zenon
  <2> QED BY <1>3, <2>2, Zenon
<1> QED BY <1>4

(* A finite, nonempty set of events has an oldest one.                      *)
LEMMA OldestExists ==
    ASSUME TypeOK, NEW len \in Nat \ {0}, Counted(now, len) # {}
    PROVE  /\ Oldest(len) \in 0 .. now
           /\ \E r \in Counted(now, len) : slot[r] = Oldest(len)
           /\ \A r \in Counted(now, len) : slot[r] >= Oldest(len)
<1> DEFINE C == Counted(now, len)
           times == {slot[r] : r \in C}
<1>1. times \in SUBSET (0 .. now) /\ times # {}
  BY DEF Counted, InWindow, TypeOK
<1>2. now \in Nat
  BY DEF TypeOK
<1>3. \E t \in times : \A u \in times : t <= u
  <2>1. times \in SUBSET Nat /\ times # {}
    BY <1>1, <1>2
  <2>2. \A S \in SUBSET Nat : S # {} => \E t \in S : \A u \in S : t <= u
    BY LeastElement
  <2> HIDE DEF times
  <2> QED BY <2>1, <2>2
<1>4. \E t \in 0 .. now : /\ \E r \in C : slot[r] = t
                          /\ \A r \in C : slot[r] >= t
  BY <1>1, <1>2, <1>3
<1> QED BY <1>4 DEF Oldest

(* The wait ends exactly when the oldest event leaves the window.           *)
LEMMA RetrySuffices ==
    ASSUME TypeOK, NEW len \in Nat \ {0}, NEW limit \in Nat \ {0},
           AtLimit(Cardinality(Counted(now, len)), limit),
           Cardinality(Counted(now, len)) <= limit
    PROVE  Suffices(len, limit)
<1> DEFINE C(t) == Counted(t, len)
           o == Oldest(len)
           w == RetryAfter(len)
<1>1. C(now) \in SUBSET Requests /\ \A t : C(t) \in SUBSET Requests
  BY DEF Counted
<1>2. now \in Nat
  BY DEF TypeOK
<1>3. C(now) # {}
  BY <1>1, RequestSets, FS_EmptySet DEF AtLimit
<1>4. /\ o \in 0 .. now
      /\ \E r \in C(now) : slot[r] = o
      /\ \A r \in C(now) : slot[r] >= o
  BY <1>3, OldestExists
<1>5. o >= now - (len - 1)
  BY <1>2, <1>4 DEF Counted, InWindow, TypeOK
<1>6. w = o + len - now /\ w \in Nat /\ w >= 1
  BY <1>2, <1>4, <1>5 DEF RetryAfter, Longer
<1> HIDE DEF o, w
<1>7. Cardinality(C(now + w)) < limit
  <2>1. PICK r \in C(now) : slot[r] = o
    BY <1>4
  <2>2. C(now + w) \in SUBSET (C(now) \ {r})
    BY <1>2, <1>4, <1>6, <2>1 DEF Counted, InWindow, TypeOK
  <2>3. Cardinality(C(now) \ {r}) = Cardinality(C(now)) - 1
    BY <1>1, <2>1, RequestSets, FS_RemoveElement
  <2>4. C(now) \ {r} \in SUBSET Requests
    BY <1>1
  <2>5. Cardinality(C(now + w)) <= Cardinality(C(now) \ {r})
    BY <2>2, <2>4, FewerRequests
  <2> QED BY <1>1, <2>3, <2>4, <2>5, RequestSets
<1>8. Cardinality(C((now + w) - 1)) >= limit
  <2>1. C(now) \in SUBSET C((now + w) - 1)
    BY <1>2, <1>4, <1>6 DEF Counted, InWindow, TypeOK
  <2>2. Cardinality(C(now)) <= Cardinality(C((now + w) - 1))
    BY <1>1, <2>1, FewerRequests
  <2> QED BY <1>1, <2>2, RequestSets DEF AtLimit
<1> QED BY <1>7, <1>8 DEF Suffices, w, o

(* The Retry-After a rejected client is given is exact: the window has room *)
(* after that wait, and not a second earlier.                               *)
THEOREM RetryAfterTheorem == Spec => []RetryAfterHonest
<1>1. IInv => RetryAfterHonest
  <2> SUFFICES ASSUME IInv PROVE RetryAfterHonest
    OBVIOUS
  <2>1. MinuteFull => Suffices(MinuteLen, PerMinute)
    BY RetrySuffices, LimitsTyped DEF IInv, QuotaRespected, MinuteFull
  <2>2. QuotaFull => Suffices(QuotaLen, QuotaLimit)
    BY RetrySuffices, LimitsTyped DEF IInv, QuotaRespected, QuotaFull
  <2> QED BY <2>1, <2>2 DEF RetryAfterHonest
<1> QED BY <1>1, AdmissionInvariant, PTL

(* The leases of a key stay within every limit, belong to requests that     *)
(* have not released them, and hold all the waiting marks                   *)
(* (try_reserve_downstream_concurrency, mark_downstream_waiting).           *)
THEOREM AdmissionTheorem == Spec => []AdmissionKept
BY CapTheorem, WaitingTheorem, LeaseHeldTheorem, PTL DEF AdmissionKept

(* The windows of a key stay within their limits, hold no rejected request, *)
(* and announce an exact Retry-After (reserve_downstream_request).          *)
THEOREM WindowTheorem == Spec => []WindowKept
BY QuotaTheorem, RejectedTheorem, RetryAfterTheorem, PTL DEF WindowKept

-----------------------------------------------------------------------------
(* RequestRouting: the waits of one request.                                *)

Largest == Greater(MaxWait, ConcurrencyMaxWait)

Budgets == [round : Nat, waited : Nat, aligned : BOOLEAN, busy : Nat]

(* What is inductive: the account of the waits is a whole one, whatever     *)
(* kind of wait was entered last, and within the larger time budget.        *)
BudgetInv == budget \in Budgets /\ budget.waited <= Largest

(* A wait fits b if it is taken out of what one of the limits leaves.       *)
Fits(b, n) == n \in Nat /\ (b.waited + n <= Largest \/ n = 0)

LEMMA RetryConstants ==
    /\ MaxWait \in Nat /\ ConcurrencyMaxWait \in Nat /\ MaxJitter \in Nat
    /\ BusyRetry \in Nat /\ ReplayBackoff \in Nat
    /\ SameRouteFloor \in Nat /\ SameRouteCeiling \in Nat
    /\ Largest \in Nat /\ MaxWait <= Largest /\ ConcurrencyMaxWait <= Largest
BY RetryAssumption, RoutingAssumption DEF Largest, Greater

(* What a limit leaves fits, and so does anything shorter.                  *)
LEMMA LeftFits ==
    ASSUME NEW b \in Budgets, NEW limit \in Nat, limit <= Largest,
           NEW n \in Nat, n <= Left(limit, b)
    PROVE  /\ Fits(b, n)
           /\ Left(limit, b) \in Nat
<1>1. b.waited \in Nat
  BY DEF Budgets
<1>2. Largest \in Nat
  BY RetryConstants
<1>3. Left(limit, b) = IF limit - b.waited > 0 THEN limit - b.waited ELSE 0
  BY DEF Left, Greater
<1>4. CASE limit - b.waited > 0
  BY <1>1, <1>2, <1>3, <1>4 DEF Fits
<1>5. CASE ~ (limit - b.waited > 0)
  BY <1>1, <1>2, <1>3, <1>5 DEF Fits
<1> QED
  BY <1>4, <1>5

(* Every wait that the policy grants fits: the limit it is measured against *)
(* is one of the two, cut or not.                                           *)
LEMMA FittedFits ==
    ASSUME NEW b \in Budgets, NEW limit \in Nat, limit <= Largest,
           NEW d \in Nat, NEW kind
    PROVE  Fits(b, Fitted(kind, d, Left(limit, b)).sleep)
<1> DEFINE L == Left(limit, b)
<1>1. L \in Nat
  BY RetryConstants DEF Left, Greater, Budgets
<1>2. CASE d <= L
  <2>1. Fitted(kind, d, L).sleep = d
    BY <1>2 DEF Fitted, Wait
  <2> QED
    BY <2>1, <1>2, LeftFits
<1>3. CASE ~ (d <= L) /\ TruncationEnabled /\ L >= BusyRetry
  <2>1. Fitted(kind, d, L).sleep = L
    BY <1>3 DEF Fitted, Wait
  <2>2. L <= L
    BY <1>1
  <2> QED
    BY <1>1, <2>1, <2>2, LeftFits
<1>4. CASE ~ (d <= L) /\ ~ (TruncationEnabled /\ L >= BusyRetry)
  <2>1. Fitted(kind, d, L).sleep = 0
    BY <1>4 DEF Fitted, GiveUpFor
  <2> QED
    BY <2>1 DEF Fits
<1> QED
  BY <1>2, <1>3, <1>4

LEMMA DecisionFits ==
    ASSUME NEW b \in Budgets, NEW temporary, NEW d \in Nat, NEW pureRate, NEW busyOnly,
           NEW rec, rec.delay \in Nat, NEW j \in Nat
    PROVE  Fits(b, Decide(b, temporary, d, rec, pureRate, busyOnly, j).sleep)
<1> DEFINE W == Decide(b, temporary, d, rec, pureRate, busyOnly, j)
<1>1. \A reason : Fits(b, GiveUpFor(reason).sleep)
  BY DEF Fits, GiveUpFor
<1>2. Fits(b, BusyDecision(b, j).sleep)
  <2>1. CASE b.busy + 1 <= BusyMaxRounds /\ ~ (BusyRetry + j > RemainingWait(b))
    <3>1. BusyRetry + j \in Nat /\ MaxWait \in Nat /\ MaxWait <= Largest
      BY RetryConstants
    <3>2. Left(MaxWait, b) \in Nat
      BY RetryConstants DEF Left, Greater, Budgets
    <3>3. BusyRetry + j <= Left(MaxWait, b)
      BY <2>1, <3>1, <3>2 DEF RemainingWait
    <3>4. b.busy \in Nat /\ BusyMaxRounds \in Nat
      BY RetryAssumption DEF Budgets
    <3>5. BusyDecision(b, j).sleep = BusyRetry + j
      BY <2>1, <3>4 DEF BusyDecision, Wait
    <3> QED
      BY <3>1, <3>3, <3>5, LeftFits
  <2>2. CASE b.busy + 1 > BusyMaxRounds
    BY <2>2, <1>1 DEF BusyDecision
  <2>3. CASE ~ (b.busy + 1 > BusyMaxRounds) /\ BusyRetry + j > RemainingWait(b)
    BY <2>3, <1>1 DEF BusyDecision
  <2>4. b.busy \in Nat /\ BusyMaxRounds \in Nat
    BY RetryAssumption DEF Budgets
  <2> QED
    BY <2>1, <2>2, <2>3, <2>4
<1>3. Fits(b, CapDecision(b, rec, pureRate, j).sleep)
  <2>1. rec.delay + j \in Nat /\ MaxWait \in Nat /\ MaxWait <= Largest
    BY RetryConstants
  <2>2. Fits(b, Fitted("aligned", rec.delay + j, RemainingWait(b)).sleep)
    BY <2>1, FittedFits DEF RemainingWait
  <2> QED
    BY <2>2, <1>1 DEF CapDecision
<1>4. \A wait \in Nat : Fits(b, Fitted("ordinary", wait, Left(WaitLimit(rec), b)).sleep)
  <2>1. WaitLimit(rec) \in Nat /\ WaitLimit(rec) <= Largest
    BY RetryConstants DEF WaitLimit
  <2> QED
    BY <2>1, FittedFits
<1>5. (IF rec = NoRecovery THEN d ELSE rec.delay) + j \in Nat
  OBVIOUS
<1> QED
  BY <1>1, <1>2, <1>3, <1>4, <1>5 DEF Decide

(* Entering a wait that fits keeps the account within the budget.           *)
LEMMA RecordedFits ==
    ASSUME BudgetInv, NEW n, Fits(budget, n)
    PROVE  /\ budget.waited + n \in Nat
           /\ budget.waited + n <= Largest
<1>1. budget.waited \in Nat /\ budget.waited <= Largest /\ Largest \in Nat
  BY RetryConstants DEF BudgetInv, Budgets
<1> QED
  BY <1>1 DEF Fits

LEMMA BudgetInitial == RoutingInit => BudgetInv
BY RetryConstants DEF RoutingInit, FreshBudget, BudgetInv, Budgets

LEMMA BudgetStep ==
    ASSUME BudgetInv, [RoutingNext]_routingVars
    PROVE  BudgetInv'
<1>0. budget \in Budgets /\ budget.waited <= Largest
  BY DEF BudgetInv
<1>c. MaxWait \in Nat /\ MaxWait <= Largest /\ Left(MaxWait, budget) \in Nat
  BY <1>0, RetryConstants DEF Left, Greater, Budgets
<1>1. CASE budget' = budget
  BY <1>1 DEF BudgetInv, Largest
<1>2. CASE RetrySameRoute
  <2>1. PICK d \in Delays : budget' = WaitTimeRecorded(budget, SameRouteDelay(d))
    BY <1>2 DEF RetrySameRoute
  <2>2. d \in Nat
    BY RoutingAssumption
  <2>3. SameRouteDelay(d) \in Nat /\ SameRouteDelay(d) <= Left(MaxWait, budget)
    BY <1>c, <2>2, RetryConstants DEF SameRouteDelay, Lesser, Greater, RemainingWait
  <2>4. Fits(budget, SameRouteDelay(d))
    BY <1>0, <1>c, <2>3, LeftFits
  <2>5. budget.waited + SameRouteDelay(d) \in Nat /\ budget.waited + SameRouteDelay(d) <= Largest
    BY <2>4, RecordedFits
  <2> QED
    BY <1>0, <2>1, <2>5 DEF WaitTimeRecorded, BudgetInv, Budgets, Largest
<1>3. CASE ReplayPool
  <2> DEFINE n == Lesser(ReplayBackoff, RemainingWait(budget))
  <2>1. budget' = ExternalWaitRecorded(budget, n)
    BY <1>3 DEF ReplayPool
  <2>2. n \in Nat /\ n <= Left(MaxWait, budget)
    BY <1>c, RetryConstants DEF Lesser, RemainingWait
  <2>3. Fits(budget, n)
    BY <1>0, <1>c, <2>2, LeftFits
  <2>4. budget.waited + n \in Nat /\ budget.waited + n <= Largest
    BY <2>3, RecordedFits
  <2> HIDE DEF n
  <2>5. budget.round + 1 \in Nat
    BY <1>0 DEF Budgets
  <2>6. budget' = [budget EXCEPT !.waited = budget.waited + n, !.round = budget.round + 1]
    BY <2>1 DEF ExternalWaitRecorded
  <2>7. budget' \in Budgets /\ budget'.waited = budget.waited + n
    BY <1>0, <2>4, <2>5, <2>6 DEF Budgets
  <2> QED
    BY <2>4, <2>7 DEF BudgetInv, Largest
<1>4. CASE WaitForRecovery
  <2>1. PICK w \in Decisions : budget' = WaitRecorded(budget, w)
    BY <1>4 DEF WaitForRecovery
  <2>2. PICK d \in Delays, rec \in Recoveries, j \in {0, MaxJitter} :
            w = Decide(budget, Temporary, d, rec, PureRate, Attempted = {} /\ BusyOnly, j)
    BY <2>1 DEF Decisions
  <2>3. d \in Nat /\ j \in Nat /\ rec.delay \in Nat
    <3>1. Delays \subseteq Nat
      BY RoutingAssumption
    <3>2. rec = NoRecovery \/ rec \in [class : TemporaryClasses \cup {"capacity"}, delay : Delays]
      BY DEF Recoveries
    <3>3. rec.delay \in Nat
      <4>1. CASE rec = NoRecovery
        BY <4>1 DEF NoRecovery
      <4>2. CASE rec \in [class : TemporaryClasses \cup {"capacity"}, delay : Delays]
        BY <3>1, <4>2
      <4> QED
        BY <3>2, <4>1, <4>2
    <3>4. j \in Nat
      BY RetryConstants
    <3> QED
      BY <3>1, <3>3, <3>4
  <2>4. Fits(budget, w.sleep)
    BY <1>0, <2>2, <2>3, DecisionFits
  <2>5. budget.waited + w.sleep \in Nat /\ budget.waited + w.sleep <= Largest
    BY <2>4, RecordedFits
  <2> DEFINE aligned == budget.aligned \/ w.kind = "aligned"
             busy == IF w.kind = "busy" THEN budget.busy + 1 ELSE budget.busy
             rounds == IF w.kind = "busy" THEN budget.round ELSE budget.round + 1
  <2>6. aligned \in BOOLEAN /\ busy \in Nat /\ rounds \in Nat
    BY <1>0 DEF Budgets
  <2>7. budget' = [budget EXCEPT !.waited = budget.waited + w.sleep, !.aligned = aligned,
                                 !.busy = busy, !.round = rounds]
    BY <2>1 DEF WaitRecorded
  <2> HIDE DEF aligned, busy, rounds
  <2>8. budget' \in Budgets /\ budget'.waited = budget.waited + w.sleep
    BY <1>0, <2>5, <2>6, <2>7 DEF Budgets
  <2> QED
    BY <2>5, <2>8 DEF BudgetInv, Largest
<1>5. CASE UNCHANGED routingVars
  BY <1>5, <1>1 DEF routingVars
<1>6. CASE RoutingNext /\ ~ RetrySameRoute /\ ~ ReplayPool /\ ~ WaitForRecovery
  <2>1. \A result, logged, reservation : Ended(result, logged, reservation) => UNCHANGED budget
    BY DEF Ended
  <2>2. \A result, logged : Stopped(result, logged) => UNCHANGED budget
    BY DEF Stopped, Ended
  <2>3. (Authenticate \/ RefuseAccess \/ Admit \/ LoadHistory \/ CheckContinuation
         \/ RefuseReplay \/ RefuseCapability \/ PlanCandidates) => UNCHANGED budget
    BY <2>1, <2>2 DEF Authenticate, RefuseAccess, Admit, LoadHistory, CheckContinuation,
       RefuseReplay, RefuseCapability, PlanCandidates
  <2>4. (BeginRound \/ PickRoute \/ RoundOver \/ ReserveHealth \/ ProbeInterrupted
         \/ WaitForAccount \/ SlotRefused \/ PrepareFails \/ Send) => UNCHANGED budget
    BY <2>2 DEF BeginRound, PickRoute, RoundOver, ReserveHealth, ProbeInterrupted,
       WaitForAccount, SlotRefused, PrepareFails, Send
  <2>5. (StreamOnlyRetry \/ Succeed \/ TryNextKey \/ LimitReached \/ PayloadRejected
         \/ BadRequestFailure \/ RetryWithoutStream \/ OtherFailure) => UNCHANGED budget
    BY <2>1 DEF StreamOnlyRetry, Succeed, TryNextKey, LimitReached, PayloadRejected,
       BadRequestFailure, RetryWithoutStream, OtherFailure
  <2>6. (CountFailure \/ BreakerTrips \/ RouteOver \/ ArmLastResort \/ SlotFreed
         \/ LocalGateFails \/ WaitForPendingAccount \/ NothingToWaitFor) => UNCHANGED budget
    BY DEF CountFailure, BreakerTrips, RouteOver, ArmLastResort, SlotFreed, LocalGateFails,
       WaitForPendingAccount, NothingToWaitFor
  <2>7. (EscapePin \/ StopRouting \/ Fail \/ CoordinationLost) => UNCHANGED budget
    BY <2>1, <2>2 DEF EscapePin, StopRouting, Fail, CoordinationLost
  <2> QED
    BY <1>6, <1>1, <2>3, <2>4, <2>5, <2>6, <2>7 DEF RoutingNext, RoutingStep
<1> QED
  BY <1>2, <1>3, <1>4, <1>5, <1>6

(* route_retry.rs and gateway.rs: however the busy, aligned, truncated,     *)
(* same-route and replay waits of one request follow each other, their sum  *)
(* stays within the larger of the two time budgets, for any limits, delays  *)
(* and number of routes.                                                    *)
THEOREM WaitsStayWithinBudget == RoutingSpec => []WaitsWithinBudget
<1>1. BudgetInv => WaitsWithinBudget
  BY DEF BudgetInv, WaitsWithinBudget, Largest
<1> QED
  BY <1>1, BudgetInitial, BudgetStep, PTL DEF RoutingSpec
=============================================================================
