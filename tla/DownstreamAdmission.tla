------------------------- MODULE DownstreamAdmission -------------------------
(***************************************************************************)
(* Admission of the requests of one downstream key on the process-local    *)
(* backend (src/src/state.rs): the sliding request windows (per minute and *)
(* per quota window) and the concurrency leases, counted per model group   *)
(* and over the whole key, which expire unless the response stream renews  *)
(* them.  Whether the daily cost budget is used up is decided by           *)
(* CostBudget; here it may be at any admission.                            *)
(*                                                                         *)
(* Admission is two critical sections, first the windows and then the      *)
(* leases, with a rollback in a third when the lease is refused: requests  *)
(* interleave between them.  A request has one window event and one lease, *)
(* both identified by the request itself.                                  *)
(***************************************************************************)
EXTENDS Integers, FiniteSets

CONSTANTS
    Requests,
    Groups,          \* model_concurrency_groups of the key
    GroupOf,         \* the group whose pattern matches a request's model, or NoGroup
    GroupCap,        \* max_concurrency of each group
    MaxConcurrency,  \* max_concurrency of the key
    PerMinute, MinuteLen,    \* per_minute_limit, and the 60 seconds it covers
    QuotaLimit, QuotaLen,    \* request_quota_requests and request_quota_window_hours
    LeaseTtl,        \* downstream_lease_ttl_seconds
    MaxClock         \* bound of the model

None == -1
NoGroup == "none"

ASSUME AdmissionAssumption ==
    /\ NoGroup \notin Groups
    /\ GroupOf \in [Requests -> Groups \cup {NoGroup}]
    /\ GroupCap \in [Groups -> Nat \ {0}]
    /\ IsFiniteSet(Requests)
    /\ {MaxConcurrency, PerMinute, MinuteLen, QuotaLimit, QuotaLen, LeaseTtl}
            \subseteq Nat \ {0}
    /\ MaxClock \in Nat

VARIABLES
    now,
    status,   \* where each request stands
    slot,     \* downstream_request_windows: when each request took its slot, or None
    lease,    \* downstream_runtime.admitted: the expiry of each lease, or None
    waiting   \* downstream_runtime.waiting

vars == <<now, status, slot, lease, waiting>>

Status ==
    {"new", "slotted", "refused", "running", "closing", "done", "rejected", "abandoned"}

Init ==
    /\ now = 0
    /\ status = [r \in Requests |-> "new"]
    /\ slot = [r \in Requests |-> None]
    /\ lease = [r \in Requests |-> None]
    /\ waiting = {}

-----------------------------------------------------------------------------
(* The sliding windows.  An event counts for `len` seconds, its own second  *)
(* included; the deque keeps events for the longer of the two windows.      *)

InWindow(at, t, len) == at # None /\ at >= t - (len - 1)

Counted(t, len) == {r \in Requests : InWindow(slot[r], t, len)}

Longer(a, b) == IF a < b THEN b ELSE a

Evicted ==
    [r \in Requests |-> IF InWindow(slot[r], now, Longer(QuotaLen, MinuteLen))
                          THEN slot[r] ELSE None]

AtLimit(used, limit) == used >= limit

MinuteFull == AtLimit(Cardinality(Counted(now, MinuteLen)), PerMinute)
QuotaFull == AtLimit(Cardinality(Counted(now, QuotaLen)), QuotaLimit)

(* retry_after_seconds of a full window: until its oldest event leaves it.  *)
Oldest(len) == CHOOSE t \in 0 .. now : /\ \E r \in Counted(now, len) : slot[r] = t
                                       /\ \A r \in Counted(now, len) : slot[r] >= t

RetryAfter(len) == Longer(Oldest(len) + len - now, 1)

(* reserve_downstream_request: one critical section of the request windows. *)
SlotRejected(r) ==
    /\ status[r] = "new"
    /\ MinuteFull \/ QuotaFull
    /\ slot' = Evicted
    /\ status' = [status EXCEPT ![r] = "rejected"]
    /\ UNCHANGED <<now, lease, waiting>>

CostRejected(r) ==
    /\ status[r] = "new"
    /\ ~MinuteFull /\ ~QuotaFull
    /\ slot' = Evicted
    /\ status' = [status EXCEPT ![r] = "rejected"]
    /\ UNCHANGED <<now, lease, waiting>>

SlotTaken(r) ==
    /\ status[r] = "new"
    /\ ~MinuteFull /\ ~QuotaFull
    /\ slot' = [Evicted EXCEPT ![r] = now]
    /\ status' = [status EXCEPT ![r] = "slotted"]
    /\ UNCHANGED <<now, lease, waiting>>

-----------------------------------------------------------------------------
(* The concurrency leases.                                                  *)

Admitted(table) == {r \in Requests : table[r] # None}
Bucket(table, g) == {r \in Admitted(table) : GroupOf[r] = g}

(* DownstreamLeaseState::prune_expired of the bucket of g.                  *)
Pruned(g) ==
    [r \in Requests |-> IF GroupOf[r] = g /\ lease[r] # None /\ lease[r] <= now
                          THEN None ELSE lease[r]]

StillWaiting(table) == waiting \cap Admitted(table)

GroupFull(g) ==
    g # NoGroup /\ AtLimit(Cardinality(Bucket(Pruned(g), g)), GroupCap[g])

(* The key-wide count is taken before the bucket of an ungrouped request is *)
(* pruned, and the buckets of the other groups are never pruned for it.     *)
CountedLeases(g) == IF g = NoGroup THEN lease ELSE Pruned(g)
KeyFull(g) == AtLimit(Cardinality(Admitted(CountedLeases(g))), MaxConcurrency)

LeaseGranted(r) ==
    LET g == GroupOf[r]
        pruned == Pruned(g) IN
    /\ status[r] = "slotted"
    /\ ~GroupFull(g) /\ ~KeyFull(g)
    /\ lease' = [pruned EXCEPT ![r] = now + LeaseTtl]
    /\ waiting' = StillWaiting(pruned)
    /\ status' = [status EXCEPT ![r] = "running"]
    /\ UNCHANGED <<now, slot>>

LeaseRefused(r) ==
    LET g == GroupOf[r] IN
    /\ status[r] = "slotted"
    /\ GroupFull(g) \/ KeyFull(g)
    /\ lease' = CountedLeases(g)
    /\ waiting' = StillWaiting(CountedLeases(g))
    /\ status' = [status EXCEPT ![r] = "refused"]
    /\ UNCHANGED <<now, slot>>

(* A rollback that pops the newest event instead of its own.                *)
WithoutNewest(r) ==
    LET newest == CHOOSE q \in Requests : \A p \in Requests : slot[p] <= slot[q]
    IN  [slot EXCEPT ![newest] = None]
WithoutSlot(r) == [slot EXCEPT ![r] = None]

(* The rollback of a refused lease, or the client hangs up while the        *)
(* request still waits for the lock of the windows.                         *)
RollbackRefused(r) ==
    /\ status[r] = "refused"
    /\ slot' = WithoutSlot(r)
    /\ status' = [status EXCEPT ![r] = "rejected"]
    /\ UNCHANGED <<now, lease, waiting>>

AbandonRefused(r) ==
    /\ status[r] = "refused"
    /\ status' = [status EXCEPT ![r] = "abandoned"]
    /\ UNCHANGED <<now, slot, lease, waiting>>

-----------------------------------------------------------------------------
(* A running request.                                                       *)

(* A renewal that revives a released lease.                                 *)
RenewedOrNew(r) == [lease EXCEPT ![r] = now + LeaseTtl]

(* renew_downstream_concurrency, called for a chunk of the stream; the task *)
(* may come late, when the guard has already released the lease.            *)
Renewed(r) == [lease EXCEPT ![r] = IF @ = None THEN None ELSE now + LeaseTtl]

Renew(r) ==
    /\ status[r] \in {"running", "closing", "done"}
    /\ lease' = Renewed(r)
    /\ UNCHANGED <<now, status, slot, waiting>>

(* mark_downstream_waiting: an error, which ends the request, once the      *)
(* lease has lapsed.                                                        *)
MarkWaiting(r) ==
    LET pruned == Pruned(GroupOf[r]) IN
    /\ status[r] = "running"
    /\ lease' = pruned
    /\ IF pruned[r] # None
       THEN waiting' = StillWaiting(pruned) \cup {r} /\ status' = status
       ELSE waiting' = StillWaiting(pruned) /\ status' = [status EXCEPT ![r] = "closing"]
    /\ UNCHANGED <<now, slot>>

UnmarkWaiting(r) ==
    /\ r \in waiting /\ status[r] \in {"running", "closing"}
    /\ waiting' = waiting \ {r}
    /\ UNCHANGED <<now, status, slot, lease>>

(* The response ends.  An upstream failure gives the quota slot back; a     *)
(* success, a client error and a client that hangs up keep it.              *)
RollbackFailed(r) ==
    /\ status[r] = "running"
    /\ slot' = WithoutSlot(r)
    /\ status' = [status EXCEPT ![r] = "closing"]
    /\ UNCHANGED <<now, lease, waiting>>

End(r) ==
    /\ status[r] = "running"
    /\ status' = [status EXCEPT ![r] = "closing"]
    /\ UNCHANGED <<now, slot, lease, waiting>>

(* expire_downstream_request_lease_sync, from release() or the guard's Drop. *)
Release(r) ==
    /\ status[r] = "closing"
    /\ lease' = [lease EXCEPT ![r] = None]
    /\ waiting' = waiting \ {r}
    /\ status' = [status EXCEPT ![r] = "done"]
    /\ UNCHANGED <<now, slot>>

-----------------------------------------------------------------------------
(* A runtime snapshot prunes every bucket of the key.                       *)
Snapshot ==
    /\ lease' = [r \in Requests |-> IF lease[r] # None /\ lease[r] <= now THEN None ELSE lease[r]]
    /\ waiting' = waiting \cap Admitted(lease')
    /\ UNCHANGED <<now, status, slot>>

(* clear_downstream_runtime when the key is deleted; requests keep running. *)
ClearDownstream ==
    /\ slot' = [r \in Requests |-> None]
    /\ lease' = [r \in Requests |-> None]
    /\ waiting' = {}
    /\ UNCHANGED <<now, status>>

Tick ==
    /\ now < MaxClock
    /\ now' = now + 1
    /\ UNCHANGED <<status, slot, lease, waiting>>

Admission(r) ==
    \/ SlotRejected(r) \/ CostRejected(r) \/ SlotTaken(r)
    \/ LeaseGranted(r) \/ LeaseRefused(r)
    \/ RollbackRefused(r) \/ AbandonRefused(r)

Running(r) ==
    \/ Renew(r) \/ MarkWaiting(r) \/ UnmarkWaiting(r)
    \/ RollbackFailed(r) \/ End(r) \/ Release(r)

Next ==
    \/ \E r \in Requests : Admission(r) \/ Running(r)
    \/ Snapshot
    \/ ClearDownstream
    \/ Tick

Spec == Init /\ [][Next]_vars

-----------------------------------------------------------------------------
(* Properties.                                                              *)

(* Types; no window event lies in the future, and no lease outlives the TTL. *)
TypeOK ==
    /\ now \in 0 .. MaxClock
    /\ status \in [Requests -> Status]
    /\ slot \in [Requests -> (0 .. now) \cup {None}]
    /\ lease \in [Requests -> (0 .. now + LeaseTtl) \cup {None}]
    /\ waiting \subseteq Requests

(* Whatever requests overlap, expire and renew, no model group and no key   *)
(* holds more leases than its limit.                                        *)
CapRespected ==
    /\ Cardinality(Admitted(lease)) <= MaxConcurrency
    /\ \A g \in Groups : Cardinality(Bucket(lease, g)) <= GroupCap[g]

(* The snapshot's `admitted - waiting` never underflows: a waiting mark     *)
(* never outlives its lease, however the lease ends.                        *)
WaitingAdmitted == waiting \subseteq Admitted(lease)

(* A lease is held only by a request that is still to release it: a late    *)
(* renewal does not bring a released lease back.                            *)
LeaseHeld == \A r \in Admitted(lease) : status[r] \in {"running", "closing"}

(* No sliding window ever holds more admitted requests than its limit.      *)
QuotaRespected ==
    /\ Cardinality(Counted(now, MinuteLen)) <= PerMinute
    /\ Cardinality(Counted(now, QuotaLen)) <= QuotaLimit

(* "A rejected concurrency lease must not consume a request-quota slot":    *)
(* once the client has its 429, the request is in no window.                *)
RejectedFreesSlot == \A r \in Requests : status[r] = "rejected" => slot[r] = None

(* The Retry-After of a full window is honest: after that wait the window   *)
(* has room if nobody else was admitted, and not a second earlier.          *)
Suffices(len, limit) ==
    LET t == now + RetryAfter(len)
    IN  /\ Cardinality(Counted(t, len)) < limit
        /\ Cardinality(Counted(t - 1, len)) >= limit
RetryAfterHonest ==
    /\ MinuteFull => Suffices(MinuteLen, PerMinute)
    /\ QuotaFull => Suffices(QuotaLen, QuotaLimit)

(* The leases of a key: within every limit, held by requests that run, and  *)
(* the waiting marks among them.                                            *)
AdmissionKept == CapRespected /\ WaitingAdmitted /\ LeaseHeld

(* The windows of a key: never over their limits, no slot lost to a         *)
(* rejected request, and a Retry-After that is exact.                       *)
WindowKept == QuotaRespected /\ RejectedFreesSlot /\ RetryAfterHonest

(* "expired lease must release capacity for a new reservation": a lease is  *)
(* refused only when that many unexpired leases are held.                   *)
Live(S) == {r \in S : lease[r] > now}
ExpiredLeaseFreesCapacity ==
    [][\A r \in Requests : status[r] = "slotted" /\ status'[r] = "refused" =>
        \/ Cardinality(Live(Admitted(lease))) >= MaxConcurrency
        \/ /\ GroupOf[r] # NoGroup
           /\ Cardinality(Live(Bucket(lease, GroupOf[r]))) >= GroupCap[GroupOf[r]]]_vars

=============================================================================
