--------------------------- MODULE UpstreamLeases ---------------------------
(***************************************************************************)
(* The concurrency slots of the accounts (keys) of one upstream on the     *)
(* process-local backend: the lease table (src/src/state.rs), the guards,  *)
(* heartbeats and reservations that own its leases (gateway.rs), the queue *)
(* of requests waiting for a slot, and the hedged first output             *)
(* (gateway/upstream.rs), in which a slow request races a second account.  *)
(*                                                                         *)
(* A request has at most two attempts, its own (0) and one route hedge     *)
(* (1); a lease is identified by its attempt.  The lease table is one      *)
(* critical section per operation; everything between two operations       *)
(* interleaves.  A heartbeat is assumed to run within the second it is due *)
(* in.  dispatch_request passes no hedge_api_keys, so the key hedges of    *)
(* prefetch_stream_with_hedges never start and are left out.               *)
(***************************************************************************)
EXTENDS Integers, FiniteSets

CONSTANTS
    Requests, Accounts,
    MaxConcurrency,  \* max_concurrency of the upstream, per account
    LeaseTtl,        \* upstream_local_lease_ttl_seconds
    StaleAfter,      \* upstream_lease_stale_after_ms, in seconds
    QueueDepth,      \* upstream_account_queue_max_depth
    QueueWait,       \* upstream_account_queue_max_wait_ms, in seconds
    Resets,          \* admin resets and hang-ups in the queue: bound of the model
    MaxTime          \* bound of the model

ASSUME LeaseAssumption ==
    /\ IsFiniteSet(Requests) /\ IsFiniteSet(Accounts)
    /\ {MaxConcurrency, LeaseTtl, StaleAfter, QueueDepth, QueueWait}
          \subseteq Nat \ {0}
    /\ {Resets, MaxTime} \subseteq Nat
    \* start-up and runtime settings keep the TTL at a minute at least (the
    \* argument needs two seconds)
    /\ LeaseTtl > 1

(* validate_and_normalize demands it of settings saved at run time: two     *)
(* heartbeats within StaleAfter.  Start-up takes any StaleAfter of at least *)
(* a second.                                                                *)
StaleValidated == 1000 * StaleAfter >= 2 * ((1000 * LeaseTtl) \div 3)

None == -1
NoLease == [account |-> "none", expires |-> None, renewed |-> None]
Attempts == Requests \X {0, 1}

VARIABLES
    time,
    lease,     \* UpstreamLeaseTable.leases: the record of each attempt
    beat,      \* when the heartbeat task of an attempt runs next, or None
    phase,     \* new, waiting, sent, streaming or ended
    account,   \* the account each attempt was sent to
    hedge,     \* idle, racing or over
    serving,   \* the attempt whose stream is relayed to the client, or None
    depth,     \* local_slot_waiters of each account
    waitEnd,   \* deadline of a waiting request
    resets, cleared  \* admin resets so far, and the attempts they cleared

leaseVars == <<time, lease, beat, phase, account, hedge, serving, depth,
               waitEnd, resets, cleared>>

LeaseInit ==
    /\ time = 0
    /\ lease = [x \in Attempts |-> NoLease]
    /\ beat = [x \in Attempts |-> None]
    /\ phase = [r \in Requests |-> "new"]
    /\ account = [x \in Attempts |-> "none"]
    /\ hedge = [r \in Requests |-> "idle"]
    /\ serving = [r \in Requests |-> None]
    /\ depth = [a \in Accounts |-> 0]
    /\ waitEnd = [r \in Requests |-> None]
    /\ resets = 0 /\ cleared = {}

-----------------------------------------------------------------------------
(* The lease table.                                                         *)

AtLeast(n, floor) == IF n < floor THEN floor ELSE n
Period(part) == AtLeast(LeaseTtl \div part, 1)

Expired(l) == l.expires <= time
Stale(l) == time - l.renewed > StaleAfter

(* prune_expired_upstream_leases: past its TTL, or no heartbeat for too long. *)
Pruned(table) ==
    [x \in Attempts |->
        IF table[x] # NoLease /\ (Expired(table[x]) \/ Stale(table[x]))
          THEN NoLease ELSE table[x]]

InFlight(table, a) == {x \in Attempts : table[x] # NoLease /\ table[x].account = a}
Full(table, a) == Cardinality(InFlight(table, a)) >= MaxConcurrency

NewLease(a) == [account |-> a, expires |-> time + LeaseTtl, renewed |-> time]

(* A renewal that inserts the lease again.                                  *)
RenewedAnyway(table, x) == [table EXCEPT ![x] = NewLease(account[x])]

(* renew: a lease that was released or reclaimed is not brought back.       *)
Renewed(table, x) ==
    [table EXCEPT ![x] = IF @ = NoLease THEN NoLease ELSE NewLease(@.account)]

Released(table, X) == [x \in Attempts |-> IF x \in X THEN NoLease ELSE table[x]]

-----------------------------------------------------------------------------
(* Reservation of the account a request was routed to.                      *)

(* try_reserve_upstream_account_request, with the guard and its heartbeat.  *)
Reserve(r, a) ==
    /\ phase[r] = "new"
    /\ ~ Full(Pruned(lease), a)
    /\ lease' = [Pruned(lease) EXCEPT ![<<r, 0>>] = NewLease(a)]
    /\ beat' = [beat EXCEPT ![<<r, 0>>] = time + Period(3)]
    /\ account' = [account EXCEPT ![<<r, 0>>] = a]
    /\ phase' = [phase EXCEPT ![r] = "sent"]
    /\ UNCHANGED <<time, hedge, serving, depth, waitEnd, resets, cleared>>

(* LocalConcurrency: the request waits in the slot queue of the account, or *)
(* fails at once when the queue is full, skipped by its plan or switched off. *)
EnterQueue(r, a) ==
    /\ phase[r] = "new"
    /\ Full(Pruned(lease), a)
    /\ depth[a] < QueueDepth
    /\ depth' = [depth EXCEPT ![a] = @ + 1]
    /\ waitEnd' = [waitEnd EXCEPT ![r] = time + QueueWait]
    /\ account' = [account EXCEPT ![<<r, 0>>] = a]
    /\ phase' = [phase EXCEPT ![r] = "waiting"]
    /\ lease' = Pruned(lease)
    /\ UNCHANGED <<time, beat, hedge, serving, resets, cleared>>

FastFail(r, a) ==
    /\ phase[r] = "new"
    /\ Full(Pruned(lease), a)
    /\ phase' = [phase EXCEPT ![r] = "ended"]
    /\ lease' = Pruned(lease)
    /\ UNCHANGED <<time, beat, account, hedge, serving, depth, waitEnd, resets, cleared>>

LeaveQueue(r) == depth' = [depth EXCEPT ![account[<<r, 0>>]] = AtLeast(@ - 1, 0)]

(* A poll of wait_for_local_slot_free: the census does not prune; a free    *)
(* slot sends the request back to routing, the deadline fails it.           *)
PollQueue(r) ==
    /\ phase[r] = "waiting"
    /\ \/ /\ ~ Full(lease, account[<<r, 0>>])
          /\ phase' = [phase EXCEPT ![r] = "new"]
       \/ /\ Full(lease, account[<<r, 0>>])
          /\ time >= waitEnd[r]
          /\ phase' = [phase EXCEPT ![r] = "ended"]
    /\ LeaveQueue(r)
    /\ waitEnd' = [waitEnd EXCEPT ![r] = None]
    /\ UNCHANGED <<time, lease, beat, account, hedge, serving, resets, cleared>>

(* The client hangs up while its request waits: the future is dropped       *)
(* between try_enter_local_slot_wait and leave_local_slot_wait.             *)
HangUpInQueue(r) ==
    /\ phase[r] = "waiting"
    /\ resets < Resets
    /\ resets' = resets + 1
    /\ phase' = [phase EXCEPT ![r] = "ended"]
    /\ waitEnd' = [waitEnd EXCEPT ![r] = None]
    /\ UNCHANGED <<time, lease, beat, account, hedge, serving, depth, cleared>>

(* reserve_next: an internal retry of attempt i gives its slot back before  *)
(* it takes one; the primary has its response before a hedge is launched.   *)
ReserveNext(r, i) ==
    LET x == <<r, i>>
        a == account[x]
        table == Pruned(Released(lease, {x}))
    IN  /\ phase[r] = "sent" /\ hedge[r] = IF i = 0 THEN "idle" ELSE "racing"
        /\ IF Full(table, a)
             THEN /\ lease' = table
                  /\ beat' = [beat EXCEPT ![x] = None]
                  /\ phase' = [phase EXCEPT ![r] = IF i = 0 THEN "ended" ELSE @]
                  /\ hedge' = [hedge EXCEPT ![r] = IF i = 0 THEN @ ELSE "over"]
             ELSE /\ lease' = [table EXCEPT ![x] = NewLease(a)]
                  /\ beat' = [beat EXCEPT ![x] = time + Period(3)]
                  /\ UNCHANGED <<phase, hedge>>
        /\ cleared' = cleared \ {x}
        /\ UNCHANGED <<time, account, serving, depth, waitEnd, resets>>

-----------------------------------------------------------------------------
(* The hedged first output.                                                 *)

(* try_reserve_upstream_account_hedge counts once before the quota, without *)
(* a sweep, and again after it; a hedge never waits.                        *)
HedgeAdmitted(b) == ~ Full(lease, b) /\ ~ Full(Pruned(lease), b)

(* send_route_hedge_attempt: a reservation of its own, with a heartbeat.    *)
LaunchHedge(r, b) ==
    /\ phase[r] = "sent" /\ hedge[r] = "idle"
    /\ b # account[<<r, 0>>]
    /\ IF HedgeAdmitted(b)
         THEN /\ lease' = [Pruned(lease) EXCEPT ![<<r, 1>>] = NewLease(b)]
              /\ beat' = [beat EXCEPT ![<<r, 1>>] = time + Period(3)]
              /\ account' = [account EXCEPT ![<<r, 1>>] = b]
              /\ hedge' = [hedge EXCEPT ![r] = "racing"]
         ELSE /\ hedge' = [hedge EXCEPT ![r] = "over"]   \* capacity unavailable
              /\ UNCHANGED <<lease, beat, account>>
    /\ UNCHANGED <<time, phase, serving, depth, waitEnd, resets, cleared>>

(* Dropping the reservations of an attempt ends its lease and heartbeat.    *)
DropAttempt(x) ==
    /\ lease' = Released(lease, {x})
    /\ beat' = [beat EXCEPT ![x] = None]

(* The hedge fails: its guard is dropped and the primary runs on.           *)
HedgeFails(r) ==
    /\ phase[r] = "sent" /\ hedge[r] = "racing"
    /\ DropAttempt(<<r, 1>>)
    /\ hedge' = [hedge EXCEPT ![r] = "over"]
    /\ UNCHANGED <<time, phase, account, serving, depth, waitEnd, resets, cleared>>

(* The first usable output of attempt i: the other attempt is dropped, and  *)
(* the stream goes on under the reservation of the attempt that won.        *)
FirstOutput(r, i) ==
    /\ phase[r] = "sent"
    /\ i = 1 => hedge[r] = "racing"
    /\ DropAttempt(<<r, 1 - i>>)
    /\ serving' = [serving EXCEPT ![r] = i]
    /\ phase' = [phase EXCEPT ![r] = "streaming"]
    /\ hedge' = [hedge EXCEPT ![r] = "over"]
    /\ UNCHANGED <<time, account, depth, waitEnd, resets, cleared>>

-----------------------------------------------------------------------------
(* Renewal and release.                                                     *)

(* One round of upstream_lease_heartbeat.                                   *)
Heartbeat(x) ==
    /\ beat[x] # None /\ beat[x] <= time
    /\ lease' = Renewed(Pruned(lease), x)
    /\ beat' = [beat EXCEPT ![x] = time + Period(3)]
    /\ UNCHANGED <<time, phase, account, hedge, serving, depth, waitEnd, resets, cleared>>

(* renew_if_due on a chunk: the relayed stream renews the reservation of    *)
(* the request at half the TTL at most.                                     *)
RenewOnChunk(r) ==
    LET x == <<r, serving[r]>> IN
    /\ phase[r] = "streaming"
    /\ lease[x] # NoLease /\ time - lease[x].renewed >= Period(2)
    /\ lease' = Renewed(Pruned(lease), x)
    /\ UNCHANGED <<time, beat, phase, account, hedge, serving, depth, waitEnd, resets, cleared>>

(* The request ends: an error, the end of the stream (release_all) or the   *)
(* client gone (Drop).  The guards of its attempts remove their leases.     *)
(* The heartbeat is aborted, unless two clones are dropped at the same      *)
(* time: then neither is the last and the task goes on.                     *)
End(r) ==
    /\ phase[r] \in {"sent", "streaming"}
    /\ lease' = Released(lease, {<<r, 0>>, <<r, 1>>})
    /\ \/ beat' = [beat EXCEPT ![<<r, 0>>] = None, ![<<r, 1>>] = None]
       \/ beat' = beat
    /\ phase' = [phase EXCEPT ![r] = "ended"]
    /\ hedge' = [hedge EXCEPT ![r] = "over"]
    /\ UNCHANGED <<time, account, serving, depth, waitEnd, resets, cleared>>

(* reset_upstream_concurrency: an administrator frees every slot of a key.  *)
ResetConcurrency(a) ==
    /\ resets < Resets
    /\ resets' = resets + 1
    /\ cleared' = cleared \cup InFlight(lease, a)
    /\ lease' = Released(lease, InFlight(lease, a))
    /\ UNCHANGED <<time, beat, phase, account, hedge, serving, depth, waitEnd>>

(* upstream_runtime_snapshots sweeps the table as well.                     *)
RuntimeSnapshot ==
    /\ lease' = Pruned(lease)
    /\ UNCHANGED <<time, beat, phase, account, hedge, serving, depth, waitEnd, resets, cleared>>

Tick ==
    /\ time < MaxTime
    /\ \A x \in Attempts : beat[x] # None => beat[x] > time
    /\ time' = time + 1
    /\ UNCHANGED <<lease, beat, phase, account, hedge, serving, depth, waitEnd, resets, cleared>>

LeaseNext ==
    \/ \E r \in Requests, a \in Accounts :
          Reserve(r, a) \/ EnterQueue(r, a) \/ FastFail(r, a) \/ LaunchHedge(r, a)
    \/ \E r \in Requests :
          \/ PollQueue(r) \/ HangUpInQueue(r) \/ ReserveNext(r, 0) \/ ReserveNext(r, 1)
          \/ HedgeFails(r) \/ FirstOutput(r, 0) \/ FirstOutput(r, 1)
          \/ RenewOnChunk(r) \/ End(r)
    \/ \E x \in Attempts : Heartbeat(x)
    \/ \E a \in Accounts : ResetConcurrency(a)
    \/ RuntimeSnapshot \/ Tick

LeaseSpec == LeaseInit /\ [][LeaseNext]_leaseVars

-----------------------------------------------------------------------------
(* Properties.                                                              *)

Times == 0..(MaxTime + LeaseTtl + QueueWait)
Leases == [account : Accounts, expires : Times, renewed : 0..MaxTime]

(* The state keeps its shape: state.rs UpstreamLeaseTable and the waiters.  *)
LeaseTypeOK ==
    /\ time \in 0..MaxTime
    /\ lease \in [Attempts -> Leases \cup {NoLease}]
    /\ beat \in [Attempts -> Times \cup {None}]
    /\ phase \in [Requests -> {"new", "waiting", "sent", "streaming", "ended"}]
    /\ account \in [Attempts -> Accounts \cup {"none"}]
    /\ hedge \in [Requests -> {"idle", "racing", "over"}]
    /\ serving \in [Requests -> {None, 0, 1}]
    /\ depth \in [Accounts -> 0..QueueDepth]
    /\ waitEnd \in [Requests -> Times \cup {None}]
    /\ resets \in 0..Resets /\ cleared \subseteq Attempts

(* The attempts of a request that run on an upstream.                       *)
Running(r) ==
    {i \in {0, 1} : \/ phase[r] = "sent" /\ (i = 0 \/ hedge[r] = "racing")
                    \/ phase[r] = "streaming" /\ serving[r] = i}

(* gateway.rs: "The upstream account's max_concurrency is a hard ceiling on *)
(* real slots": an account never serves more attempts than that, hedges and *)
(* the streams that hedges won included, unless an administrator reset it.  *)
RealConcurrency ==
    \A a \in Accounts :
        Cardinality({x \in Attempts \ cleared : x[2] \in Running(x[1]) /\ account[x] = a})
            <= MaxConcurrency

(* A request that runs keeps its slot, through silent stretches and sweeps, *)
(* as long as its heartbeat runs and nobody resets the account.  It needs   *)
(* StaleValidated: with the values start-up lets pass, a sweep takes the    *)
(* slot of a request before its heartbeat, and another request gets it.     *)
RunningKeepsSlot ==
    \A x \in Attempts \ cleared : x[2] \in Running(x[1]) => lease[x] # NoLease

(* An attempt that ended holds no slot, whatever its late heartbeats do.    *)
EndedFreesSlot ==
    \A x \in Attempts : x[2] \notin Running(x[1]) => lease[x] = NoLease

(* The slots of the lease table are the attempts that run: none too many,   *)
(* none taken from a running attempt, none left behind by one that ended.   *)
(* This is promised for settings that pass StaleValidated.                  *)
SlotsTrue == LeaseTypeOK /\ RealConcurrency /\ RunningKeepsSlot /\ EndedFreesSlot

(* The queue admits as many waiters as its depth says: no slot of the queue *)
(* is lost.  The code loses one when a client hangs up while it waits.      *)
QueueDepthHonest ==
    \A a \in Accounts :
        depth[a] = Cardinality({r \in Requests : phase[r] = "waiting" /\ account[<<r, 0>>] = a})

=============================================================================
