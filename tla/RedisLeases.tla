---------------------------- MODULE RedisLeases ----------------------------
(***************************************************************************)
(* Concurrency leases kept in Redis (src/src/state/redis_runtime.rs and    *)
(* its Lua scripts): every operation is sent at most twice                 *)
(* (retry_coordination_once), a reply may be lost, and an attempt that     *)
(* timed out on the old connection may still be executed later, after the  *)
(* retry on the new one and even after the caller has moved on.            *)
(* A script runs atomically.  Leases are ids with a deadline in two sorted *)
(* sets, the bucket (downstream group or upstream account) and the total.  *)
(* The request event outlives every run of the model (its window is at     *)
(* least 60 s), so it is never pruned.                                     *)
(***************************************************************************)
EXTENDS Naturals, FiniteSets

CONSTANTS
    Calls,       \* requests; a call is also its lease id and event id
    Buckets,     \* concurrency groups or accounts
    BucketCap,   \* group_limit, or max_concurrency of an account
    TotalCap,    \* global_limit of a downstream
    RedisLeaseTtl,    \* lease_duration_ms
    StaleAfter,  \* upstream_lease_stale_after_ms
    MaxWire,     \* commands under way at once: bound of the model
    MaxTimeouts, \* attempts that time out: bound of the model
    LastNow      \* bound of the clock

ASSUME RedisLeasesAssumption ==
    /\ {BucketCap, TotalCap, RedisLeaseTtl, StaleAfter, MaxWire} \subseteq Nat \ {0}
    /\ {LastNow, MaxTimeouts} \subseteq Nat

VARIABLES
    side,         \* downstream or upstream leases
    bucket,       \* the bucket of each call
    redisNow,     \* TIME of the server
    bucketUntil,  \* the bucket sets: deadline of each lease, 0 if absent
    totalUntil,   \* the aggregate set
    counted,      \* the request events
    wire,         \* commands sent and not yet executed
    caller,       \* what each call waits for, and its attempt
    timeouts,     \* attempts that timed out
    beat,         \* when a lease was last reserved or renewed
    released,     \* calls whose release was executed
    refunded      \* calls whose event was rolled back

redisVars == <<side, bucket, redisNow, bucketUntil, totalUntil, counted, wire,
               caller, timeouts, beat, released, refunded>>

Idle == [op |-> "new", attempt |-> 0]
At(op) == [op |-> op, attempt |-> 0]
Gone == At("gone")

RedisInit ==
    /\ side \in {"downstream", "upstream"}
    /\ bucket \in [Calls -> Buckets]
    /\ redisNow = 1
    /\ bucketUntil = [c \in Calls |-> 0] /\ totalUntil = [c \in Calls |-> 0]
    /\ counted = {} /\ wire = {}
    /\ caller = [c \in Calls |-> Idle]
    /\ beat = [c \in Calls |-> 0] /\ timeouts = 0
    /\ released = {} /\ refunded = {}

\* The members of a set that ZREMRANGEBYSCORE (-inf, now] leaves.
Unexpired(set) == [c \in Calls |-> IF set[c] > redisNow THEN set[c] ELSE 0]
\* What the stale sweep leaves: last heartbeat = score - ttl.
Fresh(set) ==
    [c \in Calls |-> IF StaleAfter < RedisLeaseTtl
                          /\ set[c] <= redisNow + RedisLeaseTtl - StaleAfter
                     THEN 0 ELSE set[c]]
Members(set) == {c \in Calls : set[c] # 0}
OfBucket(c) == {d \in Calls : bucket[d] = bucket[c]}
\* Only the bucket of c is touched by a sweep of its key.
Swept(c, swept) == [d \in Calls |-> IF d \in OfBucket(c) THEN swept[d] ELSE bucketUntil[d]]

-----------------------------------------------------------------------------
(* The scripts.  Each gives the reply: ok or refused.                      *)

Lease(c, inBucket, inTotal) ==
    /\ bucketUntil' = [inBucket EXCEPT ![c] = redisNow + RedisLeaseTtl]
    /\ totalUntil' = [inTotal EXCEPT ![c] = redisNow + RedisLeaseTtl]
    /\ counted' = counted \cup {c}
    /\ beat' = [beat EXCEPT ![c] = redisNow]

NoLease(inBucket, inTotal) ==
    /\ bucketUntil' = inBucket /\ totalUntil' = inTotal
    /\ UNCHANGED <<counted, beat>>

\* A re-run is recognised by its request event.
AlreadyAdmitted(c) == c \in counted

\* downstream_admission.lua (a group cap applies to every bucket of the model).
Admit(c, reply) ==
    LET inBucket == Swept(c, Unexpired(bucketUntil))
        inTotal == Unexpired(totalUntil)
    IN  \/ /\ AlreadyAdmitted(c)
           /\ reply = "ok" /\ NoLease(bucketUntil, totalUntil)
        \/ /\ ~AlreadyAdmitted(c) /\ inBucket[c] # 0
           /\ reply = "ok" /\ NoLease(inBucket, inTotal)
        \/ /\ ~AlreadyAdmitted(c) /\ inBucket[c] = 0
           /\ \/ Cardinality(Members(inBucket) \cap OfBucket(c)) >= BucketCap
              \/ Cardinality(Members(inTotal)) >= TotalCap
           /\ reply = "refused" /\ NoLease(inBucket, inTotal)
        \/ /\ ~AlreadyAdmitted(c) /\ inBucket[c] = 0
           /\ Cardinality(Members(inBucket) \cap OfBucket(c)) < BucketCap
           /\ Cardinality(Members(inTotal)) < TotalCap
           /\ reply = "ok" /\ Lease(c, inBucket, inTotal)

\* upstream_reserve.lua: the expired, then the stale leases of the account are
\* reclaimed; when there are any, those of every account leave the aggregate.
ReserveUpstream(c, reply) ==
    LET live == Swept(c, Unexpired(bucketUntil))
        inBucket == Swept(c, Fresh(live))
        anyExpired == \E d \in OfBucket(c) : bucketUntil[d] # live[d]
        anyStale == \E d \in OfBucket(c) : inBucket[d] # live[d]
        pruned == IF anyExpired THEN Unexpired(totalUntil) ELSE totalUntil
        inTotal == IF anyStale
                   THEN [d \in Calls |-> IF pruned[d] > redisNow THEN Fresh(pruned)[d]
                                                                 ELSE pruned[d]]
                   ELSE pruned
        known == {inBucket[c] # 0, inTotal[c] # 0, AlreadyAdmitted(c)}
    IN  \/ /\ TRUE \in known
           /\ reply = (IF FALSE \in known THEN "refused" ELSE "ok")
           /\ NoLease(inBucket, inTotal)
        \/ /\ known = {FALSE}
           /\ Cardinality(Members(inBucket) \cap OfBucket(c)) >= BucketCap
           /\ reply = "refused" /\ NoLease(inBucket, inTotal)
        \/ /\ known = {FALSE}
           /\ Cardinality(Members(inBucket) \cap OfBucket(c)) < BucketCap
           /\ reply = "ok" /\ Lease(c, inBucket, inTotal)

\* lease_renew.lua: each set that still holds the lease is extended.
RenewIn(set, c) == [set EXCEPT ![c] = IF @ = 0 THEN 0 ELSE redisNow + RedisLeaseTtl]

\* Mutant: only the aggregate is extended.
RenewTotal(c) ==
    /\ totalUntil' = RenewIn(totalUntil, c)
    /\ beat' = [beat EXCEPT ![c] = IF bucketUntil[c] = 0 THEN @ ELSE redisNow]
    /\ UNCHANGED <<bucketUntil, counted>>

RenewLease(c) ==
    /\ bucketUntil' = RenewIn(bucketUntil, c) /\ totalUntil' = RenewIn(totalUntil, c)
    /\ beat' = [beat EXCEPT ![c] = IF bucketUntil[c] = 0 THEN @ ELSE redisNow]
    /\ UNCHANGED counted

\* lease_release.lua and upstream_lease_release.lua.
ReleaseLease(c) ==
    /\ bucketUntil' = [bucketUntil EXCEPT ![c] = 0]
    /\ totalUntil' = [totalUntil EXCEPT ![c] = 0]
    /\ UNCHANGED <<counted, beat>>

\* downstream_rollback.lua.
Rollback(c) ==
    /\ counted' = counted \ {c}
    /\ UNCHANGED <<bucketUntil, totalUntil, beat>>

RunScript(c, op, reply) ==
    \/ /\ op = "reserve" /\ side = "downstream" /\ Admit(c, reply)
       /\ UNCHANGED <<released, refunded>>
    \/ /\ op = "reserve" /\ side = "upstream" /\ ReserveUpstream(c, reply)
       /\ UNCHANGED <<released, refunded>>
    \/ /\ op = "renew" /\ reply = "ok" /\ RenewLease(c)
       /\ UNCHANGED <<released, refunded>>
    \/ /\ op = "refund" /\ reply = "ok" /\ Rollback(c)
       /\ refunded' = refunded \cup {c} /\ UNCHANGED released
    \/ /\ op \in {"release", "drop"} /\ reply = "ok" /\ ReleaseLease(c)
       /\ released' = released \cup {c} /\ UNCHANGED refunded

-----------------------------------------------------------------------------
(* The calls.                                                              *)

Send(c, op, attempt) ==
    /\ Cardinality(wire) < MaxWire
    /\ caller' = [caller EXCEPT ![c] = [op |-> op, attempt |-> attempt]]
    /\ wire' = wire \cup {[call |-> c, op |-> op, attempt |-> attempt]}
    /\ UNCHANGED <<side, bucket, redisNow, bucketUntil, totalUntil, counted, beat,
                   released, refunded>>

Begin(c, op) == Send(c, op, 1) /\ UNCHANGED timeouts

StartReserve(c) == caller[c] = Idle /\ Begin(c, "reserve")

\* A stream renews its lease on a chunk.
StartRenew(c) == caller[c] = At("held") /\ Begin(c, "renew")

\* A refused downstream request gives its quota slot back before it ends.
StartRefund(c) ==
    side = "downstream" /\ caller[c] = At("held") /\ Begin(c, "refund")

\* The guard is released explicitly, or only dropped.
StartRelease(c) ==
    \/ caller[c] = At("held") /\ (Begin(c, "release") \/ Begin(c, "drop"))
    \/ caller[c] = At("ending") /\ Begin(c, "drop")

\* Where a call goes when its operation succeeded, was refused or failed.
After(op, outcome) ==
    CASE op = "reserve" -> IF outcome = "ok" THEN At("held") ELSE Gone
      [] op = "renew" -> At("held")
      [] op = "refund" -> At("ending")
      [] op = "release" -> IF outcome = "ok" THEN Gone ELSE At("ending")
      [] op = "drop" -> Gone

\* A command reaches the server; its reply reaches the caller if it still
\* waits for it, or is lost.
Execute(cmd) ==
    /\ cmd \in wire
    /\ wire' = wire \ {cmd}
    /\ \E reply \in {"ok", "refused"} :
        /\ RunScript(cmd.call, cmd.op, reply)
        /\ \/ /\ caller[cmd.call].attempt = cmd.attempt => timeouts < MaxTimeouts
              /\ UNCHANGED caller
           \/ /\ caller[cmd.call] = [op |-> cmd.op, attempt |-> cmd.attempt]
              /\ caller' = [caller EXCEPT ![cmd.call] = After(cmd.op, reply)]
    /\ UNCHANGED <<side, bucket, redisNow, timeouts>>

\* The connection breaks before the command was read.
Lose(cmd) ==
    /\ cmd \in wire
    /\ wire' = wire \ {cmd}
    /\ UNCHANGED <<side, bucket, redisNow, bucketUntil, totalUntil, counted, caller,
                   timeouts, beat, released, refunded>>

\* The attempt timed out or failed: once more on a new connection, unless
\* that cannot be opened either.
RetryCoordinationOnce(c) ==
    /\ caller[c].attempt = 1 /\ timeouts < MaxTimeouts
    /\ timeouts' = timeouts + 1
    /\ Send(c, caller[c].op, 2)

CoordinationFails(c) ==
    /\ caller[c].attempt \in {1, 2} /\ timeouts < MaxTimeouts
    /\ timeouts' = timeouts + 1
    /\ caller' = [caller EXCEPT ![c] = After(caller[c].op, "failed")]
    /\ UNCHANGED <<side, bucket, redisNow, bucketUntil, totalUntil, counted, wire, beat,
                   released, refunded>>

\* upstream_snapshot.lua sweeps the aggregate only.
UpstreamSnapshot ==
    /\ side = "upstream"
    /\ totalUntil' = Fresh(Unexpired(totalUntil))
    /\ totalUntil' # totalUntil
    /\ UNCHANGED <<side, bucket, redisNow, bucketUntil, counted, wire, caller, timeouts,
                   beat, released, refunded>>

RedisTick ==
    /\ redisNow < LastNow
    /\ redisNow' = redisNow + 1
    /\ UNCHANGED <<side, bucket, bucketUntil, totalUntil, counted, wire, caller, timeouts,
                   beat, released, refunded>>

RedisNext ==
    \/ \E c \in Calls : StartReserve(c) \/ StartRenew(c) \/ StartRefund(c)
                        \/ StartRelease(c) \/ RetryCoordinationOnce(c) \/ CoordinationFails(c)
    \/ \E cmd \in wire : Execute(cmd) \/ Lose(cmd)
    \/ UpstreamSnapshot \/ RedisTick

RedisSpec == RedisInit /\ [][RedisNext]_redisVars

-----------------------------------------------------------------------------
(* A call that was admitted and whose lease was extended less than the      *)
(* stale window ago still holds a live slot of its bucket, whatever         *)
(* duplicates and sweeps of other calls ran meanwhile: the caps count it.   *)
BeatingCallKeepsSlot ==
    \A c \in Calls :
        /\ caller[c].op \in {"held", "renew"}
        /\ c \notin released
        /\ redisNow < beat[c] + (IF side = "upstream" /\ StaleAfter < RedisLeaseTtl
                                 THEN StaleAfter ELSE RedisLeaseTtl)
        => bucketUntil[c] > redisNow

(* A reservation that lingers on the old connection and runs after the call *)
(* released its lease does not bring the lease back, unless the call was    *)
(* refunded, which removes the event that marks it as done.                 *)
ReleasedStaysReleased ==
    \A c \in released \ refunded :
        bucketUntil[c] = 0

(* The aggregate that the global limit counts never counts a lease that its *)
(* own bucket no longer holds: no slot of the total is lost to a request    *)
(* that ended.                                                              *)
TotalHoldsNoPhantom ==
    \A c \in Calls : totalUntil[c] > redisNow => bucketUntil[c] > redisNow

(* Every group bucket mirrors its leases in the downstream-wide aggregate,  *)
(* so that the global limit counts every admitted call.                     *)
AggregateMirrorsGroups ==
    side = "downstream" =>
        \A c \in Calls : (totalUntil[c] > redisNow) = (bucketUntil[c] > redisNow)

(* The leases kept in Redis count the calls that run: a beating call keeps  *)
(* its slot, an ended one does not come back through a lingering command,   *)
(* and the total counts no lease its bucket has lost.                       *)
LeasesTrue == BeatingCallKeepsSlot /\ ReleasedStaysReleased /\ TotalHoldsNoPhantom
=============================================================================
