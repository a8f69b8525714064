--------------------------- MODULE AccountRecovery ---------------------------
(***************************************************************************)
(* Recovery of upstream accounts that answered "too many concurrent        *)
(* requests": the process-local AccountConcurrencyRegistry and the         *)
(* AccountRecoverySession that each gateway request drives through it.     *)
(*                                                                         *)
(* A rejected account is saturated and cools down.  Requests that meet a   *)
(* saturated account take a ticket in its queue and are marked as waiting  *)
(* on their downstream lease; when the account has cooled, the head of the *)
(* queue gets the account's single probe and sends its own request as the  *)
(* probe.  The outcome clears the saturation or starts another cooldown.   *)
(*                                                                         *)
(* Every call into the registry prunes what has expired before it does     *)
(* anything else, so nothing ever sees an expired ticket, probe or         *)
(* deadline; the model prunes when the clock moves (Tick).  One session is *)
(* one request: its identity, its ticket tokens and its downstream lease   *)
(* are all named by it, and its lease is live until the session is done;   *)
(* a request of an unlimited downstream key has none and is never marked.  *)
(***************************************************************************)
EXTENDS Naturals, Sequences, FiniteSets

CONSTANTS
  Sessions,     \* requests
  Limited,      \* those whose downstream key limits concurrency, and so holds a lease
  Accounts,     \* upstream accounts (upstream id, key fingerprint)
  Budgets,      \* values of upstream_concurrency_recovery_max_wait_ms
  MaxRounds,    \* upstream_concurrency_recovery_max_rounds
  Delays,       \* local cooldowns a rejection may start (schedule and jitter)
  RetryAfters,  \* Retry-After values an upstream may send
  ProbeTtl,     \* probe_ttl
  Margin,       \* PROBE_EXPIRY_MARGIN
  Timely,       \* whether timers are late by less than Margin
  MaxTime,      \* bound on the clock
  MaxGen,       \* bound on rejections, by the generation they reach
  MaxUpdates    \* bound on changes of the runtime settings

ASSUME RecoveryAssumption ==
  /\ IsFiniteSet(Sessions) /\ Limited \subseteq Sessions
  /\ Budgets \subseteq Nat \ {0} /\ Budgets # {}
  /\ Delays \subseteq Nat \ {0}
  /\ RetryAfters \subseteq Nat \ {0}
  /\ MaxRounds \in Nat \ {0}
  /\ Margin \in Nat \ {0} /\ ProbeTtl \in Nat /\ ProbeTtl > Margin
  /\ Timely \in BOOLEAN
  /\ MaxTime \in Nat /\ MaxGen \in Nat /\ MaxUpdates \in Nat

VARIABLES
  now,        \* Instant::now()
  budget,     \* tuning.waiter_budget, and the runtime setting it comes from
  updates,    \* changes of the runtime settings so far
  \* the registry, per account
  generation, cooldown, explicit, saturated,
  queue,      \* tickets: who, when registered, logical deadline
  probe,      \* the probe in flight: whose, of which generation, expiring when
  \* the downstream lease table
  waiting,    \* sessions whose lease is marked as waiting
  \* the sessions
  pc, trying, tickets, lease, marked, deadline, safe, rounds,
  \* history, read by no action
  told        \* the latest Retry-After deadline each account announced, if not over

registry == <<generation, cooldown, explicit, saturated, queue, probe>>
session == <<pc, trying, tickets, lease, marked, deadline, safe, rounds>>
vars == <<now, budget, updates, registry, waiting, session, told>>

None == [none |-> TRUE]
Never == 0    \* an Option<Instant> that is None: the clock starts at 1

(***************************************************************************)
(* "new"       not started                                                 *)
(* "route"     walking the candidates of a routing round                   *)
(* "waiting"   polling in wait_for_ticket                                  *)
(* "attempt"   a request to account `trying` is in flight                  *)
(* "requeue"   in complete_attempt, after a rejected or failed attempt     *)
(* "accepted"  in complete_attempt, after an accepted one                  *)
(* "cleanup"   returned or dropped, finish() or Drop is still to run       *)
(* "done"                                                                  *)
(***************************************************************************)
Steps == {"new", "route", "waiting", "attempt", "requeue", "accepted", "cleanup", "done"}

Goto(s, step) == pc' = [pc EXCEPT ![s] = step]

TicketAccounts(s) == {tickets[s][i].account : i \in DOMAIN tickets[s]}

Queued(a) == {queue[a][i].who : i \in DOMAIN queue[a]}

\* VecDeque::retain and Vec::retain: the entries at the kept places, in their order.
Retain(entries, kept) ==
  LET Place(n) == CHOOSE i \in kept : Cardinality({j \in kept : j <= i}) = n
  IN  [n \in 1 .. Cardinality(kept) |-> entries[Place(n)]]

\* The queue of account a without the ticket of session s.
Without(a, s) == Retain(queue[a], {i \in DOMAIN queue[a] : queue[a][i].who # s})

Init ==
  /\ now = 1
  /\ budget \in Budgets
  /\ updates = 0
  /\ generation = [a \in Accounts |-> 0]
  /\ cooldown = [a \in Accounts |-> Never]
  /\ explicit = [a \in Accounts |-> Never]
  /\ saturated = [a \in Accounts |-> FALSE]
  /\ queue = [a \in Accounts |-> << >>]
  /\ probe = [a \in Accounts |-> None]
  /\ waiting = {}
  /\ pc = [s \in Sessions |-> "new"]
  /\ trying = [s \in Sessions |-> None]
  /\ tickets = [s \in Sessions |-> << >>]
  /\ lease = [s \in Sessions |-> None]
  /\ marked = [s \in Sessions |-> FALSE]
  /\ deadline = [s \in Sessions |-> Never]
  /\ safe = [s \in Sessions |-> Never]
  /\ rounds = [s \in Sessions |-> 0]
  /\ told = [a \in Accounts |-> Never]

-----------------------------------------------------------------------------
(***************************************************************************)
(* Operations of the registry                                              *)
(***************************************************************************)

\* A fault: a rejection takes the announced deadline, or its own delay, as it is.
ApplyRejectionOverwrites(a, retry, delay, gen) ==
  /\ generation' = [generation EXCEPT ![a] = gen]
  /\ saturated' = [saturated EXCEPT ![a] = TRUE]
  /\ explicit' = [explicit EXCEPT ![a] = retry]
  /\ cooldown' = [cooldown EXCEPT ![a] = IF retry # Never THEN retry ELSE now + delay]
  /\ told' = [told EXCEPT ![a] = IF retry > @ THEN retry ELSE @]

(***************************************************************************)
(* apply_rejection: an announced Retry-After only moves the explicit       *)
(* deadline later; the cooldown is the later of it and the local delay.    *)
(* retry is the announced deadline, or Never.                              *)
(***************************************************************************)
ApplyRejection(a, retry, delay, gen) ==
  LET later == IF retry > explicit[a] THEN retry ELSE explicit[a]
      local == now + delay
  IN  /\ generation' = [generation EXCEPT ![a] = gen]
      /\ saturated' = [saturated EXCEPT ![a] = TRUE]
      /\ explicit' = [explicit EXCEPT ![a] = later]
      /\ cooldown' = [cooldown EXCEPT ![a] = IF later > local THEN later ELSE local]
      /\ told' = [told EXCEPT ![a] = IF retry > @ THEN retry ELSE @]

Retries == {Never} \cup {now + d : d \in RetryAfters}

(***************************************************************************)
(* register_waiter_if_saturated, on a saturated account, with the          *)
(* session's own bookkeeping (push, mark_downstream_waiting).              *)
(***************************************************************************)
Register(s, a) ==
  /\ queue' = [queue EXCEPT ![a] =
       Append(Without(a, s), [who |-> s, at |-> now, until |-> now + budget])]
  /\ tickets' = [tickets EXCEPT ![s] = Append(@, [account |-> a, at |-> now])]
  /\ marked' = [marked EXCEPT ![s] = TRUE]
  /\ waiting' = waiting \cup ({s} \cap Limited)

\* A fault: the queue is checked for the session, not for its head.
GrantableAnywhere(s, a) ==
  /\ s \in Queued(a)
  /\ probe[a] = None
  /\ explicit[a] = Never /\ cooldown[a] = Never

\* try_probe grants s the probe of account a.
Grantable(s, a) ==
  /\ queue[a] # << >> /\ Head(queue[a]).who = s
  /\ probe[a] = None
  /\ explicit[a] = Never /\ cooldown[a] = Never

\* validate_probe
OwnsProbe(s, a) ==
  /\ generation[a] = lease[s].gen
  /\ probe[a] # None /\ probe[a].who = s /\ probe[a].gen = lease[s].gen

\* cancel_waiter for every ticket of the session, and unmark_downstream_waiting.
CancelAll(s) ==
  /\ queue' = [a \in Accounts |->
       IF a \in TicketAccounts(s) THEN Without(a, s) ELSE queue[a]]
  /\ tickets' = [tickets EXCEPT ![s] = << >>]
  /\ waiting' = IF marked[s] THEN waiting \ {s} ELSE waiting
  /\ marked' = [marked EXCEPT ![s] = FALSE]

-----------------------------------------------------------------------------
(***************************************************************************)
(* A session                                                               *)
(***************************************************************************)

\* AccountRecoverySession::new: the deadline is fixed here, within the clock's bound.
Start(s) ==
  /\ pc[s] = "new"
  /\ now + budget <= MaxTime
  /\ deadline' = [deadline EXCEPT ![s] = now + budget]
  /\ Goto(s, "route")
  /\ UNCHANGED <<now, budget, updates, registry, waiting, trying, tickets, lease, marked, safe,
                 rounds, told>>

\* The account of the next candidate, where a session that holds a probe skips
\* every other account, and one that holds a ticket is Deferred as it is.
Candidate(s, a) == pc[s] = "route" /\ lease[s] = None /\ a \notin TicketAccounts(s)

\* wait_for_account: Ordinary.
AdmitOrdinary(s, a) ==
  /\ Candidate(s, a)
  /\ ~ saturated[a]
  /\ trying' = [trying EXCEPT ![s] = a]
  /\ Goto(s, "attempt")
  /\ UNCHANGED <<now, budget, updates, registry, waiting, tickets, lease, marked, deadline, safe,
                 rounds, told>>

\* wait_for_account: a ticket is taken and the candidate is Deferred.
Defer(s, a) ==
  /\ Candidate(s, a)
  /\ saturated[a]
  /\ Register(s, a)
  /\ UNCHANGED <<now, budget, updates, generation, cooldown, explicit, saturated, probe, pc, trying,
                 lease, deadline, safe, rounds, told>>

(***************************************************************************)
(* wait_for_account: Probe.  The attempt runs in a biased select that      *)
(* looks at the ownership of the probe first, so nothing is sent once the  *)
(* probe is no longer safely owned (see Interrupt).                        *)
(***************************************************************************)
AdmitProbe(s) ==
  /\ pc[s] = "route" /\ lease[s] # None
  /\ now < safe[s] /\ now < deadline[s]
  /\ trying' = [trying EXCEPT ![s] = lease[s].account]
  /\ Goto(s, "attempt")
  /\ UNCHANGED <<now, budget, updates, registry, waiting, tickets, lease, marked, deadline, safe,
                 rounds, told>>

\* The round ended with nothing but saturated accounts: wait_for_pending_account.
Wait(s) ==
  /\ pc[s] = "route" /\ lease[s] = None /\ tickets[s] # << >>
  /\ Goto(s, "waiting")
  /\ UNCHANGED <<now, budget, updates, registry, waiting, trying, tickets, lease, marked, deadline,
                 safe, rounds, told>>

\* A fault: the most recent ticket is polled.
SelectedLatest(s) == tickets[s][Len(tickets[s])].account

\* The ticket that is polled: the earliest registered, the first of equals.
Selected(s) ==
  LET best == CHOOSE i \in DOMAIN tickets[s] : \A j \in DOMAIN tickets[s] :
                 \/ tickets[s][i].at < tickets[s][j].at
                 \/ tickets[s][i].at = tickets[s][j].at /\ i <= j
  IN  tickets[s][best].account

\* A fault: only the rounds are counted.
ExhaustedRounds(s) == rounds[s] >= MaxRounds

Exhausted(s) == now >= deadline[s] \/ rounds[s] >= MaxRounds

\* wait_for_ticket: ConcurrencyFull, the routing rounds end.
GiveUp(s) ==
  /\ pc[s] = "waiting" /\ Exhausted(s)
  /\ Goto(s, "cleanup")
  /\ UNCHANGED <<now, budget, updates, registry, waiting, trying, tickets, lease, marked, deadline,
                 safe, rounds, told>>

\* try_acquire_account_probe_for_downstream_lease: the lease is not waiting.
ProbeRefused(s) ==
  /\ pc[s] = "waiting" /\ ~ Exhausted(s)
  /\ s \in Limited \ waiting
  /\ Goto(s, "cleanup")
  /\ UNCHANGED <<now, budget, updates, registry, waiting, trying, tickets, lease, marked, deadline,
                 safe, rounds, told>>

\* A fault: the session counts on the whole life of its probe.
SafeUntilTtl == now + ProbeTtl

\* ActiveUntil(now + safe_for): how long a probe granted or renewed now is safely owned.
SafeUntil == now + ProbeTtl - Margin

(***************************************************************************)
(* The probe is granted: the ticket leaves the queue, the lease is no      *)
(* longer waiting, the renewal task starts and the next round begins.      *)
(***************************************************************************)
GrantProbe(s, a) ==
  /\ pc[s] = "waiting" /\ ~ Exhausted(s)
  /\ s \in Limited => s \in waiting
  /\ a = Selected(s)
  /\ Grantable(s, a)
  /\ queue' = [queue EXCEPT ![a] = Tail(@)]
  /\ probe' = [probe EXCEPT ![a] =
       [who |-> s, gen |-> generation[a], expires |-> now + ProbeTtl]]
  /\ waiting' = waiting \ {s}
  /\ tickets' = [tickets EXCEPT ![s] = Retain(@, {i \in DOMAIN @ : @[i].account # a})]
  /\ lease' = [lease EXCEPT ![s] = [account |-> a, gen |-> generation[a]]]
  /\ marked' = [marked EXCEPT ![s] = FALSE]
  /\ safe' = [safe EXCEPT ![s] = SafeUntil]
  /\ rounds' = [rounds EXCEPT ![s] = @ + 1]
  /\ Goto(s, "route")
  /\ UNCHANGED <<now, budget, updates, generation, cooldown, explicit, saturated, trying, deadline,
                 told>>

\* The periodic renew_account_waiter finds that a ticket is gone.
RenewMissing(s) ==
  /\ pc[s] = "waiting"
  /\ \E a \in TicketAccounts(s) : s \notin Queued(a)
  /\ Goto(s, "cleanup")
  /\ UNCHANGED <<now, budget, updates, registry, waiting, trying, tickets, lease, marked, deadline,
                 safe, rounds, told>>

\* The renewal task of the session's probe.
RenewProbe(s) ==
  /\ lease[s] # None /\ pc[s] \in {"route", "attempt"}
  /\ LET a == lease[s].account
     IN  IF OwnsProbe(s, a)
           THEN /\ probe' = [probe EXCEPT ![a] =
                     [who |-> s, gen |-> generation[a], expires |-> now + ProbeTtl]]
                /\ safe' = [safe EXCEPT ![s] = SafeUntil]
           ELSE /\ safe' = [safe EXCEPT ![s] = now]
                /\ UNCHANGED probe
  /\ UNCHANGED <<now, budget, updates, generation, cooldown, explicit, saturated, queue, waiting,
                 pc, trying, tickets, lease, marked, deadline, rounds, told>>

-----------------------------------------------------------------------------
(***************************************************************************)
(* complete_attempt.  First the registry learns the outcome; a lease that  *)
(* is no longer valid makes the request fail with the lease still in hand. *)
(***************************************************************************)

\* The attempt on account trying[s] is over.
LeaveAttempt(s, step) ==
  /\ Goto(s, step)
  /\ trying' = [trying EXCEPT ![s] = None]

\* The session gives up its probe lease, and the renewal task ends.
DropLease(s) ==
  /\ lease' = [lease EXCEPT ![s] = None]
  /\ safe' = [safe EXCEPT ![s] = Never]

LeaseLost(s) ==
  /\ pc[s] = "attempt" /\ lease[s] # None
  /\ ~ OwnsProbe(s, lease[s].account)
  /\ LeaveAttempt(s, "cleanup")
  /\ UNCHANGED <<now, budget, updates, registry, waiting, tickets, lease, marked, deadline, safe,
                 rounds, told>>

\* ConcurrencyRejected: finish_probe for a probe, reject for an ordinary attempt.
Rejected(s) ==
  LET a == trying[s]
  IN  /\ pc[s] = "attempt"
      /\ generation[a] < MaxGen
      /\ \E retry \in Retries, delay \in Delays :
           IF lease[s] = None
             THEN /\ ApplyRejection(a, retry, delay,
                       IF probe[a] = None THEN generation[a] + 1 ELSE generation[a])
                  /\ UNCHANGED probe
             ELSE /\ OwnsProbe(s, a)
                  /\ ApplyRejection(a, retry, delay, generation[a] + 1)
                  /\ probe' = [probe EXCEPT ![a] = None]
      /\ DropLease(s)
      /\ Goto(s, "requeue")
      /\ UNCHANGED <<now, budget, updates, queue, waiting, trying, tickets, marked, deadline,
                     rounds>>

\* AttemptFailed: no HTTP status, or no upstream slot.  The saturation stays.
Failed(s) ==
  LET a == trying[s]
  IN  /\ pc[s] = "attempt"
      /\ lease[s] # None => OwnsProbe(s, a)
      /\ probe' = IF lease[s] = None THEN probe ELSE [probe EXCEPT ![a] = None]
      /\ DropLease(s)
      /\ Goto(s, "requeue")
      /\ UNCHANGED <<now, budget, updates, generation, cooldown, explicit, saturated, queue,
                     waiting, trying, tickets, marked, deadline, rounds, told>>

\* Accepted: any HTTP answer that is not a concurrency rejection.
Accepted(s) ==
  LET a == trying[s]
  IN  /\ pc[s] = "attempt"
      /\ IF lease[s] = None
           THEN UNCHANGED registry
           ELSE /\ OwnsProbe(s, a)
                /\ probe' = [probe EXCEPT ![a] = None]
                /\ cooldown' = [cooldown EXCEPT ![a] = Never]
                /\ explicit' = [explicit EXCEPT ![a] = Never]
                /\ saturated' = [saturated EXCEPT ![a] = FALSE]
                /\ UNCHANGED <<generation, queue>>
      /\ DropLease(s)
      /\ Goto(s, "accepted")
      /\ UNCHANGED <<now, budget, updates, waiting, trying, tickets, marked, deadline, rounds, told>>

\* account_requires_recovery and enqueue: back to the tail of the queue.
Requeue(s) ==
  /\ pc[s] = "requeue"
  /\ IF saturated[trying[s]] /\ trying[s] \notin TicketAccounts(s)
       THEN Register(s, trying[s])
       ELSE UNCHANGED <<queue, tickets, marked, waiting>>
  /\ LeaveAttempt(s, "route")
  /\ UNCHANGED <<now, budget, updates, generation, cooldown, explicit, saturated, probe, lease,
                 deadline, safe, rounds, told>>

\* cancel_all_waiters; the answer is returned, or an error status is retried.
LeaveQueues(s) ==
  /\ pc[s] = "accepted"
  /\ CancelAll(s)
  /\ \E step \in {"route", "cleanup"} : LeaveAttempt(s, step)
  /\ UNCHANGED <<now, budget, updates, generation, cooldown, explicit, saturated, probe, lease,
                 deadline, safe, rounds, told>>

(***************************************************************************)
(* wait_for_probe_interruption: the ownership is no longer safe or the     *)
(* budget is spent; the attempt is dropped and completed as Cancelled.     *)
(***************************************************************************)
Interrupt(s) ==
  /\ pc[s] \in {"route", "attempt"} /\ lease[s] # None
  /\ now >= safe[s] \/ now >= deadline[s]
  /\ LET a == lease[s].account
     IN  IF OwnsProbe(s, a)
           THEN /\ probe' = [probe EXCEPT ![a] = None]
                /\ DropLease(s)
                /\ \/ now >= safe[s] /\ LeaveAttempt(s, "cleanup")
                   \/ now >= deadline[s] /\ LeaveAttempt(s, "route")
           ELSE /\ LeaveAttempt(s, "cleanup")
                /\ UNCHANGED <<probe, lease, safe>>
  /\ UNCHANGED <<now, budget, updates, generation, cooldown, explicit, saturated, queue, waiting,
                 tickets, marked, deadline, rounds, told>>

\* A terminal error, or the client goes away while the request is suspended.
Leave(s) ==
  /\ pc[s] \in {"route", "waiting", "attempt"}
  /\ LeaveAttempt(s, "cleanup")
  /\ UNCHANGED <<now, budget, updates, registry, waiting, tickets, lease, marked, deadline, safe,
                 rounds, told>>

\* finish_probe with Cancelled, whose error is ignored.
ReleaseProbe(s) ==
  probe' = IF lease[s] # None /\ OwnsProbe(s, lease[s].account)
             THEN [probe EXCEPT ![lease[s].account] = None]
             ELSE probe

\* finish(), or the task that Drop spawns: the probe, the tickets, the mark.
Cleanup(s) ==
  /\ pc[s] = "cleanup"
  /\ ReleaseProbe(s)
  /\ DropLease(s)
  /\ CancelAll(s)
  /\ Goto(s, "done")
  /\ deadline' = [deadline EXCEPT ![s] = Never]
  /\ rounds' = [rounds EXCEPT ![s] = 0]
  /\ UNCHANGED <<now, budget, updates, generation, cooldown, explicit, saturated, trying, told>>

-----------------------------------------------------------------------------
(***************************************************************************)
(* The settings and the clock                                              *)
(***************************************************************************)

\* update_runtime_tuning: tickets already handed out are shortened.
UpdateTuning(b) ==
  /\ updates < MaxUpdates
  /\ b # budget
  /\ budget' = b
  /\ updates' = updates + 1
  /\ queue' = [a \in Accounts |-> [i \in DOMAIN queue[a] |->
       [queue[a][i] EXCEPT !.until = IF @ > now + b THEN now + b ELSE @]]]
  /\ UNCHANGED <<now, generation, cooldown, explicit, saturated, probe, waiting, session, told>>

ProbeExpires(a, t) == probe[a] # None /\ t >= probe[a].expires

Passed(t, instant) == IF t >= instant THEN Never ELSE instant

\* prune_account, on every account, at time t.
Prune(t) ==
  /\ queue' = [a \in Accounts |->
       Retain(queue[a], {i \in DOMAIN queue[a] : t < queue[a][i].until})]
  /\ probe' = [a \in Accounts |-> IF ProbeExpires(a, t) THEN None ELSE probe[a]]
  /\ generation' = [a \in Accounts |->
       IF ProbeExpires(a, t) THEN generation[a] + 1 ELSE generation[a]]
  /\ explicit' = [a \in Accounts |-> Passed(t, explicit[a])]
  /\ cooldown' = [a \in Accounts |-> Passed(t, cooldown[a])]

(***************************************************************************)
(* Time passes.  If the runtime's timers are timely, an attempt whose      *)
(* ownership ended is interrupted within PROBE_EXPIRY_MARGIN.              *)
(***************************************************************************)
Tick ==
  /\ now < MaxTime
  /\ Timely => \A s \in Sessions :
       pc[s] = "attempt" /\ lease[s] # None => now + 1 < safe[s] + Margin
  /\ now' = now + 1
  /\ Prune(now + 1)
  /\ told' = [a \in Accounts |-> Passed(now + 1, told[a])]
  /\ UNCHANGED <<budget, updates, saturated, waiting, session>>

Attempting(s) == Rejected(s) \/ Failed(s) \/ Accepted(s) \/ LeaseLost(s)

Polling(s) ==
  \/ GiveUp(s) \/ ProbeRefused(s) \/ RenewMissing(s)
  \/ \E a \in Accounts : GrantProbe(s, a)

Next ==
  \/ \E s \in Sessions : Start(s)
  \/ \E s \in Sessions, a \in Accounts : AdmitOrdinary(s, a)
  \/ \E s \in Sessions, a \in Accounts : Defer(s, a)
  \/ \E s \in Sessions : AdmitProbe(s)
  \/ \E s \in Sessions : Wait(s)
  \/ \E s \in Sessions : Polling(s)
  \/ \E s \in Sessions : RenewProbe(s)
  \/ \E s \in Sessions : Attempting(s)
  \/ \E s \in Sessions : Requeue(s)
  \/ \E s \in Sessions : LeaveQueues(s)
  \/ \E s \in Sessions : Interrupt(s)
  \/ \E s \in Sessions : Leave(s)
  \/ \E s \in Sessions : Cleanup(s)
  \/ \E b \in Budgets : UpdateTuning(b)
  \/ Tick

Spec == Init /\ [][Next]_vars

(***************************************************************************)
(* A session that sleeps in wait_for_ticket wakes up, its timers fire, and *)
(* the tasks that clean up run; upstreams and clients owe nothing.         *)
(***************************************************************************)
FairSpec ==
  /\ Spec
  /\ WF_vars(Tick)
  /\ \A s \in Sessions : WF_vars(Polling(s)) /\ WF_vars(Interrupt(s)) /\ WF_vars(Cleanup(s))

-----------------------------------------------------------------------------
(***************************************************************************)
(* Properties                                                              *)
(***************************************************************************)

Lease == [account : Accounts, gen : Nat]
Probe == [who : Sessions, gen : Nat, expires : Nat]

\* The type of the state.
TypeOK ==
  /\ now \in Nat /\ budget \in Budgets /\ updates \in Nat
  /\ generation \in [Accounts -> Nat]
  /\ cooldown \in [Accounts -> Nat]
  /\ explicit \in [Accounts -> Nat]
  /\ saturated \in [Accounts -> BOOLEAN]
  /\ queue \in [Accounts -> Seq([who : Sessions, at : Nat, until : Nat])]
  /\ probe \in [Accounts -> Probe \cup {None}]
  /\ waiting \subseteq Limited
  /\ pc \in [Sessions -> Steps]
  /\ trying \in [Sessions -> Accounts \cup {None}]
  /\ tickets \in [Sessions -> Seq([account : Accounts, at : Nat])]
  /\ lease \in [Sessions -> Lease \cup {None}]
  /\ marked \in [Sessions -> BOOLEAN]
  /\ deadline \in [Sessions -> Nat]
  /\ safe \in [Sessions -> Nat]
  /\ rounds \in [Sessions -> Nat]
  /\ told \in [Accounts -> Nat]

Probing(a) == {s \in Sessions : pc[s] = "attempt" /\ lease[s] # None /\ lease[s].account = a}

\* Single flight: if timers are timely, at most one request is being sent as
\* the probe of an account, however late the renewal of its probe comes:
\* ProbeRenewal gives up the attempt before try_probe can grant another one.
SingleFlight == \A a \in Accounts : Cardinality(Probing(a)) <= 1

\* No orphaned probe: the probe that the registry has in flight is the one its
\* session holds, so finish() or Drop gives it back, and no account stays closed
\* until the probe expires because nobody knows of it.
ProbeOwned ==
  /\ \A a \in Accounts : probe[a] # None =>
       lease[probe[a].who] = [account |-> a, gen |-> probe[a].gen]
  /\ \A s \in Sessions : pc[s] = "done" => lease[s] = None

\* No orphaned ticket: whoever stands in a queue, or counts as waiting, knows
\* it, and a session that is done has left every queue.
TicketsOwned ==
  /\ \A a \in Accounts : \A s \in Queued(a) : a \in TicketAccounts(s)
  /\ \A s \in waiting : marked[s]
  /\ \A s \in Sessions : pc[s] = "done" => tickets[s] = << >> /\ ~ marked[s]

Ahead(u, s) ==
  LET a == Selected(s)
  IN  \E i, j \in DOMAIN queue[a] : i < j /\ queue[a][i].who = u /\ queue[a][j].who = s

\* No circular wait: a request may hold tickets of several accounts and polls
\* only one of them, yet no set of waiting requests is such that each polls a
\* queue in which another of them is ahead of it.
NoCircularWait ==
  ~ \E C \in SUBSET {s \in Sessions : pc[s] = "waiting"} :
      C # {} /\ \A s \in C : \E u \in C : Ahead(u, s)

\* The queues are sound: nobody waits behind a ticket its owner forgot, and
\* nobody in a circle (acquire, poll and the cleanup of a request that ends).
QueuesSound == TicketsOwned /\ NoCircularWait

\* While an account stays saturated, the Retry-After deadline its upstream
\* announced is not brought forward: another rejection, an expired probe or a
\* failed one leaves the account cooling at least until then.
RetryAfterKept ==
  [][\A a \in Accounts :
       (saturated'[a] /\ explicit[a] > now') => cooldown'[a] >= explicit[a]]_vars

\* Probes are granted in the order of registration: nobody who registered with
\* an account earlier, and is still queueing there, is passed over.
OldestFirst ==
  [][\A a \in Accounts : (probe'[a] # None /\ probe[a] = None) =>
       \A i, j \in DOMAIN queue[a] :
         queue[a][i].who = probe'[a].who => queue[a][i].at <= queue[a][j].at]_vars

\* A request that waits for an account returns: it is granted the probe, or it
\* reports that its budget is spent, whatever the others do.
WaitersReturn == \A s \in Sessions : pc[s] = "waiting" ~> pc[s] # "waiting"

-----------------------------------------------------------------------------
(***************************************************************************)
(* What the design document says of the account recovery and the code does *)
(* not do                                                                  *)
(***************************************************************************)

\* "New arrivals may use Available normally, but while a queue exists they
\* append at its tail and cannot bypass existing waiters."
NoBypass ==
  [][\A s \in Sessions :
       (pc[s] = "route" /\ pc'[s] = "attempt" /\ lease[s] = None)
         => queue[trying'[s]] = << >>]_vars

\* "A request moving to a different account removes its prior account ticket
\* before registering the new one."
OneTicket ==
  \A s \in Sessions : Cardinality({a \in Accounts : s \in Queued(a)}) <= 1

\* "An explicit provider Retry-After remains authoritative and is never
\* shortened": no probe is granted before every announced deadline has passed.
RetryAfterHonoured ==
  [][\A a \in Accounts : (probe'[a] # None /\ probe[a] = None) => now >= told[a]]_vars
=============================================================================
