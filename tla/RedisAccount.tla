---------------------------- MODULE RedisAccount ----------------------------
(***************************************************************************)
(* The recovery queue of one saturated account, kept in Redis: the scripts *)
(* account_waiter.lua and account_probe.lua as                             *)
(* src/src/state/redis_runtime.rs calls them.  A command is sent at most   *)
(* twice with the same token, its reply may be lost, and an attempt that   *)
(* timed out may be executed later.  Waiters outlive the model's runs:     *)
(* their deadlines (20 minutes and more) are left out.                     *)
(***************************************************************************)
EXTENDS Naturals, Sequences, FiniteSets

CONSTANTS
    Waiters,       \* requests
    ProbeTtl,      \* account_probe_ttl_ms
    Cooldown,      \* the delay of a rejection (one step of the table)
    NamedDelay,    \* the delay a provider names itself
    MaxTokens,     \* operations of the requests: bound of the model
    MaxLate,       \* attempts that time out: bound of the model
    LastSecond     \* bound of the clock

ASSUME RedisAccountAssumption ==
    /\ {ProbeTtl, Cooldown, NamedDelay, MaxTokens} \subseteq Nat \ {0}
    /\ {MaxLate, LastSecond} \subseteq Nat

VARIABLES
    acctNow,    \* TIME of the server
    lineup,     \* the waiters set and their tickets, in order of sequence
    acct,       \* the state hash: cooldown_until is "until"
    probe,      \* the probe hash
    markers,    \* mutation tokens that were applied (kept 60 s)
    doubled,    \* a token changed the account a second time
    commands,   \* commands sent and not yet executed
    asks,       \* what each request waits for
    heldGrant,  \* the grant each request believes it holds
    heldTicket, \* the registration token of the ticket it holds, or 0
    drawn,      \* tokens drawn so far
    late        \* attempts that timed out

accountVars == <<acctNow, lineup, acct, probe, markers, doubled, commands, asks,
                 heldGrant, heldTicket, drawn, late>>

NoProbe == [who |-> "none", token |-> 0, gen |-> 0, until |-> 0]
Resting(w) == asks[w].op = "none"

AccountInit ==
    /\ acctNow = 1 /\ lineup = <<>>
    \* A fresh account, or one that an earlier request reported full.
    /\ acct \in {[gen |-> 0, saturated |-> FALSE, until |-> 0, explicit |-> 0],
                [gen |-> 1, saturated |-> TRUE, until |-> 1, explicit |-> 0]}
    /\ probe = NoProbe
    /\ markers = {} /\ doubled = FALSE
    /\ commands = {}
    /\ asks = [w \in Waiters |-> [op |-> "none", attempt |-> 0, token |-> 0,
                                  gen |-> 0, outcome |-> "none"]]
    /\ heldGrant = [w \in Waiters |-> NoProbe]
    /\ heldTicket = [w \in Waiters |-> 0]
    /\ drawn = 0 /\ late = 0

Queued(w) == \E i \in 1 .. Len(lineup) : lineup[i].who = w
HasTicket(w, reg) == \E i \in 1 .. Len(lineup) : lineup[i] = [who |-> w, reg |-> reg]
Without(w) == SelectSeq(lineup, LAMBDA t : t.who # w)

LaterOf(d, e) == IF d > e THEN d ELSE e

\* prune_probe: an expired probe is forgotten and the generation moves on.
ProbePruned ==
    IF probe.until > 0 /\ probe.until <= acctNow
    THEN [p |-> NoProbe, a |-> [acct EXCEPT !.gen = @ + 1]]
    ELSE [p |-> probe, a |-> acct]

\* apply_rejection: without a probe in flight the generation moves on; a
\* delay the provider named is kept, and the cooldown is the later of that
\* and the delay of the table.
Rejected(p, a, outcome) ==
    LET explicit == IF outcome = "retryAfter" THEN LaterOf(a.explicit, acctNow + NamedDelay)
                    ELSE a.explicit
    IN  [gen |-> IF p = NoProbe THEN a.gen + 1 ELSE a.gen,
         saturated |-> TRUE,
         until |-> LaterOf(acctNow + Cooldown, explicit),
         explicit |-> explicit]

Recovered(a) == [a EXCEPT !.saturated = FALSE, !.until = 0, !.explicit = 0]

-----------------------------------------------------------------------------
(* The scripts; each gives the reply code and changes the four keys.       *)

Keep(p, a) ==
    /\ probe' = p /\ acct' = a
    /\ UNCHANGED <<lineup, markers, doubled>>

\* Mutant: the mutation marker is not consulted.
NeverReplayed(token) == FALSE

Replayed(token) == token \in markers

Apply(token, p, a) ==
    /\ probe' = p /\ acct' = a
    /\ markers' = markers \cup {token}
    /\ doubled' = (doubled \/ token \in markers)
    /\ UNCHANGED lineup

\* reject
Reject(cmd, reply) ==
    LET token == cmd.token
    IN  /\ reply = "ok"
        /\ \/ Replayed(token) /\ Keep(ProbePruned.p, ProbePruned.a)
           \/ ~Replayed(token) /\ Apply(token, ProbePruned.p, Rejected(ProbePruned.p, ProbePruned.a, cmd.outcome))

\* register_if_saturated: a re-run keeps its place in the queue, another
\* registration of the request loses it.
Register(cmd, reply) ==
    /\ \/ ~acct.saturated /\ reply = "open" /\ UNCHANGED lineup
       \/ /\ acct.saturated /\ reply = "ok"
          /\ lineup' = IF HasTicket(cmd.who, cmd.token) THEN lineup
                       ELSE Append(Without(cmd.who), [who |-> cmd.who, reg |-> cmd.token])
    /\ UNCHANGED <<probe, acct, markers, doubled>>

\* cancel: only the ticket it names.
Cancel(cmd, reply) ==
    /\ \/ HasTicket(cmd.who, cmd.ticket) /\ reply = "ok" /\ lineup' = Without(cmd.who)
       \/ ~Queued(cmd.who) /\ reply = "ok" /\ UNCHANGED lineup
       \/ /\ Queued(cmd.who) /\ ~HasTicket(cmd.who, cmd.ticket)
          /\ reply = "failed" /\ UNCHANGED lineup
    /\ UNCHANGED <<probe, acct, markers, doubled>>

ProbeFree(p) == p.until <= acctNow

\* grant: a re-run finds its own probe; else the head of the queue, when no
\* probe runs and the cooldown is over.  Either fails when the downstream
\* lease the request waits under has expired (RedisLeases).
Grant(cmd, reply) ==
    LET p == ProbePruned.p
        a == ProbePruned.a
        mine == p.who = cmd.who /\ p.token = cmd.token /\ p.until > acctNow
        head == HasTicket(cmd.who, cmd.ticket) /\ Head(lineup).who = cmd.who
        ready == head /\ ProbeFree(p) /\ LaterOf(a.until, a.explicit) <= acctNow
    IN  \/ mine /\ reply \in {"granted", "failed"} /\ Keep(p, a)
        \/ ~mine /\ ~HasTicket(cmd.who, cmd.ticket) /\ reply = "failed" /\ Keep(p, a)
        \/ ~mine /\ HasTicket(cmd.who, cmd.ticket) /\ ~ready /\ reply = "wait" /\ Keep(p, a)
        \/ ~mine /\ ready /\ reply = "failed" /\ Keep(p, a)
        \/ /\ ~mine /\ ready /\ reply = "granted"
           /\ lineup' = Without(cmd.who)
           /\ probe' = [who |-> cmd.who, token |-> cmd.token, gen |-> a.gen,
                        until |-> acctNow + ProbeTtl]
           /\ acct' = a /\ UNCHANGED <<markers, doubled>>

\* The fence of a renewal and of a finish: generation, owner, deadline.
Owns(cmd, p, a) ==
    /\ a.gen = cmd.gen /\ p.who = cmd.who /\ p.token = cmd.owner /\ p.until > acctNow

\* renew
RenewProbe(cmd, reply) ==
    LET p == ProbePruned.p
        a == ProbePruned.a
    IN  \/ ~Owns(cmd, p, a) /\ reply = "failed" /\ Keep(p, a)
        \/ Owns(cmd, p, a) /\ reply = "granted" /\ Keep([p EXCEPT !.until = acctNow + ProbeTtl], a)

\* finish
Finish(cmd, reply) ==
    LET token == cmd.token
        p == ProbePruned.p
        a == ProbePruned.a
    IN  \/ Replayed(token) /\ reply = "ok" /\ Keep(p, a)
        \/ /\ ~Replayed(token) /\ ~Owns(cmd, p, a)
           /\ reply = "failed" /\ Keep(p, a)
        \/ /\ ~Replayed(token) /\ Owns(cmd, p, a) /\ reply = "ok"
           /\ Apply(token, NoProbe,
                    CASE cmd.outcome = "accepted" -> Recovered(a)
                      [] cmd.outcome \in {"rejected", "retryAfter"} -> Rejected(NoProbe, a, cmd.outcome)
                      [] OTHER -> a)

AccountScript(cmd, reply) ==
    CASE cmd.op = "reject" -> Reject(cmd, reply)
      [] cmd.op = "register" -> Register(cmd, reply)
      [] cmd.op = "cancel" -> Cancel(cmd, reply)
      [] cmd.op = "grant" -> Grant(cmd, reply)
      [] cmd.op = "renew" -> RenewProbe(cmd, reply)
      [] cmd.op = "finish" -> Finish(cmd, reply)

-----------------------------------------------------------------------------
(* The requests.                                                           *)

Command(w, ask) ==
    [who |-> w, op |-> ask.op, attempt |-> ask.attempt, token |-> ask.token,
     gen |-> ask.gen, owner |-> heldGrant[w].token, ticket |-> heldTicket[w],
     outcome |-> ask.outcome]

\* Every operation draws a fresh token.
AskRedis(w, op, outcome) ==
    LET ask == [op |-> op, attempt |-> 1, token |-> drawn + 1,
                gen |-> heldGrant[w].gen, outcome |-> outcome]
    IN  /\ Resting(w) /\ drawn < MaxTokens
        /\ drawn' = drawn + 1
        /\ asks' = [asks EXCEPT ![w] = ask]
        /\ commands' = commands \cup {Command(w, ask)}
        /\ UNCHANGED <<acctNow, lineup, acct, probe, markers, doubled, heldGrant, heldTicket, late>>

Ordinary(w) == heldGrant[w] = NoProbe /\ heldTicket[w] = 0

\* An ordinary request of the account was refused for concurrency.
AskReject(w) ==
    \E outcome \in {"rejected", "retryAfter"} : Ordinary(w) /\ AskRedis(w, "reject", outcome)
AskRegister(w) == Ordinary(w) /\ AskRedis(w, "register", "none")
AskGrant(w) == heldTicket[w] # 0 /\ AskRedis(w, "grant", "none")
AskCancel(w) == heldTicket[w] # 0 /\ AskRedis(w, "cancel", "none")
\* The renewal task stops when a renewal failed.
AskRenew(w) == heldGrant[w].until > 0 /\ AskRedis(w, "renew", "none")
\* The renewal task is stopped before the probe is finished.
AskFinish(w) ==
    \E outcome \in {"accepted", "rejected", "retryAfter", "other"} :
        heldGrant[w] # NoProbe /\ AskRedis(w, "finish", outcome)

\* What a reply, or the failure of both attempts, means to the request: a
\* renewal that failed ends the probing, before the probe is finished.
Settle(w, cmd, reply) ==
    /\ asks' = [asks EXCEPT ![w] = [@ EXCEPT !.op = "none", !.attempt = 0, !.gen = 0, !.outcome = "none"]]
    /\ heldGrant' = [heldGrant EXCEPT ![w] =
                    CASE cmd.op = "grant" /\ reply = "granted" -> probe'
                      [] cmd.op = "renew" -> [@ EXCEPT !.until = IF reply = "granted" THEN probe'.until ELSE 0]
                      [] cmd.op = "finish" -> NoProbe
                      [] OTHER -> @]
    /\ heldTicket' = [heldTicket EXCEPT ![w] =
                    CASE cmd.op = "register" /\ reply = "ok" -> cmd.token
                      [] cmd.op = "grant" /\ reply = "granted" -> 0
                      [] cmd.op = "cancel" /\ reply = "ok" -> 0
                      [] OTHER -> @]

ExecuteCommand(cmd) ==
    /\ cmd \in commands
    /\ commands' = commands \ {cmd}
    /\ \E reply \in {"ok", "open", "granted", "wait", "failed"} :
        /\ AccountScript(cmd, reply)
        /\ \/ late < MaxLate /\ UNCHANGED <<asks, heldGrant, heldTicket>>
           \/ /\ asks[cmd.who].token = cmd.token /\ asks[cmd.who].attempt = cmd.attempt
              /\ Settle(cmd.who, cmd, reply)
           \/ /\ asks[cmd.who].token # cmd.token \/ asks[cmd.who].attempt # cmd.attempt
              /\ UNCHANGED <<asks, heldGrant, heldTicket>>
    /\ UNCHANGED <<acctNow, drawn, late>>

AskAgain(w) ==
    /\ asks[w].attempt = 1 /\ late < MaxLate
    /\ late' = late + 1
    /\ asks' = [asks EXCEPT ![w].attempt = 2]
    /\ commands' = commands \cup {Command(w, [asks[w] EXCEPT !.attempt = 2])}
    /\ UNCHANGED <<acctNow, lineup, acct, probe, markers, doubled, heldGrant, heldTicket, drawn>>

AskFails(w) ==
    /\ asks[w].attempt \in {1, 2} /\ late < MaxLate
    /\ late' = late + 1
    /\ Settle(w, asks[w], "failed")
    /\ UNCHANGED <<acctNow, lineup, acct, probe, markers, doubled, commands, drawn>>

AccountTick ==
    /\ acctNow < LastSecond /\ acctNow' = acctNow + 1
    /\ UNCHANGED <<lineup, acct, probe, markers, doubled, commands, asks, heldGrant, heldTicket, drawn, late>>

AccountNext ==
    \/ \E w \in Waiters : AskReject(w) \/ AskRegister(w) \/ AskGrant(w) \/ AskCancel(w)
                          \/ AskRenew(w) \/ AskFinish(w) \/ AskAgain(w) \/ AskFails(w)
    \/ \E cmd \in commands : ExecuteCommand(cmd)
    \/ AccountTick

AccountSpec == AccountInit /\ [][AccountNext]_accountVars

-----------------------------------------------------------------------------
(* A rejection or a finish changes the account once, however often it is    *)
(* sent and however late a first attempt runs.                              *)
MutationAppliedOnce == ~doubled

Probing(w) == heldGrant[w].until > acctNow /\ asks[w].op # "finish"

(* A request whose grant expired and was replaced cannot end the probe of   *)
(* its successor: whoever holds an unexpired grant is still the one probe   *)
(* Redis knows of, for as long as it believes, so two requests never probe  *)
(* the account at a time, whatever renewals, retries and late commands do.  *)
GrantNotTakenOver ==
    \A w \in Waiters : Probing(w) =>
        /\ probe.who = w /\ probe.token = heldGrant[w].token
        /\ probe.until >= heldGrant[w].until

(* Retries and lingering commands neither apply a change of the account     *)
(* twice nor end another request's probe.                                   *)
AccountTrue == MutationAppliedOnce /\ GrantNotTakenOver
=============================================================================
