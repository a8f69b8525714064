------------------------------ MODULE CostBudget ------------------------------
(***************************************************************************)
(* The daily cost budget of one account (cost scope) of the gateway, with  *)
(* the process-local coordination backend.                                 *)
(*                                                                         *)
(* Every key of the account shares one rolling window of billed requests   *)
(* (downstream_token_windows[scope_id]).  A request is admitted by         *)
(* reserve_downstream_request, which first evicts old events from the      *)
(* front of the window and then compares the cost of the last day with the *)
(* limit; it is billed only when it ends, by append_usage_log, with the    *)
(* time stamped a little earlier.  A restart rebuilds the window from the  *)
(* usage logs that reached the store.                                      *)
(*                                                                         *)
(* A request stands for its event: the window holds request names, and     *)
(* at[r] and cents[r] are the created_at and the value of r's event.       *)
(***************************************************************************)
EXTENDS Naturals, Sequences, FiniteSets, FiniteSetsExt

CONSTANTS
  Requests,     \* requests ever made by the account
  Keys,         \* the account's downstream keys, all rate limited
  Priced,       \* the keys with has_cost_pricing()
  KeyOf,        \* the key each request uses
  Limits,       \* the daily limits an administrator may set; 0 is "no limit"
  Costs,        \* the cents one request may cost
  DayLen,       \* DOWNSTREAM_DAILY_TOKEN_WINDOW_SECONDS
  ShortLen,     \* the retention of a key that is not cost billed (60 s)
  MaxTime,      \* bound on the clock
  MaxChanges,   \* bound on the administrator's limit changes
  MaxRestarts   \* bound on restarts

ASSUME BudgetAssumption ==
  /\ IsFiniteSet(Requests)
  /\ Priced \subseteq Keys
  /\ KeyOf \in [Requests -> Keys]
  /\ Limits \subseteq Nat
  /\ Costs \subseteq Nat
  /\ DayLen \in Nat \ {0}
  /\ ShortLen \in 1..DayLen
  /\ MaxTime \in Nat /\ MaxChanges \in Nat /\ MaxRestarts \in Nat

VARIABLES
  now,       \* unix_seconds()
  limit,     \* cost_scope_limits[scope_id], 0 when absent
  status,    \* how far each request is
  at,        \* created_at of a request's usage log
  cents,     \* total_cost_cents of a request's usage log
  window,    \* downstream_token_windows[scope_id]
  stored,    \* requests whose usage log has been flushed to the store
  changes,   \* limit changes so far
  restarts   \* restarts so far

vars == <<now, limit, status, at, cents, window, stored, changes, restarts>>

(***************************************************************************)
(* "new"      not yet seen                                                 *)
(* "admitted" holds a reservation                                          *)
(* "refused"  DailyCostQuotaExceeded                                       *)
(* "stamped"  ended well: its log has a time and a cost, not yet recorded  *)
(* "failed"   ended with 429 or 5xx, which never consumes quota            *)
(* "charged"  recorded, with an event in the live window                   *)
(* "free"     recorded without one                                         *)
(* "lost"     ended or running when the process died; no log was stored    *)
(***************************************************************************)
Statuses ==
  {"new", "admitted", "refused", "stamped", "failed", "charged", "free", "lost"}

With(S) == {r \in Requests : status[r] \in S}

IsPriced(r) == KeyOf[r] \in Priced

SumCents(S) == MapThenSumSet(LAMBDA r : cents[r], S)

Elements(w) == {w[i] : i \in DOMAIN w}

Events == Elements(window)

\* saturating_sub(window length - 1): the oldest second a window of len covers.
WindowStart(len) == IF now >= len - 1 THEN now - (len - 1) ELSE 0

-------------------------------------------------------------------------------

Init ==
  /\ now = 1
  /\ limit \in Limits
  /\ status = [r \in Requests |-> "new"]
  /\ at = [r \in Requests |-> 0]
  /\ cents = [r \in Requests |-> 0]
  /\ window = << >>
  /\ stored = {}
  /\ changes = 0
  /\ restarts = 0

\* downstream_token_retention_seconds, for a scope that is limited.
Retention(r) == IF IsPriced(r) THEN DayLen ELSE ShortLen

\* A faulty Evict that also drops the first event it should keep.
EvictOneTooMany(start) ==
  LET young == {i \in DOMAIN window : at[window[i]] >= start}
  IN  IF young = {} THEN << >> ELSE SubSeq(window, Min(young) + 1, Len(window))

\* Events leave from the front only, up to the first one that is young enough.
Evict(start) ==
  LET young == {i \in DOMAIN window : at[window[i]] >= start}
  IN  IF young = {} THEN << >> ELSE SubSeq(window, Min(young), Len(window))

\* daily_used: the cost of the events of window w that are less than a day old.
DailyUsed(w) == SumCents({r \in Elements(w) : at[r] >= WindowStart(DayLen)})

(***************************************************************************)
(* The cost part of reserve_downstream_request.  The eviction happens      *)
(* whatever the verdict is; an unlimited scope leaves the window alone.    *)
(***************************************************************************)
Admit(r) ==
  /\ status[r] = "new"
  /\ window' = IF limit > 0 THEN Evict(WindowStart(Retention(r))) ELSE window
  /\ LET spent == limit > 0 /\ DailyUsed(window') >= limit
     IN  status' = [status EXCEPT ![r] = IF spent THEN "refused" ELSE "admitted"]
  /\ UNCHANGED <<now, limit, at, cents, stored, changes, restarts>>

\* The request ends: downstream_billing_info prices it, its log is stamped.
Finish(r) ==
  /\ status[r] = "admitted"
  /\ \/ \E c \in Costs :
          /\ status' = [status EXCEPT ![r] = "stamped"]
          /\ cents' = [cents EXCEPT ![r] = IF IsPriced(r) THEN c ELSE 0]
     \/ /\ status' = [status EXCEPT ![r] = "failed"]
        /\ UNCHANGED cents
  /\ at' = [at EXCEPT ![r] = now]
  /\ UNCHANGED <<now, limit, window, stored, changes, restarts>>

(***************************************************************************)
(* append_usage_log -> record_downstream_usage_event: only a cost billed   *)
(* key of a limited scope adds to the live window.                         *)
(***************************************************************************)
Record(r) ==
  /\ status[r] = "stamped"
  /\ IF IsPriced(r) /\ limit > 0
       THEN /\ window' = Append(window, r)
            /\ status' = [status EXCEPT ![r] = "charged"]
       ELSE /\ status' = [status EXCEPT ![r] = "free"]
            /\ UNCHANGED window
  /\ UNCHANGED <<now, limit, at, cents, stored, changes, restarts>>

\* set_cost_scope_limit
SetLimit(l) ==
  /\ changes < MaxChanges
  /\ l # limit
  /\ limit' = l
  /\ changes' = changes + 1
  /\ UNCHANGED <<now, status, at, cents, window, stored, restarts>>

\* The flush pipeline stores a recorded log (module UsageLogs).
Flush(r) ==
  /\ r \in With({"charged", "free"}) \ stored
  /\ stored' = stored \cup {r}
  /\ UNCHANGED <<now, limit, status, at, cents, window, changes, restarts>>

\* A faulty replay that does not drop a log it has already seen.
ReplaysTwice(S) ==
  {w \in [1..2 * Cardinality(S) -> S] :
     \A r \in S : Cardinality({i \in DOMAIN w : w[i] = r}) = 2}

\* The orders in which normalized_usage_logs may list S: by created_at.
Replays(S) ==
  {w \in [1..Cardinality(S) -> S] :
     /\ \A i, j \in DOMAIN w : i < j => /\ w[i] # w[j]
                                        /\ at[w[i]] <= at[w[j]]
     /\ S \subseteq {w[i] : i \in DOMAIN w}}

\* The logs build_downstream_token_windows makes events of.
Replayed == {r \in stored : IsPriced(r)}

(***************************************************************************)
(* The process dies and starts again: the window is rebuilt from the store *)
(* by build_downstream_token_windows, which asks for a price but not for a *)
(* limit.  Requests in flight and logs not stored are gone.                *)
(***************************************************************************)
Restart ==
  /\ restarts < MaxRestarts
  /\ window' \in Replays(Replayed)
  /\ status' = [r \in Requests |->
       CASE r \in Replayed -> "charged"
         [] r \in stored \ Replayed -> "free"
         [] r \notin stored /\ status[r] \in {"admitted", "stamped", "charged", "free"} -> "lost"
         [] OTHER -> status[r]]
  /\ restarts' = restarts + 1
  /\ UNCHANGED <<now, limit, at, cents, stored, changes>>

Tick ==
  /\ now < MaxTime
  /\ now' = now + 1
  /\ UNCHANGED <<limit, status, at, cents, window, stored, changes, restarts>>

Next ==
  \/ \E r \in Requests : Admit(r)
  \/ \E r \in Requests : Finish(r)
  \/ \E r \in Requests : Record(r)
  \/ \E r \in Requests : Flush(r)
  \/ \E l \in Limits : SetLimit(l)
  \/ Restart
  \/ Tick

Spec == Init /\ [][Next]_vars

-------------------------------------------------------------------------------
(***************************************************************************)
(* Properties                                                              *)
(***************************************************************************)

\* The type of the state.
TypeOK ==
  /\ now \in Nat
  /\ limit \in Limits
  /\ status \in [Requests -> Statuses]
  /\ at \in [Requests -> Nat]
  /\ cents \in [Requests -> Nat]
  /\ window \in Seq(Requests)
  /\ stored \subseteq Requests
  /\ changes \in Nat
  /\ restarts \in Nat

\* What the account spent in the last day, by the requests charged to it.
SpentToday == SumCents({r \in With({"charged"}) : at[r] + DayLen > now})

\* No request is charged twice, and only charged requests are in the window: a
\* log replayed after a restart is never in the window next to its live event.
ChargedOnce ==
  /\ \A i, j \in DOMAIN window : i # j => window[i] # window[j]
  /\ Events \subseteq With({"charged"})

\* The account's budget holds whichever of its keys is used and whatever the
\* order in which logs were stamped and recorded: reserve_downstream_request
\* admits a request of a limited account only while the requests charged to the
\* account in the last day cost less than the limit.
BudgetEnforced ==
  [][\A r \in Requests :
        (status[r] = "new" /\ status'[r] = "admitted" /\ limit > 0)
          => ~ (SpentToday >= limit)]_vars

\* A request is refused only when the account really spent its limit in the
\* last day: events that are older, kept behind a younger one at the front of
\* the window, do not count.
RefusedOnlyWhenSpent ==
  [][\A r \in Requests :
        (status[r] = "new" /\ status'[r] = "refused")
          => SpentToday >= limit]_vars

\* The daily budget of an account is enforced exactly: reserve_downstream_request
\* admits only below the limit and refuses only at it.
BudgetFair == BudgetEnforced /\ RefusedOnlyWhenSpent

\* record_downstream_usage_event keeps the live window "on the same counting
\* rule as the replay windows so live and replayed totals match": while the
\* scope is limited and everything is stored, a restart would not change what
\* the account has spent today.
LiveMatchesReplay ==
  (limit > 0 /\ With({"charged", "free"}) \subseteq stored)
    => DailyUsed(window) = SumCents({r \in Replayed : at[r] + DayLen > now})

===============================================================================
