--------------------------- MODULE ResponseHistory ---------------------------
(***************************************************************************)
(* The response histories a client continues with previous_response_id:    *)
(* the bounded store in memory (src/src/state.rs ResponseHistoryStore),    *)
(* the rows in Postgres, and the tasks that write them.                    *)
(*                                                                         *)
(* A history is its creation time; what it contains is the subject of      *)
(* Conversation.  Legacy rows carry no downstream and are claimed by the   *)
(* first lookup of the only downstream there is.                           *)
(***************************************************************************)
EXTENDS Integers, Sequences, FiniteSets, SequencesExt

CONSTANTS
    Owners,           \* ids of downstreams
    Ids,              \* response ids
    Legacy,           \* the response id of a row without a downstream
    HistoryTtl,       \* RESPONSE_HISTORY_TTL_SECONDS
    HistoryLimit,     \* RESPONSE_HISTORY_MAX_ENTRIES
    MaxTasks, LastHour   \* bounds of the model: tasks at a time, and time

ASSUME HistoryAssumption ==
    /\ Legacy \in Ids /\ "" \notin Owners
    /\ HistoryTtl \in Nat /\ HistoryLimit \in Nat \ {0}
    /\ MaxTasks \in Nat /\ LastHour \in Nat

Unwritten == -1
HistoryKeys == Owners \X Ids
RowKeys == (Owners \cup {""}) \X Ids

VARIABLES
    hour,
    configured,   \* the downstreams of the configuration
    kept,         \* entries: creation time of each history in memory, or Unwritten
    keptOrder,    \* order
    rows,         \* the table, the same
    writing,      \* spawned upserts
    lookup        \* the lookups that wait for Postgres

historyVars == <<hour, configured, kept, keptOrder, rows, writing, lookup>>

HistoryInit ==
    /\ hour = 0
    /\ configured \in {{o} : o \in Owners}
    /\ kept = [k \in HistoryKeys |-> Unwritten] /\ keptOrder = <<>>
    /\ rows = [k \in RowKeys |-> IF k = <<"", Legacy>> THEN 0 ELSE Unwritten]
    /\ writing = {} /\ lookup = {}

-----------------------------------------------------------------------------
(* ResponseHistoryStore: a pair of the entries and their order.             *)

TooOld(created, now) == now - created > HistoryTtl

(* evict_expired: from the front, as far as the entries are expired.        *)
Expelled(es, ord, now) ==
    LET fresh == {n \in 1..Len(ord) : es[ord[n]] # Unwritten /\ ~ TooOld(es[ord[n]], now)}
        first == IF fresh = {} THEN Len(ord) + 1 ELSE CHOOSE n \in fresh : \A j \in fresh : n <= j
        rest == SubSeq(ord, first, Len(ord))
    IN  [es |-> [k \in HistoryKeys |-> IF k \in ToSet(rest) THEN es[k] ELSE Unwritten],
         ord |-> rest]

Trimmed(store) ==
    LET excess == IF Len(store.ord) > HistoryLimit THEN Len(store.ord) - HistoryLimit ELSE 0
        gone == {store.ord[n] : n \in 1..excess}
    IN  [es |-> [k \in HistoryKeys |-> IF k \in gone THEN Unwritten ELSE store.es[k]],
         ord |-> SubSeq(store.ord, excess + 1, Len(store.ord))]

(* order.retain: the places that do not hold k, in their order.             *)
Retained(ord, k) ==
    LET stays == {n \in 1..Len(ord) : ord[n] # k}
        Place(i) == CHOOSE n \in stays : Cardinality({m \in stays : m <= n}) = i
    IN  [i \in 1..Cardinality(stays) |-> ord[Place(i)]]

(* An insertion that leaves the older place in the order.                   *)
InsertedTwice(k, created, now) ==
    Trimmed(Expelled([kept EXCEPT ![k] = created], Append(keptOrder, k), now))

Inserted(k, created, now) ==
    Trimmed(Expelled([kept EXCEPT ![k] = created], Append(Retained(keptOrder, k), k), now))

-----------------------------------------------------------------------------
(* The operations.                                                          *)

TaskRoom == Cardinality(writing) + Cardinality(lookup) < MaxTasks

(* store_response_history: memory at once, Postgres by a spawned task.      *)
Store(k) ==
    LET store == Inserted(k, hour, hour)
    IN  /\ k[1] \in configured /\ k[2] # Legacy /\ TaskRoom
        /\ kept' = store.es /\ keptOrder' = store.ord
        /\ writing' = writing \cup {[key |-> k, created |-> hour]}
        /\ UNCHANGED <<hour, configured, rows, lookup>>

(* The rows newer than the cutoff of a write, the newest of them.           *)
RowsAfter(w) ==
    LET all == [rows EXCEPT ![w.key] = w.created]
        live == {k \in RowKeys : all[k] # Unwritten /\ all[k] >= w.created - HistoryTtl}
        keeps == {S \in SUBSET live :
                    /\ Cardinality(S) = IF Cardinality(live) < HistoryLimit
                                          THEN Cardinality(live) ELSE HistoryLimit
                    /\ \A k \in S, j \in live \ S : all[k] >= all[j]}
    IN  {[k \in RowKeys |-> IF k \in S THEN all[k] ELSE Unwritten] : S \in keeps}

(* upsert_response_history, one transaction; or it fails and is logged.     *)
Persist(w) ==
    /\ writing' = writing \ {w}
    /\ rows' \in RowsAfter(w) \cup {rows}
    /\ UNCHANGED <<hour, configured, kept, keptOrder, lookup>>

(* response_history: found in memory.                                       *)
Serve(k) ==
    LET store == Expelled(kept, keptOrder, hour)
    IN  /\ k[1] \in configured
        /\ kept' = store.es /\ keptOrder' = store.ord
        /\ store.es[k] # Unwritten
        /\ UNCHANGED <<hour, configured, rows, writing, lookup>>

(* Not in memory: the downstreams are read, then Postgres is asked.         *)
AskPostgres(k) ==
    LET store == Expelled(kept, keptOrder, hour)
    IN  /\ k[1] \in configured
        /\ store.es[k] = Unwritten /\ TaskRoom
        /\ kept' = store.es /\ keptOrder' = store.ord
        /\ lookup' = lookup \cup {[key |-> k, now |-> hour, claim |-> configured = {k[1]}]}
        /\ UNCHANGED <<hour, configured, rows, writing>>

Readable(k, q) == rows[k] # Unwritten /\ ~ TooOld(rows[k], q.now)

(* The claim moves the row to the downstream that asks.                     *)
Claimed(q) ==
    [rows EXCEPT ![q.key] = rows[<<"", q.key[2]>>], ![<<"", q.key[2]>>] = Unwritten]

(* The row of the downstream, or the legacy row it may claim; the entry is  *)
(* put back into memory with its own creation time.                         *)
Fetch(q) ==
    LET old == <<"", q.key[2]>>
        claims == ~ Readable(q.key, q) /\ q.claim /\ Readable(old, q)
        found == Readable(q.key, q) \/ claims
        created == IF claims THEN rows[old] ELSE rows[q.key]
        store == Inserted(q.key, created, q.now)
    IN  /\ lookup' = lookup \ {q}
        /\ rows' = IF claims THEN Claimed(q) ELSE rows
        /\ IF found THEN kept' = store.es /\ keptOrder' = store.ord
                    ELSE UNCHANGED <<kept, keptOrder>>
        /\ UNCHANGED <<hour, configured, writing>>

(* The process restarts: memory and the tasks are gone.                     *)
Restart ==
    /\ kept' = [k \in HistoryKeys |-> Unwritten] /\ keptOrder' = <<>>
    /\ writing' = {} /\ lookup' = {}
    /\ UNCHANGED <<hour, configured, rows>>

(* An administrator adds and removes downstreams.                           *)
Configure ==
    /\ configured' \in SUBSET Owners
    /\ UNCHANGED <<hour, kept, keptOrder, rows, writing, lookup>>

HourPasses ==
    /\ hour < LastHour
    /\ hour' = hour + 1
    /\ UNCHANGED <<configured, kept, keptOrder, rows, writing, lookup>>

HistoryNext ==
    \/ \E k \in HistoryKeys : Store(k) \/ Serve(k) \/ AskPostgres(k)
    \/ \E w \in writing : Persist(w)
    \/ \E q \in lookup : Fetch(q)
    \/ Restart \/ Configure \/ HourPasses

HistorySpec == HistoryInit /\ [][HistoryNext]_historyVars

-----------------------------------------------------------------------------
(* Properties.                                                              *)

(* Every history in memory has exactly one place in the order, and memory   *)
(* holds no more than the limit: none is kept for ever.                     *)
EveryEntryOrdered ==
    /\ ToSet(keptOrder) = {k \in HistoryKeys : kept[k] # Unwritten}
    /\ Len(keptOrder) = Cardinality(ToSet(keptOrder)) /\ Len(keptOrder) <= HistoryLimit

(* A legacy history is claimed by one downstream at most, although the set  *)
(* of downstreams is read before the claim and may have changed since.      *)
LegacyClaimedOnce ==
    Cardinality({o \in Owners : \/ kept[<<o, Legacy>>] # Unwritten
                                \/ rows[<<o, Legacy>>] # Unwritten}) <= 1

(* The histories in memory and in the database agree on what is kept and    *)
(* whose it is: nothing escapes the eviction order, and a legacy history    *)
(* has one owner (ResponseHistoryStore, response_history).                  *)
HistoriesSafe == EveryEntryOrdered /\ LegacyClaimedOnce

(* RESPONSE_HISTORY_TTL_SECONDS: no history is handed out after its time;   *)
(* what a lookup finds in memory now is still in it.                        *)
ServedInTime ==
    \A k \in HistoryKeys :
        Expelled(kept, keptOrder, hour).es[k] # Unwritten => ~ TooOld(kept[k], hour)
=============================================================================
