---- MODULE Configuration ----
(***************************************************************************)
(* The persisted configuration and the administrators' handlers that       *)
(* change it: state.rs (update_runtime_settings, update_model_aliases,     *)
(* mutate_persisted_state_inner and its callers), state/freekey_sync.rs    *)
(* (update_upstream_by_id), state/model_access.rs, server/admin.rs, and    *)
(* the two stores state/file_store.rs and state/postgres.rs.               *)
(*                                                                         *)
(* A document is reduced to what the handlers can disagree about: whether  *)
(* an upstream maps a downstream model name, whether that name is also a   *)
(* global alias, one downstream key (its secret, its active flag, whether  *)
(* it is bound to the model group that can be deleted) and the revision of *)
(* the runtime settings.                                                   *)
(*                                                                         *)
(* A handler is dropped when its client hangs up, at any of its awaits.    *)
(* tokio's file writes run on a blocking thread that a dropped handler     *)
(* does not stop: such a write is "late" (DroppedWrites says for which     *)
(* backends a handler is dropped in the middle of a write).                *)
(***************************************************************************)
EXTENDS Naturals, FiniteSets, FiniteSetsExt
CONSTANTS Admins, Backends, DroppedWrites, Operations, MaxRevision, MaxSecret, MaxCalls

NoLock == "free"

ASSUME ConfigurationAssumption ==
  /\ NoLock \notin Admins
  /\ Operations \subseteq {"settings", "aliases", "insert_upstream", "patch_upstream",
                           "remove_upstream", "toggle_downstream", "rotate_downstream",
                           "patch_downstream", "delete_group", "other"}
  /\ Backends \subseteq {"file", "postgres"}
  /\ DroppedWrites \subseteq {"file"}
  /\ MaxRevision \in Nat /\ MaxSecret \in Nat \ {0} /\ MaxCalls \in Nat

VARIABLES backend, store, memory, registry, tuned, lock, handler, late, shared,
          groupExists, issued, retired, granted, twice, calls

configVars == <<backend, store, memory, registry, tuned, lock, handler, late, shared,
                groupExists, issued, retired, granted, twice, calls>>

Document == [mapped : BOOLEAN, alias : BOOLEAN, secret : 1..MaxSecret,
             active : BOOLEAN, bound : BOOLEAN, revision : 0..MaxRevision]
(* A file whose bytes come from two writes.                                *)
Torn == [mapped |-> FALSE, alias |-> FALSE, secret |-> 0,
         active |-> FALSE, bound |-> FALSE, revision |-> 0]
Resting == [op |-> "none", at |-> "idle", arg |-> 0, copy |-> Torn, candidate |-> Torn]

ConfigInit ==
  /\ backend \in Backends
  /\ store = [mapped |-> FALSE, alias |-> FALSE, secret |-> 1,
              active |-> TRUE, bound |-> TRUE, revision |-> 0]
  /\ memory = store
  /\ registry = store.alias
  /\ tuned = store.revision
  /\ lock = NoLock
  /\ handler = [h \in Admins |-> Resting]
  /\ late = {} /\ shared = FALSE
  /\ groupExists = (backend = "postgres")
  /\ issued = 1 /\ retired = {} /\ granted = {} /\ twice = FALSE
  /\ calls = 0

(* The document each operation makes of the current one, and whether its   *)
(* checks let it: the closure handed to mutate_persisted_state, run while  *)
(* both locks are held.                                                    *)
ChangedSettings(c, h) == [c EXCEPT !.revision = c.revision + 1]
ChangedAliases(c, h) == [c EXCEPT !.alias = (h.arg = 1)]
InsertedUpstream(c, h) == [c EXCEPT !.mapped = TRUE]
PatchedUpstream(c, h) == [c EXCEPT !.mapped = (h.arg = 1)]
RemovedUpstream(c, h) == [c EXCEPT !.mapped = FALSE]
ReplacedDownstream(c, h) ==
  [c EXCEPT !.secret = h.copy.secret, !.active = h.copy.active, !.bound = h.copy.bound]
PatchedDownstream(c, h) == [c EXCEPT !.active = (h.arg = 1)]
RetargetedDownstreams(c, h) == [c EXCEPT !.bound = FALSE]
ChangedOther(c, h) == c

Candidate(c, h) ==
  CASE h.op = "settings" -> ChangedSettings(c, h)
    [] h.op = "aliases" -> ChangedAliases(c, h)
    [] h.op = "insert_upstream" -> InsertedUpstream(c, h)
    [] h.op = "patch_upstream" -> PatchedUpstream(c, h)
    [] h.op = "remove_upstream" -> RemovedUpstream(c, h)
    [] h.op \in {"toggle_downstream", "rotate_downstream"} -> ReplacedDownstream(c, h)
    [] h.op = "patch_downstream" -> PatchedDownstream(c, h)
    [] h.op = "delete_group" -> RetargetedDownstreams(c, h)
    [] h.op = "other" -> ChangedOther(c, h)

(* Rule 5: a mapped downstream name must not be a global alias.            *)
AliasConflict(mapped, alias) == mapped /\ alias
RevisionCurrent(h) == h.arg = memory.revision /\ memory.revision < MaxRevision
(* As a bug would have it: only the revision read by the page was compared. *)
CheckedByPage(h) ==
  /\ h.op = "settings" => memory.revision < MaxRevision
  /\ h.op = "aliases" => ~AliasConflict(memory.mapped, h.arg = 1)
  /\ h.op = "patch_upstream" => ~AliasConflict(h.arg = 1, registry)

CheckedUnderLock(h) ==
  /\ h.op = "settings" => RevisionCurrent(h)
  /\ h.op = "aliases" => ~AliasConflict(memory.mapped, h.arg = 1)
  /\ h.op = "patch_upstream" => ~AliasConflict(h.arg = 1, registry)

Return(h) == [handler EXCEPT ![h] = Resting]

(* A call arrives. The handlers of toggle and rotate copy the downstream   *)
(* from a snapshot here; insert_upstream checks rule 5 here.               *)
CopyOf(op) ==
  CASE op = "toggle_downstream" -> [memory EXCEPT !.active = ~memory.active]
    [] op = "rotate_downstream" -> [memory EXCEPT !.secret = issued + 1]
    [] OTHER -> Torn

Call(h) ==
  /\ handler[h].at = "idle" /\ calls < MaxCalls
  /\ \E op \in Operations, arg \in 0..MaxRevision :
       /\ op \in {"aliases", "patch_upstream", "patch_downstream"} => arg \in {0, 1}
       /\ op = "settings" => arg = memory.revision
       /\ op \notin {"settings", "aliases", "patch_upstream", "patch_downstream"} => arg = 0
       /\ op = "insert_upstream" => ~AliasConflict(TRUE, registry)
       /\ op = "rotate_downstream" => issued < MaxSecret
       /\ op = "delete_group" => groupExists
       /\ handler' = [handler EXCEPT ![h] =
            [op |-> op, at |-> "waiting", arg |-> arg, copy |-> CopyOf(op), candidate |-> Torn]]
       /\ issued' = IF op = "rotate_downstream" THEN issued + 1 ELSE issued
  /\ calls' = calls + 1
  /\ UNCHANGED <<backend, store, memory, registry, tuned, lock, late, shared,
                 groupExists, retired, granted, twice>>

(* config_persist_lock, then the state's own lock; the change is computed  *)
(* on a clone. A check that fails returns at once.                         *)
Prepare(h) ==
  /\ handler[h].at = "waiting" /\ lock = NoLock
  /\ IF CheckedUnderLock(handler[h])
     THEN /\ lock' = h
          /\ handler' = [handler EXCEPT ![h].at = "persisting",
                                        ![h].candidate = Candidate(memory, handler[h])]
     ELSE /\ handler' = Return(h)
          /\ UNCHANGED lock
  /\ UNCHANGED <<backend, store, memory, registry, tuned, late, shared,
                 groupExists, issued, retired, granted, twice, calls>>

(* PostgreSQL: one transaction over all tables; a downstream bound to a    *)
(* group that is gone breaks its foreign key.                              *)
Replaceable(c) == backend = "postgres" => (c.bound => groupExists)

Persist(h) ==
  /\ handler[h].at = "persisting" /\ Replaceable(handler[h].candidate)
  /\ store' = handler[h].candidate
  /\ shared' = (late # {})
  /\ handler' = [handler EXCEPT ![h].at = "written"]
  /\ UNCHANGED <<backend, memory, registry, tuned, lock, late, groupExists,
                 issued, retired, granted, twice, calls>>

PersistFails(h) ==
  /\ handler[h].at = "persisting"
  /\ handler' = Return(h) /\ lock' = NoLock
  /\ UNCHANGED <<backend, store, memory, registry, tuned, late, shared, groupExists,
                 issued, retired, granted, twice, calls>>

(* The candidate is published and the caller answered. A settings update   *)
(* still has to wait for the route-health lock; a group deletion still has *)
(* to delete the group.                                                    *)
Publishes(h) == handler[h].candidate
NextStage(h) ==
  CASE handler[h].op = "settings" -> "tuning"
    [] handler[h].op = "delete_group" -> "deleting"
    [] OTHER -> "idle"

(* As a bug would have it: the state is published before it is stored.     *)
ApplyFirst(h) ==
  LET me == handler[h] IN
  /\ me.at \in {"persisting", "written"}
  /\ memory' = Publishes(h)
  /\ registry' = IF me.op = "aliases" THEN me.candidate.alias ELSE registry
  /\ UNCHANGED retired
  /\ handler' = Return(h) /\ lock' = NoLock
  /\ UNCHANGED <<backend, store, tuned, late, shared, groupExists, issued, granted, twice, calls>>

Apply(h) ==
  LET me == handler[h] IN
  /\ me.at = "written"
  /\ memory' = Publishes(h)
  /\ registry' = IF me.op = "aliases" THEN me.candidate.alias ELSE registry
  /\ retired' = IF me.op = "rotate_downstream" /\ memory.secret # me.candidate.secret
                THEN retired \cup {memory.secret} ELSE retired
  /\ handler' = IF NextStage(h) = "idle" THEN Return(h)
                ELSE [handler EXCEPT ![h].at = NextStage(h)]
  /\ lock' = IF NextStage(h) = "tuning" THEN lock ELSE NoLock
  /\ UNCHANGED <<backend, store, tuned, late, shared, groupExists, issued, granted, twice, calls>>

(* The registries take the new tuning and the caller is answered; granted  *)
(* holds the revisions from which acknowledged updates started.            *)
Tune(h) ==
  LET revision == handler[h].candidate.revision IN
  /\ handler[h].at = "tuning"
  /\ tuned' = revision
  /\ granted' = granted \cup {handler[h].arg}
  /\ twice' = (twice \/ handler[h].arg \in granted)
  /\ handler' = Return(h) /\ lock' = NoLock
  /\ UNCHANGED <<backend, store, memory, registry, late, shared, groupExists,
                 issued, retired, calls>>

(* delete_model_group, without the lock: the rows that still refer to the  *)
(* group fall back to deny-all by the foreign key's default.               *)
DeleteGroup(h) ==
  /\ handler[h].at = "deleting"
  /\ groupExists' = FALSE
  /\ store' = [store EXCEPT !.bound = FALSE]
  /\ handler' = Return(h)
  /\ UNCHANGED <<backend, memory, registry, tuned, lock, late, shared,
                 issued, retired, granted, twice, calls>>

(* The client hangs up. What was stored stays stored, what was not yet     *)
(* published never is.                                                     *)
HangUp(h) ==
  LET me == handler[h] IN
  /\ me.at # "idle"
  /\ late' = IF me.at = "persisting" /\ backend \in DroppedWrites
             THEN late \cup {me.candidate} ELSE late
  /\ handler' = Return(h)
  /\ lock' = IF lock = h THEN NoLock ELSE lock
  /\ UNCHANGED <<backend, store, memory, registry, tuned, shared, groupExists,
                 issued, retired, granted, twice, calls>>

(* A write nobody waits for lands. It opened the temporary file by name,   *)
(* so once another write renamed that file it lands in the configuration.  *)
LateWrite ==
  \E c \in late :
    /\ late' = late \ {c}
    /\ store' \in IF shared THEN {c, Torn} ELSE {store}
    /\ UNCHANGED <<backend, memory, registry, tuned, lock, handler, shared, groupExists,
                   issued, retired, granted, twice, calls>>

RestartProcess ==
  /\ store # Torn
  /\ memory' = store /\ registry' = store.alias /\ tuned' = store.revision
  /\ lock' = NoLock /\ handler' = [h \in Admins |-> Resting]
  /\ late' = {} /\ shared' = FALSE
  /\ UNCHANGED <<backend, store, groupExists, issued, retired, granted, twice, calls>>

ConfigNext ==
  \/ \E h \in Admins :
       \/ Call(h) \/ Prepare(h) \/ Persist(h) \/ PersistFails(h) \/ Apply(h)
       \/ Tune(h) \/ DeleteGroup(h) \/ HangUp(h)
  \/ RestartProcess

ConfigSpec == ConfigInit /\ [][ConfigNext]_configVars

(* The same with file writes that outlive their handler.                   *)
LateSpec == ConfigInit /\ [][ConfigNext \/ LateWrite]_configVars

(***************************************************************************)
(* Properties                                                              *)
(***************************************************************************)
(* The group binding is the one field the database also changes by itself  *)
(* (the foreign key's default in DeleteGroup); the register holds the rest. *)
Kept(c) == [c EXCEPT !.bound = FALSE]
Register == INSTANCE ConfigRegister WITH
  Documents <- Document, served <- Kept(memory), stored <- Kept(store)

(* The store implements the register: what requests are served from is at  *)
(* every change what the store holds, over dropped handlers, failed        *)
(* writes, races and restarts ("persist before publish",                   *)
(* mutate_persisted_state_inner).                                          *)
PersistBeforePublish == Register!RegisterSpec

(* Two acknowledged settings updates never started from the same revision: *)
(* nobody overwrites settings he has not seen, however the comparison with *)
(* expected_revision interleaves with other updates, with an update that   *)
(* was stored and never published, and with restarts.                      *)
SettingsNotOverwritten == ~twice

(* A secret that was rotated away never authenticates again                *)
(* (admin_rotate_downstream).                                              *)
RotatedKeyStaysOut == memory.secret \notin retired

(* Rule 5: no upstream maps a name that the alias registry rewrites.       *)
NoShadowedMapping == ~AliasConflict(memory.mapped, registry)

(* The state never refers to a deleted group: the next write of the whole  *)
(* configuration would break the foreign key.                              *)
GroupsResolve == backend = "postgres" /\ memory.bound => groupExists

(* Between updates the registries run with the settings of the revision    *)
(* the administrator is shown.                                             *)
SettingsInEffect == (\A h \in Admins : handler[h].at # "tuning") => tuned = memory.revision
====
