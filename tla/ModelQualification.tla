---- MODULE ModelQualification ----
(***************************************************************************)
(* Model qualification: an administrator lets the gateway try every model  *)
(* of every key on every protocol of an upstream, and applies the outcome: *)
(* the models found unusable leave the keys' lists, and the model group of *)
(* one chosen downstream key becomes the models that are left.             *)
(*                                                                         *)
(* The probing works on a snapshot of the configuration and may take       *)
(* minutes; the outcome is applied under the configuration lock, and the   *)
(* group is rewritten in the transaction that stores the configuration.    *)
(* Meanwhile other administrators edit keys and lists, and portal logins   *)
(* and administrators bind keys and grant groups.  The advisory lock of    *)
(* the transaction excludes the bindings between its checks and its        *)
(* writes; grants take no such lock and may commit in between.             *)
(*                                                                         *)
(* One upstream is modelled, and the downstream keys "target" (the one     *)
(* being qualified) and "other".  The levels Full and Adapted are one      *)
(* level here, "usable": they differ in the report only.                   *)
(***************************************************************************)
EXTENDS FiniteSets, Naturals

CONSTANTS UpKeys,          \* API keys the upstream may have
          UpModels,        \* models a key may list
          QualProtocols,   \* protocols the upstream is configured for
          MaxRuns,         \* qualification runs
          MaxEdits         \* edits by others

ASSUME QualAssumption == /\ UpKeys # {} /\ IsFiniteSet(UpKeys) /\ IsFiniteSet(UpModels)
                         /\ QualProtocols # {} /\ IsFiniteSet(QualProtocols)
                         /\ MaxRuns \in Nat /\ MaxEdits \in Nat

VARIABLES portal,        \* whether the gateway has a portal database
          ring,          \* keys the upstream has
          listed,        \* api_key_models requests are routed by
          listedStored,  \* api_key_models in the store
          binding,       \* the group each downstream key is bound to
          userGrant,     \* whether a portal user is granted the group
          groupModels,   \* models the dedicated group allows
          qual,          \* the administrator's run
          broadened,     \* whose limits changed with the group: another "key", a "user"
          lapsed,        \* models taken from a key without having been tried
          qualSpent      \* runs and edits so far
qualVars == <<portal, ring, listed, listedStored, binding, userGrant, groupModels,
              qual, broadened, lapsed, qualSpent>>

(* "own" is a dedicated group, "all" a builtin one.                        *)
Bindings == {"own", "all", "none"}

(* A probe is not wanted, waiting, rejected once (for one of two reasons   *)
(* that differ), or settled: passed, failed for an operational reason, or  *)
(* rejected twice for the same or for different reasons.                   *)
Rejections == {"not_found", "empty"}
Settled == {"passed", "failed", "same", "mixed", "unwanted"}
Tuples == UpKeys \X UpModels \X QualProtocols

NoRun == [at |-> "idle", before |-> [k \in UpKeys |-> {}], keys |-> {},
          probes |-> [t \in Tuples |-> "unwanted"], retained |-> [k \in UpKeys |-> {}],
          excluded |-> {}]

QualInit ==
    /\ portal \in BOOLEAN
    /\ ring \in SUBSET UpKeys \ {{}}
    /\ listed = [k \in UpKeys |-> IF k \in ring THEN UpModels ELSE {}]
    /\ listedStored = listed
    /\ binding \in [{"target", "other"} -> Bindings]
    /\ userGrant \in {g \in BOOLEAN : g => portal}
    /\ groupModels = {}
    /\ qual = NoRun
    /\ broadened = {} /\ lapsed = {}
    /\ qualSpent = [runs |-> 0, edits |-> 0]

(* The keys, what each lists, and the models each is tried for: those it   *)
(* lists and those the provider lists for it, if its listing succeeds.     *)
StartRun ==
    /\ qual.at = "idle" /\ qualSpent.runs < MaxRuns
    /\ \E found \in [ring -> SUBSET UpModels] :
          qual' = [NoRun EXCEPT !.at = "probing", !.keys = ring, !.before = listed,
                   !.probes = [t \in Tuples |->
                       IF t[1] \in ring /\ t[2] \in listed[t[1]] \cup found[t[1]]
                       THEN "waiting" ELSE "unwanted"]]
    /\ qualSpent' = [qualSpent EXCEPT !.runs = @ + 1]
    /\ UNCHANGED <<portal, ring, listed, listedStored, binding, userGrant, groupModels,
                   broadened, lapsed>>

(* qualify_model_on_upstream, first try: an authentication, rate-limit,    *)
(* server, timeout or network failure is operational and final; the others *)
(* want a confirmation.                                                    *)
Trials == {"passed", "failed"} \cup Rejections

(* The categories of the two tries.                                        *)
Both(first, second) ==
    CASE second \in {"passed", "failed"} -> second
      [] second = first                  -> "same"
      [] OTHER                           -> "mixed"

LevelByAny(seen) ==
    CASE seen = "passed"            -> "usable"
      [] seen \in {"same", "mixed"} -> "unusable"
      [] OTHER                      -> "operational"

(* confirmed_level: a model is unusable when both tries were rejected for  *)
(* the same reason; two reasons, or an operational second try, condemn     *)
(* nothing.                                                                *)
LevelOf(seen) ==
    CASE seen = "passed" -> "usable"
      [] seen = "same"   -> "unusable"
      [] OTHER           -> "operational"

(* One of up to four probes in flight answers; the order is the network's. *)
Probed(t) ==
    /\ qual.at = "probing"
    /\ \/ /\ qual.probes[t] = "waiting"
          /\ \E first \in Trials : qual' = [qual EXCEPT !.probes[t] = first]
       \/ /\ qual.probes[t] \in Rejections
          /\ \E second \in Trials :
                qual' = [qual EXCEPT !.probes[t] = Both(qual.probes[t], second)]
    /\ UNCHANGED <<portal, ring, listed, listedStored, binding, userGrant, groupModels,
                   broadened, lapsed, qualSpent>>

(* The strongest level over the protocols: usable, then operational.       *)
KeyLevel(k, mdl) ==
    LET over == {LevelOf(qual.probes[<<k, mdl, p>>]) : p \in QualProtocols}
    IN CASE "usable" \in over      -> "usable"
         [] "operational" \in over -> "operational"
         [] OTHER                  -> "unusable"

Tried(k) == {mdl \in UpModels : \E p \in QualProtocols : qual.probes[<<k, mdl, p>>] # "unwanted"}

(* build_key_qualification_decision: what the key listed, with the usable  *)
(* models added and the unusable ones removed.                             *)
RetainedBy(k) ==
    (qual.before[k] \cup {mdl \in Tried(k) : KeyLevel(k, mdl) = "usable"})
        \ {mdl \in Tried(k) : KeyLevel(k, mdl) = "unusable"}

(* All probes have answered; the administrator's exclusions are taken out, *)
(* and a run that is not to be applied ends here.                          *)
Decide ==
    /\ qual.at = "probing"
    /\ \A t \in Tuples : qual.probes[t] \in Settled
    /\ \/ qual' = NoRun
       \/ \E excluded \in SUBSET UpModels :
             qual' = [qual EXCEPT !.at = "decided", !.excluded = excluded,
                      !.retained = [k \in UpKeys |->
                          IF k \in qual.keys THEN RetainedBy(k) \ excluded ELSE {}]]
    /\ UNCHANGED <<portal, ring, listed, listedStored, binding, userGrant, groupModels,
                   broadened, lapsed, qualSpent>>

Exposed == UNION {qual.retained[k] : k \in UpKeys}

(* How many downstream keys are bound to the dedicated group.              *)
BoundToOwn == Cardinality({d \in DOMAIN binding : binding[d] = "own"})

(* apply_model_qualification refuses when a key it judged is gone, when no *)
(* model would be left, and when the downstream key is not bound to a      *)
(* dedicated group; without a portal also when the group is shared.        *)
ApplyRefused ==
    \/ ~ qual.keys \subseteq ring
    \/ Exposed = {}
    \/ binding["target"] # "own"
    \/ ~ portal /\ BoundToOwn > 1

(* The configuration lock is taken and the checks are made.                *)
BeginApply ==
    /\ qual.at = "decided"
    /\ qual' = IF ApplyRefused THEN NoRun ELSE [qual EXCEPT !.at = "storing"]
    /\ UNCHANGED <<portal, ring, listed, listedStored, binding, userGrant, groupModels,
                   broadened, lapsed, qualSpent>>

(* The transaction checks again under its own lock: the key is still bound *)
(* to the group, no other key is, and no user is granted it.               *)
TransactionRefused ==
    portal /\ (binding["target"] # "own" \/ BoundToOwn > 1 \/ userGrant)

(* The transaction takes the advisory lock and makes its checks, or fails; *)
(* without a portal there is nothing to check.                             *)
CheckRun ==
    /\ qual.at = "storing"
    /\ \/ qual' = NoRun
       \/ ~ TransactionRefused /\ qual' = [qual EXCEPT !.at = "checked"]
    /\ UNCHANGED <<portal, ring, listed, listedStored, binding, userGrant, groupModels,
                   broadened, lapsed, qualSpent>>

(* Who else is limited by the group when it is rewritten.                  *)
OthersLimited == (IF BoundToOwn > 1 THEN {"key"} ELSE {}) \cup (IF userGrant THEN {"user"} ELSE {})

(* The store gets the lists and the group; without a portal there are no   *)
(* groups to rewrite.  The store may fail.  The lists replace whatever is  *)
(* there: a key added since the snapshot is given an empty list.           *)
CommitRun ==
    /\ qual.at = "checked"
    /\ \/ /\ qual' = NoRun
          /\ UNCHANGED <<listedStored, groupModels, broadened, lapsed>>
       \/ /\ listedStored' = [k \in UpKeys |-> IF k \in ring THEN qual.retained[k] ELSE {}]
          /\ groupModels' = IF portal THEN Exposed ELSE groupModels
          /\ broadened' = IF portal THEN broadened \cup OthersLimited ELSE broadened
          /\ lapsed' = lapsed \cup
                {t \in ring \X UpModels : t[2] \in listed[t[1]] \ listedStored'[t[1]]
                                          /\ t[2] \notin qual.before[t[1]]}
          /\ qual' = [qual EXCEPT !.at = "stored"]
    /\ UNCHANGED <<portal, ring, listed, binding, userGrant, qualSpent>>

(* Memory follows the store; route health is reconciled with the new lists *)
(* outside the lock.                                                       *)
PublishRun ==
    /\ qual.at = "stored"
    /\ listed' = listedStored /\ qual' = NoRun
    /\ UNCHANGED <<portal, ring, listedStored, binding, userGrant, groupModels,
                   broadened, lapsed, qualSpent>>

(* The administrator closes the page: the handler stops where it waits.    *)
AbandonRun ==
    /\ qual.at # "idle" /\ qual' = NoRun
    /\ UNCHANGED <<portal, ring, listed, listedStored, binding, userGrant, groupModels,
                   broadened, lapsed, qualSpent>>

ConfigLocked == qual.at \in {"storing", "checked", "stored"}

(* Another administrator, or the model-key synchronisation, edits a key:   *)
(* it is added with a list, relisted or removed.                           *)
EditKey(k) ==
    /\ ~ ConfigLocked /\ qualSpent.edits < MaxEdits
    /\ \/ \E models \in SUBSET UpModels :
             ring' = ring \cup {k} /\ listed' = [listed EXCEPT ![k] = models]
       \/ ring' = ring \ {k} /\ listed' = [listed EXCEPT ![k] = {}]
    /\ ring' # {}
    /\ listedStored' = listed'
    /\ qualSpent' = [qualSpent EXCEPT !.edits = @ + 1]
    /\ UNCHANGED <<portal, binding, userGrant, groupModels, qual, broadened, lapsed>>

(* A key is bound to another group, or a portal user is granted the group. *)
(* With a portal database neither waits for the configuration lock: the    *)
(* binding waits for the transaction that checks bindings, the grant for   *)
(* nothing.                                                                *)
EditBinding ==
    /\ qualSpent.edits < MaxEdits
    /\ \/ /\ IF portal THEN qual.at # "checked" ELSE ~ ConfigLocked
          /\ \E d \in DOMAIN binding, b \in Bindings : binding' = [binding EXCEPT ![d] = b]
          /\ UNCHANGED userGrant
       \/ portal /\ userGrant' = ~ userGrant /\ UNCHANGED binding
    /\ qualSpent' = [qualSpent EXCEPT !.edits = @ + 1]
    /\ UNCHANGED <<portal, ring, listed, listedStored, groupModels, qual, broadened, lapsed>>

QualNext ==
    \/ StartRun \/ Decide \/ BeginApply \/ CheckRun \/ CommitRun \/ PublishRun \/ AbandonRun
    \/ \E t \in Tuples : Probed(t)
    \/ \E k \in UpKeys : EditKey(k)
    \/ EditBinding

QualSpec == QualInit /\ [][QualNext]_qualVars

(***************************************************************************)
(* Properties.                                                             *)
(***************************************************************************)
(* An outage condemns no model: a run gives up a model a key listed only   *)
(* when the administrator excluded it or when it was rejected, twice and   *)
(* for the same reason, on every protocol of that key.                     *)
GivenUpOnEvidence ==
    qual.at \in {"decided", "storing", "checked", "stored"} =>
        \A k \in qual.keys : \A mdl \in qual.before[k] \ qual.retained[k] :
            \/ mdl \in qual.excluded
            \/ \A p \in QualProtocols : qual.probes[<<k, mdl, p>>] = "same"

(* Qualifying one downstream key changes no other key's limits: the group  *)
(* is never rewritten while another key is bound to it, however bindings   *)
(* change while the run probes, decides, checks and stores.                *)
OtherKeysKeepLimits == "key" \notin broadened

(* What a run gives up of the lists it started from, it gives up on        *)
(* evidence alone, and the group it rewrites limits no other key, whatever *)
(* bindings and lists are edited while it probes and stores                *)
(* (qualify_active_upstreams, replace_state_with_qualified_models).        *)
QualificationSafe == GivenUpOnEvidence /\ OtherKeysKeepLimits

(* "qualifying it would change other users' limits": nor is the group      *)
(* rewritten while a portal user is granted it.  The code does not         *)
(* guarantee it: a grant that commits between the count of the grants and  *)
(* the update of the group goes unnoticed.                                 *)
OthersNotBroadened == broadened = {}

(* A model added to a key, or a key added, while a run was probing is not  *)
(* taken away by it: it was never tried.                                   *)
UntriedStays == lapsed = {}
====
