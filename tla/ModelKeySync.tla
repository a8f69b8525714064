---- MODULE ModelKeySync ----
(***************************************************************************)
(* Discovery of the models each upstream key serves:                       *)
(* state/model_key_sync.rs. One background task takes targeted jobs (the   *)
(* gateway saw a model missing on a key) and runs periodic cycles; both    *)
(* take time to ask the provider, while administrators edit the upstream.  *)
(* A model leaves a key's list only after it was missed twice, an interval *)
(* apart. A targeted job holds its key in "targeted_pending" until it is   *)
(* done; when Redis cannot be reached at its end, a task of its own keeps  *)
(* retrying.                                                               *)
(*                                                                         *)
(* One upstream. Models are the ones the property follows: a successful    *)
(* discovery may list none of them (it lists others).                      *)
(***************************************************************************)
EXTENDS Naturals, Sequences, FiniteSets
CONSTANTS SyncKeys, SyncModels, Interval, LastTime, MaxJobs

ASSUME SyncAssumption == Interval \in Nat \ {0} /\ LastTime \in Nat /\ MaxJobs \in Nat

(* absentSince is a ghost: since when every answer about a model of a key  *)
(* has been without it. unrecorded is one too: the pairs whose last        *)
(* listing left an older miss standing, because Redis did not answer.      *)
VARIABLES syncClock, entry, misses, pending, jobs, worker, retries, owed, absentSince, unrecorded,
          jobsTaken

syncVars == <<syncClock, entry, misses, pending, jobs, worker, retries, owed, absentSince, unrecorded,
              jobsTaken>>

Never == LastTime + 1
NoMiss == [count |-> 0, at |-> 0, under |-> [lists |-> [k \in SyncKeys |-> {}], mapped |-> FALSE,
                                            active |-> FALSE, edit |-> 0]]
AtRest == [at |-> "rest", key |-> "none", model |-> "none", snapshot |-> NoMiss.under,
           found |-> [k \in SyncKeys |-> {}], failed |-> {}, learnt |-> [x \in SyncKeys \X SyncModels |-> NoMiss]]

SyncInit ==
  /\ syncClock = 0
  /\ entry \in [lists : {[k \in SyncKeys |-> SyncModels]}, mapped : {TRUE}, active : {TRUE}, edit : {0}]
              \cup [lists : {[k \in SyncKeys |-> {}]}, mapped : {FALSE}, active : {TRUE}, edit : {0}]
  /\ misses = [x \in SyncKeys \X SyncModels |-> NoMiss]
  /\ pending = {} /\ jobs = <<>>
  /\ worker = AtRest
  /\ retries = {} /\ owed = FALSE
  /\ absentSince = [x \in SyncKeys \X SyncModels |-> Never] /\ unrecorded = {}
  /\ jobsTaken = 0

(* ModelKeySyncSnapshot::matches: everything but counters and timestamps.  *)
Matches(snapshot) == entry = snapshot

(* One successful answer without the model: a first miss is remembered,    *)
(* a second one counts when the interval has passed.                       *)
Missed(old, snapshot) ==
  IF old.count > 0 /\ old.under = snapshot
  THEN IF syncClock - old.at >= Interval
       THEN [old EXCEPT !.count = 2, !.at = syncClock]
       ELSE old
  ELSE [count |-> 1, at |-> syncClock, under |-> snapshot]

Confirmed(miss) == miss.count >= 2

MissedSince(x) == IF absentSince[x] = Never THEN syncClock ELSE absentSince[x]

(* reconcile_model_key_sync_runtime: only keys of active upstreams remain. *)
Reconciled(held) == IF entry.active THEN held ELSE {}
ReconciledMisses(held) == IF entry.active THEN held ELSE [x \in SyncKeys \X SyncModels |-> NoMiss]

(***************************************************************************)
(* The gateway and the administrator.                                      *)
(***************************************************************************)
SubmitTargeted(k, m) ==
  /\ jobsTaken < MaxJobs /\ k \notin pending
  /\ pending' = pending \cup {k}
  /\ jobs' = Append(jobs, <<k, m>>)
  /\ jobsTaken' = jobsTaken + 1
  /\ UNCHANGED <<syncClock, entry, misses, worker, retries, owed, absentSince, unrecorded>>

(* An edit that does not concern the models, or the active flag; the       *)
(* handler reconciles the runtime afterwards.                              *)
EditUpstream ==
  /\ ~owed
  /\ entry' \in {[entry EXCEPT !.edit = 1 - entry.edit], [entry EXCEPT !.active = ~entry.active]}
  /\ owed' = TRUE
  /\ UNCHANGED <<syncClock, misses, pending, jobs, worker, retries, absentSince, unrecorded, jobsTaken>>

ReconcileAfterEdit ==
  /\ owed /\ owed' = FALSE
  /\ pending' = Reconciled(pending)
  /\ misses' = ReconciledMisses(misses)
  /\ UNCHANGED <<syncClock, entry, jobs, worker, retries, absentSince, unrecorded, jobsTaken>>

(***************************************************************************)
(* A targeted job.                                                         *)
(***************************************************************************)
TakeTargeted ==
  /\ worker.at = "rest" /\ jobs # <<>>
  /\ jobs' = Tail(jobs)
  /\ IF entry.active
     THEN /\ worker' = [AtRest EXCEPT !.at = "asking", !.key = Head(jobs)[1], !.model = Head(jobs)[2],
                                      !.snapshot = entry]
          /\ UNCHANGED pending
     ELSE /\ pending' = pending \ {Head(jobs)[1]}
          /\ UNCHANGED worker
  /\ UNCHANGED <<syncClock, entry, misses, retries, owed, absentSince, unrecorded, jobsTaken>>

Target == <<worker.key, worker.model>>

(* The provider failed, or the upstream changed while it was asked.        *)
TargetedDropped ==
  /\ worker.at = "asking"
  /\ worker' = AtRest /\ pending' = pending \ {worker.key}
  /\ UNCHANGED <<syncClock, entry, misses, jobs, retries, owed, absentSince, unrecorded, jobsTaken>>

(* The model is listed: its route becomes healthy again and the miss is    *)
(* forgotten, now or by the retry once Redis answers. Until then a miss    *)
(* from before the listing still counts.                                   *)
TargetedListed ==
  /\ worker.at = "asking" /\ Matches(worker.snapshot)
  /\ absentSince' = [absentSince EXCEPT ![Target] = Never]
  /\ \/ /\ misses' = [misses EXCEPT ![Target] = NoMiss]
        /\ pending' = pending \ {worker.key}
        /\ unrecorded' = unrecorded \ {Target}
        /\ UNCHANGED retries
     \/ /\ retries' = retries \cup {Target}
        /\ unrecorded' = unrecorded \cup {Target}
        /\ UNCHANGED <<misses, pending>>
  /\ worker' = AtRest
  /\ UNCHANGED <<syncClock, entry, jobs, owed, jobsTaken>>

TargetedMissing ==
  LET miss == Missed(misses[Target], worker.snapshot) IN
  /\ worker.at = "asking" /\ Matches(worker.snapshot)
  /\ misses' = [misses EXCEPT ![Target] = miss]
  /\ absentSince' = [absentSince EXCEPT ![Target] = MissedSince(Target)]
  /\ IF Confirmed(miss) /\ entry.mapped
     THEN /\ worker' = [worker EXCEPT !.at = "removing"]
          /\ UNCHANGED pending
     ELSE /\ worker' = AtRest
          /\ pending' = pending \ {worker.key}
  /\ UNCHANGED <<syncClock, entry, jobs, retries, owed, unrecorded, jobsTaken>>

(* The model is taken off the key's list unless the upstream changed or    *)
(* the store failed; then the runtime is reconciled, now or by a retry.    *)
RemoveTargeted ==
  /\ worker.at = "removing"
  /\ \/ /\ Matches(worker.snapshot) /\ worker.model \in entry.lists[worker.key]
        /\ entry' = [entry EXCEPT !.lists[worker.key] = @ \ {worker.model}]
        /\ \/ /\ misses' = [misses EXCEPT ![Target] = NoMiss]
              /\ pending' = pending \ {worker.key}
              /\ UNCHANGED retries
           \/ /\ retries' = retries \cup {Target}
              /\ UNCHANGED <<misses, pending>>
     \/ /\ pending' = pending \ {worker.key}
        /\ UNCHANGED <<entry, misses, retries>>
  /\ worker' = AtRest
  /\ UNCHANGED <<syncClock, jobs, owed, absentSince, unrecorded, jobsTaken>>

(* retry_targeted_route_health_clear / _reconcile: stops when its key is   *)
(* no longer pending, completes when Redis answers.                        *)
RetryStops(x) ==
  /\ x \in retries /\ x[1] \notin pending
  /\ retries' = retries \ {x}
  /\ UNCHANGED <<syncClock, entry, misses, pending, jobs, worker, owed, absentSince, unrecorded, jobsTaken>>

(* The listing that the retry stands for ended the absence when it came    *)
(* (TargetedListed); now its miss goes, unless the task already decided on *)
(* it or holds the copy of the misses it is about to install.              *)
RetrySucceeds(x) ==
  /\ x \in retries /\ x[1] \in pending
  /\ retries' = retries \ {x}
  /\ pending' = pending \ {x[1]}
  /\ misses' = [misses EXCEPT ![x] = NoMiss]
  /\ unrecorded' = IF worker.at \in {"removing", "installing"} THEN unrecorded ELSE unrecorded \ {x}
  /\ UNCHANGED <<syncClock, entry, jobs, worker, owed, absentSince, jobsTaken>>

(***************************************************************************)
(* A periodic cycle: all keys are asked, the answers are applied under the *)
(* configuration lock to a copy of the misses, and the copy is installed.  *)
(***************************************************************************)
StartCycle ==
  /\ worker.at = "rest" /\ entry.active
  /\ worker' = [AtRest EXCEPT !.at = "scanning", !.snapshot = entry]
  /\ UNCHANGED <<syncClock, entry, misses, pending, jobs, retries, owed, absentSince, unrecorded, jobsTaken>>

AskKeys ==
  /\ worker.at = "scanning"
  /\ \E failed \in SUBSET SyncKeys, found \in [SyncKeys -> SUBSET SyncModels] :
       /\ \A k \in failed : found[k] = {}
       /\ worker' = IF failed = SyncKeys THEN AtRest
                    ELSE [worker EXCEPT !.at = "applying", !.failed = failed, !.found = found]
  /\ UNCHANGED <<syncClock, entry, misses, pending, jobs, retries, owed, absentSince, unrecorded, jobsTaken>>

(* apply_discovery for one key and model: what is known of its absence.    *)
Learnt(k, m) ==
  CASE k \in worker.failed -> misses[<<k, m>>]
    [] m \in worker.found[k] -> NoMiss
    [] k \notin worker.failed /\ m \notin worker.found[k] ->
         IF m \in entry.lists[k] THEN Missed(misses[<<k, m>>], worker.snapshot) ELSE misses[<<k, m>>]

ListAfter(k) ==
  IF k \in worker.failed THEN entry.lists[k]
  ELSE worker.found[k] \cup {m \in entry.lists[k] : ~Confirmed(Learnt(k, m))}

(* Misses under the old configuration now belong to the new one.           *)
Carried(miss, after) == IF miss.under = worker.snapshot THEN [miss EXCEPT !.under = after] ELSE miss

ApplyDiscovery ==
  LET after == [entry EXCEPT !.lists = [k \in SyncKeys |-> ListAfter(k)], !.mapped = TRUE]
      learnt == [x \in SyncKeys \X SyncModels |->
                   IF Confirmed(Learnt(x[1], x[2])) THEN NoMiss ELSE Carried(Learnt(x[1], x[2]), after)]
  IN
  /\ worker.at = "applying"
  /\ IF entry.active /\ Matches(worker.snapshot) /\ (entry.mapped \/ worker.failed = {})
     THEN /\ entry' = after
          /\ worker' = [AtRest EXCEPT !.at = "installing", !.learnt = learnt]
          /\ absentSince' = [x \in SyncKeys \X SyncModels |->
               CASE x[1] \in worker.failed -> absentSince[x]
                 [] x[2] \in worker.found[x[1]] -> Never
                 [] x[1] \notin worker.failed /\ x[2] \notin worker.found[x[1]] -> MissedSince(x)]
          /\ unrecorded' = {x \in unrecorded : x[2] \notin worker.found[x[1]]}
     ELSE /\ worker' = [AtRest EXCEPT !.at = "installing", !.learnt = misses]
          /\ UNCHANGED <<entry, absentSince, unrecorded>>
  /\ UNCHANGED <<syncClock, misses, pending, jobs, retries, owed, jobsTaken>>

(* The copy is installed and, if Redis answers, the runtime reconciled.    *)
InstallMisses ==
  /\ worker.at = "installing"
  /\ \/ /\ misses' = ReconciledMisses(worker.learnt)
        /\ pending' = Reconciled(pending)
     \/ /\ misses' = worker.learnt
        /\ UNCHANGED pending
  /\ worker' = AtRest
  /\ UNCHANGED <<syncClock, entry, jobs, retries, owed, absentSince, unrecorded, jobsTaken>>

SyncTick ==
  /\ syncClock < LastTime /\ syncClock' = syncClock + 1
  /\ UNCHANGED <<entry, misses, pending, jobs, worker, retries, owed, absentSince, unrecorded, jobsTaken>>

SyncWork == TakeTargeted \/ TargetedListed \/ TargetedMissing \/ TargetedDropped \/ RemoveTargeted
            \/ AskKeys \/ ApplyDiscovery \/ InstallMisses

SyncNext ==
  \/ \E k \in SyncKeys, m \in SyncModels : SubmitTargeted(k, m)
  \/ EditUpstream \/ ReconcileAfterEdit
  \/ TakeTargeted \/ TargetedDropped \/ TargetedListed \/ TargetedMissing \/ RemoveTargeted
  \/ \E x \in SyncKeys \X SyncModels : RetryStops(x) \/ RetrySucceeds(x)
  \/ StartCycle \/ AskKeys \/ ApplyDiscovery \/ InstallMisses
  \/ SyncTick

(* The task works on and takes queued jobs in turn with its cycles (the    *)
(* select waits on both); Redis answers some retry in the end.             *)
SyncFairness ==
  /\ WF_syncVars(SyncWork)
  /\ SF_syncVars(TakeTargeted)
  /\ \A x \in SyncKeys \X SyncModels : WF_syncVars(RetryStops(x) \/ RetrySucceeds(x))

SyncSpec == SyncInit /\ [][SyncNext]_syncVars /\ SyncFairness

(***************************************************************************)
(* Properties                                                              *)
(***************************************************************************)
(* Discovery takes a model off a key only when it has been missing for a   *)
(* whole interval: every answer since a miss that is that old was without  *)
(* it, across targeted jobs, cycles, edits and keys that did not answer.   *)
(* The one exception is a listing whose record Redis held up and no later  *)
(* answer made good: the miss from before it still counts.                 *)
ModelRemovedAfterInterval ==
  [][\A k \in SyncKeys, m \in SyncModels :
       m \in entry.lists[k] \ entry'.lists[k] =>
         \/ absentSince'[<<k, m>>] # Never /\ syncClock - absentSince'[<<k, m>>] >= Interval
         \/ <<k, m>> \in unrecorded]_syncVars

(* Does not hold: without the exception, a listing always ends an absence. *)
(* When Redis fails at the end of the job that saw the model, its miss     *)
(* stands until a retry succeeds; and a retry that succeeds while a cycle  *)
(* holds its copy of the misses is undone when the copy is installed. A    *)
(* later miss then takes the model away at once.                           *)
RediscoveryClears ==
  [][\A k \in SyncKeys, m \in SyncModels :
       m \in entry.lists[k] \ entry'.lists[k] =>
         absentSince'[<<k, m>>] # Never /\ syncClock - absentSince'[<<k, m>>] >= Interval]_syncVars

(* A key is not pending forever: it can be discovered again, whatever      *)
(* failed at the end of its job.                                           *)
TargetedKeysComeBack == \A k \in SyncKeys : (k \in pending) ~> (k \notin pending)
====
