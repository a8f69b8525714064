------------------------- MODULE CapabilityProbes -------------------------
(***************************************************************************)
(* The capability probes of a gateway: who asks for a probe of a route     *)
(* (requests, configuration changes, administrators, the worker's own      *)
(* tick), the submission table that keeps a route from being asked for     *)
(* twice, the bounded channel and the worker's queue behind it, the run of *)
(* one probe and the dialect profile it stores, and the record of a manual *)
(* batch.  A job is bound to the configuration it was built for: the       *)
(* revision of the capability policy and the fingerprint of the route.     *)
(***************************************************************************)
EXTENDS Naturals, Sequences, FiniteSets

CONSTANTS Routes,        \* the dialect profile keys
          ChannelSize,   \* batches the channel holds
          QueueSize,       \* jobs the queue holds, running ones included
          MaxRunning,    \* the global concurrency limit
          MaxAsks,       \* bound on requests for probes
          MaxEdits,      \* bound on edits of upstreams and on lessons of requests
          MaxPolicies,   \* bound on replacements of the policy
          NoJob

ASSUME ProbesAssumption ==
    /\ IsFiniteSet(Routes) /\ NoJob \notin [route : Routes, fp : {"old", "new"}, rules : Nat]
    /\ ChannelSize \in Nat \ {0} /\ QueueSize \in Nat \ {0} /\ MaxRunning \in Nat \ {0}
    /\ MaxAsks \in Nat /\ MaxEdits \in Nat /\ MaxPolicies \in Nat

VARIABLES route,       \* each route's configuration fingerprint
          rules,       \* revision of the capability policy
          probesOn,    \* the policy has probes enabled
          submitted,   \* capability_probe_submissions: route -> binding
          ingress,     \* the channel: a sequence of batches
          deferred,    \* the batch remainder waiting for room in the queue
          queued,      \* ProbeQueueState.pending
          known,       \* ProbeQueueState.known
          running,     \* ProbeQueueState.active_jobs
          basis,       \* the profile a finished run has read and will rewrite
          profiles,    \* the stored dialect profiles
          atTop,       \* the worker is at the top of its loop, not in its select
          batch,       \* the manual batch: phase, and its candidates' states
          spent        \* asks, edits and policies so far

probeVars == <<route, rules, probesOn, submitted, ingress, deferred, queued, known,
               running, basis, profiles, atTop, batch, spent>>
queueVars == <<submitted, ingress, deferred, queued, known, running, basis, atTop>>

NoProfile == [fp |-> "none", seen |-> {}, learnt |-> FALSE]
PlanRuns == [fp |-> "running", seen |-> {}, learnt |-> FALSE]
NoBatch == [phase |-> "none", candidates |-> [r \in Routes |-> NoJob], state |-> [r \in Routes |-> "none"]]
JobOf(r) == [route |-> r, fp |-> route[r], rules |-> rules]
OtherConfiguration(f) == IF f = "old" THEN "new" ELSE "old"

ProbesInit ==
    /\ route = [r \in Routes |-> "old"] /\ rules = 0 /\ probesOn = TRUE
    /\ submitted = [r \in Routes |-> NoJob] /\ ingress = <<>> /\ deferred = <<>>
    /\ queued = <<>> /\ known = {} /\ running = [r \in Routes |-> NoJob]
    /\ basis = [r \in Routes |-> NoProfile]
    /\ profiles \in [Routes -> {NoProfile, [fp |-> "old", seen |-> {"old"}, learnt |-> FALSE]}]
    /\ atTop = TRUE /\ batch = NoBatch /\ spent = [asks |-> 0, edits |-> 0]

BusyRoutes == {r \in Routes : running[r] # NoJob}
QueuedAt(q, r) == {i \in 1..Len(q) : q[i].route = r}
QueueRoom(q) == Cardinality(BusyRoutes) + Len(q) < QueueSize

\* profile_is_current: a profile of the route's present configuration.
CurrentProfile(r) == profiles[r].fp = route[r]

(************************** asking for a probe *****************************)

Spend(what) == spent' = [spent EXCEPT ![what] = @ + 1]

\* queue_capability_probe: refused while the same binding is pending; a full
\* channel puts the previous entry back.
AskOne(r) ==
    /\ spent.asks < MaxAsks /\ probesOn /\ submitted[r] # JobOf(r)
    /\ Len(ingress) < ChannelSize
    /\ submitted' = [submitted EXCEPT ![r] = JobOf(r)]
    /\ ingress' = Append(ingress, <<JobOf(r)>>)
    /\ Spend("asks")
    /\ UNCHANGED <<route, rules, probesOn, deferred, queued, known, running, basis, profiles, atTop, batch>>

\* submit_capability_probe_jobs, after a change of an upstream: the jobs of the
\* stale routes, without an entry in the submission table.
AskStale ==
    LET stale == {r \in Routes : ~CurrentProfile(r)} IN
    /\ spent.asks < MaxAsks /\ stale # {} /\ Len(ingress) < ChannelSize
    /\ \E order \in [1..Cardinality(stale) -> stale] :
           /\ \A i, j \in DOMAIN order : i # j => order[i] # order[j]
           /\ ingress' = Append(ingress, [i \in DOMAIN order |-> JobOf(order[i])])
    /\ Spend("asks")
    /\ UNCHANGED <<route, rules, probesOn, submitted, deferred, queued, known, running, basis,
                   profiles, atTop, batch>>

\* A manual batch: under the submission lock each route becomes queued or
\* reused, then the jobs are sent; a full channel takes the entries out again.
AskAll ==
    LET asked == {r \in Routes : submitted[r] # JobOf(r)} IN
    /\ spent.asks < MaxAsks /\ probesOn /\ batch = NoBatch
    /\ \E order \in [1..Cardinality(asked) -> asked] :
           /\ \A i, j \in DOMAIN order : i # j => order[i] # order[j]
           /\ IF asked = {} THEN UNCHANGED <<ingress, submitted>>
              ELSE IF Len(ingress) < ChannelSize
              THEN /\ ingress' = Append(ingress, [i \in DOMAIN order |-> JobOf(order[i])])
                   /\ submitted' = [r \in Routes |-> JobOf(r)]
              ELSE /\ submitted' = [r \in Routes |-> IF r \in asked THEN NoJob ELSE submitted[r]]
                   /\ UNCHANGED ingress
    /\ batch' = IF asked # {} /\ Len(ingress) >= ChannelSize THEN batch
                ELSE [phase |-> "sent", candidates |-> [r \in Routes |-> JobOf(r)],
                      state |-> [r \in Routes |-> IF r \in asked THEN "queued" ELSE "reused"]]
    /\ Spend("asks")
    /\ UNCHANGED <<route, rules, probesOn, deferred, queued, known, running, basis, profiles, atTop>>

\* The batch enters the table only after its jobs were sent.
RecordBatch ==
    /\ batch.phase = "sent"
    /\ batch' = [batch EXCEPT !.phase = "open"]
    /\ UNCHANGED <<route, rules, probesOn, queueVars, profiles, spent>>

(******************************* the worker ********************************)

\* The batch with the candidates that job settles, in the table or not.
BatchAfter(b, job) ==
    IF b.phase # "open" THEN b
    ELSE [b EXCEPT !.state = [r \in Routes |-> IF b.candidates[r] = job THEN "settled" ELSE @[r]]]

\* finish_capability_probe_job, of a finished or a discarded job: its entry in
\* the submission table goes only when it is still that job's.
ReleaseEntry(table, job) == [table EXCEPT ![job.route] = IF @ = job THEN NoJob ELSE @]

\* The ways enqueue_with_outcome may answer: wider says that the job names a
\* model that the running job of the same configuration does not.
Enqueue(q, job, wider) ==
    LET at == QueuedAt(q, job.route) IN
    IF at # {} THEN LET i == CHOOSE i \in at : TRUE IN
                    IF q[i] = job THEN [queue |-> q, out |-> "unchanged", old |-> job]
                    ELSE [queue |-> [q EXCEPT ![i] = job], out |-> "replaced", old |-> q[i]]
    ELSE IF running[job.route] = job /\ ~wider THEN [queue |-> q, out |-> "unchanged", old |-> job]
    ELSE IF job.route \in known /\ running[job.route] = NoJob
         THEN [queue |-> q, out |-> "unchanged", old |-> job]
    ELSE IF QueueRoom(q) THEN [queue |-> Append(q, job), out |-> "enqueued", old |-> job]
    ELSE [queue |-> q, out |-> "full", old |-> job]

\* One job of a batch: the rest of the batch waits when the queue is full.
TakeJob(jobs, wider) ==
    LET job == Head(jobs)  e == Enqueue(queued, job, wider) IN
    /\ queued' = e.queue
    /\ known' = IF e.out = "enqueued" THEN known \cup {job.route} ELSE known
    /\ submitted' = IF e.out = "replaced" THEN ReleaseEntry(submitted, e.old) ELSE submitted
    /\ batch' = IF e.out = "replaced" THEN BatchAfter(batch, e.old) ELSE batch
    /\ deferred' = IF e.out = "full" THEN jobs ELSE Tail(jobs)
    /\ UNCHANGED <<route, rules, probesOn, running, basis, profiles, spent>>

ReceiveBatch ==
    /\ ~atTop /\ ingress # <<>> /\ deferred = <<>> /\ probesOn
    /\ atTop' = TRUE
    /\ ingress' = Tail(ingress)
    /\ \E wider \in BOOLEAN : TakeJob(Head(ingress), wider)

ContinueBatch ==
    /\ atTop /\ deferred # <<>> /\ probesOn /\ UNCHANGED <<ingress, atTop>>
    /\ \E wider \in BOOLEAN :
           /\ Enqueue(queued, Head(deferred), wider).out # "full"
           /\ TakeJob(deferred, wider)

\* With probes switched off every waiting job is discarded.
DropAll(jobs) ==
    [table |-> [r \in Routes |-> IF \E i \in 1..Len(jobs) : jobs[i] = submitted[r] THEN NoJob ELSE submitted[r]],
     batch |-> IF batch.phase # "open" THEN batch
               ELSE [batch EXCEPT !.state = [r \in Routes |->
                        IF \E i \in 1..Len(jobs) : jobs[i] = batch.candidates[r] THEN "settled" ELSE @[r]]]]

DiscardWaiting ==
    /\ atTop /\ ~probesOn /\ (queued # <<>> \/ deferred # <<>>)
    /\ LET d == DropAll(queued \o deferred) IN submitted' = d.table /\ batch' = d.batch
    /\ queued' = <<>> /\ deferred' = <<>> /\ known' = BusyRoutes
    /\ UNCHANGED <<route, rules, probesOn, ingress, running, basis, profiles, atTop, spent>>

DiscardReceivedLater ==
    /\ ~atTop /\ ~probesOn /\ ingress # <<>> /\ deferred = <<>>
    /\ atTop' = TRUE
    /\ UNCHANGED <<route, rules, probesOn, submitted, ingress, deferred, queued, known, running,
                   basis, profiles, batch, spent>>

DiscardReceived ==
    /\ ~atTop /\ ~probesOn /\ ingress # <<>> /\ deferred = <<>>
    /\ atTop' = TRUE
    /\ LET d == DropAll(Head(ingress)) IN submitted' = d.table /\ batch' = d.batch
    /\ ingress' = Tail(ingress)
    /\ UNCHANGED <<route, rules, probesOn, deferred, queued, known, running, basis, profiles, spent>>

\* The tick looks for routes without a current profile and enqueues them
\* directly; one that finds the queue full is left to the next tick.
TickFor(r) ==
    LET job == JobOf(r)  e == Enqueue(queued, job, FALSE) IN
    /\ ~atTop /\ probesOn /\ ~CurrentProfile(r) /\ e.out \in {"enqueued", "replaced"}
    /\ atTop' = TRUE
    /\ queued' = e.queue
    /\ known' = IF e.out = "enqueued" THEN known \cup {r} ELSE known
    /\ submitted' = IF e.out = "replaced" THEN ReleaseEntry(submitted, e.old) ELSE submitted
    /\ batch' = IF e.out = "replaced" THEN BatchAfter(batch, e.old) ELSE batch
    /\ UNCHANGED <<route, rules, probesOn, ingress, deferred, running, basis, profiles, spent>>

\* The first queued job whose route is not running.
StartNext ==
    LET ready == {i \in 1..Len(queued) : running[queued[i].route] = NoJob} IN
    /\ atTop /\ probesOn /\ ready # {} /\ Cardinality(BusyRoutes) < MaxRunning
    /\ deferred = <<>> \/ ~QueueRoom(queued)
    /\ LET i == CHOOSE i \in ready : \A j \in ready : i <= j
           job == queued[i]
       IN /\ running' = [running EXCEPT ![job.route] = job]
          /\ queued' = [j \in 1..Len(queued) - 1 |-> IF j < i THEN queued[j] ELSE queued[j + 1]]
          /\ batch' = IF batch.phase = "open" /\ batch.candidates[job.route] = job
                         /\ batch.state[job.route] \in {"queued", "reused"}
                      THEN [batch EXCEPT !.state[job.route] = "running"] ELSE batch
    /\ UNCHANGED <<route, rules, probesOn, submitted, ingress, deferred, known, basis, profiles,
                   atTop, spent>>

\* Nothing left to do at the top: wait for the next event.
EnterSelect ==
    /\ atTop /\ atTop' = FALSE
    /\ IF probesOn
       THEN /\ deferred # <<>> => \A wider \in BOOLEAN : Enqueue(queued, Head(deferred), wider).out = "full"
            /\ \/ Cardinality(BusyRoutes) >= MaxRunning
               \/ \A i \in 1..Len(queued) : running[queued[i].route] # NoJob
       ELSE queued = <<>> /\ deferred = <<>>
    /\ UNCHANGED <<route, rules, probesOn, submitted, ingress, deferred, queued, known, running,
                   basis, profiles, batch, spent>>

(***************************** running a probe *****************************)

\* What is left of known when the job of r leaves the queue.
KnownAfter(r) == IF QueuedAt(queued, r) = {} THEN known \ {r} ELSE known

EndJob(r) ==
    /\ ~atTop /\ atTop' = TRUE
    /\ running' = [running EXCEPT ![r] = NoJob] /\ known' = KnownAfter(r)
    /\ submitted' = ReleaseEntry(submitted, running[r])
    /\ batch' = BatchAfter(batch, running[r])
    /\ basis' = [basis EXCEPT ![r] = NoProfile]

\* capability_probe_job_is_current: the route still has the job's fingerprint
\* and the policy the job's revision.
JobIsCurrent(r) == running[r].fp = route[r] /\ running[r].rules = rules

BeginPlan(r) ==
    /\ running[r] # NoJob /\ basis[r] = NoProfile /\ JobIsCurrent(r)
    /\ basis' = [basis EXCEPT ![r] = PlanRuns]
    /\ UNCHANGED <<route, rules, probesOn, submitted, ingress, deferred, queued, known, running,
                   profiles, atTop, batch, spent>>

\* A job whose configuration has changed since it was queued, or whose route
\* cools down, ends without a request to the provider.
Superseded(r) ==
    /\ running[r] # NoJob /\ basis[r] = NoProfile
    /\ EndJob(r)
    /\ UNCHANGED <<route, rules, probesOn, ingress, deferred, queued, profiles, spent>>

\* The plan has run: the profile is read, relabelled with the job's fingerprint
\* and given the outcome, all before the update lock is taken.
ProfileAfter(r, outcome) ==
    LET job == running[r]  old == profiles[r] IN
    CASE outcome = "full"        -> [fp |-> job.fp, seen |-> {job.fp}, learnt |-> FALSE]
      [] outcome = "partial"     -> [fp |-> job.fp, seen |-> old.seen \cup {job.fp}, learnt |-> old.learnt]
      [] outcome = "operational" -> [fp |-> job.fp, seen |-> old.seen, learnt |-> old.learnt]

EndPlan(r) ==
    /\ running[r] # NoJob /\ basis[r] = PlanRuns
    /\ \E outcome \in {"full", "partial", "operational"} :
           basis' = [basis EXCEPT ![r] = ProfileAfter(r, outcome)]
    /\ UNCHANGED <<route, rules, probesOn, submitted, ingress, deferred, queued, known, running,
                   profiles, atTop, batch, spent>>

\* upsert_dialect_profile_if_probe_current: the policy must be the job's.
StoreProfile(r) ==
    /\ running[r] # NoJob /\ basis[r] \notin {NoProfile, PlanRuns}
    /\ profiles' = IF running[r].rules = rules THEN [profiles EXCEPT ![r] = basis[r]] ELSE profiles
    /\ EndJob(r)
    /\ UNCHANGED <<route, rules, probesOn, ingress, deferred, queued, spent>>

\* learn_stream_only_route and learn_dialect_field_rejected, under both locks:
\* refused for a profile of another configuration.
LearnFromRequest(r) ==
    /\ profiles[r] = NoProfile \/ CurrentProfile(r)
    /\ ~profiles[r].learnt /\ spent.edits < MaxEdits /\ Spend("edits")
    /\ profiles' = [profiles EXCEPT ![r] =
           [fp |-> route[r], seen |-> @.seen \cup {route[r]}, learnt |-> TRUE]]
    /\ UNCHANGED <<route, rules, probesOn, queueVars, batch>>

(************************ changes of configuration *************************)

EditRoute(r) ==
    /\ spent.edits < MaxEdits /\ Spend("edits")
    /\ route' = [route EXCEPT ![r] = OtherConfiguration(@)]
    /\ UNCHANGED <<rules, probesOn, queueVars, profiles, batch>>

ReplacePolicy ==
    /\ rules < MaxPolicies /\ rules' = rules + 1 /\ probesOn' \in BOOLEAN
    /\ UNCHANGED <<route, queueVars, profiles, batch, spent>>

DeleteProfiles(r) ==
    /\ profiles[r] # NoProfile /\ spent.edits < MaxEdits /\ Spend("edits")
    /\ profiles' = [profiles EXCEPT ![r] = NoProfile]
    /\ UNCHANGED <<route, rules, probesOn, queueVars, batch>>

LoopTop == ContinueBatch \/ DiscardWaiting \/ StartNext \/ EnterSelect

ProbesNext ==
    \/ LoopTop \/ ReceiveBatch \/ DiscardReceived \/ AskStale \/ AskAll \/ RecordBatch \/ ReplacePolicy
    \/ \E r \in Routes : \/ AskOne(r) \/ TickFor(r) \/ Superseded(r) \/ BeginPlan(r) \/ EndPlan(r) \/ StoreProfile(r)
                         \/ LearnFromRequest(r) \/ EditRoute(r) \/ DeleteProfiles(r)

\* The worker is one task whose select picks a ready branch at random, so a
\* branch that is ready again and again is taken; a probe ends because its plan
\* has a budget.
ProbesFairness ==
    /\ WF_probeVars(LoopTop) /\ SF_probeVars(ReceiveBatch \/ DiscardReceived)
    /\ WF_probeVars(RecordBatch)
    /\ \A r \in Routes : SF_probeVars(Superseded(r) \/ BeginPlan(r) \/ EndPlan(r) \/ StoreProfile(r))

ProbesSpec == ProbesInit /\ [][ProbesNext]_probeVars /\ ProbesFairness

(******************************* properties ********************************)

JobsWaiting == (UNION {{ingress[b][i] : i \in 1..Len(ingress[b])} : b \in 1..Len(ingress)})
                   \cup {deferred[i] : i \in 1..Len(deferred)}
                   \cup {queued[i] : i \in 1..Len(queued)}

\* An entry of the submission table turns every further request for its route
\* away, so there is always a job on its way that will take the entry out.
SubmissionHasJob ==
    \A r \in Routes : submitted[r] # NoJob =>
        submitted[r] \in JobsWaiting \cup {running[r]}

\* The queue takes no job for a route it believes to know unless the route is
\* queued or running: it knows exactly those.
KnownHasJob == known = BusyRoutes \cup {r \in Routes : QueuedAt(queued, r) # {}}

\* Every submission is answered: run, replaced or discarded.
SubmissionsDrain == \A r \in Routes : submitted[r] # NoJob ~> submitted[r] = NoJob

\* The evidence of a profile was observed under the configuration the profile
\* is labelled with.  The code does not keep this: a probe that fails or is
\* partial relabels the old evidence.
EvidenceOfItsConfiguration == \A r \in Routes : profiles[r].seen \subseteq {profiles[r].fp}

\* Every candidate of a recorded batch reaches a terminal state.  The code does
\* not guarantee it for a job that ends before its batch is recorded.
BatchSettles == (batch.phase = "open") ~> (batch.phase = "open" => \A r \in Routes : batch.state[r] = "settled")

\* What a request taught about the current configuration is not overwritten by
\* a probe that did not see it.  The code does not guarantee it: the profile is
\* read before the lock.
LessonKept == [][\A r \in Routes : profiles[r].learnt /\ CurrentProfile(r) /\ profiles'[r].fp = route[r]
                                     => profiles'[r].learnt \/ profiles'[r].seen = {route[r]}]_probeVars
============================================================================
