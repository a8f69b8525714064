-------------------------- MODULE MCProviderTraffic --------------------------
(***************************************************************************)
(* What goes on with a provider for longer than one step, and must come to *)
(* an end, checked in one run: a call and its corrections (UpstreamSend),  *)
(* the body a stream is served by and the watchdog over it (StreamBody,    *)
(* StreamWatchdog), the synchronisation of models (ModelKeySync), and the  *)
(* capability probes: their queue and one plan (CapabilityProbes,          *)
(* ProbePlan).                                                             *)
(*                                                                         *)
(* They share no variable, so "focus" picks the one that moves and the     *)
(* others keep their first state.                                          *)
(***************************************************************************)
EXTENDS StreamBody, StreamWatchdog, UpstreamSend, ModelKeySync, CapabilityProbes, ProbePlan

(* Chunks of one or two server-sent events.                                 *)
SmallChunks == {<<e>> : e \in Events} \cup (Events \X Events)

VARIABLE focus
bodyPart == <<streamVars, watchdogVars>>
probePart == <<probeVars, planVars>>
trafficVars == <<bodyPart, sendVars, syncVars, probePart, focus>>

(* Where a part that does not move is.                                      *)
StandsStill ==
    /\ focus # "stream" => kind = "chat"
    /\ focus # "watchdog" => wrapped
    /\ focus # "sync" => entry.mapped
    /\ focus # "probes" => \A r \in Routes : profiles[r] = NoProfile
    /\ focus # "plan" => planKind = "chat" /\ \A f \in Facts : priorFacts[f] = "absent"

TrafficInit ==
    /\ focus \in {"stream", "watchdog", "send", "sync", "probes", "plan"}
    /\ StreamInit /\ WatchdogInit /\ SendInit /\ SyncInit /\ ProbesInit /\ PlanInit
    /\ StandsStill

TrafficNext ==
    /\ UNCHANGED focus
    /\ \/ focus = "stream" /\ StreamNext /\ UNCHANGED <<watchdogVars, sendVars, syncVars, probePart>>
       \/ focus = "watchdog" /\ WatchdogNext /\ UNCHANGED <<streamVars, sendVars, syncVars, probePart>>
       \/ focus = "send" /\ SendNext /\ UNCHANGED <<bodyPart, syncVars, probePart>>
       \/ focus = "sync" /\ SyncNext /\ UNCHANGED <<bodyPart, sendVars, probePart>>
       \/ focus = "probes" /\ ProbesNext /\ UNCHANGED <<bodyPart, sendVars, syncVars, planVars>>
       \/ focus = "plan" /\ PlanNext /\ UNCHANGED <<bodyPart, sendVars, syncVars, probeVars>>

(* The fairness of the parts, each for the behaviours in which it moves.    *)
TrafficFairness ==
    /\ WF_streamVars(focus = "stream" /\ BodyStep)
    /\ WF_streamVars(focus = "stream" /\ ReadFails)
    /\ WF_streamVars(focus = "stream" /\ StartAttempt)
    /\ WF_streamVars(focus = "stream" /\ AttemptFails)
    /\ WF_streamVars(focus = "stream" /\ HandOver)
    /\ \A q \in Senders : WF_sendVars(focus = "send" /\ Driven(q) /\ Progress(q))
    /\ WF_syncVars(focus = "sync" /\ SyncWork)
    /\ SF_syncVars(focus = "sync" /\ TakeTargeted)
    /\ \A x \in SyncKeys \X SyncModels :
           WF_syncVars(focus = "sync" /\ (RetryStops(x) \/ RetrySucceeds(x)))
    /\ WF_probeVars(focus = "probes" /\ LoopTop)
    /\ SF_probeVars(focus = "probes" /\ (ReceiveBatch \/ DiscardReceived))
    /\ WF_probeVars(focus = "probes" /\ RecordBatch)
    /\ \A r \in Routes :
           SF_probeVars(focus = "probes" /\ (Superseded(r) \/ BeginPlan(r) \/ EndPlan(r) \/ StoreProfile(r)))

TrafficSpec == TrafficInit /\ [][TrafficNext]_trafficVars /\ TrafficFairness

(***************************************************************************)
(* Properties. What must come is asked of the behaviours in which its part *)
(* moves.                                                                  *)
(***************************************************************************)
(* The slot of a stream comes back.                                        *)
StreamSlotsComeBack == focus = "stream" => SlotsComeBack

(* The shared stream-only recovery is sound, and live as far as the        *)
(* providers let it: a flight has a leader, only a retry that succeeded    *)
(* teaches the route a lesson, and, if no provider stalls for ever in the  *)
(* body of a reply, a request that waits for the leader goes on, whether   *)
(* the leader succeeds, fails or is dropped.                               *)
RecoveryShared ==
    /\ [](FlightHasLeader /\ LessonConfirmed)
    /\ focus = "send" => (BodiesEnd => FollowersWake)


(* An entry of the submission table always has a job on its way that takes *)
(* it out, the queue knows exactly the routes it holds, and every          *)
(* submission is settled in the end: no route is shut out of probing for   *)
(* good.                                                                   *)
SubmissionsSettle ==
    /\ [](SubmissionHasJob /\ KnownHasJob)
    /\ focus = "probes" => SubmissionsDrain
=============================================================================
