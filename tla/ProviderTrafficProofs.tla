----------------------- MODULE ProviderTrafficProofs -----------------------
(***************************************************************************)
(* Proofs about the traffic with providers.                                *)
(*                                                                         *)
(* StreamWatchdog: a silent stream is ended in time.  ProbePlan: what a    *)
(* plan stores was proved by one of its cases.  UpstreamLeases: the lease  *)
(* table is the attempts that run.  StreamBody: the usage log and the      *)
(* frames of a stream tell the same end of it, once.  UpstreamSend: the    *)
(* recovery of a route that answers only streams.  ModelKeySync: a model   *)
(* leaves a key only after it was absent for the interval.                 *)
(* CapabilityProbes: a submission has a job on its way.                    *)
(***************************************************************************)
EXTENDS StreamWatchdog, ProbePlan, UpstreamLeases, StreamBody, UpstreamSend, ModelKeySync,
        CapabilityProbes, FiniteSetTheorems, SequenceTheorems, WellFoundedInduction, TLAPS

-----------------------------------------------------------------------------
(* StreamWatchdog.                                                          *)

WatchdogTyped ==
    /\ {clock, lastData, lastBeat, extensions, earlyBeat, silentSince} \subseteq Nat
    /\ lastData <= clock /\ lastBeat <= clock /\ earlyBeat <= clock

(* The clock never passes a deadline unnoticed, the idle deadline is        *)
(* extended a bounded number of times, and every beat of an early stream    *)
(* reaches the client.                                                      *)
WatchdogInv ==
    /\ WatchdogTyped
    /\ ended = "no" =>
         /\ clock <= IdleDeadline /\ extensions <= MaxExtensions
         /\ wrapped => clock <= EarlyDeadline
         /\ earlyBeat <= silentSince

(* Multiplication by a natural number is monotone.                          *)
LEMMA TimesMonotone ==
  ASSUME NEW a \in Nat, NEW b \in Nat, NEW c \in Nat, a <= b
  PROVE  c * a <= c * b /\ c * a \in Nat
OBVIOUS

(* The quotient of the idle timeout, in keepalives.                         *)
LEMMA DivideBack ==
  ASSUME NEW n \in Nat, NEW d \in Nat \ {0}
  PROVE  n \div d \in Nat /\ d * (n \div d) <= n
OBVIOUS

(* sleep_until sleeps no longer than any of the three deadlines.            *)
LEMMA SmallestIsSmall ==
  ASSUME NEW a \in Nat, NEW b \in Nat, NEW c \in Nat
  PROVE  LET m == SmallestOf({a, b, c}) IN m \in Nat /\ m <= a /\ m <= b /\ m <= c
<1>1. \E x \in {a, b, c} : \A y \in {a, b, c} : x <= y
  <2>1. CASE a <= b /\ a <= c
    BY <2>1
  <2>2. CASE b <= a /\ b <= c
    BY <2>2
  <2>3. CASE c <= a /\ c <= b
    BY <2>3
  <2> QED BY <2>1, <2>2, <2>3
<1>2. LET m == SmallestOf({a, b, c}) IN m \in {a, b, c} /\ \A y \in {a, b, c} : m <= y
  BY <1>1 DEF SmallestOf
<1> QED
  BY <1>2

(* Each step of the stream or of its timers.                                *)
LEMMA WatchdogSteps ==
  ASSUME WatchdogInv, [WatchdogNext]_watchdogVars
  PROVE  WatchdogInv'
<1>0. /\ clock \in Nat /\ lastData \in Nat /\ lastBeat \in Nat /\ extensions \in Nat
      /\ earlyBeat \in Nat /\ silentSince \in Nat
      /\ lastData <= clock /\ lastBeat <= clock /\ earlyBeat <= clock
      /\ Keepalive \in Nat /\ IdleTimeout \in Nat /\ MaxDuration \in Nat
      /\ Keepalive * extensions \in Nat /\ MaxExtensions \in Nat
      /\ Keepalive * 0 = 0 /\ Keepalive # 0
  BY WatchdogAssumption, TimesMonotone, DivideBack DEF WatchdogInv, WatchdogTyped, MaxExtensions
<1>1. ASSUME NEW shown \in BOOLEAN, UpstreamChunk(shown) PROVE WatchdogInv'
  <2>1. /\ ended = "no" /\ ended' = ended /\ clock' = clock /\ lastData' = clock /\ lastBeat' = clock
        /\ extensions' = 0 /\ wrapped' = wrapped
    BY <1>1 DEF UpstreamChunk
  <2>2. clock' <= IdleDeadline' /\ extensions' <= MaxExtensions
    BY <1>0, <2>1 DEF IdleDeadline
  <2>3. CASE Frame
    <3>1. earlyBeat' = clock /\ silentSince' = clock
      BY <2>3 DEF Frame
    <3>2. clock' <= EarlyDeadline'
      BY <1>0, <2>1, <3>1 DEF EarlyDeadline
    <3> QED BY <1>0, <2>1, <2>2, <3>1, <3>2 DEF WatchdogInv, WatchdogTyped, MaxExtensions
  <2>4. CASE NoFrame
    <3>1. earlyBeat' = earlyBeat /\ silentSince' = silentSince
      BY <2>4 DEF NoFrame
    <3> QED BY <1>0, <2>1, <2>2, <3>1 DEF WatchdogInv, WatchdogTyped, MaxExtensions, EarlyDeadline
  <2> QED BY <1>1, <2>3, <2>4 DEF UpstreamChunk
<1>2. CASE UpstreamEof
  BY <1>0, <1>2 DEF UpstreamEof, WatchdogInv, WatchdogTyped
<1>3. CASE TimerFires
  <2>1. /\ ended = "no" /\ UNCHANGED <<clock, lastData, reads, wrapped, handed>>
        /\ clock <= IdleDeadline /\ extensions <= MaxExtensions
        /\ (wrapped => clock <= EarlyDeadline) /\ earlyBeat <= silentSince
    BY <1>3 DEF TimerFires, WatchdogInv
  <2>2. CASE ended' \in {"max", "idle"} /\ NoFrame /\ UNCHANGED <<lastBeat, extensions>>
    BY <1>0, <2>1, <2>2 DEF WatchdogInv, WatchdogTyped, NoFrame
  <2>3. CASE lastBeat' = clock /\ ExtendIdle /\ (Frame \/ NoFrame) /\ UNCHANGED ended
    <3>1. extensions' \in Nat /\ extensions <= extensions' /\ extensions' <= MaxExtensions
      BY <1>0, <2>1, <2>3 DEF ExtendIdle
    <3>2. Keepalive * extensions <= Keepalive * extensions' /\ Keepalive * extensions' \in Nat
      BY <1>0, <3>1, TimesMonotone
    <3>3. clock <= lastData + IdleTimeout + Keepalive * extensions'
      BY <1>0, <2>1, <3>2 DEF IdleDeadline
    <3>4. clock' <= IdleDeadline'
      BY <2>1, <3>3 DEF IdleDeadline
    <3>5. /\ earlyBeat' \in Nat /\ silentSince' \in Nat /\ earlyBeat' <= clock
          /\ earlyBeat' <= silentSince' /\ (wrapped => clock <= earlyBeat' + Keepalive)
      BY <1>0, <2>1, <2>3 DEF Frame, NoFrame, EarlyDeadline
    <3>6. WatchdogTyped'
      BY <1>0, <2>1, <2>3, <3>1, <3>5 DEF WatchdogTyped
    <3> QED BY <2>1, <3>1, <3>4, <3>5, <3>6 DEF WatchdogInv, MaxExtensions, EarlyDeadline
  <2> QED BY <1>3, <2>2, <2>3 DEF TimerFires
<1>4. CASE EarlyKeepalive
  BY <1>0, <1>4
  DEF EarlyKeepalive, Frame, WatchdogInv, WatchdogTyped, IdleDeadline, EarlyDeadline, MaxExtensions
<1>5. CASE WatchdogTick
  <2>1. /\ ended = "no" /\ clock < NextDeadline /\ (wrapped => clock < EarlyDeadline)
        /\ clock' = clock + 1
        /\ UNCHANGED <<lastData, lastBeat, extensions, wrapped, earlyBeat, silentSince, ended>>
    BY <1>5 DEF WatchdogTick
  <2>2. HeartbeatDeadline \in Nat /\ IdleDeadline \in Nat /\ MaxDeadline \in Nat
    BY <1>0 DEF HeartbeatDeadline, IdleDeadline, MaxDeadline
  <2>3. NextDeadline \in Nat /\ NextDeadline <= IdleDeadline
    BY <2>2, SmallestIsSmall DEF NextDeadline
  <2>4. clock + 1 <= IdleDeadline /\ (wrapped => clock + 1 <= EarlyDeadline)
    BY <1>0, <2>1, <2>2, <2>3 DEF EarlyDeadline
  <2> QED BY <1>0, <2>1, <2>4
    DEF WatchdogInv, WatchdogTyped, IdleDeadline, EarlyDeadline, MaxExtensions
<1>6. CASE UNCHANGED watchdogVars
  BY <1>6 DEF watchdogVars, WatchdogInv, WatchdogTyped, IdleDeadline, EarlyDeadline, MaxExtensions
<1> QED
  BY <1>1, <1>2, <1>3, <1>4, <1>5, <1>6 DEF WatchdogNext

(* For every keepalive interval and idle timeout: a silent upstream is      *)
(* given up at most one idle period and one interval after its idle         *)
(* timeout, although every heartbeat extends the idle deadline, and a       *)
(* client with an early stream is never without a frame for longer than one *)
(* interval, whatever part of the chunks yields no frame (StreamWatchdog,   *)
(* early_keepalive_stream).                                                 *)
THEOREM SilenceIsBounded == WatchdogSpec => []SilenceBounded
<1>1. WatchdogInit => WatchdogInv
  BY WatchdogAssumption, DivideBack
  DEF WatchdogInit, WatchdogInv, WatchdogTyped, IdleDeadline, EarlyDeadline, MaxExtensions
<1>2. WatchdogInv /\ [WatchdogNext]_watchdogVars => WatchdogInv'
  BY WatchdogSteps
<1>3. WatchdogInv => SilenceBounded
  <2> SUFFICES ASSUME WatchdogInv, ended = "no"
               PROVE  /\ clock - lastData <= 2 * IdleTimeout + Keepalive
                      /\ wrapped => clock - silentSince <= Keepalive
    BY DEF SilenceBounded
  <2>1. /\ clock \in Nat /\ lastData \in Nat /\ extensions \in Nat /\ earlyBeat \in Nat
        /\ silentSince \in Nat /\ Keepalive \in Nat \ {0} /\ IdleTimeout \in Nat
        /\ clock <= lastData + IdleTimeout + Keepalive * extensions
        /\ extensions <= IdleTimeout \div Keepalive + 1
        /\ (wrapped => clock <= earlyBeat + Keepalive) /\ earlyBeat <= silentSince
    BY WatchdogAssumption
    DEF WatchdogInv, WatchdogTyped, IdleDeadline, EarlyDeadline, MaxExtensions
  <2>2. /\ IdleTimeout \div Keepalive \in Nat
        /\ Keepalive * (IdleTimeout \div Keepalive) <= IdleTimeout
    BY <2>1, DivideBack
  <2>3. Keepalive * extensions <= Keepalive * (IdleTimeout \div Keepalive + 1)
        /\ Keepalive * extensions \in Nat
    BY <2>1, <2>2, TimesMonotone
  <2>4. Keepalive * (IdleTimeout \div Keepalive + 1)
          = Keepalive * (IdleTimeout \div Keepalive) + Keepalive
    BY <2>1, <2>2
  <2>5. Keepalive * (IdleTimeout \div Keepalive) \in Nat
    BY <2>1, <2>2, TimesMonotone
  <2>6. Keepalive * extensions <= IdleTimeout + Keepalive
    BY <2>1, <2>2, <2>3, <2>4, <2>5
  <2> QED BY <2>1, <2>3, <2>6
<1> QED
  BY <1>1, <1>2, <1>3, PTL DEF WatchdogSpec

-----------------------------------------------------------------------------
(* ProbePlan.                                                               *)

FactValues == {"absent", "unobserved", "supported", "rejected"}

(* Where a case stands in the plan of a kind.                               *)
Place(k, c) ==
    CASE c = "text" -> 1
      [] c = "text_stream" -> 2
      [] c = "tools" -> 3
      [] c = "selection" -> 4
      [] c = "continuation" -> 5
      [] c = "arguments" -> 6
      [] c = "usage" -> 7
      [] c = "parallel" -> 9
      [] c = "restricted" -> 11
      [] c = "replay" -> IF k = "chat" THEN 8 ELSE 10
      [] c = "image" -> IF k = "chat" THEN 10 ELSE 12
      [] c = "token_limit" -> IF k = "chat" THEN 12 ELSE 8
      [] c = "level" -> IF k = "chat" THEN 13 ELSE IF k = "reasoning" THEN 2 ELSE 9
      [] c = "extension" -> IF k = "chat" THEN 14 ELSE 11
      [] c = "image_https" -> IF k = "chat" THEN 15 ELSE 13
      [] OTHER -> 0

CaseNames == {"text", "text_stream", "tools", "selection", "continuation", "arguments", "usage",
              "replay", "parallel", "image", "restricted", "token_limit", "level", "extension",
              "image_https"}

(* The cases every plan for an agent starts with.                           *)
LEMMA CorePlaced ==
  /\ AgentCore \in Seq(CaseNames) /\ Len(AgentCore) = 7
  /\ \A i \in 1..7 : \A k : Place(k, AgentCore[i]) = i
<1>1. AgentCore \in Seq(CaseNames) /\ Len(AgentCore) = 7
  BY DEF AgentCore, CaseNames
<1>2. ASSUME NEW i \in 1..7, NEW k PROVE Place(k, AgentCore[i]) = i
  <2>1. i \in {1, 2, 3, 4, 5, 6, 7}
    OBVIOUS
  <2> QED BY <2>1 DEF AgentCore, Place
<1> QED
  BY <1>1, <1>2

(* A plan made of two parts, case by case.                                  *)
LEMMA PartsOfPlan ==
  ASSUME NEW s \in Seq(CaseNames), NEW t \in Seq(CaseNames), NEW p, p = s \o t
  PROVE  /\ p \in Seq(CaseNames) /\ Len(p) = Len(s) + Len(t)
         /\ \A i \in 1..(Len(s) + Len(t)) : p[i] = IF i <= Len(s) THEN s[i] ELSE t[i - Len(s)]
BY ConcatProperties

(* No case stands twice in the plan of a route (probe_plan_for_route).      *)
LEMMA CasesPlaced ==
  ASSUME NEW k \in {"chat", "responses", "reasoning"}
  PROVE  /\ PlanOf(k) \in Seq(CaseNames) /\ Len(PlanOf(k)) \in Nat \ {0}
         /\ \A i \in 1..Len(PlanOf(k)) : Place(k, PlanOf(k)[i]) = i
<1>1. CASE k = "chat"
  <2> DEFINE s == <<"replay", "parallel", "image", "restricted">>
             t == <<"token_limit", "level", "extension", "image_https">>
  <2>1. s \in Seq(CaseNames) /\ Len(s) = 4 /\ t \in Seq(CaseNames) /\ Len(t) = 4
    BY DEF CaseNames
  <2>2. \A i \in 1..4 : Place(k, s[i]) = i + 7 /\ Place(k, t[i]) = i + 11
    <3>1. \A i \in 1..4 : i \in {1, 2, 3, 4}
      OBVIOUS
    <3> QED BY <1>1, <3>1 DEF Place
  <2> HIDE DEF s, t
  <2>3. /\ FullChat \in Seq(CaseNames) /\ Len(FullChat) = 11
        /\ \A i \in 1..11 : FullChat[i] = IF i <= 7 THEN AgentCore[i] ELSE s[i - 7]
    <3>1. FullChat = AgentCore \o s
      BY DEF FullChat, s
    <3>2. AgentCore \in Seq(CaseNames) /\ Len(AgentCore) = 7
      BY CorePlaced
    <3>3. /\ FullChat \in Seq(CaseNames) /\ Len(FullChat) = Len(AgentCore) + Len(s)
          /\ \A i \in 1..(Len(AgentCore) + Len(s)) :
               FullChat[i] = IF i <= Len(AgentCore) THEN AgentCore[i] ELSE s[i - Len(AgentCore)]
      BY <3>1, <3>2, <2>1, PartsOfPlan, Zenon
    <3> QED BY <2>1, <3>2, <3>3
  <2>4. /\ PlanOf(k) \in Seq(CaseNames) /\ Len(PlanOf(k)) = 15
        /\ \A i \in 1..15 : PlanOf(k)[i] = IF i <= 11 THEN FullChat[i] ELSE t[i - 11]
    <3>1. PlanOf(k) = FullChat \o t
      BY <1>1 DEF PlanOf, t
    <3>2. FullChat \in Seq(CaseNames) /\ Len(FullChat) = 11
      BY <2>3
    <3>3. /\ PlanOf(k) \in Seq(CaseNames) /\ Len(PlanOf(k)) = Len(FullChat) + Len(t)
          /\ \A i \in 1..(Len(FullChat) + Len(t)) :
               PlanOf(k)[i] = IF i <= Len(FullChat) THEN FullChat[i] ELSE t[i - Len(FullChat)]
      BY <3>1, <3>2, <2>1, PartsOfPlan, Zenon
    <3> QED BY <2>1, <3>2, <3>3
  <2>5. \A i \in 1..11 : Place(k, FullChat[i]) = i
    BY <2>2, <2>3, CorePlaced
  <2> QED BY <2>2, <2>4, <2>5
<1>2. CASE k = "responses"
  <2> DEFINE t == <<"token_limit", "level", "replay", "extension", "image", "image_https">>
  <2>1. t \in Seq(CaseNames) /\ Len(t) = 6
    BY DEF CaseNames
  <2>2. \A i \in 1..6 : Place(k, t[i]) = i + 7
    <3>1. \A i \in 1..6 : i \in {1, 2, 3, 4, 5, 6}
      OBVIOUS
    <3> QED BY <1>2, <3>1 DEF Place
  <2> HIDE DEF t
  <2>3. /\ PlanOf(k) \in Seq(CaseNames) /\ Len(PlanOf(k)) = 13
        /\ \A i \in 1..13 : PlanOf(k)[i] = IF i <= 7 THEN AgentCore[i] ELSE t[i - 7]
    <3>1. PlanOf(k) = AgentCore \o t
      BY <1>2 DEF PlanOf, t
    <3>2. AgentCore \in Seq(CaseNames) /\ Len(AgentCore) = 7
      BY CorePlaced
    <3>3. /\ PlanOf(k) \in Seq(CaseNames) /\ Len(PlanOf(k)) = Len(AgentCore) + Len(t)
          /\ \A i \in 1..(Len(AgentCore) + Len(t)) :
               PlanOf(k)[i] = IF i <= Len(AgentCore) THEN AgentCore[i] ELSE t[i - Len(AgentCore)]
      BY <3>1, <3>2, <2>1, PartsOfPlan, Zenon
    <3> QED BY <2>1, <3>2, <3>3
  <2> QED BY <2>2, <2>3, CorePlaced
<1>3. CASE k = "reasoning"
  <2>1. PlanOf(k) = <<"text", "level">>
    BY <1>3 DEF PlanOf
  <2>2. \A i \in 1..2 : i \in {1, 2}
    OBVIOUS
  <2>3. PlanOf(k) \in Seq(CaseNames) /\ Len(PlanOf(k)) = 2
    BY <2>1 DEF CaseNames
  <2>4. PlanOf(k)[1] = "text" /\ PlanOf(k)[2] = "level"
    BY <2>1
  <2>5. Place(k, "text") = 1 /\ Place(k, "level") = 2
    BY <1>3 DEF Place
  <2> QED BY <2>2, <2>3, <2>4, <2>5
<1> QED
  BY <1>1, <1>2, <1>3

(* What a case decides or proves besides is a fact of the profile.          *)
LEMMA DecidesFacts ==
  ASSUME NEW c \in CaseNames
  PROVE  Decides(c) \subseteq Facts /\ Implies(c) \subseteq Facts
BY DEF CaseNames, Decides, Implies, Facts

(* No case decides what an earlier case of its plan decided or proved: the  *)
(* tool cases that prove "tools" and "tool_continuation" besides stand      *)
(* after the cases that decide them.                                        *)
LEMMA DecidedOnce ==
  ASSUME NEW k \in {"chat", "responses", "reasoning"},
         NEW i \in 1..Len(PlanOf(k)), NEW j \in 1..Len(PlanOf(k)), i < j,
         NEW f \in Decides(PlanOf(k)[i]) \cup Implies(PlanOf(k)[i])
  PROVE  f \notin Decides(PlanOf(k)[j])
<1> DEFINE c == PlanOf(k)[i]
           d == PlanOf(k)[j]
<1>1. /\ c \in CaseNames /\ d \in CaseNames
      /\ Place(k, c) = i /\ Place(k, d) = j
  BY CasesPlaced
<1>2. Place(k, c) < Place(k, d) /\ f \in Decides(c) \cup Implies(c)
  BY <1>1
<1> HIDE DEF c, d
<1>3. ASSUME f \in Decides(c), f \in Decides(d)
      PROVE  c = d
  BY <1>1, <1>3 DEF CaseNames, Decides
<1>4. ASSUME f \in Implies(c), f \in Decides(d)
      PROVE  \/ d = "tools" /\ c \in {"selection", "continuation", "replay"}
             \/ d = "continuation" /\ c = "replay"
  BY <1>1, <1>4 DEF CaseNames, Decides, Implies
<1>5. c # d
  BY <1>1, <1>2
<1>6. ~(d = "tools" /\ c \in {"selection", "continuation", "replay"})
  BY <1>2 DEF Place
<1>7. ~(d = "continuation" /\ c = "replay")
  BY <1>2 DEF Place
<1> QED
  BY <1>2, <1>3, <1>4, <1>5, <1>6, <1>7 DEF d

PlanTyped ==
    /\ planKind \in {"chat", "responses", "reasoning"}
    /\ caseIndex \in Nat \ {0}
    /\ planOutcome = "none" => caseIndex <= Len(PlanOf(planKind))
    /\ evidence \in [Facts -> FactValues]
    /\ proved \subseteq Facts

(* The cases already tried.                                                 *)
TriedCases == {i \in 1..Len(PlanOf(planKind)) : i < caseIndex}

(* What was proved was proved by a case that was tried.                     *)
ProvedByTried ==
    \A f \in proved : \E i \in TriedCases :
        f \in Decides(PlanOf(planKind)[i]) \cup Implies(PlanOf(planKind)[i])

SupportedProved == \A f \in Facts : evidence[f] = "supported" => f \in proved

(* While no case went without a verdict, every fact decided so far has one. *)
DecidedSoFar ==
    planComplete => \A i \in TriedCases : \A f \in Decides(PlanOf(planKind)[i]) \ ProvedOnly :
                        evidence[f] \in {"supported", "rejected"}

PlanInv ==
    /\ PlanTyped /\ ProvedByTried /\ SupportedProved /\ DecidedSoFar
    /\ UnobservedErasesNothing /\ FreshIsComplete /\ ProofKept

(* ProbeEvidence::apply for one verdict.                                    *)
LEMMA AppliedValue ==
  ASSUME NEW facts \in [Facts -> FactValues], NEW case \in CaseNames,
         NEW v \in {"supported", "rejected", "unobserved"}, NEW f \in Facts
  PROVE  /\ Applied(facts, case, v) \in [Facts -> FactValues]
         /\ f \notin Decides(case) =>
              Applied(facts, case, v)[f] =
                IF f \in Implies(case) /\ v = "supported" THEN "supported" ELSE facts[f]
         /\ Applied(facts, case, v)[f] \in {facts[f], v}
         /\ Applied(facts, case, v)[f] # facts[f] /\ v = "supported"
              => f \in Decides(case) \cup Implies(case)
         /\ v = "supported" /\ f \in Decides(case) \cup Implies(case)
              => Applied(facts, case, v)[f] = "supported"
         /\ f \in Decides(case) \ ProvedOnly => Applied(facts, case, v)[f] \in {v, "supported"}
         /\ f \in ProvedOnly /\ v # "supported" => Applied(facts, case, v)[f] = facts[f]
BY DEF Applied, FactValues

(* One case of the plan: its verdict is applied to the evidence, or it was  *)
(* skipped for want of capacity.                                            *)
LEMMA CaseKeepsEvidence ==
  ASSUME PlanInv, NEW first, NEW second, TryCase(first, second)
  PROVE  PlanTyped' /\ ProvedByTried' /\ SupportedProved' /\ DecidedSoFar' /\ ProofKept'
<1> DEFINE case == PlanOf(planKind)[caseIndex]
           verdict == Verdict(case, first, second)
           v == IF verdict \in {"supported", "rejected"} THEN verdict ELSE "unobserved"
<1>1. /\ planOutcome = "none" /\ caseIndex' = caseIndex + 1 /\ planKind' = planKind
      /\ evidence' = IF verdict = "full" THEN evidence ELSE Applied(evidence, case, v)
      /\ planComplete' = (planComplete /\ verdict \in {"supported", "rejected"})
      /\ proved' = IF verdict = "supported" THEN proved \cup Decides(case) \cup Implies(case)
                   ELSE proved
  BY DEF TryCase
<1>2. planOutcome' # "none" \/ caseIndex < Len(PlanOf(planKind))
  BY DEF TryCase, OutcomeAtEnd
<1>3. /\ planKind \in {"chat", "responses", "reasoning"} /\ caseIndex \in Nat \ {0}
      /\ caseIndex <= Len(PlanOf(planKind)) /\ evidence \in [Facts -> FactValues]
      /\ proved \subseteq Facts
  BY <1>1 DEF PlanInv, PlanTyped
<1>4. PlanOf(planKind) \in Seq(CaseNames) /\ Len(PlanOf(planKind)) \in Nat
  BY <1>3, CasesPlaced
<1>5. caseIndex \in 1..Len(PlanOf(planKind)) /\ case \in CaseNames
  BY <1>3, <1>4
<1>6. v \in {"supported", "rejected", "unobserved"} /\ (verdict = "supported" <=> v = "supported")
  BY DEF v
<1> HIDE DEF verdict, v
<1>7. PlanTyped'
  <2>1. evidence' \in [Facts -> FactValues]
    <3>1. "level" \in Facts
      BY DEF Facts
    <3> QED BY <1>1, <1>3, <1>5, <1>6, <3>1, AppliedValue
  <2>2. proved' \subseteq Facts
    BY <1>1, <1>3, <1>5, DecidesFacts
  <2> QED BY <1>1, <1>2, <1>3, <1>4, <2>1, <2>2 DEF PlanTyped
<1>8. /\ TriedCases' = TriedCases \cup {caseIndex} /\ TriedCases \subseteq 1..Len(PlanOf(planKind))
      /\ \A i \in TriedCases : i < caseIndex
  BY <1>1, <1>3, <1>4, <1>5 DEF TriedCases
<1>9. \A i \in TriedCases : \A f \in Decides(PlanOf(planKind)[i]) \cup Implies(PlanOf(planKind)[i]) :
         f \notin Decides(case)
  BY <1>3, <1>5, <1>8, DecidedOnce
<1> HIDE DEF case
<1>10. ProvedByTried'
  BY <1>1, <1>8 DEF PlanInv, ProvedByTried, case
<1>11. SupportedProved'
  BY <1>1, <1>3, <1>5, <1>6, AppliedValue DEF PlanInv, SupportedProved
<1>12. ASSUME NEW f \in proved PROVE evidence'[f] \notin Unobserved
  <2>1. f \in Facts /\ evidence[f] \notin Unobserved /\ f \notin Decides(case)
    BY <1>3, <1>9 DEF PlanInv, ProofKept, ProvedByTried
  <2> QED BY <1>1, <1>3, <1>5, <1>6, <2>1, AppliedValue DEF Unobserved
<1>13. ProofKept'
  <2> SUFFICES ASSUME NEW f \in proved', f \notin proved PROVE evidence'[f] \notin Unobserved
    BY <1>12 DEF ProofKept
  <2>1. verdict = "supported" /\ f \in Decides(case) \cup Implies(case) /\ f \in Facts
    BY <1>1, <1>5, DecidesFacts
  <2> QED BY <1>1, <1>3, <1>5, <1>6, <2>1, AppliedValue DEF Unobserved
<1>14. DecidedSoFar'
  <2> SUFFICES ASSUME planComplete', NEW i \in TriedCases',
                      NEW f \in Decides(PlanOf(planKind)[i]) \ ProvedOnly
               PROVE  evidence'[f] \in {"supported", "rejected"}
    BY <1>1 DEF DecidedSoFar
  <2>1. planComplete /\ verdict \in {"supported", "rejected"} /\ v = verdict
    BY <1>1 DEF v
  <2>2. i \in 1..Len(PlanOf(planKind)) /\ PlanOf(planKind)[i] \in CaseNames
    BY <1>4, <1>5, <1>8
  <2>3. f \in Facts
    BY <2>2, DecidesFacts
  <2>4. evidence' = Applied(evidence, case, v)
    BY <1>1, <2>1
  <2>5. CASE i = caseIndex
    BY <1>3, <1>5, <1>6, <2>1, <2>3, <2>4, <2>5, AppliedValue DEF case
  <2>6. CASE i # caseIndex
    <3>1. i \in TriedCases
      BY <1>8, <2>6
    <3>2. f \notin Decides(case) /\ evidence[f] \in {"supported", "rejected"}
      BY <1>9, <2>1, <3>1 DEF PlanInv, DecidedSoFar
    <3> QED BY <1>3, <1>5, <1>6, <2>3, <2>4, <3>2, AppliedValue
  <2> QED BY <2>5, <2>6
<1> QED
  BY <1>7, <1>10, <1>11, <1>13, <1>14

(* A plan that ends stores what it proved, by its outcome.                  *)
LEMMA CaseKeepsProfile ==
  ASSUME PlanInv, NEW first, NEW second, TryCase(first, second),
         PlanTyped', SupportedProved', DecidedSoFar'
  PROVE  UnobservedErasesNothing' /\ FreshIsComplete'
<1>1. /\ planOutcome = "none" /\ caseIndex' = caseIndex + 1
      /\ UNCHANGED <<planKind, priorFacts>>
      /\ storedFacts' = IF planOutcome' = "none" THEN storedFacts ELSE Stored(planOutcome', evidence')
  BY DEF TryCase
<1>2. evidence' \in [Facts -> FactValues]
  BY DEF PlanTyped
<1>3. UnobservedErasesNothing'
  <2> SUFFICES ASSUME planOutcome' \in {"partial", "operational"},
                      NEW f \in Facts \ {"extension"},
                      f \notin proved', evidence'[f] # "rejected"
               PROVE  storedFacts'[f] = priorFacts[f]
    BY <1>1 DEF UnobservedErasesNothing
  <2>1. evidence'[f] \in Unobserved
    BY <1>2 DEF SupportedProved, FactValues, Unobserved
  <2>2. CASE planOutcome' = "operational"
    BY <1>1, <2>2 DEF Stored
  <2>3. CASE planOutcome' = "partial"
    BY <1>1, <2>1, <2>3 DEF Stored, Merged
  <2> QED BY <2>2, <2>3
<1>4. FreshIsComplete'
  <2> SUFFICES ASSUME planOutcome' = "full",
                      NEW i \in DOMAIN PlanOf(planKind),
                      NEW f \in Decides(PlanOf(planKind)[i]) \ ProvedOnly
               PROVE  storedFacts'[f] \in {"supported", "rejected"}
    BY <1>1 DEF FreshIsComplete
  <2>1. planComplete' /\ ~(caseIndex < Len(PlanOf(planKind)))
    BY <1>1 DEF TryCase, OutcomeAtEnd
  <2>2. storedFacts' = evidence'
    BY <1>1 DEF Stored, Replaced
  <2>3. i \in 1..Len(PlanOf(planKind)) /\ Len(PlanOf(planKind)) \in Nat /\ caseIndex \in Nat
    BY CasesPlaced DEF PlanInv, PlanTyped
  <2>4. i \in TriedCases'
    BY <1>1, <2>1, <2>3 DEF TriedCases
  <2> QED BY <1>1, <2>1, <2>2, <2>4 DEF DecidedSoFar
<1> QED
  BY <1>3, <1>4

(* Whatever the provider answers, in however many cases, a run stores what  *)
(* it proved (run_probe_job, ProbeEvidence::apply, apply_probe_outcome): a  *)
(* skipped, silent or broken case erases nothing, a profile is refreshed as *)
(* a whole only when every case got a verdict, and no later case of a plan  *)
(* takes back what an earlier one proved.                                   *)
THEOREM PlansStoreProof == PlanSpec => []PlanStoresProof
<1>1. PlanInit => PlanInv
  <2> SUFFICES ASSUME PlanInit PROVE PlanInv
    OBVIOUS
  <2>1. planKind \in {"chat", "responses", "reasoning"} /\ caseIndex = 1 /\ evidence = NoEvidence
        /\ planOutcome = "none" /\ proved = {}
    BY PlanAssumption DEF PlanInit
  <2>2. Len(PlanOf(planKind)) >= 1
    BY <2>1, CasesPlaced
  <2>3. PlanTyped
    BY <2>1, <2>2 DEF PlanTyped, NoEvidence, FactValues
  <2>4. TriedCases = {}
    BY <2>1 DEF TriedCases
  <2>5. ProvedByTried /\ DecidedSoFar /\ ProofKept
    BY <2>1, <2>4 DEF ProvedByTried, DecidedSoFar, ProofKept
  <2>6. SupportedProved
    BY <2>1 DEF SupportedProved, NoEvidence
  <2> QED BY <2>1, <2>3, <2>5, <2>6 DEF PlanInv, UnobservedErasesNothing, FreshIsComplete
<1>2. PlanInv /\ [PlanNext]_planVars => PlanInv'
  <2>1. ASSUME PlanInv, PlanNext PROVE PlanInv'
    <3>1. PICK first, second : TryCase(first, second)
      BY <2>1 DEF PlanNext
    <3>2. PlanTyped' /\ ProvedByTried' /\ SupportedProved' /\ DecidedSoFar' /\ ProofKept'
      BY <2>1, <3>1, CaseKeepsEvidence
    <3>3. UnobservedErasesNothing' /\ FreshIsComplete'
      BY <2>1, <3>1, <3>2, CaseKeepsProfile
    <3> QED BY <3>2, <3>3 DEF PlanInv
  <2>2. ASSUME PlanInv, UNCHANGED planVars PROVE PlanInv'
    BY <2>2 DEF planVars, PlanInv, PlanTyped, TriedCases, ProvedByTried, SupportedProved,
                DecidedSoFar, UnobservedErasesNothing, FreshIsComplete, ProofKept
  <2> QED BY <2>1, <2>2
<1>3. PlanInv => PlanStoresProof
  BY DEF PlanInv, PlanStoresProof
<1> QED
  BY <1>1, <1>2, <1>3, PTL DEF PlanSpec
-----------------------------------------------------------------------------
(* UpstreamLeases: the slots of the lease table are the attempts that run.  *)

(* Where a request stands: what its phase says of its hedge and accounts.   *)
Stands(r) ==
    /\ phase[r] \in {"new", "waiting"} => hedge[r] = "idle"
    /\ phase[r] \in {"waiting", "sent"} => account[<<r, 0>>] \in Accounts
    /\ phase[r] = "sent" /\ hedge[r] = "racing" => account[<<r, 1>>] \in Accounts
    /\ phase[r] = "streaming" => serving[r] \in {0, 1}

Runs(x) == x[2] \in Running(x[1])

(* A lease is of an attempt that runs, on its account, and its next         *)
(* heartbeat comes before the lease can be swept.                           *)
Alive(x) ==
    lease[x] # NoLease =>
        /\ Runs(x)
        /\ lease[x].account = account[x]
        /\ lease[x].expires = lease[x].renewed + LeaseTtl
        /\ lease[x].renewed <= time
        /\ beat[x] # None /\ time <= beat[x] /\ beat[x] <= lease[x].renewed + Period(3)

Uncrowded(table) == \A a \in Accounts : Cardinality(InFlight(table, a)) <= MaxConcurrency

LeaseInv ==
    /\ StaleValidated
    /\ LeaseTypeOK
    /\ \A r \in Requests : Stands(r)
    /\ \A x \in Attempts : Alive(x)
    /\ RunningKeepsSlot
    /\ Uncrowded(lease)

(* The constants, and the heartbeat: it comes before the TTL and, with      *)
(* settings that were validated, before a lease counts as stale.            *)
LEMMA LeaseConstants ==
    /\ LeaseTtl \in Nat /\ StaleAfter \in Nat /\ MaxTime \in Nat /\ QueueWait \in Nat
    /\ QueueDepth \in Nat /\ Resets \in Nat /\ MaxConcurrency \in Nat
    /\ QueueDepth > 0 /\ MaxConcurrency > 0
    /\ Period(3) \in Nat /\ Period(3) > 0
    /\ Period(3) < LeaseTtl /\ (StaleValidated => Period(3) <= StaleAfter)
<1>1. /\ LeaseTtl \in Nat /\ StaleAfter \in Nat /\ MaxTime \in Nat /\ QueueWait \in Nat
      /\ QueueDepth \in Nat /\ Resets \in Nat /\ MaxConcurrency \in Nat
      /\ QueueDepth > 0 /\ MaxConcurrency > 0 /\ StaleAfter > 0
  BY LeaseAssumption
<1>2. LeaseTtl > 1
  BY LeaseAssumption
<1>3. Period(3) = IF LeaseTtl \div 3 < 1 THEN 1 ELSE LeaseTtl \div 3
  BY DEF Period, AtLeast
<1>4. LeaseTtl \div 3 \in Nat /\ 3 * (LeaseTtl \div 3) <= LeaseTtl
  BY <1>1
<1>5. ASSUME StaleValidated PROVE 3 * StaleAfter + 1 >= 2 * LeaseTtl
  <2>1. 3 * ((1000 * LeaseTtl) \div 3) >= 1000 * LeaseTtl - 2
    BY <1>1
  <2>2. (1000 * LeaseTtl) \div 3 \in Int
    BY <1>1
  <2> QED
    BY <1>1, <1>5, <2>1, <2>2 DEF StaleValidated
<1> QED
  BY <1>1, <1>2, <1>3, <1>4, <1>5

(* There are finitely many attempts.                                        *)
LEMMA AttemptsFinite == IsFiniteSet(Attempts)
<1>1. IsFiniteSet({0, 1})
  <2>1. {0, 1} = 0..1
    OBVIOUS
  <2> QED
    BY <2>1, FS_Interval, 0 \in Int, 1 \in Int
<1> QED
  BY <1>1, FS_Product, LeaseAssumption DEF Attempts

(* The parts of an attempt.                                                 *)
LEMMA AttemptParts ==
    /\ \A r \in Requests : <<r, 0>> \in Attempts /\ <<r, 1>> \in Attempts
    /\ \A x \in Attempts : x[1] \in Requests /\ x[2] \in {0, 1} /\ x = <<x[1], x[2]>>
BY DEF Attempts

(* No lease is taken for one: a lease has a deadline in the future.         *)
LEMMA NoLeaseApart == NoLease \notin Leases
<1>1. None \notin Times
  BY LeaseConstants DEF None, Times
<1> QED
  BY <1>1 DEF NoLease, Leases

(* A new lease is a lease.                                                  *)
LEMMA NewLeaseTyped ==
    ASSUME LeaseTypeOK, NEW a \in Accounts
    PROVE  /\ NewLease(a) \in Leases /\ NewLease(a) # NoLease
           /\ NewLease(a).account = a
           /\ NewLease(a).renewed = time
           /\ NewLease(a).expires = time + LeaseTtl
           /\ time + Period(3) \in Times /\ time + QueueWait \in Times
<1>1. time \in 0..MaxTime
  BY DEF LeaseTypeOK
<1>2. time + LeaseTtl \in Times /\ time + Period(3) \in Times /\ time + QueueWait \in Times
  BY <1>1, LeaseConstants DEF Times
<1>3. NewLease(a) \in Leases
  BY <1>1, <1>2 DEF NewLease, Leases
<1> QED
  BY <1>2, <1>3, NoLeaseApart DEF NewLease

(* Counting the leases of an account.                                       *)
LEMMA InFlightFinite ==
    ASSUME NEW table, NEW a
    PROVE  IsFiniteSet(InFlight(table, a)) /\ Cardinality(InFlight(table, a)) \in Nat
<1>1. InFlight(table, a) \in SUBSET Attempts
  BY DEF InFlight
<1> QED
  BY <1>1, AttemptsFinite, FS_Subset, FS_CardinalityType

(* A table in which every lease of an account was there before is no more   *)
(* crowded than before.                                                     *)
LEMMA FewerUncrowded ==
    ASSUME NEW old, NEW new, Uncrowded(old),
           \A a \in Accounts : InFlight(new, a) \subseteq InFlight(old, a)
    PROVE  Uncrowded(new)
<1> SUFFICES ASSUME NEW a \in Accounts PROVE Cardinality(InFlight(new, a)) <= MaxConcurrency
  BY DEF Uncrowded
<1>1. Cardinality(InFlight(new, a)) <= Cardinality(InFlight(old, a))
  BY InFlightFinite, FS_Subset
<1>2. Cardinality(InFlight(old, a)) <= MaxConcurrency
  BY DEF Uncrowded
<1> QED
  BY <1>1, <1>2, InFlightFinite, LeaseConstants

(* One lease more on an account that is not full.                           *)
LEMMA TakenUncrowded ==
    ASSUME LeaseTypeOK, NEW old \in [Attempts -> Leases \cup {NoLease}], Uncrowded(old),
           NEW x \in Attempts, NEW a \in Accounts, ~ Full(old, a)
    PROVE  Uncrowded([old EXCEPT ![x] = NewLease(a)])
<1> DEFINE new == [old EXCEPT ![x] = NewLease(a)]
<1> SUFFICES ASSUME NEW b \in Accounts PROVE Cardinality(InFlight(new, b)) <= MaxConcurrency
  BY DEF Uncrowded
<1>1. /\ new[x].account = a
      /\ \A y \in Attempts : y # x => new[y] = old[y]
  BY NewLeaseTyped
<1> HIDE DEF new
<1>2. CASE b = a
  <2>1. InFlight(new, b) \subseteq InFlight(old, a) \cup {x}
    BY <1>1, <1>2 DEF InFlight
  <2>2. Cardinality(InFlight(old, a)) < MaxConcurrency
    BY InFlightFinite, LeaseConstants DEF Full
  <2>3. /\ IsFiniteSet(InFlight(old, a) \cup {x})
        /\ Cardinality(InFlight(old, a) \cup {x}) =
              IF x \in InFlight(old, a) THEN Cardinality(InFlight(old, a))
              ELSE Cardinality(InFlight(old, a)) + 1
    BY InFlightFinite, FS_AddElement
  <2>4. Cardinality(InFlight(new, b)) <= Cardinality(InFlight(old, a) \cup {x})
    BY <2>1, <2>3, FS_Subset
  <2> QED
    BY <2>2, <2>3, <2>4, InFlightFinite, LeaseConstants
<1>3. CASE b # a
  <2>1. InFlight(new, b) \subseteq InFlight(old, b)
    BY <1>1, <1>3 DEF InFlight
  <2>2. Cardinality(InFlight(new, b)) <= Cardinality(InFlight(old, b))
    BY <2>1, InFlightFinite, FS_Subset
  <2>3. Cardinality(InFlight(old, b)) <= MaxConcurrency
    BY DEF Uncrowded
  <2> QED
    BY <2>2, <2>3, InFlightFinite, LeaseConstants
<1> QED
  BY <1>2, <1>3

(* A sweep takes no lease of a running attempt: its heartbeat came in time. *)
LEMMA SweepTakesNothing ==
    ASSUME LeaseInv, NEW X
    PROVE  /\ Pruned(lease) = lease
           /\ Pruned(Released(lease, X)) = Released(lease, X)
<1>0. /\ lease \in [Attempts -> Leases \cup {NoLease}] /\ time \in 0..MaxTime
      /\ beat \in [Attempts -> Times \cup {None}]
  BY DEF LeaseInv, LeaseTypeOK
<1>1. \A x \in Attempts : lease[x] # NoLease => ~ Expired(lease[x]) /\ ~ Stale(lease[x])
  <2> TAKE x \in Attempts
  <2> HAVE lease[x] # NoLease
  <2>1. /\ lease[x].expires = lease[x].renewed + LeaseTtl
        /\ time <= beat[x] /\ beat[x] # None /\ beat[x] <= lease[x].renewed + Period(3)
    BY DEF LeaseInv, Alive
  <2>2. lease[x].renewed \in Nat /\ time \in Nat
    BY <1>0, LeaseConstants DEF Leases
  <2>3. beat[x] \in Nat
    BY <1>0, <2>1, LeaseConstants DEF Times
  <2> QED
    BY <2>1, <2>2, <2>3, LeaseConstants DEF Expired, Stale, LeaseInv
<1>2. Pruned(lease) = lease
  BY <1>0, <1>1 DEF Pruned
<1>3. \A x \in Attempts : Pruned(Released(lease, X))[x] = Released(lease, X)[x]
  BY <1>1 DEF Pruned, Released
<1>4. Pruned(Released(lease, X)) = Released(lease, X)
  BY <1>3 DEF Pruned, Released
<1> QED
  BY <1>2, <1>4

(* The parts of the invariant that the steps use.                           *)
LEMMA InvParts ==
    ASSUME LeaseInv
    PROVE  /\ LeaseTypeOK /\ RunningKeepsSlot /\ Uncrowded(lease)
           /\ \A r \in Requests : Stands(r)
           /\ \A x \in Attempts : Alive(x)
           /\ Pruned(lease) = lease
BY SweepTakesNothing DEF LeaseInv

-----------------------------------------------------------------------------
(* What a step may do to one attempt: end its lease with the attempt,       *)
(* leave it alone, or give it a fresh lease with a fresh heartbeat.         *)

Gone(x) == lease'[x] = NoLease /\ (Runs(x)' => x \in cleared')

Same(x) ==
    /\ lease'[x] = lease[x]
    /\ lease[x] # NoLease => beat'[x] = beat[x] /\ account'[x] = account[x]
    /\ Runs(x) <=> Runs(x)'
    /\ x \in cleared => x \in cleared'

Fresh(x) ==
    \E a \in Accounts :
        /\ lease'[x] = NewLease(a) /\ account'[x] = a
        /\ beat'[x] = time + Period(3)
        /\ Runs(x)'

Renews(x) == Gone(x) \/ Same(x) \/ Fresh(x)

(* Each of the three keeps what the invariant says of an attempt.           *)
LEMMA AttemptKept ==
    ASSUME LeaseTypeOK, NEW x \in Attempts, Alive(x), time' = time, Renews(x),
           x \notin cleared => (Runs(x) => lease[x] # NoLease)
    PROVE  /\ Alive(x)'
           /\ x \notin cleared' => (Runs(x)' => lease'[x] # NoLease)
<1>0. Period(3)' = Period(3) /\ Period(3) \in Nat
  BY LeaseConstants DEF Period, AtLeast
<1>1. CASE Gone(x)
  BY <1>1 DEF Gone, Alive
<1>2. CASE Same(x)
  BY <1>0, <1>2 DEF Same, Alive
<1>3. CASE Fresh(x)
  <2>1. PICK a \in Accounts : /\ lease'[x] = NewLease(a) /\ account'[x] = a
                              /\ beat'[x] = time + Period(3)
                              /\ Runs(x)'
    BY <1>3 DEF Fresh
  <2>2. /\ lease'[x].account = a /\ lease'[x].renewed = time
        /\ lease'[x].expires = time + LeaseTtl /\ lease'[x] # NoLease
    BY <2>1, NewLeaseTyped
  <2>3. time \in Nat
    BY LeaseConstants DEF LeaseTypeOK
  <2>4. time + Period(3) \in Nat /\ time + Period(3) # None /\ time <= time + Period(3)
    BY <1>0, <2>3 DEF None
  <2> QED
    BY <1>0, <2>1, <2>2, <2>3, <2>4 DEF Alive
<1> QED
  BY <1>1, <1>2, <1>3 DEF Renews

(* The requests that a step of another request does not touch.              *)
Untouched(q) ==
    /\ phase'[q] = phase[q] /\ hedge'[q] = hedge[q] /\ serving'[q] = serving[q]
    /\ \A i \in {0, 1} :
          /\ lease'[<<q, i>>] = lease[<<q, i>>]
          /\ beat'[<<q, i>>] = beat[<<q, i>>]
          /\ account'[<<q, i>>] = account[<<q, i>>]
          /\ <<q, i>> \in cleared => <<q, i>> \in cleared'

(* What a step of one request leaves of the other requests' attempts.       *)
LEMMA RequestStep ==
    ASSUME LeaseInv, NEW r \in Requests, time' = time,
           LeaseTypeOK', Uncrowded(lease'), Stands(r)',
           Renews(<<r, 0>>), Renews(<<r, 1>>),
           \A q \in Requests : q # r => Untouched(q)
    PROVE  LeaseInv'
<1>0. /\ LeaseTypeOK /\ RunningKeepsSlot
      /\ \A q \in Requests : Stands(q)
      /\ \A x \in Attempts : Alive(x)
  BY InvParts
<1>1. ASSUME NEW q \in Requests PROVE Stands(q)'
  <2>1. CASE q # r
    BY <1>0, <2>1 DEF Untouched, Stands
  <2> QED
    BY <2>1
<1>2. ASSUME NEW x \in Attempts PROVE Renews(x)
  <2>1. x[1] \in Requests /\ x[2] \in {0, 1} /\ x = <<x[1], x[2]>>
    BY AttemptParts
  <2>2. CASE x[1] = r
    BY <2>1, <2>2
  <2>3. CASE x[1] # r
    <3>1. Untouched(x[1])
      BY <2>1, <2>3
    <3>2. lease'[x] = lease[x] /\ beat'[x] = beat[x] /\ account'[x] = account[x]
          /\ (x \in cleared => x \in cleared')
      BY <2>1, <3>1 DEF Untouched
    <3>3. Runs(x) <=> Runs(x)'
      BY <3>1 DEF Untouched, Runs, Running
    <3> QED
      BY <3>2, <3>3 DEF Renews, Same
  <2> QED
    BY <2>2, <2>3
<1>3. ASSUME NEW x \in Attempts
      PROVE  /\ Alive(x)'
             /\ x \notin cleared' => (Runs(x)' => lease'[x] # NoLease)
  <2>1. x \notin cleared => (Runs(x) => lease[x] # NoLease)
    BY <1>0 DEF RunningKeepsSlot, Runs
  <2> QED
    BY <1>0, <1>2, <2>1, AttemptKept
<1>4. RunningKeepsSlot'
  BY <1>3 DEF RunningKeepsSlot, Runs
<1>5. Uncrowded(lease)'
  BY DEF Uncrowded, InFlight
<1> QED
  BY <1>1, <1>3, <1>4, <1>5 DEF LeaseInv

(* Reserving a slot keeps the invariant.                                    *)
LEMMA ReserveSafe ==
    ASSUME LeaseInv, NEW r \in Requests, NEW a \in Accounts, Reserve(r, a)
    PROVE  LeaseInv'
<1> DEFINE x == <<r, 0>>
<1>0. /\ phase[r] = "new" /\ ~ Full(lease, a)
      /\ lease' = [lease EXCEPT ![x] = NewLease(a)]
      /\ beat' = [beat EXCEPT ![x] = time + Period(3)]
      /\ account' = [account EXCEPT ![x] = a]
      /\ phase' = [phase EXCEPT ![r] = "sent"]
      /\ UNCHANGED <<time, hedge, serving, depth, waitEnd, resets, cleared>>
  BY InvParts DEF Reserve
<1>1. x \in Attempts /\ <<r, 1>> \in Attempts /\ x # <<r, 1>>
  BY AttemptParts
<1>2. LeaseTypeOK /\ Stands(r) /\ Uncrowded(lease)
  BY InvParts
<1>3. LeaseTypeOK'
  BY <1>0, <1>1, <1>2, NewLeaseTyped DEF LeaseTypeOK, Times, Leases
<1>4. Stands(r)'
  BY <1>0, <1>1, <1>2 DEF Stands, LeaseTypeOK
<1>5. Renews(x)
  <2>1. Runs(x)'
    BY <1>0, <1>1, <1>2 DEF Runs, Running, LeaseTypeOK
  <2>2. lease'[x] = NewLease(a) /\ account'[x] = a /\ beat'[x] = time + Period(3)
    BY <1>0, <1>1, <1>2 DEF LeaseTypeOK
  <2> QED
    BY <2>1, <2>2 DEF Renews, Fresh
<1>6. Renews(<<r, 1>>)
  <2>1. ~ Runs(<<r, 1>>) /\ ~ Runs(<<r, 1>>)'
    BY <1>0, <1>2 DEF Runs, Running, LeaseTypeOK, Stands
  <2> QED
    BY <1>0, <1>1, <1>2, <2>1 DEF Renews, Same, LeaseTypeOK
<1>7. \A q \in Requests : q # r => Untouched(q)
  BY <1>0, <1>1, <1>2, AttemptParts DEF Untouched, LeaseTypeOK
<1>8. Uncrowded(lease')
  BY <1>0, <1>1, <1>2, TakenUncrowded DEF LeaseTypeOK
<1> QED
  BY <1>0, <1>3, <1>4, <1>5, <1>6, <1>7, <1>8, RequestStep

(* The queue: a request that waits or fails there holds no lease.           *)
LEMMA QueueSafe ==
    ASSUME LeaseInv, NEW r \in Requests, NEW a \in Accounts,
           EnterQueue(r, a) \/ FastFail(r, a) \/ PollQueue(r) \/ HangUpInQueue(r)
    PROVE  LeaseInv'
<1>0. /\ lease' = lease /\ beat' = beat
      /\ UNCHANGED <<time, hedge, serving, cleared>>
      /\ phase[r] \in {"new", "waiting"}
  BY InvParts DEF EnterQueue, FastFail, PollQueue, HangUpInQueue
<1>1. LeaseTypeOK /\ Stands(r) /\ Uncrowded(lease) /\ Alive(<<r, 0>>) /\ Alive(<<r, 1>>)
  BY InvParts, AttemptParts
<1>2. <<r, 0>> \in Attempts /\ <<r, 1>> \in Attempts /\ <<r, 0>> # <<r, 1>>
  BY AttemptParts
<1>3. LeaseTypeOK'
  <2>1. CASE EnterQueue(r, a)
    <3>1. depth[a] + 1 \in 0..QueueDepth
      BY <2>1, <1>1, LeaseConstants DEF EnterQueue, LeaseTypeOK
    <3>2. time + QueueWait \in Times
      BY <1>1, NewLeaseTyped
    <3>3. /\ depth' = [depth EXCEPT ![a] = depth[a] + 1]
          /\ waitEnd' = [waitEnd EXCEPT ![r] = time + QueueWait]
          /\ account' = [account EXCEPT ![<<r, 0>>] = a]
          /\ phase' = [phase EXCEPT ![r] = "waiting"] /\ resets' = resets
      BY <2>1 DEF EnterQueue
    <3> QED
      BY <1>0, <1>1, <1>2, <3>1, <3>2, <3>3 DEF LeaseTypeOK, Times, Leases
  <2>2. CASE FastFail(r, a)
    BY <1>0, <1>1, <2>2 DEF FastFail, LeaseTypeOK, Times, Leases
  <2>3. CASE PollQueue(r)
    <3> DEFINE b == account[<<r, 0>>]
    <3>1. b \in Accounts
      BY <1>1, <2>3 DEF PollQueue, Stands
    <3>2. AtLeast(depth[b] - 1, 0) \in 0..QueueDepth
      BY <1>1, <3>1, LeaseConstants DEF AtLeast, LeaseTypeOK
    <3>3. /\ depth' = [depth EXCEPT ![b] = AtLeast(depth[b] - 1, 0)]
          /\ waitEnd' = [waitEnd EXCEPT ![r] = None]
          /\ \E p \in {"new", "ended"} : phase' = [phase EXCEPT ![r] = p]
          /\ resets' = resets /\ account' = account
      BY <2>3 DEF PollQueue, LeaveQueue
    <3> HIDE DEF b
    <3> QED
      BY <1>0, <1>1, <3>2, <3>3 DEF LeaseTypeOK, Times, Leases
  <2>4. CASE HangUpInQueue(r)
    <3>1. resets + 1 \in 0..Resets
      BY <1>1, <2>4, LeaseConstants DEF HangUpInQueue, LeaseTypeOK
    <3> QED
      BY <1>0, <1>1, <2>4, <3>1 DEF HangUpInQueue, LeaseTypeOK, Times, Leases
  <2> QED
    BY <2>1, <2>2, <2>3, <2>4
<1>4. /\ \A q \in Requests : q # r => phase'[q] = phase[q] /\ account'[<<q, 0>>] = account[<<q, 0>>]
                                      /\ account'[<<q, 1>>] = account[<<q, 1>>]
      /\ phase'[r] \in {"new", "waiting", "ended"}
      /\ phase'[r] = "waiting" => account'[<<r, 0>>] \in Accounts
  BY <1>1, <1>2, AttemptParts DEF EnterQueue, FastFail, PollQueue, HangUpInQueue, LeaseTypeOK
<1>5. Stands(r)'
  BY <1>0, <1>1, <1>4 DEF Stands
<1>6. \A i \in {0, 1} : ~ Runs(<<r, i>>) /\ ~ Runs(<<r, i>>)'
  BY <1>0, <1>4 DEF Runs, Running
<1>7. \A i \in {0, 1} : lease[<<r, i>>] = NoLease
  BY <1>1, <1>6 DEF Alive
<1>8. Renews(<<r, 0>>) /\ Renews(<<r, 1>>)
  BY <1>0, <1>6, <1>7 DEF Renews, Gone
<1>9. \A q \in Requests : q # r => Untouched(q)
  BY <1>0, <1>4 DEF Untouched
<1> QED
  BY <1>0, <1>1, <1>3, <1>5, <1>8, <1>9, RequestStep

(* A table with leases taken off.                                           *)
LEMMA ReleasedTable ==
    ASSUME LeaseInv, NEW X
    PROVE  /\ Released(lease, X) \in [Attempts -> Leases \cup {NoLease}]
           /\ \A x \in Attempts : Released(lease, X)[x] = IF x \in X THEN NoLease ELSE lease[x]
           /\ Uncrowded(Released(lease, X))
<1>1. lease \in [Attempts -> Leases \cup {NoLease}] /\ Uncrowded(lease)
  BY InvParts DEF LeaseTypeOK
<1>2. \A a \in Accounts : InFlight(Released(lease, X), a) \subseteq InFlight(lease, a)
  BY DEF InFlight, Released
<1> QED
  BY <1>1, <1>2, FewerUncrowded DEF Released

(* The next attempt of a request keeps the invariant.                       *)
LEMMA ReserveNextSafe ==
    ASSUME LeaseInv, NEW r \in Requests, NEW i \in {0, 1}, ReserveNext(r, i)
    PROVE  LeaseInv'
<1> DEFINE x == <<r, i>>
           a == account[x]
           table == Released(lease, {x})
<1>0. /\ phase[r] = "sent" /\ hedge[r] = IF i = 0 THEN "idle" ELSE "racing"
      /\ IF Full(table, a)
           THEN /\ lease' = table
                /\ beat' = [beat EXCEPT ![x] = None]
                /\ phase' = [phase EXCEPT ![r] = IF i = 0 THEN "ended" ELSE phase[r]]
                /\ hedge' = [hedge EXCEPT ![r] = IF i = 0 THEN hedge[r] ELSE "over"]
           ELSE /\ lease' = [table EXCEPT ![x] = NewLease(a)]
                /\ beat' = [beat EXCEPT ![x] = time + Period(3)]
                /\ UNCHANGED <<phase, hedge>>
      /\ cleared' = cleared \ {x}
      /\ UNCHANGED <<time, account, serving, depth, waitEnd, resets>>
  <2>1. Pruned(Released(lease, {x})) = Released(lease, {x})
    BY SweepTakesNothing
  <2> QED
    BY <2>1 DEF ReserveNext
<1>1. LeaseTypeOK /\ Stands(r) /\ Uncrowded(lease) /\ Alive(<<r, 0>>) /\ Alive(<<r, 1>>)
  BY InvParts, AttemptParts
<1>2. x \in Attempts /\ <<r, 1 - i>> \in Attempts /\ x # <<r, 1 - i>> /\ i \in {0, 1}
  BY AttemptParts
<1>3. a \in Accounts
  BY <1>0, <1>1 DEF Stands
<1>4. /\ table \in [Attempts -> Leases \cup {NoLease}] /\ Uncrowded(table)
      /\ \A y \in Attempts : table[y] = IF y = x THEN NoLease ELSE lease[y]
  BY ReleasedTable
<1> HIDE DEF a, table
<1>5. CASE Full(table, a)
  <2>0. /\ lease' = table
        /\ beat' = [beat EXCEPT ![x] = None]
        /\ phase' = [phase EXCEPT ![r] = IF i = 0 THEN "ended" ELSE phase[r]]
        /\ hedge' = [hedge EXCEPT ![r] = IF i = 0 THEN hedge[r] ELSE "over"]
    BY <1>0, <1>5
  <2>1. LeaseTypeOK'
    BY <1>0, <1>1, <1>2, <1>4, <2>0 DEF LeaseTypeOK, Times, Leases
  <2>2. Stands(r)'
    BY <1>0, <1>1, <1>2, <2>0 DEF Stands, LeaseTypeOK
  <2>3. ~ Runs(x)' /\ lease'[x] = NoLease
    BY <1>0, <1>1, <1>2, <1>4, <2>0 DEF Runs, Running, LeaseTypeOK
  <2>4. Renews(x)
    BY <2>3 DEF Renews, Gone
  <2>5. Renews(<<r, 1 - i>>)
    <3>1. lease'[<<r, 1 - i>>] = lease[<<r, 1 - i>>] /\ beat'[<<r, 1 - i>>] = beat[<<r, 1 - i>>]
      BY <1>1, <1>2, <1>4, <2>0 DEF LeaseTypeOK
    <3>2. Runs(<<r, 1 - i>>) <=> Runs(<<r, 1 - i>>)'
      BY <1>0, <1>1, <1>2, <2>0 DEF Runs, Running, LeaseTypeOK
    <3> QED
      BY <1>0, <1>2, <3>1, <3>2 DEF Renews, Same
  <2>6. \A q \in Requests : q # r => Untouched(q)
    BY <1>0, <1>1, <1>2, <1>4, <2>0, AttemptParts DEF Untouched, LeaseTypeOK
  <2>7. Renews(<<r, 0>>) /\ Renews(<<r, 1>>)
    BY <1>2, <2>4, <2>5
  <2>8. Uncrowded(lease')
    BY <1>4, <2>0
  <2> QED
    BY <1>0, <2>1, <2>2, <2>6, <2>7, <2>8, RequestStep
<1>6. CASE ~ Full(table, a)
  <2>0. /\ lease' = [table EXCEPT ![x] = NewLease(a)]
        /\ beat' = [beat EXCEPT ![x] = time + Period(3)]
        /\ UNCHANGED <<phase, hedge>>
    BY <1>0, <1>6
  <2>1. LeaseTypeOK'
    BY <1>0, <1>1, <1>2, <1>3, <1>4, <2>0, NewLeaseTyped DEF LeaseTypeOK, Times, Leases
  <2>2. Stands(r)'
    BY <1>0, <1>1, <2>0 DEF Stands
  <2>3. Renews(x)
    <3>1. Runs(x)'
      BY <1>0, <1>1, <1>2, <2>0 DEF Runs, Running
    <3>2. lease'[x] = NewLease(a) /\ account'[x] = a /\ beat'[x] = time + Period(3)
      BY <1>0, <1>1, <1>2, <1>4, <2>0 DEF LeaseTypeOK, a
    <3> QED
      BY <1>3, <3>1, <3>2 DEF Renews, Fresh
  <2>4. Renews(<<r, 1 - i>>)
    <3>1. lease'[<<r, 1 - i>>] = lease[<<r, 1 - i>>] /\ beat'[<<r, 1 - i>>] = beat[<<r, 1 - i>>]
      BY <1>1, <1>2, <1>4, <2>0 DEF LeaseTypeOK
    <3>2. Runs(<<r, 1 - i>>) <=> Runs(<<r, 1 - i>>)'
      BY <1>0, <2>0 DEF Runs, Running
    <3> QED
      BY <1>0, <1>2, <3>1, <3>2 DEF Renews, Same
  <2>5. \A q \in Requests : q # r => Untouched(q)
    BY <1>0, <1>1, <1>2, <1>4, <2>0, AttemptParts DEF Untouched, LeaseTypeOK
  <2>6. Renews(<<r, 0>>) /\ Renews(<<r, 1>>)
    BY <1>2, <2>3, <2>4
  <2>7. Uncrowded(lease')
    BY <1>1, <1>2, <1>3, <1>4, <1>6, <2>0, TakenUncrowded
  <2> QED
    BY <1>0, <2>1, <2>2, <2>5, <2>6, <2>7, RequestStep
<1> QED
  BY <1>5, <1>6

(* Launching a hedge keeps the invariant.                                   *)
LEMMA LaunchHedgeSafe ==
    ASSUME LeaseInv, NEW r \in Requests, NEW b \in Accounts, LaunchHedge(r, b)
    PROVE  LeaseInv'
<1> DEFINE x == <<r, 1>>
<1>0. /\ phase[r] = "sent" /\ hedge[r] = "idle"
      /\ IF HedgeAdmitted(b)
           THEN /\ lease' = [lease EXCEPT ![x] = NewLease(b)]
                /\ beat' = [beat EXCEPT ![x] = time + Period(3)]
                /\ account' = [account EXCEPT ![x] = b]
                /\ hedge' = [hedge EXCEPT ![r] = "racing"]
           ELSE /\ hedge' = [hedge EXCEPT ![r] = "over"]
                /\ UNCHANGED <<lease, beat, account>>
      /\ UNCHANGED <<time, phase, serving, depth, waitEnd, resets, cleared>>
  BY InvParts DEF LaunchHedge
<1>1. LeaseTypeOK /\ Stands(r) /\ Uncrowded(lease)
  BY InvParts
<1>2. x \in Attempts /\ <<r, 0>> \in Attempts /\ x # <<r, 0>>
  BY AttemptParts
<1>3. CASE HedgeAdmitted(b)
  <2>0. /\ lease' = [lease EXCEPT ![x] = NewLease(b)]
        /\ beat' = [beat EXCEPT ![x] = time + Period(3)]
        /\ account' = [account EXCEPT ![x] = b]
        /\ hedge' = [hedge EXCEPT ![r] = "racing"]
        /\ ~ Full(lease, b)
    BY <1>0, <1>3 DEF HedgeAdmitted
  <2>1. LeaseTypeOK'
    BY <1>0, <1>1, <1>2, <2>0, NewLeaseTyped DEF LeaseTypeOK, Times, Leases
  <2>2. Stands(r)'
    BY <1>0, <1>1, <1>2, <2>0 DEF Stands, LeaseTypeOK
  <2>3. Renews(x)
    <3>1. Runs(x)'
      BY <1>0, <1>1, <2>0 DEF Runs, Running, LeaseTypeOK
    <3>2. lease'[x] = NewLease(b) /\ account'[x] = b /\ beat'[x] = time + Period(3)
      BY <1>1, <1>2, <2>0 DEF LeaseTypeOK
    <3> QED
      BY <3>1, <3>2 DEF Renews, Fresh
  <2>4. Renews(<<r, 0>>)
    <3>1. /\ lease'[<<r, 0>>] = lease[<<r, 0>>] /\ beat'[<<r, 0>>] = beat[<<r, 0>>]
          /\ account'[<<r, 0>>] = account[<<r, 0>>]
      BY <1>1, <1>2, <2>0 DEF LeaseTypeOK
    <3>2. Runs(<<r, 0>>) <=> Runs(<<r, 0>>)'
      BY <1>0 DEF Runs, Running
    <3> QED
      BY <1>0, <3>1, <3>2 DEF Renews, Same
  <2>5. \A q \in Requests : q # r => Untouched(q)
    BY <1>0, <1>1, <1>2, <2>0, AttemptParts DEF Untouched, LeaseTypeOK
  <2>6. Uncrowded(lease')
    BY <1>1, <1>2, <2>0, TakenUncrowded DEF LeaseTypeOK
  <2> QED
    BY <1>0, <2>1, <2>2, <2>3, <2>4, <2>5, <2>6, RequestStep
<1>4. CASE ~ HedgeAdmitted(b)
  <2>0. hedge' = [hedge EXCEPT ![r] = "over"] /\ UNCHANGED <<lease, beat, account>>
    BY <1>0, <1>4
  <2>1. LeaseTypeOK' /\ Stands(r)'
    BY <1>0, <1>1, <2>0 DEF LeaseTypeOK, Times, Leases, Stands
  <2>2. \A i \in {0, 1} : Runs(<<r, i>>) <=> Runs(<<r, i>>)'
    BY <1>0, <1>1, <2>0 DEF Runs, Running, LeaseTypeOK
  <2>3. Renews(<<r, 0>>) /\ Renews(<<r, 1>>)
    BY <1>0, <2>0, <2>2 DEF Renews, Same
  <2>4. \A q \in Requests : q # r => Untouched(q)
    BY <1>0, <1>1, <2>0 DEF Untouched, LeaseTypeOK
  <2>5. Uncrowded(lease')
    BY <1>1, <2>0
  <2> QED
    BY <1>0, <2>1, <2>3, <2>4, <2>5, RequestStep
<1> QED
  BY <1>3, <1>4

(* An attempt is dropped: the hedge that failed, or the one that lost.      *)
LEMMA DropSafe ==
    ASSUME LeaseInv, NEW r \in Requests,
           HedgeFails(r) \/ FirstOutput(r, 0) \/ FirstOutput(r, 1)
    PROVE  LeaseInv'
<1>0. PICK i \in {0, 1} :
        /\ phase[r] = "sent"
        /\ lease' = Released(lease, {<<r, 1 - i>>})
        /\ beat' = [beat EXCEPT ![<<r, 1 - i>>] = None]
        /\ hedge' = [hedge EXCEPT ![r] = "over"]
        /\ \/ i = 0 /\ UNCHANGED <<phase, serving>>
           \/ /\ phase' = [phase EXCEPT ![r] = "streaming"]
              /\ serving' = [serving EXCEPT ![r] = i]
              /\ i = 1 => hedge[r] = "racing"
        /\ UNCHANGED <<time, account, depth, waitEnd, resets, cleared>>
  <2>1. CASE HedgeFails(r)
    <3>1. 1 - 0 = 1
      OBVIOUS
    <3> QED
      BY <2>1, <3>1 DEF HedgeFails, DropAttempt
  <2>2. CASE FirstOutput(r, 0)
    BY <2>2 DEF FirstOutput, DropAttempt
  <2>3. CASE FirstOutput(r, 1)
    BY <2>3 DEF FirstOutput, DropAttempt
  <2> QED
    BY <2>1, <2>2, <2>3
<1> DEFINE x == <<r, 1 - i>>
           y == <<r, i>>
<1>1. LeaseTypeOK /\ Stands(r) /\ Uncrowded(lease)
  BY InvParts
<1>2. x \in Attempts /\ y \in Attempts /\ x # y
  BY AttemptParts
<1>3. /\ lease' \in [Attempts -> Leases \cup {NoLease}] /\ Uncrowded(lease')
      /\ \A z \in Attempts : lease'[z] = IF z = x THEN NoLease ELSE lease[z]
  BY <1>0, ReleasedTable
<1>4. LeaseTypeOK'
  BY <1>0, <1>1, <1>2, <1>3 DEF LeaseTypeOK, Times, Leases
<1>5. Stands(r)'
  BY <1>0, <1>1 DEF Stands, LeaseTypeOK
<1>6. Renews(x)
  <2>1. ~ Runs(x)'
    BY <1>0, <1>1 DEF Runs, Running, LeaseTypeOK
  <2> QED
    BY <1>2, <1>3, <2>1 DEF Renews, Gone
<1>7. Renews(y)
  <2>1. lease'[y] = lease[y] /\ beat'[y] = beat[y]
    BY <1>0, <1>1, <1>2, <1>3 DEF LeaseTypeOK
  <2>2. Runs(y) <=> Runs(y)'
    BY <1>0, <1>1 DEF Runs, Running, LeaseTypeOK
  <2> QED
    BY <1>0, <2>1, <2>2 DEF Renews, Same
<1>8. Renews(<<r, 0>>) /\ Renews(<<r, 1>>)
  BY <1>6, <1>7
<1>9. \A q \in Requests : q # r => Untouched(q)
  BY <1>0, <1>1, <1>2, <1>3, AttemptParts DEF Untouched, LeaseTypeOK
<1> QED
  BY <1>0, <1>3, <1>4, <1>5, <1>8, <1>9, RequestStep

(* The end of an attempt keeps the invariant.                               *)
LEMMA EndSafe ==
    ASSUME LeaseInv, NEW r \in Requests, End(r)
    PROVE  LeaseInv'
<1>0. /\ lease' = Released(lease, {<<r, 0>>, <<r, 1>>})
      /\ \/ beat' = [beat EXCEPT ![<<r, 0>>] = None, ![<<r, 1>>] = None]
         \/ beat' = beat
      /\ phase' = [phase EXCEPT ![r] = "ended"]
      /\ hedge' = [hedge EXCEPT ![r] = "over"]
      /\ UNCHANGED <<time, account, serving, depth, waitEnd, resets, cleared>>
  BY DEF End
<1>1. LeaseTypeOK /\ Stands(r)
  BY InvParts
<1>2. <<r, 0>> \in Attempts /\ <<r, 1>> \in Attempts /\ <<r, 0>> # <<r, 1>>
  BY AttemptParts
<1>3. /\ lease' \in [Attempts -> Leases \cup {NoLease}] /\ Uncrowded(lease')
      /\ \A z \in Attempts :
            lease'[z] = IF z \in {<<r, 0>>, <<r, 1>>} THEN NoLease ELSE lease[z]
  BY <1>0, ReleasedTable
<1>4. LeaseTypeOK'
  BY <1>0, <1>1, <1>2, <1>3 DEF LeaseTypeOK, Times, Leases
<1>5. Stands(r)'
  BY <1>0, <1>1 DEF Stands, LeaseTypeOK
<1>6. \A i \in {0, 1} : ~ Runs(<<r, i>>)'
  BY <1>0, <1>1 DEF Runs, Running, LeaseTypeOK
<1>7. Renews(<<r, 0>>) /\ Renews(<<r, 1>>)
  BY <1>2, <1>3, <1>6 DEF Renews, Gone
<1>8. ASSUME NEW q \in Requests, q # r PROVE Untouched(q)
  <2>1. \A i \in {0, 1} : /\ <<q, i>> \in Attempts
                          /\ <<q, i>> # <<r, 0>> /\ <<q, i>> # <<r, 1>>
    BY <1>8, AttemptParts
  <2>2. beat \in [Attempts -> Times \cup {None}]
    BY <1>1 DEF LeaseTypeOK
  <2>3. \A i \in {0, 1} : beat'[<<q, i>>] = beat[<<q, i>>]
    BY <1>0, <2>1, <2>2
  <2>4. \A i \in {0, 1} : lease'[<<q, i>>] = lease[<<q, i>>]
    BY <1>3, <2>1
  <2>5. phase'[q] = phase[q] /\ hedge'[q] = hedge[q]
    BY <1>0, <1>1, <1>8 DEF LeaseTypeOK
  <2> QED
    BY <1>0, <2>3, <2>4, <2>5 DEF Untouched
<1> QED
  BY <1>0, <1>3, <1>4, <1>5, <1>7, <1>8, RequestStep

(* A renewal counts no lease more.                                          *)
LEMMA RenewedTable ==
    ASSUME LeaseInv, NEW x \in Attempts
    PROVE  /\ Renewed(lease, x) \in [Attempts -> Leases \cup {NoLease}]
           /\ \A y \in Attempts : y # x => Renewed(lease, x)[y] = lease[y]
           /\ lease[x] = NoLease => Renewed(lease, x)[x] = NoLease
           /\ lease[x] # NoLease =>
                 /\ lease[x].account \in Accounts
                 /\ Renewed(lease, x)[x] = NewLease(lease[x].account)
           /\ Uncrowded(Renewed(lease, x))
<1>0. /\ LeaseTypeOK /\ lease \in [Attempts -> Leases \cup {NoLease}] /\ Uncrowded(lease)
  BY InvParts DEF LeaseTypeOK
<1>1. lease[x] # NoLease => lease[x].account \in Accounts
  BY <1>0 DEF Leases
<1>2. /\ \A y \in Attempts : y # x => Renewed(lease, x)[y] = lease[y]
      /\ lease[x] = NoLease => Renewed(lease, x)[x] = NoLease
      /\ lease[x] # NoLease => Renewed(lease, x)[x] = NewLease(lease[x].account)
  BY <1>0 DEF Renewed
<1>3. Renewed(lease, x) \in [Attempts -> Leases \cup {NoLease}]
  <2>1. Renewed(lease, x)[x] \in Leases \cup {NoLease}
    BY <1>0, <1>1, <1>2, NewLeaseTyped
  <2>2. Renewed(lease, x) = [lease EXCEPT ![x] = Renewed(lease, x)[x]]
    BY <1>0 DEF Renewed
  <2> QED
    BY <1>0, <2>1, <2>2
<1>4. \A a \in Accounts : InFlight(Renewed(lease, x), a) \subseteq InFlight(lease, a)
  <2> TAKE a \in Accounts
  <2> SUFFICES ASSUME NEW y \in Attempts, Renewed(lease, x)[y] # NoLease,
                      Renewed(lease, x)[y].account = a
               PROVE  lease[y] # NoLease /\ lease[y].account = a
    BY DEF InFlight
  <2>1. CASE y = x
    BY <1>0, <1>1, <1>2, <2>1, NewLeaseTyped
  <2>2. CASE y # x
    BY <1>2, <2>2
  <2> QED
    BY <2>1, <2>2
<1>5. Uncrowded(Renewed(lease, x))
  BY <1>0, <1>4, FewerUncrowded
<1> QED
  BY <1>1, <1>2, <1>3, <1>5

(* A heartbeat keeps the invariant.                                         *)
LEMMA HeartbeatSafe ==
    ASSUME LeaseInv, NEW x \in Attempts, Heartbeat(x)
    PROVE  LeaseInv'
<1>0. /\ lease' = Renewed(lease, x)
      /\ beat' = [beat EXCEPT ![x] = time + Period(3)]
      /\ UNCHANGED <<time, phase, account, hedge, serving, depth, waitEnd, resets, cleared>>
  BY InvParts DEF Heartbeat
<1>1. LeaseTypeOK /\ Alive(x) /\ (\A r \in Requests : Stands(r)) /\ (\A y \in Attempts : Alive(y))
      /\ RunningKeepsSlot
  BY InvParts
<1>2. time + Period(3) \in Times
  BY <1>1, NewLeaseTyped, LeaseConstants DEF LeaseTypeOK, Times
<1>3. LeaseTypeOK'
  BY <1>0, <1>1, <1>2, RenewedTable DEF LeaseTypeOK, Times, Leases
<1>4. \A r \in Requests : Stands(r)'
  BY <1>0, <1>1 DEF Stands
<1>5. \A y \in Attempts : Runs(y) <=> Runs(y)'
  BY <1>0 DEF Runs, Running
<1>6. ASSUME NEW y \in Attempts PROVE Renews(y)
  <2>1. CASE y # x
    <3>1. lease'[y] = lease[y] /\ beat'[y] = beat[y]
      BY <1>0, <1>1, <2>1, RenewedTable DEF LeaseTypeOK
    <3> QED
      BY <1>0, <1>5, <3>1 DEF Renews, Same
  <2>2. CASE y = x /\ lease[x] = NoLease
    <3>1. lease'[x] = lease[x]
      BY <1>0, <2>2, RenewedTable
    <3> QED
      BY <1>0, <1>5, <2>2, <3>1 DEF Renews, Same
  <2>3. CASE y = x /\ lease[x] # NoLease
    <3>1. lease'[x] = NewLease(lease[x].account) /\ lease[x].account \in Accounts
      BY <1>0, <2>3, RenewedTable
    <3>2. lease[x].account = account[x] /\ Runs(x)
      BY <1>1, <2>3 DEF Alive
    <3>3. beat'[x] = time + Period(3)
      BY <1>0, <1>1 DEF LeaseTypeOK
    <3> QED
      BY <1>0, <1>5, <2>3, <3>1, <3>2, <3>3 DEF Renews, Fresh
  <2> QED
    BY <2>1, <2>2, <2>3
<1>7. ASSUME NEW y \in Attempts
      PROVE  /\ Alive(y)'
             /\ y \notin cleared' => (Runs(y)' => lease'[y] # NoLease)
  <2>1. y \notin cleared => (Runs(y) => lease[y] # NoLease)
    BY <1>1 DEF RunningKeepsSlot, Runs
  <2> QED
    BY <1>0, <1>1, <1>6, <2>1, AttemptKept
<1>8. RunningKeepsSlot'
  BY <1>7 DEF RunningKeepsSlot, Runs
<1>9. Uncrowded(lease)'
  <2>1. Uncrowded(lease')
    BY <1>0, RenewedTable
  <2> QED
    BY <2>1 DEF Uncrowded, InFlight
<1> QED
  BY <1>3, <1>4, <1>7, <1>8, <1>9 DEF LeaseInv

(* A chunk renews the lease; the heartbeat keeps its own time.              *)
LEMMA RenewOnChunkSafe ==
    ASSUME LeaseInv, NEW r \in Requests, RenewOnChunk(r)
    PROVE  LeaseInv'
<1> DEFINE x == <<r, serving[r]>>
<1>0. /\ phase[r] = "streaming" /\ lease[x] # NoLease
      /\ lease' = Renewed(lease, x)
      /\ UNCHANGED <<time, beat, phase, account, hedge, serving, depth, waitEnd, resets, cleared>>
  BY InvParts DEF RenewOnChunk
<1>1. LeaseTypeOK /\ (\A q \in Requests : Stands(q)) /\ (\A y \in Attempts : Alive(y))
      /\ RunningKeepsSlot
  BY InvParts
<1>2. x \in Attempts
  <2>1. serving[r] \in {0, 1}
    BY <1>0, <1>1 DEF Stands
  <2> QED
    BY <2>1 DEF Attempts
<1> HIDE DEF x
<1>3. /\ lease' \in [Attempts -> Leases \cup {NoLease}]
      /\ \A y \in Attempts : y # x => lease'[y] = lease[y]
      /\ lease[x].account \in Accounts /\ lease'[x] = NewLease(lease[x].account)
      /\ Uncrowded(lease')
  BY <1>0, <1>2, RenewedTable
<1>4. /\ lease'[x] # NoLease /\ lease'[x].account = lease[x].account
      /\ lease'[x].renewed = time /\ lease'[x].expires = time + LeaseTtl
  BY <1>1, <1>3, NewLeaseTyped
<1>5. LeaseTypeOK'
  BY <1>0, <1>1, <1>3 DEF LeaseTypeOK, Times, Leases
<1>6. \A q \in Requests : Stands(q)'
  BY <1>0, <1>1 DEF Stands
<1>7. \A y \in Attempts : Runs(y) <=> Runs(y)'
  BY <1>0 DEF Runs, Running
<1>8. Period(3)' = Period(3) /\ Period(3) \in Nat
  BY LeaseConstants DEF Period, AtLeast
<1>9. ASSUME NEW y \in Attempts PROVE Alive(y)'
  <2>1. CASE y # x
    BY <1>0, <1>1, <1>3, <1>7, <1>8, <2>1 DEF Alive
  <2>2. CASE y = x
    <3>1. /\ Runs(x) /\ lease[x].account = account[x] /\ lease[x].renewed <= time
          /\ beat[x] # None /\ time <= beat[x] /\ beat[x] <= lease[x].renewed + Period(3)
      BY <1>0, <1>1, <1>2 DEF Alive
    <3>2. lease[x].renewed \in Nat /\ time \in Nat
      BY <1>0, <1>1, <1>2, LeaseConstants DEF LeaseTypeOK, Leases
    <3>3. beat[x] \in Nat
      BY <1>1, <1>2, <3>1, LeaseConstants DEF LeaseTypeOK, Times
    <3>4. beat[x] <= time + Period(3)
      BY <1>8, <3>1, <3>2, <3>3
    <3> QED
      BY <1>0, <1>4, <1>7, <1>8, <2>2, <3>1, <3>2, <3>4 DEF Alive
  <2> QED
    BY <2>1, <2>2
<1>10. RunningKeepsSlot'
  BY <1>0, <1>1, <1>3, <1>4, <1>7 DEF RunningKeepsSlot, Runs
<1>11. Uncrowded(lease)'
  BY <1>3 DEF Uncrowded, InFlight
<1> QED
  BY <1>5, <1>6, <1>9, <1>10, <1>11 DEF LeaseInv

(* An administrator's reset of an account keeps the invariant.              *)
LEMMA ResetSafe ==
    ASSUME LeaseInv, NEW a \in Accounts, ResetConcurrency(a)
    PROVE  LeaseInv'
<1>0. /\ resets < Resets /\ resets' = resets + 1
      /\ cleared' = cleared \cup InFlight(lease, a)
      /\ lease' = Released(lease, InFlight(lease, a))
      /\ UNCHANGED <<time, beat, phase, account, hedge, serving, depth, waitEnd>>
  BY DEF ResetConcurrency
<1>1. LeaseTypeOK /\ (\A q \in Requests : Stands(q)) /\ (\A y \in Attempts : Alive(y))
      /\ RunningKeepsSlot
  BY InvParts
<1>2. /\ lease' \in [Attempts -> Leases \cup {NoLease}] /\ Uncrowded(lease')
      /\ \A z \in Attempts : lease'[z] = IF z \in InFlight(lease, a) THEN NoLease ELSE lease[z]
  BY <1>0, ReleasedTable
<1>3. LeaseTypeOK'
  <2>1. resets + 1 \in 0..Resets
    BY <1>0, <1>1, LeaseConstants DEF LeaseTypeOK
  <2>2. cleared' \subseteq Attempts
    BY <1>0, <1>1 DEF LeaseTypeOK, InFlight
  <2> QED
    BY <1>0, <1>1, <1>2, <2>1, <2>2 DEF LeaseTypeOK, Times, Leases
<1>4. \A q \in Requests : Stands(q)'
  BY <1>0, <1>1 DEF Stands
<1>5. \A y \in Attempts : Runs(y) <=> Runs(y)'
  BY <1>0 DEF Runs, Running
<1>6. ASSUME NEW y \in Attempts PROVE Renews(y)
  BY <1>0, <1>2, <1>5 DEF Renews, Gone, Same
<1>7. ASSUME NEW y \in Attempts
      PROVE  /\ Alive(y)'
             /\ y \notin cleared' => (Runs(y)' => lease'[y] # NoLease)
  <2>1. y \notin cleared => (Runs(y) => lease[y] # NoLease)
    BY <1>1 DEF RunningKeepsSlot, Runs
  <2> QED
    BY <1>0, <1>1, <1>6, <2>1, AttemptKept
<1>8. RunningKeepsSlot'
  BY <1>7 DEF RunningKeepsSlot, Runs
<1>9. Uncrowded(lease)'
  BY <1>2 DEF Uncrowded, InFlight
<1> QED
  BY <1>3, <1>4, <1>7, <1>8, <1>9 DEF LeaseInv

(* A second passes only when no heartbeat is due in it.                     *)
LEMMA TickSafe ==
    ASSUME LeaseInv, Tick
    PROVE  LeaseInv'
<1>0. /\ time < MaxTime /\ time' = time + 1
      /\ \A x \in Attempts : beat[x] # None => beat[x] > time
      /\ UNCHANGED <<lease, beat, phase, account, hedge, serving, depth, waitEnd, resets, cleared>>
  BY DEF Tick
<1>1. LeaseTypeOK /\ (\A q \in Requests : Stands(q)) /\ (\A y \in Attempts : Alive(y))
      /\ RunningKeepsSlot /\ Uncrowded(lease)
  BY InvParts
<1>2. time \in Nat /\ time' \in 0..MaxTime
  BY <1>0, <1>1, LeaseConstants DEF LeaseTypeOK
<1>3. LeaseTypeOK'
  BY <1>0, <1>1, <1>2 DEF LeaseTypeOK, Times, Leases
<1>4. \A q \in Requests : Stands(q)'
  BY <1>0, <1>1 DEF Stands
<1>5. \A y \in Attempts : Runs(y) <=> Runs(y)'
  BY <1>0 DEF Runs, Running
<1>6. Period(3)' = Period(3)
  BY DEF Period, AtLeast
<1>7. ASSUME NEW y \in Attempts PROVE Alive(y)'
  <2> SUFFICES ASSUME lease[y] # NoLease
               PROVE  Alive(y)'
    BY <1>0 DEF Alive
  <2>1. /\ Runs(y) /\ lease[y].account = account[y] /\ lease[y].renewed <= time
        /\ lease[y].expires = lease[y].renewed + LeaseTtl
        /\ beat[y] # None /\ beat[y] <= lease[y].renewed + Period(3)
    BY <1>1 DEF Alive
  <2>2. lease[y].renewed \in Nat /\ beat[y] \in Nat
    BY <1>1, <2>1, LeaseConstants DEF LeaseTypeOK, Leases, Times
  <2>3. time' <= beat[y] /\ lease[y].renewed <= time'
    BY <1>0, <1>2, <2>1, <2>2
  <2> QED
    BY <1>0, <1>5, <1>6, <2>1, <2>3 DEF Alive
<1>8. RunningKeepsSlot'
  BY <1>0, <1>1, <1>5 DEF RunningKeepsSlot, Runs
<1>9. Uncrowded(lease)'
  BY <1>0, <1>1 DEF Uncrowded, InFlight
<1> QED
  BY <1>3, <1>4, <1>7, <1>8, <1>9 DEF LeaseInv

(* A step that changes nothing here keeps the invariant.                    *)
LEMMA StutterSafe ==
    ASSUME LeaseInv, UNCHANGED leaseVars
    PROVE  LeaseInv'
<1>0. UNCHANGED <<time, lease, beat, phase, account, hedge, serving, depth, waitEnd, resets, cleared>>
  BY DEF leaseVars
<1>1. LeaseTypeOK' /\ (\A q \in Requests : Stands(q)')
  BY <1>0 DEF LeaseInv, LeaseTypeOK, Times, Leases, Stands
<1>2. \A y \in Attempts : Alive(y)'
  BY <1>0 DEF LeaseInv, Alive, Runs, Running, Period, AtLeast
<1>3. RunningKeepsSlot' /\ Uncrowded(lease)'
  BY <1>0 DEF LeaseInv, RunningKeepsSlot, Running, Uncrowded, InFlight
<1> QED
  BY <1>1, <1>2, <1>3 DEF LeaseInv

(* The invariant holds at the start.                                        *)
LEMMA LeaseInitial == StaleValidated /\ LeaseInit => LeaseInv
<1> SUFFICES ASSUME StaleValidated, LeaseInit PROVE LeaseInv
  OBVIOUS
<1>1. LeaseTypeOK
  <2>1. 0 \in 0..MaxTime /\ 0 \in 0..QueueDepth /\ 0 \in 0..Resets
    BY LeaseConstants
  <2> QED
    BY <2>1 DEF LeaseInit, LeaseTypeOK
<1>2. \A r \in Requests : Stands(r)
  BY DEF LeaseInit, Stands
<1>3. \A x \in Attempts : Alive(x)
  BY DEF LeaseInit, Alive
<1>4. RunningKeepsSlot
  BY DEF LeaseInit, RunningKeepsSlot, Running, Attempts
<1>5. Uncrowded(lease)
  <2>1. \A a \in Accounts : InFlight(lease, a) = {}
    BY DEF LeaseInit, InFlight
  <2> QED
    BY <2>1, FS_EmptySet, LeaseConstants DEF Uncrowded
<1> QED
  BY <1>1, <1>2, <1>3, <1>4, <1>5 DEF LeaseInv

(* Every step keeps the invariant.                                          *)
LEMMA LeaseStep ==
    ASSUME LeaseInv, [LeaseNext]_leaseVars
    PROVE  LeaseInv'
<1>1. CASE \E r \in Requests, a \in Accounts :
             Reserve(r, a) \/ EnterQueue(r, a) \/ FastFail(r, a) \/ LaunchHedge(r, a)
  BY <1>1, ReserveSafe, QueueSafe, LaunchHedgeSafe
<1>2. CASE \E r \in Requests : PollQueue(r)
  <2>1. PICK r \in Requests : PollQueue(r)
    BY <1>2
  <2>2. account[<<r, 0>>] \in Accounts
    BY <2>1, InvParts DEF PollQueue, Stands
  <2> QED
    BY <2>1, <2>2, QueueSafe
<1>3. CASE \E r \in Requests : HangUpInQueue(r)
  <2>1. PICK r \in Requests : HangUpInQueue(r)
    BY <1>3
  <2>2. account[<<r, 0>>] \in Accounts
    BY <2>1, InvParts DEF HangUpInQueue, Stands
  <2> QED
    BY <2>1, <2>2, QueueSafe
<1>4. CASE \E r \in Requests : ReserveNext(r, 0) \/ ReserveNext(r, 1)
  BY <1>4, ReserveNextSafe
<1>5. CASE \E r \in Requests : HedgeFails(r) \/ FirstOutput(r, 0) \/ FirstOutput(r, 1)
  BY <1>5, DropSafe
<1>6. CASE \E r \in Requests : RenewOnChunk(r) \/ End(r)
  BY <1>6, RenewOnChunkSafe, EndSafe
<1>7. CASE \E x \in Attempts : Heartbeat(x)
  BY <1>7, HeartbeatSafe
<1>8. CASE \E a \in Accounts : ResetConcurrency(a)
  BY <1>8, ResetSafe
<1>9. CASE RuntimeSnapshot
  <2>1. UNCHANGED leaseVars
    BY <1>9, InvParts DEF RuntimeSnapshot, leaseVars
  <2> QED
    BY <2>1, StutterSafe
<1>10. CASE Tick
  BY <1>10, TickSafe
<1>11. CASE UNCHANGED leaseVars
  BY <1>11, StutterSafe
<1> QED
  BY <1>1, <1>2, <1>3, <1>4, <1>5, <1>6, <1>7, <1>8, <1>9, <1>10, <1>11 DEF LeaseNext

(* The attempts that run on an account are among its leases.                *)
LEMMA LeaseInvImplies == LeaseInv => SlotsTrue
<1> SUFFICES ASSUME LeaseInv PROVE SlotsTrue
  OBVIOUS
<1>1. LeaseTypeOK /\ RunningKeepsSlot /\ Uncrowded(lease) /\ \A x \in Attempts : Alive(x)
  BY InvParts
<1>2. EndedFreesSlot
  BY <1>1 DEF EndedFreesSlot, Alive, Runs
<1>3. RealConcurrency
  <2> SUFFICES ASSUME NEW a \in Accounts
               PROVE  Cardinality({x \in Attempts \ cleared : x[2] \in Running(x[1])
                                                              /\ account[x] = a})
                         <= MaxConcurrency
    BY DEF RealConcurrency
  <2> DEFINE S == {x \in Attempts \ cleared : x[2] \in Running(x[1]) /\ account[x] = a}
  <2>1. S \subseteq InFlight(lease, a)
    BY <1>1 DEF InFlight, RunningKeepsSlot, Alive
  <2> HIDE DEF S
  <2>2. Cardinality(S) <= Cardinality(InFlight(lease, a)) /\ Cardinality(S) \in Nat
    BY <2>1, InFlightFinite, FS_Subset, FS_CardinalityType
  <2>3. Cardinality(InFlight(lease, a)) <= MaxConcurrency
    BY <1>1 DEF Uncrowded
  <2>4. Cardinality(S) <= MaxConcurrency
    BY <2>2, <2>3, InFlightFinite, LeaseConstants
  <2> QED
    BY <2>4 DEF S
<1> QED
  BY <1>1, <1>2, <1>3 DEF SlotsTrue

(* state.rs UpstreamLeaseTable, gateway.rs: for any number of requests and  *)
(* accounts, hedges, retries, sweeps, late heartbeats and resets, the slots *)
(* of the table are the attempts that run: no account serves more than its  *)
(* max_concurrency, no running attempt loses its slot, none is left behind, *)
(* with any settings that were validated when they were saved.              *)
THEOREM SlotsAreTrue == StaleValidated /\ LeaseSpec => []SlotsTrue
BY LeaseInitial, LeaseStep, LeaseInvImplies, PTL DEF LeaseSpec

-----------------------------------------------------------------------------
(* A set of naturals that is not empty has a least element.                 *)
LEMMA LeastOf ==
    ASSUME NEW S \in SUBSET Nat, S # {}
    PROVE  \E n \in S : \A j \in S : n <= j
  <1> DEFINE R == {ss \in Nat \X Nat : ss[1] < ss[2]}
  <1>1. IsWellFoundedOn(R, Nat)
    BY NatLessThanWellFounded DEF OpToRel
  <1>2. \E x \in S : \A y \in S : ~ (<<y, x>> \in R)
    <2> HIDE DEF R
    <2> QED BY <1>1, WFMin
  <1>3. \A x, y \in Nat : ~ (<<y, x>> \in R) => x <= y
    OBVIOUS
  <1> HIDE DEF R
  <1> QED BY <1>2, <1>3

-----------------------------------------------------------------------------
(* StreamBody: what the client is shown and what is logged of a stream.     *)

Frames == Events \cup {"terminal", "usage", "done", "error"}
Bodies == [pending : Seq(Frames), fin : BOOLEAN, term : BOOLEAN, usable : BOOLEAN,
           tokens : BOOLEAN, reason : BOOLEAN, closed : BOOLEAN, skipped : Nat,
           stored : BOOLEAN, flushed : BOOLEAN, err : BOOLEAN]

(* Frames of which none is an error.                                        *)
Clean(frames) == frames \in Seq(Frames \ {"error"})

(* What the events of the upstream make of a body: it is one, it has queued *)
(* no error, and no usage log was flushed.                                  *)
Follows(d, b) == d \in Bodies /\ Clean(d.pending) /\ d.flushed = b.flushed

(* Frames of the stream are queued.                                         *)
LEMMA PendFollows ==
    ASSUME NEW b \in Bodies, Clean(b.pending), NEW frames, Clean(frames)
    PROVE  Follows(Pend(b, frames), b)
  <1>1. Clean(b.pending \o frames) /\ b.pending \o frames \in Seq(Frames)
    BY DEF Clean
  <1>2. Pend(b, frames) = [b EXCEPT !.pending = b.pending \o frames]
    BY DEF Pend
  <1> DEFINE p == b.pending \o frames
  <1> HIDE DEF p
  <1>3. Pend(b, frames) \in Bodies /\ Pend(b, frames).pending = p /\ Pend(b, frames).flushed = b.flushed
    BY <1>1, <1>2 DEF Bodies, p
  <1> QED BY <1>1, <1>3 DEF Follows, p

(* A frame of bad JSON.                                                     *)
LEMMA BadFollows ==
    ASSUME NEW b \in Bodies, Clean(b.pending)
    PROVE  Follows(BadFrame(b), b)
  <1>1. b.skipped + 1 \in Nat /\ (b.skipped + 1 > MaxSkipped) \in BOOLEAN
    BY StreamAssumption DEF Bodies
  <1> DEFINE s == b.skipped + 1
             over == b.skipped + 1 > MaxSkipped
  <1>2. BadFrame(b) = [b EXCEPT !.err = TRUE] \/ BadFrame(b) = [b EXCEPT !.skipped = s, !.err = over]
    BY DEF BadFrame
  <1>3. s \in Nat /\ over \in BOOLEAN
    BY <1>1
  <1> HIDE DEF s, over
  <1>4. Follows([b EXCEPT !.skipped = s, !.err = over], b)
    BY <1>3 DEF Follows, Bodies
  <1>5. Follows([b EXCEPT !.err = TRUE], b)
    BY DEF Follows, Bodies
  <1> QED BY <1>2, <1>4, <1>5

(* The frames that the gateway itself adds are no errors.                   *)
LEMMA AddedClean ==
    /\ Clean(<<>>) /\ \A f \in Frames \ {"error"} : Clean(<<f>>)
    /\ \A p, q : Clean(p) /\ Clean(q) => Clean(p \o q)
  <1>1. Clean(<<>>)
    BY DEF Clean
  <1>2. ASSUME NEW f \in Frames \ {"error"} PROVE Clean(<<f>>)
    BY DEF Clean
  <1>3. ASSUME NEW p, NEW q, Clean(p), Clean(q) PROVE Clean(p \o q)
    BY <1>3 DEF Clean
  <1> QED BY <1>1, <1>2, <1>3

(* What is queued is a frame, and none of it is an error.                   *)
LEMMA AddedFrames ==
    /\ {"terminal", "usage", "done"} \subseteq Frames \ {"error"}
    /\ Events \subseteq Frames \ {"error"}
BY DEF Frames, Events

(* The end of the stream.                                                   *)
LEMMA FinishFollows ==
    ASSUME NEW b \in Bodies, Clean(b.pending), NEW k \in BodyKinds
    PROVE  Follows(FinishStream(b, k), b)
  <1>a. Clean(<<"terminal">>) /\ Clean(<<"done">>) /\ Clean(<<"usage">>) /\ Clean(<<>>)
    BY AddedClean, AddedFrames
  <1>b. Clean(IF b.closed THEN <<>> ELSE <<"terminal">>) /\ Clean(IF b.reason THEN <<>> ELSE <<"terminal">>)
        /\ Clean(IF b.tokens THEN <<"usage">> ELSE <<>>)
    BY <1>a
  <1>c. Clean(Synthesized(b))
    BY <1>b, AddedClean DEF Synthesized
  <1>1. /\ Clean(<<"terminal">>) /\ Clean(<<"done">>) /\ Clean(<<>>)
        /\ Clean(Synthesized(b) \o <<"done">>)
        /\ Clean((IF b.closed THEN <<>> ELSE <<"terminal">>) \o <<"done">>)
    BY <1>a, <1>b, <1>c, AddedClean
  <1>2. Follows(Pend(b, Synthesized(b) \o <<"done">>), b)
    BY <1>1, PendFollows
  <1>3. Follows(Pend(CloseResponses(b), <<"done">>), b)
    <2>1. ASSUME NEW c \in Bodies, c.pending = b.pending, c.flushed = b.flushed
          PROVE  Follows(Pend(Pend(c, <<"terminal">>), <<"done">>), b)
      <3>1. Follows(Pend(c, <<"terminal">>), c)
        BY <1>1, <2>1, PendFollows
      <3>2. Pend(c, <<"terminal">>) \in Bodies /\ Clean(Pend(c, <<"terminal">>).pending)
        BY <3>1 DEF Follows
      <3>3. Follows(Pend(Pend(c, <<"terminal">>), <<"done">>), Pend(c, <<"terminal">>))
        BY <1>1, <3>2, PendFollows
      <3> QED BY <2>1, <3>1, <3>3 DEF Follows
    <2> DEFINE c1 == [b EXCEPT !.closed = TRUE]
               c2 == [b EXCEPT !.closed = TRUE, !.term = TRUE, !.stored = TRUE]
    <2>2. c1 \in Bodies /\ c1.pending = b.pending /\ c1.flushed = b.flushed
      BY DEF Bodies
    <2>3. c2 \in Bodies /\ c2.pending = b.pending /\ c2.flushed = b.flushed
      BY DEF Bodies
    <2>4. CloseResponses(b) = Pend(c1, <<"terminal">>) \/ CloseResponses(b) = Pend(c2, <<"terminal">>)
      BY DEF CloseResponses
    <2> HIDE DEF c1, c2
    <2> QED BY <2>1, <2>2, <2>3, <2>4
  <1>4. Follows(Pend([b EXCEPT !.closed = TRUE],
                     (IF b.closed THEN <<>> ELSE <<"terminal">>) \o <<"done">>), b)
    <2> DEFINE c == [b EXCEPT !.closed = TRUE]
               fs == (IF b.closed THEN <<>> ELSE <<"terminal">>) \o <<"done">>
    <2>1. c \in Bodies /\ c.pending = b.pending /\ c.flushed = b.flushed
      BY DEF Bodies
    <2>2. Clean(fs)
      BY <1>1
    <2> HIDE DEF c, fs
    <2>3. Follows(Pend(c, fs), c)
      BY <2>1, <2>2, PendFollows
    <2>4. Follows(Pend(c, fs), b)
      BY <2>1, <2>3 DEF Follows
    <2> QED BY <2>4 DEF c, fs
  <1>5. ASSUME NEW d, Follows(d, b) PROVE Follows([d EXCEPT !.fin = TRUE], b)
    BY <1>5 DEF Follows, Bodies
  <1>6. Follows([b EXCEPT !.err = TRUE], b) /\ Follows(b, b)
    BY DEF Follows, Bodies
  <1>7. \/ FinishStream(b, k) = b \/ FinishStream(b, k) = [b EXCEPT !.err = TRUE]
        \/ FinishStream(b, k) = [Pend(b, Synthesized(b) \o <<"done">>) EXCEPT !.fin = TRUE]
        \/ FinishStream(b, k) = [b EXCEPT !.fin = TRUE]
        \/ FinishStream(b, k) = [Pend(CloseResponses(b), <<"done">>) EXCEPT !.fin = TRUE]
        \/ FinishStream(b, k) = [Pend([b EXCEPT !.closed = TRUE],
                                   (IF b.closed THEN <<>> ELSE <<"terminal">>) \o <<"done">>)
                                 EXCEPT !.fin = TRUE]
    BY StreamAssumption DEF FinishStream
  <1> QED BY <1>2, <1>3, <1>4, <1>5, <1>6, <1>7

(* After the end of the stream a body is finished, or it has failed.        *)
LEMMA FinishEnds ==
    ASSUME NEW b \in Bodies, NEW k \in BodyKinds
    PROVE  FinishStream(b, k).fin \/ FinishStream(b, k).err
  <1>1. \A d : d \in Bodies => [d EXCEPT !.fin = TRUE].fin
    BY DEF Bodies
  <1> QED BY StreamAssumption DEF FinishStream, Bodies, Pend, CloseResponses

(* The [DONE] marker.                                                       *)
LEMMA DoneFollows ==
    ASSUME NEW b \in Bodies, Clean(b.pending), NEW k \in BodyKinds
    PROVE  Follows(DoneMarker(b, k), b)
  <1> DEFINE f == FinishStream(b, k)
  <1>1. Follows(f, b)
    BY FinishFollows
  <1>2. DoneMarker(b, k) = f \/ DoneMarker(b, k) = Pend(f, <<"done">>)
    BY DEF DoneMarker
  <1> HIDE DEF f
  <1>3. Follows(Pend(f, <<"done">>), f)
    BY <1>1, PendFollows, AddedClean, AddedFrames DEF Follows
  <1> QED BY <1>1, <1>2, <1>3 DEF Follows

(* A JSON event that is no failure.                                         *)
LEMMA JsonFollows ==
    ASSUME NEW b \in Bodies, Clean(b.pending), NEW k \in BodyKinds,
           NEW e \in {"created", "output", "final", "finalUsage"}
    PROVE  Follows(JsonEvent(b, k, e), b)
  <1> DEFINE final == e \in {"final", "finalUsage"}
             c == [b EXCEPT !.tokens = @ \/ e = "finalUsage",
                            !.usable = @ \/ e = "output",
                            !.reason = @ \/ final]
             t == <<IF final THEN "terminal" ELSE e>>
             c1 == [c EXCEPT !.term = @ \/ final]
             c2 == [c EXCEPT !.term = @ \/ final, !.stored = @ \/ final]
             c3 == [c EXCEPT !.closed = TRUE]
  <1>1. JsonEvent(b, k, e) \in {[b EXCEPT !.err = TRUE], Pend(c1, t), Pend(c2, t),
            Pend(c, IF final THEN <<>> ELSE <<e>>), Pend(c3, IF b.closed THEN <<>> ELSE <<"terminal">>),
            Pend(c, <<e>>)}
    BY StreamAssumption DEF JsonEvent
  <1>2. Follows([b EXCEPT !.err = TRUE], b)
    BY DEF Follows, Bodies
  <1>3. c \in Bodies /\ c.pending = b.pending /\ c.flushed = b.flushed
    <2> DEFINE p == b.tokens \/ e = "finalUsage"
               q == b.usable \/ e = "output"
               r == b.reason \/ final
    <2>1. c = [b EXCEPT !.tokens = p, !.usable = q, !.reason = r]
      OBVIOUS
    <2>2. p \in BOOLEAN /\ q \in BOOLEAN /\ r \in BOOLEAN
      OBVIOUS
    <2> HIDE DEF c, p, q, r
    <2> QED BY <2>1, <2>2 DEF Bodies
  <1>4. final \in BOOLEAN
    OBVIOUS
  <1>5. Clean(t) /\ Clean(<<e>>) /\ Clean(IF final THEN <<>> ELSE <<e>>)
        /\ Clean(IF b.closed THEN <<>> ELSE <<"terminal">>)
    BY AddedClean, AddedFrames DEF Events
  <1> HIDE DEF c, final, t
  <1>6. \A d \in {c1, c2, c3, c} : d \in Bodies /\ d.pending = b.pending /\ d.flushed = b.flushed
    BY <1>3, <1>4 DEF Bodies
  <1>7. ASSUME NEW d \in {c1, c2, c3, c}, NEW fs, Clean(fs) PROVE Follows(Pend(d, fs), b)
    <2>1. Follows(Pend(d, fs), d)
      BY <1>6, <1>7, PendFollows
    <2> QED BY <1>6, <2>1 DEF Follows
  <1> QED BY <1>1, <1>2, <1>5, <1>7

(* Any event.                                                               *)
LEMMA PushFollows ==
    ASSUME NEW b \in Bodies, Clean(b.pending), NEW k \in BodyKinds, NEW e \in Events
    PROVE  Follows(PushEvent(b, k, e), b)
  <1>1. Follows(b, b) /\ Follows([b EXCEPT !.err = TRUE], b)
    BY DEF Follows, Bodies
  <1>2. Follows(Pend(b, <<"comment">>), b)
    BY PendFollows, AddedClean, AddedFrames DEF Events
  <1>3. \/ PushEvent(b, k, e) \in {b, [b EXCEPT !.err = TRUE], Pend(b, <<"comment">>), BadFrame(b), DoneMarker(b, k)}
        \/ /\ e \in {"created", "output", "final", "finalUsage"}
           /\ PushEvent(b, k, e) = JsonEvent(b, k, e)
    BY DEF PushEvent, Events
  <1> QED BY <1>1, <1>2, <1>3, BadFollows, DoneFollows, JsonFollows

(* A terminal event is queued.                                              *)
Has(frames) == \E i \in DOMAIN frames : frames[i] = "terminal"

(* The terminal event against the state of the body, s telling that the     *)
(* client got it already: a body that ended, or that saw the end of its     *)
(* stream, has sent one, and, unless it is a translated Chat body, sends    *)
(* none that Drop does not know of.                                         *)
TerminalKnown(b, k, s) ==
    /\ k # "toChat" /\ (s \/ Has(b.pending)) => b.term \/ b.fin
    /\ \/ b.fin \/ (k = "chat" /\ b.reason) \/ (k = "responses" /\ b.term)
       \/ (k = "toChat" /\ b.closed)
       => s \/ Has(b.pending)

(* What is queued in a sequence of frames.                                  *)
LEMMA HasQueued ==
    /\ ~Has(<<>>) /\ \A f \in Frames : Has(<<f>>) <=> f = "terminal"
    /\ \A p, q \in Seq(Frames) : Has(p \o q) <=> Has(p) \/ Has(q)
    /\ \A p \in Seq(Frames) : p # <<>> => (Has(p) <=> Head(p) = "terminal" \/ Has(Tail(p)))
  <1>1. ~Has(<<>>)
    BY DEF Has
  <1>2. ASSUME NEW f \in Frames PROVE Has(<<f>>) <=> f = "terminal"
    <2>1. DOMAIN <<f>> = {1} /\ <<f>>[1] = f
      OBVIOUS
    <2> QED BY <2>1 DEF Has
  <1>3. ASSUME NEW p \in Seq(Frames), NEW q \in Seq(Frames) PROVE Has(p \o q) <=> Has(p) \/ Has(q)
    <2>1. /\ DOMAIN (p \o q) = 1 .. (Len(p) + Len(q)) /\ Len(p) \in Nat /\ Len(q) \in Nat
          /\ DOMAIN p = 1 .. Len(p) /\ DOMAIN q = 1 .. Len(q)
          /\ \A i \in 1 .. (Len(p) + Len(q)) :
                (p \o q)[i] = IF i <= Len(p) THEN p[i] ELSE q[i - Len(p)]
      OBVIOUS
    <2>2. ASSUME Has(p \o q) PROVE Has(p) \/ Has(q)
      <3>1. PICK i \in 1 .. (Len(p) + Len(q)) : (p \o q)[i] = "terminal"
        BY <2>1, <2>2 DEF Has
      <3>2. CASE i <= Len(p)
        BY <2>1, <3>1, <3>2 DEF Has
      <3>3. CASE ~(i <= Len(p))
        <4>1. i - Len(p) \in 1 .. Len(q) /\ q[i - Len(p)] = "terminal"
          BY <2>1, <3>1, <3>3
        <4> QED BY <2>1, <4>1 DEF Has
      <3> QED BY <3>2, <3>3
    <2>3. ASSUME Has(p) PROVE Has(p \o q)
      <3>1. PICK i \in 1 .. Len(p) : p[i] = "terminal"
        BY <2>1, <2>3 DEF Has
      <3>2. i \in 1 .. (Len(p) + Len(q)) /\ (p \o q)[i] = "terminal"
        BY <2>1, <3>1
      <3> QED BY <2>1, <3>2 DEF Has
    <2>4. ASSUME Has(q) PROVE Has(p \o q)
      <3>1. PICK i \in 1 .. Len(q) : q[i] = "terminal"
        BY <2>1, <2>4 DEF Has
      <3> DEFINE j == i + Len(p)
      <3>2. j \in 1 .. (Len(p) + Len(q)) /\ ~(j <= Len(p)) /\ j - Len(p) = i
        BY <2>1, <3>1
      <3>3. (p \o q)[j] = "terminal"
        BY <2>1, <3>1, <3>2
      <3> QED BY <2>1, <3>2, <3>3 DEF Has
    <2> QED BY <2>2, <2>3, <2>4
  <1>4. ASSUME NEW p \in Seq(Frames), p # <<>> PROVE Has(p) <=> Head(p) = "terminal" \/ Has(Tail(p))
    <2>1. /\ Head(p) \in Frames /\ Tail(p) \in Seq(Frames) /\ p = <<Head(p)>> \o Tail(p)
      BY <1>4
    <2> DEFINE h == <<Head(p)>>
    <2>2. h \in Seq(Frames) /\ (Has(h) <=> Head(p) = "terminal")
      BY <1>2, <2>1
    <2>3. Has(h \o Tail(p)) <=> Has(h) \/ Has(Tail(p))
      BY <1>3, <2>1, <2>2
    <2> QED BY <2>1, <2>2, <2>3
  <1> QED BY <1>1, <1>2, <1>3, <1>4

(* The fields of a body that has queued more.                               *)
LEMMA PendFields ==
    ASSUME NEW b \in Bodies, NEW frames \in Seq(Frames)
    PROVE  LET d == Pend(b, frames)
           IN /\ d \in Bodies /\ d.fin = b.fin /\ d.term = b.term /\ d.reason = b.reason
              /\ d.closed = b.closed /\ d.err = b.err
              /\ (Has(d.pending) <=> Has(b.pending) \/ Has(frames))
  <1> DEFINE p == b.pending \o frames
  <1>1. p \in Seq(Frames) /\ (Has(p) <=> Has(b.pending) \/ Has(frames))
    BY HasQueued DEF Bodies
  <1>2. Pend(b, frames) = [b EXCEPT !.pending = p]
    BY DEF Pend
  <1> HIDE DEF p
  <1> QED BY <1>1, <1>2 DEF Bodies

(* The end of the stream keeps account of the terminal event.               *)
LEMMA FinishTerminal ==
    ASSUME NEW b \in Bodies, NEW k \in BodyKinds, NEW s \in BOOLEAN, TerminalKnown(b, k, s)
    PROVE  TerminalKnown(FinishStream(b, k), k, s)
  <1> DEFINE T == <<"terminal">>
             D == <<"done">>
             E == <<>>
             U == <<"usage">>
  <1>1. /\ T \in Seq(Frames) /\ D \in Seq(Frames) /\ U \in Seq(Frames) /\ E \in Seq(Frames)
        /\ Has(T) /\ ~Has(D) /\ ~Has(U) /\ ~Has(E)
    <2>1. "terminal" \in Frames /\ "done" \in Frames /\ "usage" \in Frames
      BY DEF Frames
    <2> QED BY <2>1, HasQueued
  <1>2. ASSUME NEW p \in Seq(Frames), NEW q \in Seq(Frames)
        PROVE  p \o q \in Seq(Frames) /\ (Has(p \o q) <=> Has(p) \/ Has(q))
    BY HasQueued
  <1> HIDE DEF T, D, E, U
  <1>3. ASSUME NEW d \in Bodies
        PROVE  LET x == [d EXCEPT !.fin = TRUE] IN x.fin /\ x.pending = d.pending
    BY DEF Bodies
  <1>4. TerminalKnown([b EXCEPT !.err = TRUE], k, s)
    <2>1. LET x == [b EXCEPT !.err = TRUE]
          IN /\ x.fin = b.fin /\ x.term = b.term /\ x.reason = b.reason /\ x.closed = b.closed
             /\ x.pending = b.pending
      BY DEF Bodies
    <2> QED BY <2>1 DEF TerminalKnown
  <1>5. ASSUME NEW d \in Bodies, s \/ Has(d.pending) PROVE TerminalKnown([d EXCEPT !.fin = TRUE], k, s)
    BY <1>3, <1>5 DEF TerminalKnown
  <1>6. Synthesized(b) \in Seq(Frames) /\ (Has(Synthesized(b)) <=> ~b.reason)
    <2> DEFINE p == IF b.reason THEN E ELSE T
               q == IF b.tokens THEN U ELSE E
    <2>1. p \in Seq(Frames) /\ (Has(p) <=> ~b.reason) /\ q \in Seq(Frames) /\ ~Has(q)
      BY <1>1 DEF Bodies
    <2>2. Synthesized(b) = p \o q
      BY DEF Synthesized, T, E, U
    <2> HIDE DEF p, q
    <2> QED BY <1>2, <2>1, <2>2
  <1>7. CASE ~b.fin /\ k = "chat" /\ (b.reason \/ b.usable)
    <2> DEFINE fs == Synthesized(b) \o D
               d == Pend(b, fs)
    <2>1. fs \in Seq(Frames) /\ (Has(fs) <=> ~b.reason)
      BY <1>1, <1>2, <1>6
    <2>2. FinishStream(b, k) = [d EXCEPT !.fin = TRUE]
      BY <1>7 DEF FinishStream, Canonical, D
    <2> HIDE DEF fs
    <2>3. d \in Bodies /\ (Has(d.pending) <=> Has(b.pending) \/ ~b.reason)
      BY <2>1, PendFields
    <2> HIDE DEF d
    <2> QED BY <1>5, <1>7, <2>2, <2>3 DEF TerminalKnown, Bodies
  <1>8. CASE ~b.fin /\ k = "responses" /\ b.term
    <2>1. FinishStream(b, k) = [b EXCEPT !.fin = TRUE]
      BY <1>8 DEF FinishStream, Canonical
    <2> QED BY <1>5, <1>8, <2>1 DEF TerminalKnown
  <1>9. CASE ~b.fin /\ k = "toResponses" /\ (b.reason \/ b.usable)
    <2> DEFINE d == Pend(CloseResponses(b), D)
               c1 == [b EXCEPT !.closed = TRUE]
               c2 == [b EXCEPT !.closed = TRUE, !.term = TRUE, !.stored = TRUE]
    <2>1. FinishStream(b, k) = [d EXCEPT !.fin = TRUE]
      BY <1>9 DEF FinishStream, Canonical, D
    <2>2. c1 \in Bodies /\ c2 \in Bodies
      BY DEF Bodies
    <2>3. CloseResponses(b) = Pend(c1, T) \/ CloseResponses(b) = Pend(c2, T)
      BY DEF CloseResponses, T
    <2> HIDE DEF c1, c2
    <2>4. CloseResponses(b) \in Bodies /\ Has(CloseResponses(b).pending)
      <3>1. ASSUME NEW x \in Bodies PROVE Pend(x, T) \in Bodies /\ Has(Pend(x, T).pending)
        BY <1>1, PendFields
      <3> QED BY <2>2, <2>3, <3>1
    <2>5. d \in Bodies /\ Has(d.pending)
      BY <1>1, <2>4, PendFields
    <2> HIDE DEF d
    <2> QED BY <1>5, <2>1, <2>5
  <1>10. CASE ~b.fin /\ k = "toChat"
    <2> DEFINE c == [b EXCEPT !.closed = TRUE]
               fs == (IF b.closed THEN E ELSE T) \o D
               d == Pend(c, fs)
    <2>1. FinishStream(b, k) = [d EXCEPT !.fin = TRUE]
      BY <1>10 DEF FinishStream, Canonical, D, E, T
    <2>2. c \in Bodies /\ c.pending = b.pending
      BY DEF Bodies
    <2>3. fs \in Seq(Frames) /\ (Has(fs) <=> ~b.closed)
      BY <1>1, <1>2
    <2> HIDE DEF c, fs
    <2>4. d \in Bodies /\ (Has(d.pending) <=> Has(b.pending) \/ ~b.closed)
      BY <2>2, <2>3, PendFields
    <2> HIDE DEF d
    <2> QED BY <1>5, <1>10, <2>1, <2>4 DEF TerminalKnown, Bodies
  <1>11. CASE b.fin
    BY <1>11 DEF FinishStream
  <1>12. CASE ~b.fin /\ ~(k = "chat" /\ (b.reason \/ b.usable)) /\ ~(k = "responses" /\ b.term)
              /\ ~(k = "toResponses" /\ (b.reason \/ b.usable)) /\ k # "toChat"
    <2>1. FinishStream(b, k) = [b EXCEPT !.err = TRUE]
      BY <1>12, StreamAssumption DEF FinishStream, Canonical
    <2> QED BY <1>4, <2>1
  <1> QED BY <1>7, <1>8, <1>9, <1>10, <1>11, <1>12, Zenon

(* So does the [DONE] marker.                                               *)
LEMMA DoneTerminal ==
    ASSUME NEW b \in Bodies, Clean(b.pending), NEW k \in BodyKinds, NEW s \in BOOLEAN,
           TerminalKnown(b, k, s)
    PROVE  TerminalKnown(DoneMarker(b, k), k, s)
  <1> DEFINE f == FinishStream(b, k)
             D == <<"done">>
  <1>1. TerminalKnown(f, k, s) /\ f \in Bodies
    BY FinishTerminal, FinishFollows DEF Follows
  <1>2. DoneMarker(b, k) = f \/ DoneMarker(b, k) = Pend(f, D)
    BY DEF DoneMarker
  <1>3. D \in Seq(Frames) /\ ~Has(D)
    BY HasQueued DEF Frames
  <1> HIDE DEF f, D
  <1>4. LET d == Pend(f, D)
        IN /\ d.fin = f.fin /\ d.term = f.term /\ d.reason = f.reason /\ d.closed = f.closed
           /\ (Has(d.pending) <=> Has(f.pending))
    BY <1>1, <1>3, PendFields
  <1>5. TerminalKnown(Pend(f, D), k, s)
    BY <1>1, <1>4 DEF TerminalKnown
  <1> QED BY <1>1, <1>2, <1>5

(* So does a JSON event.                                                    *)
LEMMA JsonTerminal ==
    ASSUME NEW b \in Bodies, NEW k \in BodyKinds, NEW s \in BOOLEAN, TerminalKnown(b, k, s), ~b.fin,
           NEW e \in {"created", "output", "final", "finalUsage"}
    PROVE  TerminalKnown(JsonEvent(b, k, e), k, s)
  <1> DEFINE final == e \in {"final", "finalUsage"}
             c == [b EXCEPT !.tokens = @ \/ e = "finalUsage",
                            !.usable = @ \/ e = "output",
                            !.reason = @ \/ final]
             t == <<IF final THEN "terminal" ELSE e>>
             T == <<"terminal">>
             N == <<>>
             c1 == [c EXCEPT !.term = @ \/ final]
             c2 == [c EXCEPT !.term = @ \/ final, !.stored = @ \/ final]
             c3 == [c EXCEPT !.closed = TRUE]
  <1>1. /\ c \in Bodies /\ c.pending = b.pending /\ c.fin = b.fin /\ c.term = b.term /\ c.closed = b.closed
        /\ c.reason = (b.reason \/ final)
    BY DEF Bodies
  <1>2. final \in BOOLEAN /\ (~final => e # "terminal") /\ e \in Frames /\ "terminal" \in Frames
    BY DEF Frames, Events
  <1>3. /\ t \in Seq(Frames) /\ T \in Seq(Frames) /\ N \in Seq(Frames) /\ <<e>> \in Seq(Frames)
        /\ (Has(t) <=> final) /\ Has(T) /\ ~Has(N) /\ (~final => ~Has(<<e>>))
    BY <1>2, HasQueued
  <1>4. /\ Canonical(k) /\ final /\ b.reason => JsonEvent(b, k, e) = [b EXCEPT !.err = TRUE]
        /\ ~(Canonical(k) /\ final /\ b.reason) =>
             /\ k = "chat" => JsonEvent(b, k, e) = Pend(c1, t)
             /\ k = "responses" => JsonEvent(b, k, e) = Pend(c2, t)
             /\ k = "toResponses" => JsonEvent(b, k, e) = Pend(c, IF final THEN N ELSE <<e>>)
             /\ k = "toChat" => JsonEvent(b, k, e) =
                    IF final THEN Pend(c3, IF b.closed THEN N ELSE T) ELSE Pend(c, <<e>>)
    <2>1. CASE Canonical(k) /\ final /\ b.reason
      BY <2>1 DEF JsonEvent
    <2>2. CASE ~(Canonical(k) /\ final /\ b.reason)
      <3> USE <2>2
      <3>1. k = "chat" => JsonEvent(b, k, e) = Pend(c1, t)
        BY DEF JsonEvent
      <3>2. k = "responses" => JsonEvent(b, k, e) = Pend(c2, t)
        BY DEF JsonEvent
      <3>3. k = "toResponses" => JsonEvent(b, k, e) = Pend(c, IF final THEN N ELSE <<e>>)
        BY DEF JsonEvent
      <3>4. k = "toChat" => JsonEvent(b, k, e) =
                    IF final THEN Pend(c3, IF b.closed THEN N ELSE T) ELSE Pend(c, <<e>>)
        BY DEF JsonEvent
      <3> QED BY <3>1, <3>2, <3>3, <3>4
    <2> QED BY <2>1, <2>2
  <1> HIDE DEF c, final, t, T, N
  <1>5. /\ c1 \in Bodies /\ c1.pending = b.pending /\ c1.fin = b.fin /\ c1.reason = (b.reason \/ final)
        /\ c1.term = (b.term \/ final)
    <2>1. (b.term \/ final) \in BOOLEAN
      BY <1>2
    <2> DEFINE x == b.term \/ final
    <2>2. c1 = [c EXCEPT !.term = x] /\ x \in BOOLEAN
      BY <1>1, <2>1
    <2> HIDE DEF x, c1
    <2>3. c1 \in Bodies /\ c1.pending = c.pending /\ c1.fin = c.fin /\ c1.reason = c.reason /\ c1.term = x
      BY <1>1, <2>2 DEF Bodies
    <2> QED BY <1>1, <2>3 DEF x
  <1>6. c2 \in Bodies /\ c2.pending = b.pending /\ c2.fin = b.fin /\ c2.term = (b.term \/ final)
    <2> DEFINE x == b.term \/ final
               y == c.stored \/ final
    <2>1. x \in BOOLEAN /\ y \in BOOLEAN /\ c2 = [c EXCEPT !.term = x, !.stored = y]
      BY <1>1, <1>2
    <2> HIDE DEF x, y, c2
    <2>2. c2 \in Bodies /\ c2.pending = c.pending /\ c2.fin = c.fin /\ c2.term = x
      BY <1>1, <2>1 DEF Bodies
    <2> QED BY <1>1, <2>2 DEF x
  <1>7. c3 \in Bodies /\ c3.pending = b.pending /\ c3.fin = b.fin
    BY <1>1, <1>2 DEF Bodies
  <1>8. TerminalKnown([b EXCEPT !.err = TRUE], k, s)
    <2>1. LET x == [b EXCEPT !.err = TRUE]
          IN /\ x.fin = b.fin /\ x.term = b.term /\ x.reason = b.reason /\ x.closed = b.closed
             /\ x.pending = b.pending
      BY DEF Bodies
    <2> QED BY <2>1 DEF TerminalKnown
  <1> HIDE DEF c1, c2, c3
  <1>9. CASE k = "chat"
    <2>1. TerminalKnown(Pend(c1, t), k, s)
      BY <1>2, <1>3, <1>5, <1>9, PendFields DEF TerminalKnown, Bodies
    <2> QED BY <1>4, <1>8, <1>9, <2>1
  <1>10. CASE k = "responses"
    <2>1. TerminalKnown(Pend(c2, t), k, s)
      BY <1>2, <1>3, <1>6, <1>10, PendFields DEF TerminalKnown, Bodies
    <2> QED BY <1>4, <1>8, <1>10, <2>1
  <1>11. CASE k = "toResponses"
    <2> DEFINE fs == IF final THEN N ELSE <<e>>
    <2>1. fs \in Seq(Frames) /\ ~Has(fs)
      BY <1>2, <1>3
    <2> HIDE DEF fs
    <2>2. TerminalKnown(Pend(c, fs), k, s)
      BY <1>1, <1>11, <2>1, PendFields DEF TerminalKnown, Bodies
    <2> QED BY <1>4, <1>8, <1>11, <2>2 DEF fs
  <1>12. CASE k = "toChat"
    <2> DEFINE fs == IF b.closed THEN N ELSE T
    <2>1. fs \in Seq(Frames) /\ (Has(fs) <=> ~b.closed)
      BY <1>3 DEF Bodies
    <2> HIDE DEF fs
    <2>2. TerminalKnown(Pend(c3, fs), k, s)
      BY <1>7, <1>12, <2>1, PendFields DEF TerminalKnown, Bodies
    <2>3. ~final => TerminalKnown(Pend(c, <<e>>), k, s)
      BY <1>1, <1>3, <1>12, PendFields DEF TerminalKnown, Bodies
    <2> QED BY <1>4, <1>8, <1>12, <2>2, <2>3 DEF fs
  <1> QED BY <1>9, <1>10, <1>11, <1>12, StreamAssumption

(* And so does any event.                                                   *)
LEMMA PushTerminal ==
    ASSUME NEW b \in Bodies, Clean(b.pending), NEW k \in BodyKinds, NEW s \in BOOLEAN,
           TerminalKnown(b, k, s), NEW e \in Events
    PROVE  TerminalKnown(PushEvent(b, k, e), k, s)
  <1> DEFINE C == <<"comment">>
  <1>1. \/ PushEvent(b, k, e) = b
        \/ PushEvent(b, k, e) \in {[b EXCEPT !.err = TRUE], Pend(b, C), BadFrame(b), DoneMarker(b, k)}
        \/ /\ ~b.fin /\ e \in {"created", "output", "final", "finalUsage"}
           /\ PushEvent(b, k, e) = JsonEvent(b, k, e)
    BY DEF PushEvent, Events
  <1>2. C \in Seq(Frames) /\ ~Has(C)
    BY HasQueued DEF Frames, Events
  <1> HIDE DEF C
  <1>3. TerminalKnown(Pend(b, C), k, s)
    <2>1. LET d == Pend(b, C)
          IN /\ d.fin = b.fin /\ d.term = b.term /\ d.reason = b.reason /\ d.closed = b.closed
             /\ (Has(d.pending) <=> Has(b.pending))
      BY <1>2, PendFields
    <2> QED BY <2>1 DEF TerminalKnown
  <1>4. ASSUME NEW x, x = [b EXCEPT !.err = TRUE] \/ x = BadFrame(b) PROVE TerminalKnown(x, k, s)
    <2>1. /\ x.fin = b.fin /\ x.term = b.term /\ x.reason = b.reason /\ x.closed = b.closed
          /\ x.pending = b.pending
      BY <1>4 DEF BadFrame, Bodies
    <2> QED BY <2>1 DEF TerminalKnown
  <1> QED BY <1>1, <1>3, <1>4, DoneTerminal, JsonTerminal

(* r is the body after each of the first m events of a chunk.               *)
IsRun(r, m, b, k, chunk) ==
    r = [n \in 0 .. m |-> IF n = 0 THEN b ELSE PushEvent(r[n - 1], k, chunk[n])]

(* The loop over a chunk has a run.                                         *)
LEMMA DrainRuns ==
    ASSUME NEW b, NEW k, NEW chunk \in Seq(Events)
    PROVE  \E r : IsRun(r, Len(chunk), b, k, chunk)
  <1> DEFINE HasRun(m) == \E r : IsRun(r, m, b, k, chunk)
             S == {m \in Nat : ~HasRun(m)}
  <1>1. Len(chunk) \in Nat
    OBVIOUS
  <1>2. SUFFICES S = {}
    BY <1>1
  <1>3. SUFFICES ASSUME S # {} PROVE FALSE
    OBVIOUS
  <1>4. PICK m \in S : \A j \in S : m <= j
    <2> S \in SUBSET Nat
      OBVIOUS
    <2> HIDE DEF S
    <2> QED BY <1>3, LeastOf
  <1>5. CASE m = 0
    <2> DEFINE g == [n \in 0 .. 0 |-> b]
    <2>1. g = [n \in 0 .. m |-> IF n = 0 THEN b ELSE PushEvent(g[n - 1], k, chunk[n])]
      BY <1>5
    <2>2. HasRun(m)
      BY <2>1 DEF IsRun
    <2> QED BY <2>2, <1>4
  <1>6. CASE m # 0
    <2>1. m - 1 \in Nat /\ m - 1 < m /\ m \in Nat
      BY <1>4, <1>6
    <2>2. HasRun(m - 1)
      <3> HIDE DEF HasRun
      <3> QED BY <1>4, <2>1
    <2>3. PICK f : f = [n \in 0 .. m - 1 |-> IF n = 0 THEN b ELSE PushEvent(f[n - 1], k, chunk[n])]
      BY <2>2 DEF IsRun
    <2> DEFINE g == [n \in 0 .. m |-> IF n = m THEN PushEvent(f[m - 1], k, chunk[m]) ELSE f[n]]
    <2>4. \A n \in 0 .. m - 1 : g[n] = f[n] /\ f[n] = IF n = 0 THEN b ELSE PushEvent(f[n - 1], k, chunk[n])
      BY <2>1, <2>3
    <2>5. \A n \in 0 .. m : g[n] = IF n = 0 THEN b ELSE PushEvent(g[n - 1], k, chunk[n])
      <3>1. CASE m = 0
        BY <3>1, <1>6
      <3> TAKE n \in 0 .. m
      <3>2. CASE n = m
        <4>1. g[n] = PushEvent(f[m - 1], k, chunk[m])
          BY <3>2
        <4>2. f[m - 1] = g[m - 1]
          BY <2>1, <2>4
        <4> QED BY <4>1, <4>2, <3>2, <1>6
      <3>3. CASE n # m
        <4>1. n \in 0 .. m - 1 /\ (n # 0 => n - 1 \in 0 .. m - 1)
          BY <3>3, <2>1
        <4> HIDE DEF g
        <4> QED BY <4>1, <2>4
      <3> QED BY <3>2, <3>3
    <2>6. g = [n \in 0 .. m |-> g[n]]
      OBVIOUS
    <2> HIDE DEF g
    <2>7. g = [n \in 0 .. m |-> IF n = 0 THEN b ELSE PushEvent(g[n - 1], k, chunk[n])]
      BY <2>5, <2>6
    <2>8. HasRun(m)
      BY <2>7 DEF IsRun
    <2> QED BY <2>8, <1>4
  <1> QED BY <1>5, <1>6

(* A whole chunk, by least counterexample over its events.                  *)
LEMMA DrainFollows ==
    ASSUME NEW b \in Bodies, Clean(b.pending), NEW k \in BodyKinds, NEW chunk \in Seq(Events),
           NEW s \in BOOLEAN, TerminalKnown(b, k, s)
    PROVE  Follows(Drain(b, k, chunk), b) /\ TerminalKnown(Drain(b, k, chunk), k, s)
  <1> DEFINE g == CHOOSE r : IsRun(r, Len(chunk), b, k, chunk)
  <1>1. Drain(b, k, chunk) = g[Len(chunk)]
    BY Zenon DEF Drain, IsRun
  <1>2. g = [n \in 0 .. Len(chunk) |-> IF n = 0 THEN b ELSE PushEvent(g[n - 1], k, chunk[n])]
    <2>1. IsRun(g, Len(chunk), b, k, chunk)
      BY DrainRuns, Zenon
    <2> QED BY <2>1 DEF IsRun
  <1>3. Len(chunk) \in Nat
    OBVIOUS
  <1> HIDE DEF g
  <1> DEFINE Good(x) == Follows(x, b) /\ TerminalKnown(x, k, s)
             S == {m \in Nat : m <= Len(chunk) /\ ~Good(g[m])}
  <1>4. S = {}
    <2> SUFFICES ASSUME S # {} PROVE FALSE
      OBVIOUS
    <2>1. PICK m \in S : \A j \in S : m <= j
      <3> S \in SUBSET Nat
        OBVIOUS
      <3> HIDE DEF S
      <3> QED BY LeastOf
    <2>2. m \in Nat /\ m \in 0 .. Len(chunk) /\ ~Good(g[m])
      BY <2>1, <1>3
    <2>3. CASE m = 0
      <3>1. g[m] = b
        BY <1>2, <2>2, <2>3
      <3> QED BY <3>1, <2>2 DEF Follows
    <2>4. CASE m # 0
      <3>1. m - 1 \in Nat /\ m - 1 <= Len(chunk) /\ m - 1 < m
        BY <2>2, <2>4, <1>3
      <3>2. Good(g[m - 1])
        <4> HIDE DEF Good
        <4> QED BY <3>1, <2>1
      <3>3. g[m] = PushEvent(g[m - 1], k, chunk[m])
        BY <1>2, <2>2, <2>4
      <3>4. chunk[m] \in Events
        BY <2>2, <2>4, <1>3
      <3>5. Follows(g[m], g[m - 1]) /\ TerminalKnown(g[m], k, s)
        <4>1. g[m - 1] \in Bodies /\ Clean(g[m - 1].pending) /\ TerminalKnown(g[m - 1], k, s)
          BY <3>2 DEF Follows
        <4>2. Follows(PushEvent(g[m - 1], k, chunk[m]), g[m - 1])
          BY <3>4, <4>1, PushFollows
        <4>3. TerminalKnown(PushEvent(g[m - 1], k, chunk[m]), k, s)
          BY <3>4, <4>1, PushTerminal
        <4> QED BY <3>3, <4>2, <4>3
      <3> QED BY <3>2, <3>5, <2>2 DEF Follows
    <2> QED BY <2>3, <2>4
  <1> QED BY <1>1, <1>3, <1>4

(* Frames of which the last one is an error, and no other.                  *)
FailFrames(frames) == \E kept : Clean(kept) /\ frames = Append(kept, "error")

StreamTyped ==
    /\ kind \in BodyKinds /\ body \in Bodies
    /\ seen \in [error : BOOLEAN, terminal : BOOLEAN, late : BOOLEAN]
    /\ hasLog \in BOOLEAN /\ hasDone \in BOOLEAN

(* Only frames of the stream were queued or seen, and the terminal event is *)
(* accounted for.                                                           *)
NoErrorShown == /\ ~seen.error /\ Clean(body.pending)
                /\ TerminalKnown(body, kind, seen.terminal)

(* The error frame is the last one queued, or the last one seen.            *)
OneErrorShown == IF seen.error THEN body.pending = <<>> ELSE FailFrames(body.pending)

(* Nobody has spoken for the stream yet.                                    *)
Untold == mode = "loop" /\ logs = <<>> /\ hasLog /\ hasDone /\ NoErrorShown

(* The stream is told as a success.                                         *)
ToldSuccess ==
    /\ NoErrorShown
    /\ \/ mode = "flush" /\ logs = <<>>
       \/ mode \in {"release", "loop"} /\ logs = <<"200">>
       \/ mode = "over" /\ logs = <<"200">> /\ seen.terminal

(* The stream is told as a failure; one that could not be logged is told to *)
(* the client alone.                                                        *)
ToldFailure ==
    /\ ~hasDone /\ OneErrorShown
    /\ \/ mode \in {"fail", "failLog"} /\ logs = <<>> /\ ~seen.error
       \/ mode \in {"release", "loop"} /\ logs \in {<<>>, <<"error">>}
       \/ mode = "over" /\ seen.error /\ logs \in {<<>>, <<"error">>}

(* While the client reads, the log context leaves the body with the first   *)
(* decision about how the stream ended, and that decision is never revised. *)
ReadingInv ==
    /\ cleanup = "none"
    /\ IF body.flushed THEN ~hasLog /\ body.fin /\ (ToldSuccess \/ ToldFailure) ELSE Untold

(* The client left before the terminal event.                               *)
LeftEarly == kind # "toChat" => ~seen.terminal

(* After the client left, the clean-up logs only what nobody has logged.    *)
LeftInv ==
    \/ /\ logs = <<>>
       /\ \/ cleanup \in {"none", "successRelease"}
          \/ cleanup = "success" /\ ~seen.error
          \/ cleanup \in {"interrupt", "interruptLog"} /\ LeftEarly
    \/ /\ cleanup \in {"none", "successRelease"}
       /\ \/ logs = <<"200">> /\ ~seen.error
          \/ logs = <<"error">>
          \/ logs = <<"499">> /\ LeftEarly

StreamInv ==
    /\ StreamTyped /\ ~seen.late
    /\ stage \in {"route", "sending", "built"} /\ client = "open" =>
         /\ body = NewBody /\ mode = "loop" /\ logs = <<>> /\ cleanup = "none"
         /\ ~seen.error /\ seen.terminal = FALSE
         /\ stage = "built" => hasLog /\ hasDone
    /\ stage = "handed" => client \in {"open", "gone"}
    /\ stage = "handed" /\ client = "open" => ReadingInv
    /\ stage = "handed" /\ client = "gone" => LeftInv

(* The client receives a frame of the stream.                               *)
LEMMA SeesFrame ==
    ASSUME StreamTyped, NoErrorShown, body.pending # <<>>
    PROVE  ~See(Head(body.pending)).error /\ Clean(Tail(body.pending))
  <1>1. Head(body.pending) \in Frames \ {"error"} /\ Clean(Tail(body.pending))
    BY DEF NoErrorShown, Clean
  <1> QED BY <1>1 DEF See, NoErrorShown

(* The client receives a frame of a stream that failed.                     *)
LEMMA SeesFailure ==
    ASSUME StreamTyped, OneErrorShown, body.pending # <<>>
    PROVE  /\ ~seen.error
           /\ IF See(Head(body.pending)).error
                THEN Tail(body.pending) = <<>>
                ELSE FailFrames(Tail(body.pending))
  <1>1. ~seen.error /\ FailFrames(body.pending)
    BY DEF OneErrorShown
  <1>2. PICK kept : Clean(kept) /\ body.pending = Append(kept, "error")
    BY <1>1 DEF FailFrames
  <1>3. CASE kept = <<>>
    <2>1. body.pending = <<"error">>
      BY <1>2, <1>3
    <2>2. Head(body.pending) = "error" /\ Tail(body.pending) = <<>>
      BY <2>1
    <2> QED BY <1>1, <2>2 DEF See
  <1>4. CASE kept # <<>>
    <2>1. Head(kept) \in Frames \ {"error"} /\ Clean(Tail(kept))
      BY <1>2, <1>4 DEF Clean
    <2>2. kept \in Seq(Frames \ {"error"})
      BY <1>2 DEF Clean
    <2>3. Head(body.pending) = Head(kept)
      BY <1>2, <1>4, <2>2
    <2>4. Tail(body.pending) = Append(Tail(kept), "error")
      BY <1>2, <1>4, <2>2
    <2> QED BY <1>1, <2>1, <2>3, <2>4 DEF See, FailFrames
  <1> QED BY <1>3, <1>4

(* finish_with_gateway_error, from a stream nobody has told of yet.         *)
LEMMA FailTells ==
    ASSUME StreamInv, Live, ~body.flushed, NEW d \in Bodies, NEW kept, Clean(kept),
           StartFail(d, kept), UNCHANGED <<preVars, logs, client, cleanup, seen>>
    PROVE  StreamInv'
  <1>1. Untold /\ cleanup = "none"
    BY DEF StreamInv, ReadingInv, Live
  <1>2. Append(kept, "error") \in Seq(Frames)
    <2>1. kept \in Seq(Frames)
      BY DEF Clean
    <2> QED BY <2>1 DEF Frames
  <1> DEFINE p == Append(kept, "error")
  <1>3. p \in Seq(Frames) /\ FailFrames(p)
    BY <1>2 DEF FailFrames
  <1>4. body' = [d EXCEPT !.fin = TRUE, !.flushed = TRUE, !.err = FALSE, !.pending = p]
    BY DEF StartFail
  <1> HIDE DEF p
  <1>5. body' \in Bodies /\ body'.fin /\ body'.flushed /\ body'.pending = p
    BY <1>3, <1>4 DEF Bodies
  <1>6. StreamTyped' /\ ~seen'.late
    BY <1>5 DEF StreamInv, StreamTyped, StartFail, preVars
  <1>7. ToldFailure'
    BY <1>1, <1>3, <1>5 DEF Untold, NoErrorShown, ToldFailure, OneErrorShown, StartFail
  <1>8. ReadingInv'
    BY <1>1, <1>5, <1>7 DEF ReadingInv, StartFail
  <1> QED BY <1>6, <1>8 DEF StreamInv, Live, preVars

(* flush_usage_log, from a stream nobody has told of yet.                   *)
LEMMA FlushTells ==
    ASSUME StreamInv, Live, ~body.flushed, NEW d \in Bodies, ~d.flushed, d.fin, Clean(d.pending),
           TerminalKnown(d, kind, seen'.terminal), StartFlush(d), UNCHANGED <<preVars, logs, client, cleanup>>,
           seen' \in [error : BOOLEAN, terminal : BOOLEAN, late : BOOLEAN],
           ~seen'.late, ~seen'.error
    PROVE  StreamInv'
  <1>1. Untold /\ cleanup = "none"
    BY DEF StreamInv, ReadingInv, Live
  <1>2. /\ mode' = "flush" /\ hasLog' = FALSE /\ hasDone' = hasDone
        /\ body' = [d EXCEPT !.flushed = TRUE]
    BY DEF StartFlush
  <1>3. /\ body' \in Bodies /\ body'.fin /\ body'.flushed /\ body'.pending = d.pending
        /\ body'.term = d.term /\ body'.reason = d.reason /\ body'.closed = d.closed
    BY <1>2 DEF Bodies
  <1>4. StreamTyped' /\ ~seen'.late
    BY <1>2, <1>3 DEF StreamInv, StreamTyped, preVars
  <1>k. kind' = kind
    BY DEF preVars
  <1>t. TerminalKnown(body', kind', seen'.terminal)
    BY <1>3, <1>k DEF TerminalKnown
  <1>5. ToldSuccess'
    BY <1>1, <1>2, <1>3, <1>t DEF Untold, NoErrorShown, ToldSuccess
  <1>6. ReadingInv'
    BY <1>1, <1>2, <1>3, <1>5 DEF ReadingInv
  <1> QED BY <1>4, <1>6 DEF StreamInv, Live, preVars

(* The loop goes on with a body of which nobody has told yet.               *)
LEMMA LoopGoesOn ==
    ASSUME StreamInv, Live, ~body.flushed, NEW d \in Bodies, ~d.flushed, Clean(d.pending),
           TerminalKnown(d, kind, seen'.terminal), Continue(d), UNCHANGED <<preVars, logs, client, cleanup>>,
           seen' \in [error : BOOLEAN, terminal : BOOLEAN, late : BOOLEAN],
           ~seen'.late, ~seen'.error
    PROVE  StreamInv'
  <1>1. Untold /\ cleanup = "none"
    BY DEF StreamInv, ReadingInv, Live
  <1>2. mode' = mode /\ hasLog' = hasLog /\ hasDone' = hasDone /\ body' = d
    BY DEF Continue
  <1>3. StreamTyped'
    BY <1>2 DEF StreamInv, StreamTyped, preVars
  <1>t. TerminalKnown(body', kind', seen'.terminal)
    BY <1>2 DEF preVars
  <1>4. Untold'
    BY <1>1, <1>2, <1>t DEF Untold, NoErrorShown
  <1>5. ReadingInv'
    BY <1>1, <1>2, <1>4 DEF ReadingInv
  <1> QED BY <1>3, <1>5 DEF StreamInv, Live, preVars

(* A body that is read from is one of which nobody has told yet.            *)
LEMMA ReadingUntold ==
    ASSUME StreamInv, Reading
    PROVE  /\ Live /\ ~body.flushed /\ body \in Bodies /\ Clean(body.pending) /\ kind \in BodyKinds
           /\ seen \in [error : BOOLEAN, terminal : BOOLEAN, late : BOOLEAN]
           /\ ~seen.late /\ ~seen.error
           /\ seen.terminal \in BOOLEAN /\ TerminalKnown(body, kind, seen.terminal)
  <1>1. Live /\ ~body.fin
    BY DEF Reading, AtLoop
  <1>2. ReadingInv
    BY <1>1 DEF StreamInv, Live
  <1>3. ~body.flushed /\ Untold
    BY <1>1, <1>2 DEF ReadingInv
  <1> QED BY <1>1, <1>3 DEF StreamInv, StreamTyped, Untold, NoErrorShown

(* A chunk is read.                                                         *)
LEMMA ReadChunkKeeps ==
    ASSUME StreamInv, NEW c \in Chunks, ReadChunk(c)
    PROVE  StreamInv'
  <1>1. Reading
    BY DEF ReadChunk
  <1>2. /\ Live /\ ~body.flushed /\ body \in Bodies /\ Clean(body.pending) /\ kind \in BodyKinds
        /\ seen \in [error : BOOLEAN, terminal : BOOLEAN, late : BOOLEAN]
        /\ ~seen.late /\ ~seen.error
        /\ seen.terminal \in BOOLEAN /\ TerminalKnown(body, kind, seen.terminal)
    BY <1>1, ReadingUntold
  <1> DEFINE d == Drain(body, kind, c)
  <1>3. c \in Seq(Events)
    BY StreamAssumption
  <1>4. Follows(d, body) /\ TerminalKnown(d, kind, seen.terminal)
    BY <1>2, <1>3, DrainFollows
  <1>5. \/ StartFail(d, d.pending) \/ StartFail(d, <<>>)
        \/ (d.fin /\ StartFlush(d)) \/ Continue(d)
    BY DEF ReadChunk
  <1>6. UNCHANGED <<preVars, logs, client, cleanup, seen>>
    BY DEF ReadChunk
  <1> HIDE DEF d
  <1>7. d \in Bodies /\ Clean(d.pending) /\ ~d.flushed /\ Clean(<<>>)
    BY <1>2, <1>4, AddedClean DEF Follows
  <1> QED BY <1>2, <1>4, <1>5, <1>6, <1>7, FailTells, FlushTells, LoopGoesOn

(* The upstream ended.                                                      *)
LEMMA ReadEofKeeps ==
    ASSUME StreamInv, ReadEof
    PROVE  StreamInv'
  <1>1. Reading
    BY DEF ReadEof
  <1>2. /\ Live /\ ~body.flushed /\ body \in Bodies /\ Clean(body.pending) /\ kind \in BodyKinds
        /\ seen \in [error : BOOLEAN, terminal : BOOLEAN, late : BOOLEAN]
        /\ ~seen.late /\ ~seen.error
        /\ seen.terminal \in BOOLEAN /\ TerminalKnown(body, kind, seen.terminal)
    BY <1>1, ReadingUntold
  <1> DEFINE d == FinishStream(body, kind)
  <1>3. Follows(d, body) /\ (d.fin \/ d.err) /\ TerminalKnown(d, kind, seen.terminal)
    BY <1>2, FinishFollows, FinishEnds, FinishTerminal
  <1>4. \/ StartFail(d, d.pending) \/ StartFail(d, <<>>)
        \/ (~d.err /\ StartFlush(d)) \/ Continue(d)
    BY DEF ReadEof
  <1>5. UNCHANGED <<preVars, logs, client, cleanup, seen>>
    BY DEF ReadEof
  <1> HIDE DEF d
  <1>6. d \in Bodies /\ Clean(d.pending) /\ ~d.flushed /\ Clean(<<>>)
    BY <1>2, <1>3, AddedClean DEF Follows
  <1> QED BY <1>2, <1>3, <1>4, <1>5, <1>6, FailTells, FlushTells, LoopGoesOn

(* A read failed, or the stream was empty.                                  *)
LEMMA ReadFailsKeeps ==
    ASSUME StreamInv, ReadFails \/ TranslatedEmpty
    PROVE  StreamInv'
  <1>1. Live /\ ~body.flushed /\ body \in Bodies
    <2>1. CASE ReadFails
      BY <2>1, ReadingUntold DEF ReadFails
    <2>2. CASE TranslatedEmpty
      BY <2>2 DEF TranslatedEmpty, AtLoop, IsEmptyResponse, StreamInv, StreamTyped
    <2> QED BY <2>1, <2>2
  <1>2. StartFail(body, <<>>) /\ UNCHANGED <<preVars, logs, client, cleanup, seen>>
    BY DEF ReadFails, TranslatedEmpty
  <1>3. Clean(<<>>)
    BY AddedClean
  <1> QED BY <1>1, <1>2, <1>3, FailTells

(* A frame is delivered.                                                    *)
LEMMA DeliverKeeps ==
    ASSUME StreamInv, Deliver
    PROVE  StreamInv'
  <1> DEFINE b == [body EXCEPT !.pending = Tail(@)]
  <1>1. /\ Live /\ mode = "loop" /\ body.pending # <<>> /\ ReadingInv /\ StreamTyped /\ ~seen.late
        /\ UNCHANGED <<preVars, logs, client, cleanup>>
    BY DEF StreamInv, Deliver, AtLoop, Live
  <1>2. seen' = See(Head(body.pending)) /\ ((b.fin /\ StartFlush(b)) \/ Continue(b))
    BY DEF Deliver
  <1>3. /\ b \in Bodies /\ b.pending = Tail(body.pending)
        /\ b.flushed = body.flushed /\ b.fin = body.fin
        /\ b.term = body.term /\ b.reason = body.reason /\ b.closed = body.closed
    <2>1. Tail(body.pending) \in Seq(Frames)
      BY <1>1 DEF StreamTyped, Bodies
    <2> QED BY <1>1, <2>1 DEF StreamTyped, Bodies
  <1>4. seen' \in [error : BOOLEAN, terminal : BOOLEAN, late : BOOLEAN]
    BY <1>1, <1>2 DEF See, StreamTyped
  <1> HIDE DEF b
  <1>t. NoErrorShown => TerminalKnown(b, kind, seen'.terminal)
    <2>1. Has(body.pending) <=> Head(body.pending) = "terminal" \/ Has(b.pending)
      BY <1>1, <1>3, HasQueued DEF StreamTyped, Bodies
    <2>2. seen'.terminal <=> seen.terminal \/ Head(body.pending) = "terminal"
      BY <1>1, <1>2 DEF See, StreamTyped
    <2> QED BY <1>3, <2>1, <2>2 DEF NoErrorShown, TerminalKnown
  <1>5. CASE ~body.flushed
    <2>1. NoErrorShown
      BY <1>1, <1>5 DEF ReadingInv, Untold
    <2>2. ~seen'.error /\ ~seen'.late /\ Clean(b.pending)
      <3>1. ~See(Head(body.pending)).error /\ Clean(Tail(body.pending))
        BY <1>1, <2>1, SeesFrame
      <3>2. ~See(Head(body.pending)).late
        BY <1>1, <2>1 DEF See, NoErrorShown
      <3> QED BY <1>2, <1>3, <3>1, <3>2
    <2> QED BY <1>1, <1>2, <1>3, <1>4, <1>5, <1>t, <2>1, <2>2, FlushTells, LoopGoesOn
  <1>6. CASE body.flushed
    <2>1. ~hasLog /\ body.fin /\ cleanup = "none" /\ (ToldSuccess \/ ToldFailure)
      BY <1>1, <1>6 DEF ReadingInv
    <2>2. /\ body' = b /\ mode' \in {"release", "loop"}
          /\ hasLog' = hasLog /\ hasDone' = hasDone
      BY <1>1, <1>2, <1>3, <1>6 DEF StartFlush, Continue
    <2>3. CASE ToldSuccess
      <3>1. NoErrorShown /\ logs = <<"200">>
        BY <1>1, <2>3 DEF ToldSuccess
      <3>2. ~seen'.error /\ Clean(body'.pending)
        BY <1>1, <1>2, <1>3, <2>2, <3>1, SeesFrame
      <3>3. ~seen'.late
        BY <1>1, <1>2, <3>1 DEF See, NoErrorShown
      <3>4. ToldSuccess'
        BY <1>1, <1>t, <2>2, <3>1, <3>2 DEF ToldSuccess, NoErrorShown, preVars
      <3> QED BY <1>1, <1>3, <1>4, <1>6, <2>1, <2>2, <3>3, <3>4
              DEF StreamInv, StreamTyped, ReadingInv, Live, preVars
    <2>4. CASE ToldFailure
      <3>1. OneErrorShown /\ logs \in {<<>>, <<"error">>} /\ ~hasDone
        BY <1>1, <2>4 DEF ToldFailure
      <3>2. /\ ~seen.error
            /\ IF seen'.error THEN body'.pending = <<>> ELSE FailFrames(body'.pending)
        BY <1>1, <1>2, <1>3, <2>2, <3>1, SeesFailure
      <3>3. ~seen'.late
        BY <1>1, <1>2, <3>2 DEF See
      <3>4. ToldFailure'
        BY <1>1, <2>2, <3>1, <3>2 DEF ToldFailure, OneErrorShown
      <3> QED BY <1>1, <1>3, <1>4, <1>6, <2>1, <2>2, <3>3, <3>4
              DEF StreamInv, StreamTyped, ReadingInv, Live, preVars
    <2> QED BY <2>1, <2>3, <2>4
  <1> QED BY <1>5, <1>6

(* The loop has nothing left.                                               *)
LEMMA EndOfBodyKeeps ==
    ASSUME StreamInv, EndOfBody
    PROVE  StreamInv'
  <1>1. /\ Live /\ mode = "loop" /\ body.pending = <<>> /\ body.fin
        /\ ReadingInv /\ StreamTyped /\ ~seen.late /\ body \in Bodies
        /\ seen \in [error : BOOLEAN, terminal : BOOLEAN, late : BOOLEAN]
        /\ UNCHANGED <<preVars, logs, client, cleanup, seen>>
    BY DEF StreamInv, StreamTyped, EndOfBody, AtLoop, Live
  <1>2. CASE ~body.flushed
    <2>1. NoErrorShown /\ StartFlush(body)
      BY <1>1, <1>2 DEF ReadingInv, Untold, EndOfBody
    <2>2. TerminalKnown(body, kind, seen'.terminal) /\ Clean(body.pending) /\ ~seen'.error
      BY <1>1, <2>1 DEF NoErrorShown
    <2> QED BY <1>1, <1>2, <2>1, <2>2, FlushTells
  <1>3. CASE body.flushed
    <2>1. ~hasLog /\ cleanup = "none" /\ (ToldSuccess \/ ToldFailure)
      BY <1>1, <1>3 DEF ReadingInv
    <2>2. /\ body' = body /\ hasLog' = hasLog /\ hasDone' = hasDone
          /\ (mode' = "over" /\ ~hasDone) \/ (mode' = "release" /\ hasDone)
      BY <1>3 DEF EndOfBody, StartFlush
    <2>3. ToldSuccess' \/ ToldFailure'
      <3>1. CASE ToldSuccess
        <4>1. seen.terminal
          BY <1>1, <3>1, HasQueued DEF ToldSuccess, NoErrorShown, TerminalKnown
        <4> QED BY <1>1, <2>2, <3>1, <4>1 DEF ToldSuccess, NoErrorShown, preVars
      <3>2. CASE ToldFailure
        <4>1. ~hasDone /\ logs \in {<<>>, <<"error">>} /\ OneErrorShown
          BY <1>1, <3>2 DEF ToldFailure
        <4>2. seen.error
          <5>1. \A kept : Clean(kept) => Append(kept, "error") # <<>>
            BY DEF Clean
          <5> QED BY <1>1, <4>1, <5>1 DEF OneErrorShown, FailFrames
        <4> QED BY <1>1, <2>2, <4>1, <4>2 DEF ToldFailure, OneErrorShown
      <3> QED BY <2>1, <3>1, <3>2
    <2> QED BY <1>1, <1>3, <2>1, <2>2, <2>3 DEF StreamInv, StreamTyped, ReadingInv, Live, preVars
  <1> QED BY <1>2, <1>3

(* The awaits of flush_usage_log, finalize_completion and                   *)
(* finalize_stream_error return.                                            *)
LEMMA AwaitsKeep ==
    ASSUME StreamInv, Flushed \/ FinalizeCompletion \/ FailRelease \/ FailLog
    PROVE  StreamInv'
  <1>1. /\ Live /\ mode # "loop" /\ ReadingInv /\ UNCHANGED <<preVars, client, cleanup, seen, body, hasLog>>
        /\ hasDone' \in {hasDone, FALSE}
    BY DEF StreamInv, Flushed, FinalizeCompletion, FailRelease, FailLog, Live
  <1>2. body.flushed /\ ~hasLog /\ body.fin /\ (ToldSuccess \/ ToldFailure) /\ cleanup = "none"
    BY <1>1 DEF ReadingInv, Untold
  <1>3. ToldSuccess' \/ ToldFailure'
    <2>1. CASE Flushed
      BY <1>1, <1>2, <2>1 DEF Flushed, ToldSuccess, ToldFailure, NoErrorShown, preVars
    <2>2. CASE FinalizeCompletion
      BY <1>1, <1>2, <2>2 DEF FinalizeCompletion, ToldSuccess, ToldFailure, NoErrorShown, OneErrorShown, preVars
    <2>3. CASE FailRelease
      BY <1>1, <1>2, <2>3 DEF FailRelease, ToldSuccess, ToldFailure, NoErrorShown, OneErrorShown, preVars
    <2>4. CASE FailLog
      BY <1>1, <1>2, <2>4 DEF FailLog, ToldSuccess, ToldFailure, NoErrorShown, OneErrorShown, preVars
    <2> QED BY <2>1, <2>2, <2>3, <2>4
  <1> QED BY <1>1, <1>2, <1>3 DEF StreamInv, StreamTyped, ReadingInv, Live, preVars

(* The usage log could not be coordinated.                                  *)
LEMMA FlushFailsKeeps ==
    ASSUME StreamInv, FlushFails
    PROVE  StreamInv'
  <1>1. /\ Live /\ mode = "flush" /\ ReadingInv /\ body \in Bodies
        /\ UNCHANGED <<preVars, client, cleanup, seen, hasLog, logs>>
        /\ mode' = "loop" /\ hasDone' = FALSE /\ body' = [body EXCEPT !.pending = <<"error">>]
    BY DEF StreamInv, StreamTyped, FlushFails, Live
  <1>2. /\ body.flushed /\ ~hasLog /\ body.fin /\ ~seen.error /\ logs = <<>> /\ cleanup = "none"
    BY <1>1 DEF ReadingInv, Untold, ToldSuccess, ToldFailure, NoErrorShown
  <1>3. FailFrames(<<"error">>) /\ <<"error">> \in Seq(Frames)
    <2>1. Clean(<<>>) /\ <<"error">> = Append(<<>>, "error")
      BY AddedClean
    <2>2. "error" \in Frames
      BY DEF Frames
    <2> QED BY <2>1, <2>2 DEF FailFrames
  <1> DEFINE p == <<"error">>
  <1>4. body' \in Bodies /\ body'.pending = p /\ body'.flushed /\ body'.fin
    <2> p \in Seq(Frames) /\ body' = [body EXCEPT !.pending = p]
      BY <1>1, <1>3
    <2> HIDE DEF p
    <2> QED BY <1>1, <1>2 DEF Bodies
  <1>5. ToldFailure'
    BY <1>1, <1>2, <1>3, <1>4 DEF ToldFailure, OneErrorShown
  <1> QED BY <1>1, <1>2, <1>4, <1>5 DEF StreamInv, StreamTyped, ReadingInv, Live, preVars

(* The client leaves: Drop finds the log context only in a stream nobody    *)
(* has told of.                                                             *)
LEMMA HangUpKeeps ==
    ASSUME StreamInv, HangUp
    PROVE  StreamInv'
  <1>1. /\ Live /\ ReadingInv /\ client' = "gone" /\ cleanup' = DropCleanup
        /\ hasLog' = FALSE /\ hasDone' = FALSE
        /\ UNCHANGED <<preVars, body, logs, seen>>
    BY DEF StreamInv, HangUp, Live
  <1>2. LeftInv'
    <2>1. CASE ~body.flushed
      <3>1. logs = <<>> /\ ~seen.error /\ hasLog /\ TerminalKnown(body, kind, seen.terminal)
        BY <1>1, <2>1 DEF ReadingInv, Untold, NoErrorShown
      <3>2. ~(body.fin \/ body.term) => LeftEarly'
        BY <1>1, <3>1 DEF TerminalKnown, LeftEarly, preVars
      <3> QED BY <1>1, <3>1, <3>2 DEF LeftInv, DropCleanup
    <2>2. CASE body.flushed
      <3>1. ~hasLog /\ body.fin /\ (ToldSuccess \/ ToldFailure)
        BY <1>1, <2>2 DEF ReadingInv
      <3>2. cleanup' \in {"none", "successRelease"}
        BY <1>1, <3>1 DEF DropCleanup
      <3>3. logs \in {<<>>, <<"error">>} \/ (logs = <<"200">> /\ ~seen.error)
        BY <3>1 DEF ToldSuccess, ToldFailure, NoErrorShown
      <3> QED BY <1>1, <3>1, <3>2, <3>3 DEF LeftInv
    <2> QED BY <2>1, <2>2
  <1> QED BY <1>1, <1>2 DEF StreamInv, StreamTyped, Live, preVars

(* The spawned clean-up.                                                    *)
LEMMA CleanupKeeps ==
    ASSUME StreamInv, Cleanup
    PROVE  StreamInv'
  <1>1. UNCHANGED <<preVars, body, mode, hasLog, hasDone, client, seen>> /\ cleanup # "none"
    BY DEF Cleanup
  <1>2. /\ cleanup = "success" => logs' = Append(logs, "200") /\ cleanup' = "successRelease"
        /\ cleanup = "successRelease" => logs' = logs /\ cleanup' = "none"
        /\ cleanup = "interrupt" => logs' = logs /\ cleanup' = "interruptLog"
        /\ cleanup = "interruptLog" => logs' = Append(logs, "499") /\ cleanup' = "none"
    BY DEF Cleanup
  <1>e. LeftEarly' <=> LeftEarly
    BY <1>1 DEF LeftEarly, preVars
  <1>3. stage \in {"route", "sending", "built", "handed"} => client # "open"
    BY <1>1 DEF StreamInv, ReadingInv
  <1>4. ASSUME stage = "handed", client = "gone" PROVE LeftInv'
    <2>1. LeftInv /\ cleanup \in {"success", "successRelease", "interrupt", "interruptLog"}
      BY <1>1, <1>4 DEF StreamInv, LeftInv
    <2>2. Append(<<>>, "200") = <<"200">> /\ Append(<<>>, "499") = <<"499">>
      OBVIOUS
    <2>3. CASE cleanup \in {"success", "interruptLog"}
      <3>1. logs = <<>>
        BY <2>1, <2>3 DEF LeftInv
      <3>2. CASE cleanup = "success"
        BY <1>1, <1>2, <1>e, <2>1, <2>2, <3>1, <3>2 DEF LeftInv
      <3>3. CASE cleanup = "interruptLog"
        BY <1>1, <1>2, <1>e, <2>1, <2>2, <3>1, <3>3 DEF LeftInv
      <3> QED BY <2>3, <3>2, <3>3
    <2>4. CASE cleanup = "interrupt"
      BY <1>1, <1>2, <1>e, <2>1, <2>4 DEF LeftInv
    <2>5. CASE cleanup = "successRelease"
      BY <1>1, <1>2, <1>e, <2>1, <2>5 DEF LeftInv
    <2> QED BY <2>1, <2>3, <2>4, <2>5
  <1> QED BY <1>1, <1>3, <1>4 DEF StreamInv, StreamTyped, preVars

(* Before the body is handed over nothing is told of it.                    *)
LEMMA BeforeKeeps ==
    ASSUME StreamInv, StartAttempt \/ AttemptFails \/ BuildBody \/ HandOver \/ HangUpBeforeHeaders
    PROVE  StreamInv'
  <1>1. CASE StartAttempt
    BY <1>1 DEF StartAttempt, StreamInv, StreamTyped, routeVars, bodyVars
  <1>2. CASE AttemptFails
    BY <1>2 DEF AttemptFails, StreamInv, StreamTyped, bodyVars
  <1>3. CASE BuildBody
    BY <1>3 DEF BuildBody, StreamInv, StreamTyped, routeVars
  <1>4. CASE HandOver
    <2>1. Clean(<<>>) /\ NewBody.pending = <<>> /\ ~NewBody.flushed
      BY AddedClean DEF NewBody
    <2>2. /\ UNCHANGED <<routeVars, bodyVars, logs>> /\ stage' = "handed" /\ client = "open"
          /\ body = NewBody /\ mode = "loop" /\ logs = <<>> /\ cleanup = "none" /\ ~seen.error
          /\ hasLog /\ hasDone /\ StreamTyped /\ ~seen.late /\ seen.terminal = FALSE
      BY <1>4 DEF HandOver, StreamInv
    <2>3. ReadingInv'
      <3>1. TerminalKnown(NewBody, kind, FALSE)
        BY <2>1, HasQueued DEF TerminalKnown, NewBody
      <3> QED BY <2>1, <2>2, <3>1 DEF ReadingInv, Untold, NoErrorShown, routeVars, bodyVars
    <2> QED BY <2>2, <2>3 DEF StreamInv, StreamTyped, routeVars, bodyVars
  <1>5. CASE HangUpBeforeHeaders
    BY <1>5 DEF HangUpBeforeHeaders, StreamInv, StreamTyped
  <1> QED BY <1>1, <1>2, <1>3, <1>4, <1>5

(* The invariant holds at the start.                                        *)
LEMMA StreamInvInit == StreamInit => StreamInv
  <1>1. NewBody \in Bodies
    BY DEF NewBody, Bodies
  <1> SUFFICES ASSUME StreamInit PROVE StreamInv
    OBVIOUS
  <1>2. /\ seen = [error |-> FALSE, terminal |-> FALSE, late |-> FALSE]
        /\ stage = "route" /\ client = "open"
    BY DEF StreamInit
  <1>3. /\ ~seen.late /\ ~seen.error /\ seen.terminal = FALSE
        /\ seen \in [error : BOOLEAN, terminal : BOOLEAN, late : BOOLEAN]
    BY <1>2
  <1>4. StreamTyped
    BY <1>1, <1>3 DEF StreamInit, StreamTyped
  <1> QED BY <1>2, <1>3, <1>4 DEF StreamInit, StreamInv

(* Every step keeps the invariant.                                          *)
LEMMA StreamInvNext == StreamInv /\ [StreamNext]_streamVars => StreamInv'
  <1> SUFFICES ASSUME StreamInv, [StreamNext]_streamVars PROVE StreamInv'
    OBVIOUS
  <1>1. CASE StreamNext
    BY <1>1, BeforeKeeps, ReadChunkKeeps, ReadEofKeeps, ReadFailsKeeps, DeliverKeeps,
       EndOfBodyKeeps, AwaitsKeep, FlushFailsKeeps, HangUpKeeps, CleanupKeeps
       DEF StreamNext, BodyStep
  <1>2. CASE UNCHANGED streamVars
    BY <1>2 DEF streamVars, StreamInv, StreamTyped, ReadingInv, LeftInv, Untold, ToldSuccess,
       ToldFailure, NoErrorShown, OneErrorShown, LeftEarly
  <1> QED BY <1>1, <1>2

(* The invariant implies the property.                                      *)
LEMMA StreamInvTells == StreamInv => StreamTold
  <1> SUFFICES ASSUME StreamInv PROVE StreamTold
    OBVIOUS
  <1>1. ErrorIsLast
    BY DEF StreamInv, ErrorIsLast
  <1> DEFINE Told(x) == \E i \in DOMAIN logs : logs[i] = x
  <1>a. logs = <<>> => Len(logs) <= 1 /\ ~Told("200") /\ ~Told("499")
    OBVIOUS
  <1>b. ASSUME NEW x, logs = <<x>> PROVE Len(logs) <= 1 /\ Len(logs) = 1 /\ \A y : Told(y) => x = y
    <2>1. Len(logs) = 1 /\ DOMAIN logs = {1} /\ logs[1] = x
      BY <1>b
    <2> QED BY <2>1
  <1>c. (Successes # {} <=> Told("200")) /\ (Interrupted <=> Told("499"))
    BY DEF Successes, Interrupted
  <1> HIDE DEF Told
  <1>2. CASE stage # "handed"
    BY <1>1, <1>2 DEF StreamTold, HandedLoggedOnce, LogTellsEnd
  <1>3. CASE stage = "handed" /\ client = "open"
    <2>1. ReadingInv
      BY <1>3 DEF StreamInv
    <2>2. \/ logs = <<>> /\ (mode = "over" => seen.error)
          \/ logs = <<"error">>
          \/ logs = <<"200">> /\ ~seen.error /\ (mode = "over" => seen.terminal)
      BY <2>1 DEF ReadingInv, Untold, ToldSuccess, ToldFailure, NoErrorShown
    <2>3. Len(logs) <= 1 /\ (mode = "over" => Len(logs) = 1 \/ seen.error)
      BY <1>a, <1>b, <2>2, Zenon
    <2>4. (Told("200") => ~seen.error /\ (mode = "over" => seen.terminal)) /\ ~Told("499")
      BY <1>a, <1>b, <2>2
    <2> QED BY <1>1, <1>3, <1>c, <2>3, <2>4 DEF StreamTold, HandedLoggedOnce, LogTellsEnd
  <1>4. CASE stage = "handed" /\ client = "gone"
    <2>1. LeftInv
      BY <1>4 DEF StreamInv
    <2>2. \/ logs = <<>> \/ logs = <<"error">>
          \/ logs = <<"200">> /\ ~seen.error
          \/ logs = <<"499">> /\ LeftEarly
      BY <2>1 DEF LeftInv
    <2>3. Len(logs) <= 1
      BY <1>a, <1>b, <2>2, Zenon
    <2>4. (Told("200") => ~seen.error) /\ (Told("499") => LeftEarly)
      BY <1>a, <1>b, <2>2
    <2> QED BY <1>1, <1>4, <1>c, <2>3, <2>4 DEF StreamTold, HandedLoggedOnce, LogTellsEnd, LeftEarly
  <1> QED BY <1>2, <1>3, <1>4 DEF StreamInv

(* A stream that was handed over is told once and truthfully: at most one   *)
(* usage log through flush_usage_log, finalize_stream_error, Drop and the   *)
(* spawned clean-up, a success only if the client saw no error frame and,   *)
(* having read to the end, got the terminal event, an interruption only if  *)
(* it left before it got one (translated Chat bodies excepted), and no      *)
(* frame after an error, for chunks of any number of events in any order.   *)
THEOREM StreamToldTheorem == StreamSpec => []StreamTold
BY StreamInvInit, StreamInvNext, StreamInvTells, PTL DEF StreamSpec

-----------------------------------------------------------------------------
(* UpstreamSend: the recovery of a route that answers only streams.         *)

SendPlaces == {"prepare", "send", "refusal", "reply", "waiting", "woken", "ended"}
Calls == [at : SendPlaces, mode : {"json", "aggregate"},
          payload : [field : BOOLEAN, whole : BOOLEAN],
          stripped : BOOLEAN, compacted : BOOLEAN,
          role : {"none", "leader", "follower"}, consumed : BOOLEAN,
          last : BOOLEAN, again : BOOLEAN,
          result : {"none", "ok", "refused", "no_capacity", "context_limit", "invalid",
                    "empty", "gone"} \cup RefusedBeforeSend]

SendTyped ==
    /\ sender \in [Senders -> Calls] /\ flight \in Senders \cup {NoSender}
    /\ streamOnly \in BOOLEAN /\ hints \in BOOLEAN /\ confirmed \in BOOLEAN

SendInv == SendTyped /\ FlightHasLeader /\ LessonConfirmed

(* A call that is not the leader's changes to another one, and neither is   *)
(* its own flight.                                                          *)
LEMMA CallKeeps ==
    ASSUME SendInv, NEW q \in Senders, NEW c \in Calls, c.role = sender[q].role,
           c.at # "ended", sender[q].at # "ended",
           sender' = [sender EXCEPT ![q] = c], UNCHANGED flight
    PROVE  sender' \in [Senders -> Calls] /\ flight' \in Senders \cup {NoSender} /\ FlightHasLeader'
  <1>1. sender' \in [Senders -> Calls] /\ flight' \in Senders \cup {NoSender}
    BY DEF SendInv, SendTyped
  <1>2. \A p \in Senders : sender'[p].role = sender[p].role /\ (sender'[p].at = "ended" <=> sender[p].at = "ended")
    BY DEF SendInv, SendTyped
  <1> QED BY <1>1, <1>2, SendAssumption DEF SendInv, SendTyped, FlightHasLeader

(* The end of a call, the leader's included.                                *)
LEMMA EndedKeeps ==
    ASSUME SendInv, NEW q \in Senders,
           NEW result \in {"ok", "refused", "no_capacity", "context_limit", "invalid",
                           "empty", "gone"} \cup RefusedBeforeSend,
           Ended(q, result)
    PROVE  sender' \in [Senders -> Calls] /\ flight' \in Senders \cup {NoSender} /\ FlightHasLeader'
  <1>1. NewCall \in Calls
    BY DEF NewCall, Calls, SendPlaces
  <1> DEFINE c == IF result = "context_limit" THEN sender[q] ELSE NewCall
             d == [c EXCEPT !.at = "ended", !.result = result, !.role = "none"]
  <1>2. c \in Calls
    BY <1>1 DEF SendInv, SendTyped
  <1>3. /\ sender' = [p \in Senders |-> IF p = q THEN d
                ELSE IF Signalled(q, p, result) THEN [sender[p] EXCEPT !.at = "woken"] ELSE sender[p]]
        /\ flight' = IF flight = q THEN NoSender ELSE flight
    BY DEF Ended, FlightAfter
  <1> HIDE DEF c
  <1>4. d \in Calls /\ d.at = "ended" /\ d.role = "none"
    BY <1>2 DEF Calls, SendPlaces
  <1> HIDE DEF d
  <1>5. ASSUME NEW p \in Senders
        PROVE  /\ sender'[p] \in Calls
               /\ p = q => sender'[p].at = "ended" /\ sender'[p].role = "none"
               /\ p # q => sender'[p].role = sender[p].role /\ (sender'[p].at = "ended" <=> sender[p].at = "ended")
    <2>1. sender[p] \in Calls
      BY DEF SendInv, SendTyped
    <2>2. CASE p = q
      BY <1>3, <1>4, <2>2
    <2>3. CASE p # q /\ Signalled(q, p, result)
      <3>1. sender'[p] = [sender[p] EXCEPT !.at = "woken"] /\ sender[p].at = "waiting"
        BY <1>3, <2>3 DEF Signalled
      <3> QED BY <2>1, <2>3, <3>1 DEF Calls, SendPlaces
    <2>4. CASE p # q /\ ~Signalled(q, p, result)
      BY <1>3, <2>1, <2>4
    <2> QED BY <2>2, <2>3, <2>4
  <1>6. sender' \in [Senders -> Calls] /\ flight' \in Senders \cup {NoSender}
    BY <1>3, <1>5 DEF SendInv, SendTyped
  <1>7. FlightHasLeader'
    BY <1>3, <1>5, SendAssumption DEF SendInv, SendTyped, FlightHasLeader
  <1> QED BY <1>6, <1>7

(* One step of a call.                                                      *)
LEMMA ProgressKeeps ==
    ASSUME SendInv, NEW q \in Senders, Progress(q)
    PROVE  SendInv'
  <1> DEFINE Kept == sender' \in [Senders -> Calls] /\ flight' \in Senders \cup {NoSender} /\ FlightHasLeader'
  <1>1. sender[q] \in Calls /\ streamOnly \in BOOLEAN /\ hints \in BOOLEAN /\ confirmed \in BOOLEAN
    BY DEF SendInv, SendTyped
  <1>2. Original \in [field : BOOLEAN, whole : BOOLEAN] /\ Mode \in {"json", "aggregate"}
    BY <1>1 DEF Original, Mode
  <1>3. ASSUME Refuse(q) \/ Overflow(q) \/ OverflowAtOnce(q) \/ Malformed(q) \/ Abandon(q) PROVE Kept
    BY <1>3, EndedKeeps DEF Refuse, Overflow, OverflowAtOnce, Malformed, Abandon
  <1>4. ASSUME Prepare(q) PROVE Kept
    <2> DEFINE c == sender[q]
               o == Original
               m == Mode
               c1 == [c EXCEPT !.at = "send", !.payload = o]
               c2 == [c EXCEPT !.mode = m, !.at = "send", !.payload = o]
               c3 == [c EXCEPT !.consumed = TRUE, !.at = "send", !.payload = o]
               c4 == [c EXCEPT !.role = "leader", !.at = "send", !.payload = o]
               c5 == [c EXCEPT !.at = "waiting", !.role = "follower"]
    <2>1. c.at = "prepare"
      BY <1>4 DEF Prepare
    <2>2. \/ sender' \in {[sender EXCEPT ![q] = c1], [sender EXCEPT ![q] = c2], [sender EXCEPT ![q] = c3]}
             /\ UNCHANGED flight
          \/ c.role = "none" /\ flight # NoSender /\ UNCHANGED flight /\ sender' = [sender EXCEPT ![q] = c5]
          \/ c.role = "none" /\ flight = NoSender /\ flight' = q /\ sender' = [sender EXCEPT ![q] = c4]
      BY <1>1, <1>4 DEF Prepare, Prepared, SendInv, SendTyped, Calls
    <2>3. c \in Calls /\ o \in [field : BOOLEAN, whole : BOOLEAN] /\ m \in {"json", "aggregate"}
      BY <1>1, <1>2
    <2> HIDE DEF c, o, m
    <2>4. \A d \in {c1, c2, c3} : d \in Calls /\ d.role = c.role /\ d.at = "send"
      <3>1. c1 \in Calls /\ c1.role = c.role /\ c1.at = "send"
        BY <2>3 DEF Calls, SendPlaces
      <3>2. c2 \in Calls /\ c2.role = c.role /\ c2.at = "send"
        BY <2>3 DEF Calls, SendPlaces
      <3>3. c3 \in Calls /\ c3.role = c.role /\ c3.at = "send"
        BY <2>3 DEF Calls, SendPlaces
      <3> HIDE DEF c1, c2, c3
      <3> QED BY <3>1, <3>2, <3>3
    <2>5. /\ c4 \in Calls /\ c4.role = "leader" /\ c4.at = "send"
          /\ c5 \in Calls /\ c5.role = "follower"
      BY <2>3 DEF Calls, SendPlaces
    <2> HIDE DEF c1, c2, c3, c4, c5
    <2>6. CASE sender' \in {[sender EXCEPT ![q] = c1], [sender EXCEPT ![q] = c2], [sender EXCEPT ![q] = c3]}
               /\ UNCHANGED flight
      <3>1. PICK d \in {c1, c2, c3} : sender' = [sender EXCEPT ![q] = d]
        BY <2>6
      <3> QED BY <2>1, <2>4, <2>6, <3>1, CallKeeps DEF c
    <2>7. CASE c.role = "none" /\ flight # NoSender /\ UNCHANGED flight /\ sender' = [sender EXCEPT ![q] = c5]
      <3>1. sender' \in [Senders -> Calls] /\ \A p \in Senders : p # q => sender'[p] = sender[p]
        BY <2>5, <2>7 DEF SendInv, SendTyped
      <3>2. sender'[q].role = "follower"
        BY <2>5, <2>7 DEF SendInv, SendTyped
      <3>3. flight \in Senders /\ flight # q
        BY <2>7 DEF SendInv, SendTyped, FlightHasLeader, c
      <3> QED BY <2>7, <3>1, <3>2, <3>3 DEF SendInv, FlightHasLeader
    <2>8. CASE c.role = "none" /\ flight = NoSender /\ flight' = q /\ sender' = [sender EXCEPT ![q] = c4]
      <3>1. sender' \in [Senders -> Calls] /\ \A p \in Senders : p # q => sender'[p] = sender[p]
        BY <2>5, <2>8 DEF SendInv, SendTyped
      <3>2. sender'[q].role = "leader" /\ sender'[q].at = "send"
        BY <2>5, <2>8 DEF SendInv, SendTyped
      <3> QED BY <2>8, <3>1, <3>2, SendAssumption DEF SendInv, FlightHasLeader
    <2> QED BY <2>2, <2>6, <2>7, <2>8
  <1>5. ASSUME Follow(q) PROVE Kept
    <2> DEFINE c == sender[q]
               o == Original
               m == Mode
               d == [c EXCEPT !.consumed = TRUE, !.last = TRUE, !.mode = m, !.at = "send", !.payload = o]
    <2>1. c.at = "woken" /\ sender' = [sender EXCEPT ![q] = d] /\ UNCHANGED flight
      BY <1>1, <1>5 DEF Follow, Prepared, Calls
    <2>2. d \in Calls /\ d.role = c.role /\ d.at = "send"
      <3> c \in Calls /\ o \in [field : BOOLEAN, whole : BOOLEAN] /\ m \in {"json", "aggregate"}
        BY <1>1, <1>2
      <3> HIDE DEF c, o, m
      <3> QED BY DEF Calls, SendPlaces
    <2> HIDE DEF d
    <2> QED BY <2>1, <2>2, CallKeeps
  <1>h. ASSUME Headers(q) PROVE Kept
    <2> DEFINE c == sender[q]
    <2>1. PICK next \in {"refusal", "reply"} : sender' = [sender EXCEPT ![q].at = next]
      BY <1>h DEF Headers
    <2> DEFINE d == [c EXCEPT !.at = next]
    <2>2. c.at = "send" /\ sender' = [sender EXCEPT ![q] = d] /\ UNCHANGED flight
      BY <1>1, <1>h, <2>1 DEF Headers, SendInv, SendTyped
    <2>3. d \in Calls /\ d.role = c.role /\ d.at # "ended"
      <3> c \in Calls
        BY <1>1
      <3> HIDE DEF c
      <3> QED BY <2>1 DEF Calls, SendPlaces
    <2> HIDE DEF d
    <2> QED BY <2>2, <2>3, CallKeeps
  <1>6. ASSUME StripField(q) \/ Compact(q) PROVE Kept
    <2> DEFINE c == sender[q]
               d1 == [c EXCEPT !.stripped = TRUE, !.payload = [field |-> FALSE, whole |-> TRUE]]
               d2 == [c EXCEPT !.compacted = TRUE, !.payload.whole = FALSE]
    <2>1. c.at = "refusal" /\ \E d \in {d1, d2} : Resend(q, d)
      BY <1>6 DEF StripField, Compact
    <2>2. PICK d \in {d1, d2} : Resend(q, d)
      BY <2>1
    <2>3. d \in Calls /\ d.role = c.role /\ d.at = c.at
      <3> c \in Calls
        BY <1>1
      <3> HIDE DEF c
      <3>1. c.payload \in [field : BOOLEAN, whole : BOOLEAN]
        BY DEF Calls
      <3>2. [c.payload EXCEPT !.whole = FALSE] \in [field : BOOLEAN, whole : BOOLEAN]
        BY <3>1
      <3>3. [field |-> FALSE, whole |-> TRUE] \in [field : BOOLEAN, whole : BOOLEAN]
        OBVIOUS
      <3> DEFINE y1 == [field |-> FALSE, whole |-> TRUE]
                 y2 == [c.payload EXCEPT !.whole = FALSE]
      <3>4. d1 = [c EXCEPT !.stripped = TRUE, !.payload = y1]
        OBVIOUS
      <3>5. d2 = [c EXCEPT !.compacted = TRUE, !.payload = y2]
        BY DEF Calls
      <3> HIDE DEF y1, y2, d1, d2
      <3>6. y1 \in [field : BOOLEAN, whole : BOOLEAN] /\ y2 \in [field : BOOLEAN, whole : BOOLEAN]
        BY <3>2, <3>3 DEF y1, y2
      <3>7. d1 \in Calls /\ d1.role = c.role /\ d1.at = c.at
        BY <3>4, <3>6 DEF Calls
      <3>8. d2 \in Calls /\ d2.role = c.role /\ d2.at = c.at
        BY <3>5, <3>6 DEF Calls
      <3> QED BY <3>7, <3>8
    <2> HIDE DEF d1, d2
    <2> DEFINE e == [d EXCEPT !.at = "send"]
    <2>4. (sender' = [sender EXCEPT ![q] = e] /\ UNCHANGED flight) \/ Ended(q, "no_capacity")
      BY <2>2 DEF Resend
    <2>5. e \in Calls /\ e.role = c.role /\ e.at = "send"
      BY <2>3 DEF Calls, SendPlaces
    <2> HIDE DEF e
    <2> QED BY <2>1, <2>4, <2>5, CallKeeps, EndedKeeps
  <1>7. ASSUME Fail(q) PROVE Kept
    <2> DEFINE c == sender[q]
               d == [c EXCEPT !.at = "prepare", !.again = TRUE, !.stripped = FALSE, !.compacted = FALSE]
    <2>1. c.at # "ended" /\ (Ended(q, "refused") \/ (sender' = [sender EXCEPT ![q] = d] /\ UNCHANGED flight))
      BY <1>7 DEF Fail
    <2>2. d \in Calls /\ d.role = c.role /\ d.at = "prepare"
      <3> c \in Calls
        BY <1>1
      <3> HIDE DEF c
      <3> QED BY DEF Calls, SendPlaces
    <2> HIDE DEF d
    <2> QED BY <2>1, <2>2, CallKeeps, EndedKeeps
  <1>8. ASSUME Recover(q) PROVE Kept
    <2> DEFINE c == sender[q]
               d == [c EXCEPT !.at = "prepare", !.mode = "aggregate", !.consumed = TRUE,
                              !.again = TRUE, !.stripped = FALSE, !.compacted = FALSE]
    <2>1. c.at = "reply" /\ (Ended(q, "empty") \/ (sender' = [sender EXCEPT ![q] = d] /\ UNCHANGED flight))
      BY <1>8 DEF Recover
    <2>2. d \in Calls /\ d.role = c.role /\ d.at = "prepare"
      <3> c \in Calls
        BY <1>1
      <3> HIDE DEF c
      <3> QED BY DEF Calls, SendPlaces
    <2> HIDE DEF d
    <2> QED BY <2>1, <2>2, CallKeeps, EndedKeeps
  <1>9. ASSUME Accept(q) PROVE SendInv'
    <2>1. Kept
      BY <1>9, EndedKeeps DEF Accept
    <2>2. /\ hints' = (hints \/ (sender[q].stripped /\ ~sender[q].payload.field))
          /\ confirmed' = (confirmed \/ (sender[q].stripped /\ ~sender[q].payload.field))
          /\ streamOnly' \in BOOLEAN
      BY <1>9 DEF Accept, HintsAfter
    <2>3. hints' \in BOOLEAN /\ confirmed' \in BOOLEAN /\ (hints' => confirmed')
      BY <1>1, <2>2 DEF SendInv, LessonConfirmed
    <2> HIDE DEF Kept
    <2> QED BY <2>1, <2>2, <2>3 DEF SendInv, SendTyped, LessonConfirmed, Kept
  <1>10. ~Accept(q) => UNCHANGED <<streamOnly, hints, confirmed>>
    BY DEF Progress, Refuse, Prepare, Follow, Headers, StripField, Compact, Overflow, OverflowAtOnce, Fail,
       Malformed, Recover, Abandon
  <1>11. ~Accept(q) => Kept
    <2> HIDE DEF Kept
    <2> QED BY <1>3, <1>4, <1>5, <1>h, <1>6, <1>7, <1>8 DEF Progress
  <1>12. ASSUME ~Accept(q) PROVE SendInv'
    BY <1>10, <1>11, <1>12 DEF SendInv, SendTyped, LessonConfirmed
  <1> QED BY <1>9, <1>12

(* Every step keeps the invariant.                                          *)
LEMMA SendInvNext == SendInv /\ [SendNext]_sendVars => SendInv'
  <1> SUFFICES ASSUME SendInv, [SendNext]_sendVars PROVE SendInv'
    OBVIOUS
  <1>1. CASE UNCHANGED sendVars
    BY <1>1 DEF sendVars, SendInv, SendTyped, FlightHasLeader, LessonConfirmed
  <1>2. ASSUME NEW q \in Senders, NextCall(q) PROVE SendInv'
    <2>1. NewCall \in Calls /\ NewCall.role = "none"
      BY DEF NewCall, Calls, SendPlaces
    <2>2. /\ sender[q].at = "ended" /\ sender' = [sender EXCEPT ![q] = NewCall]
          /\ UNCHANGED <<flight, streamOnly, hints, confirmed>>
      BY <1>2 DEF NextCall
    <2>3. sender' \in [Senders -> Calls] /\ sender'[q].role = "none" /\ \A p \in Senders : p # q => sender'[p] = sender[p]
      BY <2>1, <2>2 DEF SendInv, SendTyped
    <2>4. FlightHasLeader'
      BY <2>2, <2>3, SendAssumption DEF SendInv, SendTyped, FlightHasLeader
    <2> QED BY <2>2, <2>3, <2>4 DEF SendInv, SendTyped, LessonConfirmed
  <1> QED BY <1>1, <1>2, ProgressKeeps DEF SendNext

(* The invariant holds at the start.                                        *)
LEMMA SendInvInit == SendInit => SendInv
  <1> SUFFICES ASSUME SendInit PROVE SendInv
    OBVIOUS
  <1>1. NewCall \in Calls /\ NewCall.role = "none"
    BY DEF NewCall, Calls, SendPlaces
  <1>2. \A q \in Senders : sender[q] = NewCall
    BY DEF SendInit
  <1> QED BY <1>1, <1>2 DEF SendInit, SendInv, SendTyped, FlightHasLeader, LessonConfirmed

(* The safety half of RecoveryShared, for any number of requests: a flight  *)
(* in the registry always has a leader that is still under way, and a field *)
(* is left out of later requests only after the provider accepted one       *)
(* without it that it had refused with it.                                  *)
THEOREM RecoveryIsSound == SendSpec => [](FlightHasLeader /\ LessonConfirmed)
  <1>1. SendInv => FlightHasLeader /\ LessonConfirmed
    BY DEF SendInv
  <1> QED BY <1>1, SendInvInit, SendInvNext, PTL DEF SendSpec

-----------------------------------------------------------------------------
(* ModelKeySync: a model leaves a key only after a whole interval.          *)

Pairs == SyncKeys \X SyncModels
Listings == [SyncKeys -> SUBSET SyncModels]
Entries == [lists : Listings, mapped : BOOLEAN, active : BOOLEAN, edit : {0, 1}]
Misses == [count : {0, 1, 2}, at : Nat, under : Entries]
WorkerPlaces == {"rest", "asking", "removing", "scanning", "applying", "installing"}
Workers == [at : WorkerPlaces, key : SyncKeys \cup {"none"}, model : SyncModels \cup {"none"},
            snapshot : Entries, found : Listings, failed : SUBSET SyncKeys,
            learnt : [Pairs -> Misses]]

(* A key that did not answer lists nothing.                                 *)
Answers(w) == \A k \in w.failed : w.found[k] = {}

SyncTyped ==
    /\ syncClock \in Nat /\ syncClock <= LastTime /\ entry \in Entries
    /\ misses \in [Pairs -> Misses] /\ jobs \in Seq(Pairs) /\ worker \in Workers
    /\ worker.at \in {"asking", "removing"} => Target \in Pairs
    /\ Answers(worker) /\ absentSince \in [Pairs -> Nat] /\ unrecorded \subseteq Pairs

(* What is told of an absence: until the copy of the cycle is installed,    *)
(* the copy says it and the misses are stale.                               *)
Told(x) == IF worker.at = "installing" THEN worker.learnt[x] ELSE misses[x]

(* What is known of it: nothing, if the last listing went unrecorded.       *)
Known(x) == IF x \in unrecorded THEN NoMiss ELSE Told(x)

(* A miss is no older than the absence, and one that counts confirms an     *)
(* absence of a whole interval.                                             *)
Dated(miss, since, now) ==
    /\ since = Never \/ since <= now
    /\ miss.count > 0 => since <= miss.at /\ miss.at <= now
    /\ miss.count = 2 => since + Interval <= now

SyncInv ==
    /\ SyncTyped
    /\ \A x \in Pairs : Dated(Known(x), absentSince[x], syncClock)
    /\ worker.at = "removing" => Target \in unrecorded \/ absentSince[Target] + Interval <= syncClock

(* Nothing is known, and nobody is at work.                                 *)
LEMMA NothingKnown ==
    /\ NoMiss \in Misses /\ NoMiss.count = 0 /\ NoMiss.under \in Entries
    /\ [x \in Pairs |-> NoMiss] \in [Pairs -> Misses]
    /\ AtRest \in Workers /\ AtRest.at = "rest" /\ AtRest.failed = {} /\ Answers(AtRest)
  <1>1. NoMiss.under \in Entries /\ NoMiss.count = 0 /\ NoMiss \in Misses
    <2> DEFINE u == [lists |-> [k \in SyncKeys |-> {}], mapped |-> FALSE, active |-> FALSE, edit |-> 0]
    <2>1. u \in Entries
      BY DEF Entries, Listings
    <2>2. NoMiss = [count |-> 0, at |-> 0, under |-> u]
      BY DEF NoMiss
    <2> HIDE DEF u
    <2> QED BY <2>1, <2>2 DEF Misses
  <1>2. [x \in Pairs |-> NoMiss] \in [Pairs -> Misses]
    BY <1>1
  <1>3. [k \in SyncKeys |-> {}] \in Listings
    BY DEF Listings
  <1>4. AtRest \in Workers /\ AtRest.at = "rest" /\ AtRest.failed = {} /\ Answers(AtRest)
    <2> DEFINE u == NoMiss.under
               f == [k \in SyncKeys |-> {}]
               l == [x \in Pairs |-> NoMiss]
    <2>1. AtRest = [at |-> "rest", key |-> "none", model |-> "none", snapshot |-> u,
                    found |-> f, failed |-> {}, learnt |-> l]
      BY DEF AtRest, Pairs
    <2>2. u \in Entries /\ f \in Listings /\ l \in [Pairs -> Misses]
      BY <1>1, <1>2, <1>3
    <2> HIDE DEF u, f, l
    <2> QED BY <2>1, <2>2 DEF Workers, WorkerPlaces, Answers
  <1> QED BY <1>1, <1>2, <1>4

(* What is forgotten contradicts nothing.                                   *)
LEMMA ForgottenDated ==
    ASSUME NEW miss \in Misses, NEW since \in Nat, NEW now \in Nat, Dated(miss, since, now)
    PROVE  Dated(NoMiss, since, now) /\ Dated(NoMiss, Never, now)
BY NothingKnown DEF Dated

(* One answer without the model is a miss.                                  *)
LEMMA MissedTyped ==
    ASSUME SyncTyped, NEW old \in Misses, NEW snapshot \in Entries
    PROVE  Missed(old, snapshot) \in Misses
  <1>1. syncClock \in Nat
    BY DEF SyncTyped
  <1> QED BY <1>1 DEF Missed, Misses

(* One answer without the model.                                            *)
LEMMA MissedDated ==
    ASSUME SyncTyped, NEW old \in Misses, NEW since \in Nat, Dated(old, since, syncClock),
           NEW snapshot \in Entries
    PROVE  LET after == IF since = Never THEN syncClock ELSE since
           IN  /\ Missed(old, snapshot) \in Misses
               /\ Dated(Missed(old, snapshot), after, syncClock)
               /\ Dated(old, after, syncClock)
               /\ after \in Nat
  <1> DEFINE after == IF since = Never THEN syncClock ELSE since
             twice == [old EXCEPT !.count = 2, !.at = syncClock]
             once == [count |-> 1, at |-> syncClock, under |-> snapshot]
  <1>1. syncClock \in Nat /\ syncClock < Never /\ Never \in Nat /\ Interval \in Nat /\ Interval > 0
    BY SyncAssumption DEF SyncTyped, Never
  <1>2. /\ once \in Misses /\ once.count = 1 /\ once.at = syncClock
        /\ twice \in Misses /\ twice.count = 2 /\ twice.at = syncClock
    BY <1>1 DEF Misses
  <1>3. after \in Nat /\ after <= syncClock
    BY <1>1 DEF Dated
  <1>4. old.count > 0 => after = since
    BY <1>1 DEF Dated, Misses
  <1>5. \/ Missed(old, snapshot) = old
        \/ Missed(old, snapshot) = once
        \/ Missed(old, snapshot) = twice /\ old.count > 0 /\ syncClock - old.at >= Interval
    BY DEF Missed
  <1> HIDE DEF once, twice, after
  <1>6. Dated(once, after, syncClock)
    BY <1>1, <1>2, <1>3 DEF Dated
  <1>7. Dated(old, after, syncClock)
    <2>1. CASE old.count > 0
      BY <1>4, <2>1
    <2>2. CASE ~(old.count > 0)
      <3>1. old.count = 0
        BY <2>2 DEF Misses
      <3> QED BY <1>3, <3>1 DEF Dated
    <2> QED BY <2>1, <2>2
  <1>8. ASSUME old.count > 0, syncClock - old.at >= Interval PROVE Dated(twice, after, syncClock)
    <2>1. since <= old.at /\ old.at \in Nat /\ after = since
      BY <1>4, <1>8 DEF Dated, Misses
    <2>2. after + Interval <= syncClock
      BY <1>1, <1>8, <2>1
    <2> QED BY <1>1, <1>2, <1>3, <2>2 DEF Dated
  <1>9. /\ Missed(old, snapshot) \in Misses
        /\ Dated(Missed(old, snapshot), after, syncClock)
    BY <1>2, <1>5, <1>6, <1>7, <1>8
  <1> QED BY <1>3, <1>7, <1>9 DEF after

(* A step that forgets misses, or none, and sets the worker to work.        *)
LEMMA ForgettingKeeps ==
    ASSUME SyncInv, UNCHANGED <<syncClock, absentSince>>, unrecorded' \subseteq unrecorded,
           \/ unrecorded' = unrecorded
           \/ worker.at \notin {"removing", "installing"} /\ worker' = worker,
           \A x \in unrecorded : x \in unrecorded' \/ misses'[x] = NoMiss,
           entry' \in Entries, jobs' \in Seq(Pairs), worker' \in Workers, Answers(worker'),
           misses' \in [Pairs -> Misses], \A x \in Pairs : misses'[x] \in {misses[x], NoMiss},
           worker' = worker \/ /\ worker.at # "installing"
                               /\ worker'.at \notin {"installing", "removing"}
                               /\ worker'.at = "asking" => Target' \in Pairs
    PROVE  SyncInv'
  <1>1. SyncTyped'
    BY DEF SyncInv, SyncTyped, Target
  <1>2. ASSUME NEW x \in Pairs PROVE Dated(Known(x)', absentSince'[x], syncClock')
    <2>1. Dated(Known(x), absentSince[x], syncClock) /\ absentSince[x] \in Nat /\ syncClock \in Nat
      BY DEF SyncInv, SyncTyped
    <2>2. Known(x) \in Misses
      BY NothingKnown DEF Known, Told, SyncInv, SyncTyped, Workers
    <2>3. Known(x)' \in {Known(x), NoMiss}
      BY DEF Known, Told
    <2> QED BY <2>1, <2>2, <2>3, ForgottenDated
  <1>3. worker'.at = "removing" => Target' \in unrecorded' \/ absentSince'[Target'] + Interval <= syncClock'
    BY DEF SyncInv, Target
  <1> QED BY <1>1, <1>2, <1>3 DEF SyncInv

(* The gateway's, the administrator's and the retries' steps, and the       *)
(* worker's steps that record no listing.                                   *)
LEMMA OthersKeep ==
    ASSUME SyncInv,
           \/ \E k \in SyncKeys, m \in SyncModels : SubmitTargeted(k, m)
           \/ EditUpstream \/ ReconcileAfterEdit \/ TakeTargeted \/ TargetedDropped
           \/ \E x \in Pairs : RetryStops(x) \/ RetrySucceeds(x)
           \/ StartCycle \/ AskKeys \/ RemoveTargeted
    PROVE  SyncInv'
  <1>1. /\ SyncTyped /\ syncClock \in Nat /\ entry \in Entries /\ misses \in [Pairs -> Misses]
        /\ jobs \in Seq(Pairs) /\ worker \in Workers
        /\ worker.at \in {"asking", "removing"} => Target \in Pairs
        /\ Answers(worker)
    BY DEF SyncInv, SyncTyped
  <1>2. ASSUME NEW k \in SyncKeys, NEW m \in SyncModels, SubmitTargeted(k, m) PROVE SyncInv'
    <2>1. <<k, m>> \in Pairs
      BY DEF Pairs
    <2>2. jobs' \in Seq(Pairs)
      BY <1>1, <1>2, <2>1 DEF SubmitTargeted
    <2> QED BY <1>1, <1>2, <2>2, ForgettingKeeps DEF SubmitTargeted
  <1>3. CASE EditUpstream
    <2>1. entry' \in Entries
      <3>1. entry.edit \in {0, 1} /\ 1 - entry.edit \in {0, 1} /\ entry.active \in BOOLEAN
        BY <1>1 DEF Entries
      <3> DEFINE f == 1 - entry.edit
                 a == ~entry.active
      <3>2. entry' = [entry EXCEPT !.edit = f] \/ entry' = [entry EXCEPT !.active = a]
        BY <1>3 DEF EditUpstream
      <3>3. f \in {0, 1} /\ a \in BOOLEAN
        BY <3>1
      <3> HIDE DEF f, a
      <3> QED BY <1>1, <3>2, <3>3 DEF Entries
    <2> QED BY <1>1, <1>3, <2>1, ForgettingKeeps DEF EditUpstream
  <1>4. CASE ReconcileAfterEdit
    <2>1. misses' = misses \/ misses' = [x \in Pairs |-> NoMiss]
      BY <1>4 DEF ReconcileAfterEdit, ReconciledMisses, Pairs
    <2>2. misses' \in [Pairs -> Misses] /\ \A x \in Pairs : misses'[x] \in {misses[x], NoMiss}
      BY <1>1, <2>1, NothingKnown
    <2> QED BY <1>1, <1>4, <2>2, ForgettingKeeps DEF ReconcileAfterEdit
  <1>5. CASE TakeTargeted
    <2>1. worker.at = "rest" /\ jobs # <<>> /\ jobs' = Tail(jobs)
          /\ UNCHANGED <<syncClock, entry, misses, absentSince, unrecorded>>
      BY <1>5 DEF TakeTargeted
    <2>2. Head(jobs) \in Pairs /\ Tail(jobs) \in Seq(Pairs)
      BY <1>1, <2>1
    <2> DEFINE k == Head(jobs)[1]
               m == Head(jobs)[2]
               w == [AtRest EXCEPT !.at = "asking", !.key = k, !.model = m, !.snapshot = entry]
    <2>3. k \in SyncKeys /\ m \in SyncModels /\ <<k, m>> \in Pairs
      BY <2>2 DEF Pairs
    <2>4. worker' = worker \/ worker' = w
      BY <1>5 DEF TakeTargeted
    <2> HIDE DEF k, m
    <2>5. w \in Workers /\ w.at = "asking" /\ w.key = k /\ w.model = m /\ Answers(w)
      BY <1>1, <2>3, NothingKnown DEF Workers, WorkerPlaces, Answers
    <2> HIDE DEF w
    <2> QED BY <1>1, <2>1, <2>2, <2>3, <2>4, <2>5, ForgettingKeeps DEF Target
  <1>6. CASE TargetedDropped
    BY <1>1, <1>6, NothingKnown, ForgettingKeeps DEF TargetedDropped
  <1>7. ASSUME NEW x \in Pairs, RetryStops(x) \/ RetrySucceeds(x) PROVE SyncInv'
    <2>1. misses' = misses \/ misses' = [misses EXCEPT ![x] = NoMiss]
      BY <1>7 DEF RetryStops, RetrySucceeds
    <2>2. misses' \in [Pairs -> Misses] /\ \A y \in Pairs : misses'[y] \in {misses[y], NoMiss}
      BY <1>1, <2>1, NothingKnown
    <2>3. UNCHANGED <<syncClock, entry, jobs, worker, absentSince>>
      BY <1>7 DEF RetryStops, RetrySucceeds
    <2>4. /\ unrecorded' = unrecorded
              \/ (worker.at \notin {"removing", "installing"} /\ unrecorded' = unrecorded \ {x} /\ misses'[x] = NoMiss)
      BY <1>1, <1>7 DEF RetryStops, RetrySucceeds
    <2> QED BY <1>1, <2>2, <2>3, <2>4, ForgettingKeeps
  <1>8. CASE StartCycle
    <2> DEFINE w == [AtRest EXCEPT !.at = "scanning", !.snapshot = entry]
    <2>1. w \in Workers /\ w.at = "scanning" /\ Answers(w)
      BY <1>1, NothingKnown DEF Workers, WorkerPlaces, Answers
    <2>2. worker' = w /\ worker.at = "rest" /\ UNCHANGED <<syncClock, entry, misses, jobs, absentSince, unrecorded>>
      BY <1>8 DEF StartCycle
    <2> HIDE DEF w
    <2> QED BY <1>1, <2>1, <2>2, ForgettingKeeps
  <1>9. CASE AskKeys
    <2>1. worker.at = "scanning" /\ UNCHANGED <<syncClock, entry, misses, jobs, absentSince, unrecorded>>
      BY <1>9 DEF AskKeys
    <2>2. PICK failed \in SUBSET SyncKeys, found \in Listings :
             /\ \A k \in failed : found[k] = {}
             /\ \/ worker' = AtRest
                \/ worker' = [worker EXCEPT !.at = "applying", !.failed = failed, !.found = found]
      BY <1>9 DEF AskKeys, Listings
    <2>3. LET w == [worker EXCEPT !.at = "applying", !.failed = failed, !.found = found]
          IN  w \in Workers /\ w.at = "applying" /\ Answers(w)
      BY <1>1, <2>2 DEF Workers, WorkerPlaces, Answers
    <2>4. worker' \in Workers /\ Answers(worker') /\ worker'.at \in {"rest", "applying"}
      BY <2>2, <2>3, NothingKnown
    <2> QED BY <1>1, <2>1, <2>4, ForgettingKeeps
  <1>10. CASE RemoveTargeted
    <2>1. /\ worker.at = "removing" /\ worker' = AtRest /\ Target \in Pairs
          /\ UNCHANGED <<syncClock, jobs, absentSince, unrecorded>>
      BY <1>1, <1>10 DEF RemoveTargeted
    <2>2. misses' = misses \/ misses' = [misses EXCEPT ![Target] = NoMiss]
      BY <1>10 DEF RemoveTargeted
    <2>3. misses' \in [Pairs -> Misses] /\ \A y \in Pairs : misses'[y] \in {misses[y], NoMiss}
      BY <1>1, <2>1, <2>2, NothingKnown
    <2>4. entry' \in Entries
      <3>1. entry' = entry \/ entry' = [entry EXCEPT !.lists[worker.key] = @ \ {worker.model}]
        BY <1>10 DEF RemoveTargeted
      <3>2. entry.lists \in Listings /\ worker.key \in SyncKeys
        BY <1>1, <2>1 DEF Entries, Target, Pairs
      <3> DEFINE l == [entry.lists EXCEPT ![worker.key] = @ \ {worker.model}]
      <3>3. l \in Listings
        BY <3>2 DEF Listings
      <3>4. [entry EXCEPT !.lists[worker.key] = @ \ {worker.model}] = [entry EXCEPT !.lists = l]
        BY <1>1 DEF Entries
      <3> HIDE DEF l
      <3> QED BY <1>1, <3>1, <3>3, <3>4 DEF Entries
    <2> QED BY <1>1, <2>1, <2>3, <2>4, NothingKnown, ForgettingKeeps
  <1> QED BY <1>2, <1>3, <1>4, <1>5, <1>6, <1>7, <1>8, <1>9, <1>10

(* The targeted model is listed.                                            *)
LEMMA ListedKeeps ==
    ASSUME SyncInv, TargetedListed
    PROVE  SyncInv'
  <1>1. /\ syncClock \in Nat /\ entry \in Entries /\ misses \in [Pairs -> Misses]
        /\ jobs \in Seq(Pairs) /\ worker \in Workers /\ absentSince \in [Pairs -> Nat]
        /\ worker.at = "asking" /\ Target \in Pairs /\ worker' = AtRest
        /\ UNCHANGED <<syncClock, entry, jobs>> /\ syncClock <= LastTime
    BY DEF SyncInv, SyncTyped, TargetedListed
  <1>2. /\ absentSince' = [absentSince EXCEPT ![Target] = Never]
        /\ \/ misses' = [misses EXCEPT ![Target] = NoMiss] /\ unrecorded' = unrecorded \ {Target}
           \/ misses' = misses /\ unrecorded' = unrecorded \cup {Target}
    BY DEF TargetedListed
  <1>3. Never \in Nat /\ unrecorded \subseteq Pairs
    BY SyncAssumption DEF Never, SyncInv, SyncTyped
  <1>4. misses' \in [Pairs -> Misses] /\ absentSince' \in [Pairs -> Nat] /\ unrecorded' \subseteq Pairs
    BY <1>1, <1>2, <1>3, NothingKnown
  <1>5. SyncTyped' /\ worker'.at = "rest"
    BY <1>1, <1>4, NothingKnown DEF SyncTyped
  <1>6. ASSUME NEW x \in Pairs PROVE Dated(Known(x)', absentSince'[x], syncClock)
    <2>1. /\ Dated(Known(x), absentSince[x], syncClock) /\ absentSince[x] \in Nat /\ misses[x] \in Misses
          /\ Known(x) = IF x \in unrecorded THEN NoMiss ELSE misses[x]
          /\ Known(x)' = IF x \in unrecorded' THEN NoMiss ELSE misses'[x]
      BY <1>1, <1>5 DEF SyncInv, Known, Told
    <2>2. CASE x = Target
      <3>1. Known(x)' = NoMiss /\ absentSince'[x] = Never
        BY <1>1, <1>2, <2>1, <2>2
      <3> QED BY <1>1, <2>1, <3>1, NothingKnown, ForgottenDated
    <2>3. CASE x # Target
      <3>1. Known(x)' = Known(x) /\ absentSince'[x] = absentSince[x]
        BY <1>1, <1>2, <2>1, <2>3
      <3> QED BY <2>1, <3>1
    <2> QED BY <2>2, <2>3
  <1> QED BY <1>1, <1>5, <1>6 DEF SyncInv

(* The targeted model is missing.                                           *)
LEMMA MissingKeeps ==
    ASSUME SyncInv, TargetedMissing
    PROVE  SyncInv'
  <1> DEFINE miss == Missed(misses[Target], worker.snapshot)
             since == absentSince[Target]
             after == IF since = Never THEN syncClock ELSE since
  <1>1. /\ SyncTyped /\ syncClock \in Nat /\ entry \in Entries /\ misses \in [Pairs -> Misses]
        /\ jobs \in Seq(Pairs) /\ worker \in Workers /\ absentSince \in [Pairs -> Nat]
        /\ worker.at = "asking" /\ Target \in Pairs
        /\ UNCHANGED <<syncClock, entry, jobs>> /\ syncClock <= LastTime
    BY DEF SyncInv, SyncTyped, TargetedMissing
  <1>2. /\ misses' = [misses EXCEPT ![Target] = miss]
        /\ absentSince' = [absentSince EXCEPT ![Target] = after]
        /\ worker' = AtRest \/ (worker' = [worker EXCEPT !.at = "removing"] /\ miss.count >= 2)
        /\ unrecorded' = unrecorded /\ unrecorded \subseteq Pairs
    BY <1>1 DEF TargetedMissing, MissedSince, Confirmed, SyncTyped
  <1>3. /\ \A x \in Pairs : /\ Dated(Known(x), absentSince[x], syncClock)
                           /\ Known(x) = IF x \in unrecorded THEN NoMiss ELSE misses[x]
        /\ misses[Target] \in Misses /\ since \in Nat /\ worker.snapshot \in Entries
    BY <1>1 DEF SyncInv, Known, Told, Workers
  <1>4. miss \in Misses /\ after \in Nat /\ Dated(IF Target \in unrecorded THEN NoMiss ELSE miss, after, syncClock)
    <2>1. miss \in Misses
      BY <1>1, <1>3, MissedTyped
    <2>2. CASE Target \in unrecorded
      <3>1. Dated(NoMiss, since, syncClock)
        BY <1>1, <1>3, <2>2
      <3> QED BY <1>1, <1>3, <2>1, <2>2, <3>1, NothingKnown, MissedDated
    <2>3. CASE Target \notin unrecorded
      <3>1. Dated(misses[Target], since, syncClock)
        BY <1>1, <1>3, <2>3
      <3> QED BY <1>1, <1>3, <2>1, <2>3, <3>1, MissedDated
    <2> QED BY <2>2, <2>3
  <1> HIDE DEF miss, after, since
  <1>5. misses' \in [Pairs -> Misses] /\ absentSince' \in [Pairs -> Nat]
    BY <1>1, <1>2, <1>4
  <1>6. /\ worker' \in Workers /\ worker'.at \in {"rest", "removing"} /\ Answers(worker')
        /\ worker'.at = "removing" => Target' = Target /\ miss.count >= 2
    BY <1>1, <1>2, NothingKnown DEF Workers, WorkerPlaces, Target, Answers, SyncTyped
  <1>7. SyncTyped'
    BY <1>1, <1>2, <1>5, <1>6 DEF SyncTyped
  <1>8. ASSUME NEW x \in Pairs PROVE Dated(Known(x)', absentSince'[x], syncClock)
    <2>1. Known(x)' = IF x \in unrecorded THEN NoMiss ELSE misses'[x]
      BY <1>2, <1>6 DEF Known, Told
    <2>2. CASE x = Target
      BY <1>1, <1>2, <1>4, <2>1, <2>2
    <2>3. CASE x # Target
      <3>1. Known(x)' = Known(x) /\ absentSince'[x] = absentSince[x]
        BY <1>1, <1>2, <1>3, <2>1, <2>3
      <3> QED BY <1>3, <3>1
    <2> QED BY <2>2, <2>3
  <1>9. worker'.at = "removing" => Target' \in unrecorded' \/ absentSince'[Target'] + Interval <= syncClock'
    <2>1. miss.count >= 2 => miss.count = 2
      BY <1>4 DEF Misses
    <2>2. absentSince'[Target] = after
      BY <1>1, <1>2
    <2> QED BY <1>1, <1>2, <1>4, <1>6, <2>1, <2>2 DEF Dated
  <1> QED BY <1>1, <1>7, <1>8, <1>9 DEF SyncInv

(* What one cycle learns of a key and a model is dated by what it records.  *)
LEMMA LearntDated ==
    ASSUME SyncInv, worker.at = "applying", NEW k \in SyncKeys, NEW m \in SyncModels,
           NEW since, since = (CASE k \in worker.failed -> absentSince[<<k, m>>]
                                 [] m \in worker.found[k] -> Never
                                 [] k \notin worker.failed /\ m \notin worker.found[k] -> MissedSince(<<k, m>>)),
           k \in worker.failed => worker.found[k] = {}
    PROVE  /\ Learnt(k, m) \in Misses /\ since \in Nat
           /\ Dated(NoMiss, since, syncClock)
           /\ Dated(Learnt(k, m), since, syncClock) \/ (<<k, m>> \in unrecorded /\ m \notin worker.found[k])
  <1> DEFINE x == <<k, m>>
             after == IF absentSince[x] = Never THEN syncClock ELSE absentSince[x]
  <1>1. x \in Pairs
    BY DEF Pairs
  <1>2. /\ misses[x] \in Misses /\ absentSince[x] \in Nat /\ worker.snapshot \in Entries /\ SyncTyped
        /\ syncClock \in Nat /\ Never \in Nat
        /\ Dated(NoMiss, absentSince[x], syncClock)
        /\ x \notin unrecorded => Dated(misses[x], absentSince[x], syncClock)
    <2>1. /\ misses[x] \in Misses /\ absentSince[x] \in Nat /\ worker.snapshot \in Entries /\ SyncTyped
          /\ syncClock \in Nat /\ Never \in Nat
      BY <1>1, SyncAssumption DEF SyncInv, SyncTyped, Workers, Never
    <2>2. Dated(IF x \in unrecorded THEN NoMiss ELSE misses[x], absentSince[x], syncClock)
      BY <1>1 DEF SyncInv, Known, Told
    <2> HIDE DEF x
    <2>3. x \notin unrecorded => Dated(misses[x], absentSince[x], syncClock)
      BY <2>2
    <2>4. Dated(NoMiss, absentSince[x], syncClock)
      BY <2>1, <2>2, NothingKnown, ForgottenDated
    <2> QED BY <2>1, <2>3, <2>4
  <1>3. /\ Missed(misses[x], worker.snapshot) \in Misses
        /\ Dated(NoMiss, after, syncClock) /\ after \in Nat
        /\ x \notin unrecorded => /\ Dated(Missed(misses[x], worker.snapshot), after, syncClock)
                                /\ Dated(misses[x], after, syncClock)
    <2>1. Missed(misses[x], worker.snapshot) \in Misses
      BY <1>2, MissedTyped
    <2>2. Dated(NoMiss, after, syncClock) /\ after \in Nat
      BY <1>2, NothingKnown, MissedDated
    <2>3. ASSUME x \notin unrecorded
          PROVE  Dated(Missed(misses[x], worker.snapshot), after, syncClock) /\ Dated(misses[x], after, syncClock)
      BY <1>2, <2>3, MissedDated
    <2> QED BY <2>1, <2>2, <2>3
  <1>4. MissedSince(x) = after
    BY DEF MissedSince
  <1> HIDE DEF x, after
  <1>5. CASE k \in worker.failed
    <2>1. since = absentSince[x] /\ Learnt(k, m) = misses[x] /\ m \notin worker.found[k]
      BY <1>5 DEF Learnt, x
    <2> QED BY <1>2, <2>1 DEF x
  <1>6. CASE k \notin worker.failed /\ m \in worker.found[k]
    <2>1. since = Never /\ Learnt(k, m) = NoMiss
      BY <1>6 DEF Learnt, x
    <2> QED BY <1>2, <2>1, NothingKnown, ForgottenDated
  <1>7. CASE k \notin worker.failed /\ m \notin worker.found[k]
    <2>1. since = after /\ Learnt(k, m) \in {misses[x], Missed(misses[x], worker.snapshot)}
      BY <1>4, <1>7 DEF Learnt, x
    <2> QED BY <1>2, <1>3, <1>7, <2>1 DEF x
  <1> QED BY <1>5, <1>6, <1>7

(* A cycle's answers are applied.                                           *)
LEMMA ApplyKeeps ==
    ASSUME SyncInv, ApplyDiscovery
    PROVE  SyncInv'
  <1> DEFINE after == [entry EXCEPT !.lists = [k \in SyncKeys |-> ListAfter(k)], !.mapped = TRUE]
             learnt == [x \in Pairs |->
                   IF Confirmed(Learnt(x[1], x[2])) THEN NoMiss ELSE Carried(Learnt(x[1], x[2]), after)]
             since == [x \in Pairs |->
               CASE x[1] \in worker.failed -> absentSince[x]
                 [] x[2] \in worker.found[x[1]] -> Never
                 [] x[1] \notin worker.failed /\ x[2] \notin worker.found[x[1]] -> MissedSince(x)]
  <1>1. /\ SyncTyped /\ syncClock \in Nat /\ entry \in Entries /\ misses \in [Pairs -> Misses]
        /\ jobs \in Seq(Pairs) /\ worker \in Workers /\ absentSince \in [Pairs -> Nat]
        /\ worker.at = "applying" /\ Answers(worker)
        /\ UNCHANGED <<syncClock, misses, jobs>> /\ syncClock <= LastTime
    BY DEF SyncInv, SyncTyped, ApplyDiscovery
  <1>2. \/ /\ entry' = after /\ worker' = [AtRest EXCEPT !.at = "installing", !.learnt = learnt]
           /\ absentSince' = since
           /\ unrecorded' = {x \in unrecorded : x[2] \notin worker.found[x[1]]}
        \/ /\ UNCHANGED <<entry, absentSince, unrecorded>>
           /\ worker' = [AtRest EXCEPT !.at = "installing", !.learnt = misses]
    BY DEF ApplyDiscovery, Pairs
  <1>3. ASSUME NEW l \in [Pairs -> Misses], worker' = [AtRest EXCEPT !.at = "installing", !.learnt = l]
        PROVE  worker' \in Workers /\ worker'.at = "installing" /\ worker'.learnt = l /\ Answers(worker')
    <2>1. AtRest.failed = {}
      BY DEF AtRest
    <2> QED BY <1>3, <2>1, NothingKnown DEF Workers, WorkerPlaces, Answers
  <1>4. CASE /\ UNCHANGED <<entry, absentSince, unrecorded>>
             /\ worker' = [AtRest EXCEPT !.at = "installing", !.learnt = misses]
    <2>1. worker' \in Workers /\ worker'.at = "installing" /\ worker'.learnt = misses /\ Answers(worker')
      BY <1>1, <1>3, <1>4
    <2>2. SyncTyped'
      BY <1>1, <1>4, <2>1 DEF SyncTyped
    <2>3. \A x \in Pairs : Known(x)' = Known(x)
      BY <1>1, <1>4, <2>1 DEF Known, Told
    <2> QED BY <1>1, <1>4, <2>1, <2>2, <2>3 DEF SyncInv
  <1>5. CASE /\ entry' = after /\ worker' = [AtRest EXCEPT !.at = "installing", !.learnt = learnt]
             /\ absentSince' = since
             /\ unrecorded' = {x \in unrecorded : x[2] \notin worker.found[x[1]]}
    <2>1. after \in Entries
      <3>1. \A k \in SyncKeys : ListAfter(k) \in SUBSET SyncModels
        BY <1>1 DEF ListAfter, Entries, Workers, Listings
      <3> DEFINE l == [k \in SyncKeys |-> ListAfter(k)]
      <3>2. l \in Listings
        BY <3>1 DEF Listings
      <3>3. after = [entry EXCEPT !.lists = l, !.mapped = TRUE]
        OBVIOUS
      <3> HIDE DEF l, after
      <3> QED BY <1>1, <3>2, <3>3 DEF Entries
    <2> HIDE DEF after
    <2>2. ASSUME NEW x \in Pairs
          PROVE  /\ learnt[x] \in Misses /\ since[x] \in Nat
                 /\ Dated(IF x \in unrecorded' THEN NoMiss ELSE learnt[x], since[x], syncClock)
      <3> DEFINE k == x[1]
                 m == x[2]
                 e == Learnt(k, m)
      <3>1. k \in SyncKeys /\ m \in SyncModels /\ x = <<k, m>>
        BY DEF Pairs
      <3>2. since[x] = (CASE k \in worker.failed -> absentSince[<<k, m>>]
                          [] m \in worker.found[k] -> Never
                          [] k \notin worker.failed /\ m \notin worker.found[k] -> MissedSince(<<k, m>>))
        BY <3>1
      <3>3. learnt[x] = IF Confirmed(e) THEN NoMiss ELSE Carried(e, after)
        OBVIOUS
      <3> HIDE DEF since, learnt, k, m
      <3>4. /\ e \in Misses /\ since[x] \in Nat /\ Dated(NoMiss, since[x], syncClock)
            /\ Dated(e, since[x], syncClock) \/ x \in unrecorded'
        <4>1. k \in worker.failed => worker.found[k] = {}
          BY <1>1 DEF Answers
        <4>2. /\ e \in Misses /\ since[x] \in Nat /\ Dated(NoMiss, since[x], syncClock)
              /\ Dated(e, since[x], syncClock) \/ (<<k, m>> \in unrecorded /\ m \notin worker.found[k])
          BY <1>1, <3>1, <3>2, <4>1, LearntDated
        <4>3. x \in unrecorded /\ m \notin worker.found[k] => x \in unrecorded'
          BY <1>5 DEF k, m
        <4> QED BY <3>1, <4>2, <4>3
      <3> HIDE DEF e
      <3>5. Carried(e, after) \in Misses /\ Carried(e, after).count = e.count /\ Carried(e, after).at = e.at
        BY <2>1, <3>4 DEF Carried, Misses
      <3>6. Dated(Carried(e, after), since[x], syncClock) \/ x \in unrecorded'
        BY <1>1, <3>4, <3>5 DEF Dated
      <3> QED BY <3>3, <3>4, <3>5, <3>6, NothingKnown
    <2>3. learnt \in [Pairs -> Misses] /\ since \in [Pairs -> Nat]
      BY <2>2
    <2> HIDE DEF learnt, since
    <2>4. worker' \in Workers /\ worker'.at = "installing" /\ worker'.learnt = learnt /\ Answers(worker')
      BY <1>3, <1>5, <2>3
    <2>5. unrecorded' \subseteq Pairs
      BY <1>1, <1>5 DEF SyncTyped
    <2>6. SyncTyped'
      BY <1>1, <1>5, <2>1, <2>3, <2>4, <2>5 DEF SyncTyped
    <2>7. \A x \in Pairs : Known(x)' = IF x \in unrecorded' THEN NoMiss ELSE learnt[x]
      BY <2>4 DEF Known, Told
    <2> QED BY <1>1, <1>5, <2>2, <2>4, <2>6, <2>7 DEF SyncInv
  <1> QED BY <1>2, <1>4, <1>5

(* The copy is installed.                                                   *)
LEMMA InstallKeeps ==
    ASSUME SyncInv, InstallMisses
    PROVE  SyncInv'
  <1>1. /\ worker.at = "installing" /\ worker.learnt \in [Pairs -> Misses] /\ worker' = AtRest
        /\ SyncTyped /\ UNCHANGED <<syncClock, entry, jobs, absentSince, unrecorded>>
    BY DEF SyncInv, SyncTyped, Workers, InstallMisses
  <1>2. misses' = worker.learnt \/ misses' = [x \in Pairs |-> NoMiss]
    BY DEF InstallMisses, ReconciledMisses, Pairs
  <1>3. misses' \in [Pairs -> Misses] /\ \A x \in Pairs : misses'[x] \in {worker.learnt[x], NoMiss}
    BY <1>1, <1>2, NothingKnown
  <1>4. AtRest.failed = {}
    BY DEF AtRest
  <1>5. SyncTyped'
    BY <1>1, <1>3, <1>4, NothingKnown DEF SyncTyped, Answers
  <1>6. ASSUME NEW x \in Pairs PROVE Dated(Known(x)', absentSince[x], syncClock)
    <2>1. /\ Dated(Known(x), absentSince[x], syncClock) /\ worker.learnt[x] \in Misses
          /\ absentSince[x] \in Nat /\ syncClock \in Nat
          /\ Known(x) = IF x \in unrecorded THEN NoMiss ELSE worker.learnt[x]
          /\ Known(x)' = IF x \in unrecorded THEN NoMiss ELSE misses'[x]
      BY <1>1, NothingKnown DEF SyncInv, SyncTyped, Known, Told
    <2>2. Known(x)' \in {Known(x), NoMiss} /\ Known(x) \in Misses
      BY <1>3, <2>1, NothingKnown
    <2> QED BY <2>1, <2>2, ForgottenDated
  <1> QED BY <1>1, <1>5, <1>6, NothingKnown DEF SyncInv

(* Time passes.                                                             *)
LEMMA SyncTickKeeps ==
    ASSUME SyncInv, SyncTick
    PROVE  SyncInv'
  <1>1. /\ syncClock' = syncClock + 1 /\ syncClock < LastTime /\ SyncTyped
        /\ UNCHANGED <<entry, misses, jobs, worker, absentSince, unrecorded>>
    BY DEF SyncInv, SyncTick
  <1>2. syncClock \in Nat /\ LastTime \in Nat /\ Interval \in Nat
    BY <1>1, SyncAssumption DEF SyncTyped
  <1>3. SyncTyped'
    BY <1>1, <1>2 DEF SyncTyped, Target
  <1>4. ASSUME NEW x \in Pairs PROVE Dated(Known(x)', absentSince'[x], syncClock')
    <2>1. Known(x)' = Known(x) /\ Known(x) \in Misses /\ absentSince[x] \in Nat
      BY <1>1, NothingKnown DEF Known, Told, SyncTyped, Workers
    <2>2. Dated(Known(x), absentSince[x], syncClock)
      BY DEF SyncInv
    <2> QED BY <1>1, <1>2, <2>1, <2>2 DEF Dated, Misses
  <1>5. worker'.at = "removing" => Target' \in unrecorded' \/ absentSince'[Target'] + Interval <= syncClock'
    <2>1. ASSUME worker.at = "removing"
          PROVE  absentSince[Target] \in Nat /\ (Target \in unrecorded \/ absentSince[Target] + Interval <= syncClock)
      BY <1>1, <2>1 DEF SyncInv, SyncTyped
    <2> QED BY <1>1, <1>2, <2>1 DEF Target
  <1> QED BY <1>3, <1>4, <1>5 DEF SyncInv

(* Every step keeps the invariant.                                          *)
LEMMA SyncInvNext == SyncInv /\ [SyncNext]_syncVars => SyncInv'
  <1> SUFFICES ASSUME SyncInv, [SyncNext]_syncVars PROVE SyncInv'
    OBVIOUS
  <1>1. CASE UNCHANGED syncVars
    BY <1>1 DEF syncVars, SyncInv, SyncTyped, Known, Told, Target, Answers
  <1>2. CASE SyncNext
    BY <1>2, OthersKeep, ListedKeeps, MissingKeeps, ApplyKeeps, InstallKeeps, SyncTickKeeps
       DEF SyncNext, Pairs
  <1> QED BY <1>1, <1>2

(* The invariant holds at the start.                                        *)
LEMMA SyncInvInit == SyncInit => SyncInv
  <1> SUFFICES ASSUME SyncInit PROVE SyncInv
    OBVIOUS
  <1>1. entry \in Entries
    <2>1. [k \in SyncKeys |-> SyncModels] \in Listings /\ [k \in SyncKeys |-> {}] \in Listings
      BY DEF Listings
    <2> QED BY <2>1 DEF SyncInit, Entries
  <1>2. misses = [x \in Pairs |-> NoMiss] /\ absentSince = [x \in Pairs |-> Never] /\ Never \in Nat
    BY SyncAssumption DEF SyncInit, Never, Pairs
  <1>3. worker = AtRest /\ AtRest.failed = {} /\ syncClock = 0 /\ jobs = <<>> /\ unrecorded = {}
    BY DEF SyncInit, AtRest
  <1>4. SyncTyped
    BY <1>1, <1>2, <1>3, NothingKnown, SyncAssumption DEF SyncTyped, Answers
  <1>5. \A x \in Pairs : Dated(Known(x), absentSince[x], syncClock)
    BY <1>2, <1>3, NothingKnown DEF Dated, Known, Told
  <1> QED BY <1>3, <1>4, <1>5, NothingKnown DEF SyncInv

(* A model leaves a key's list only by a confirmed miss.                    *)
LEMMA RemovalConfirmed ==
    ASSUME SyncInv, [SyncNext]_syncVars
    PROVE  \A k \in SyncKeys, m \in SyncModels :
             m \in entry.lists[k] \ entry'.lists[k] =>
               \/ absentSince'[<<k, m>>] # Never /\ syncClock - absentSince'[<<k, m>>] >= Interval
               \/ <<k, m>> \in unrecorded
  <1>1. SUFFICES ASSUME NEW k \in SyncKeys, NEW m \in SyncModels, m \in entry.lists[k] \ entry'.lists[k],
                        <<k, m>> \notin unrecorded
                 PROVE  absentSince'[<<k, m>>] \in Nat /\ absentSince'[<<k, m>>] + Interval <= syncClock
    <2>1. syncClock \in Nat /\ syncClock < Never /\ Interval \in Nat /\ Never \in Nat
      BY SyncAssumption DEF SyncInv, SyncTyped, Never
    <2> QED BY <1>1, <2>1
  <1>2. /\ SyncTyped /\ entry \in Entries /\ <<k, m>> \in Pairs /\ absentSince \in [Pairs -> Nat]
    BY DEF SyncInv, SyncTyped, Pairs
  <1>3. RemoveTargeted \/ ApplyDiscovery
    <2>1. entry'.lists # entry.lists
      BY <1>1
    <2>2. ~EditUpstream
      <3>1. ASSUME EditUpstream PROVE entry'.lists = entry.lists
        BY <1>2, <3>1 DEF EditUpstream, Entries
      <3> QED BY <2>1, <3>1
    <2>3. entry' # entry
      BY <2>1
    <2> QED BY <2>2, <2>3 DEF SyncNext, syncVars, SubmitTargeted, ReconcileAfterEdit, TakeTargeted,
               TargetedDropped, TargetedListed, TargetedMissing, RetryStops, RetrySucceeds,
               StartCycle, AskKeys, InstallMisses, SyncTick
  <1>4. CASE RemoveTargeted
    <2>1. /\ worker.at = "removing" /\ absentSince' = absentSince
          /\ entry' = [entry EXCEPT !.lists[worker.key] = @ \ {worker.model}] \/ entry' = entry
      BY <1>4 DEF RemoveTargeted
    <2>2. k = worker.key /\ m = worker.model
      <3>1. entry' = [entry EXCEPT !.lists[worker.key] = @ \ {worker.model}]
        BY <1>1, <2>1
      <3>2. entry.lists \in Listings
        BY <1>2 DEF Entries
      <3>3. entry'.lists = [entry.lists EXCEPT ![worker.key] = @ \ {worker.model}]
        BY <1>2, <3>1 DEF Entries
      <3> QED BY <1>1, <3>2, <3>3 DEF Listings
    <2>3. absentSince[Target] + Interval <= syncClock /\ Target = <<k, m>>
      BY <1>1, <2>1, <2>2 DEF SyncInv, Target
    <2> QED BY <1>2, <2>1, <2>3
  <1>5. CASE ApplyDiscovery
    <2>1. worker.at = "applying" /\ Answers(worker) /\ worker \in Workers
      BY <1>2, <1>5 DEF ApplyDiscovery, SyncTyped
    <2>2. /\ entry' = [entry EXCEPT !.lists = [j \in SyncKeys |-> ListAfter(j)], !.mapped = TRUE]
          /\ absentSince' = [x \in Pairs |->
               CASE x[1] \in worker.failed -> absentSince[x]
                 [] x[2] \in worker.found[x[1]] -> Never
                 [] x[1] \notin worker.failed /\ x[2] \notin worker.found[x[1]] -> MissedSince(x)]
      BY <1>1, <1>5 DEF ApplyDiscovery, Pairs
    <2>3. entry'.lists[k] = ListAfter(k)
      BY <1>2, <2>2 DEF Entries
    <2>4. k \notin worker.failed /\ m \notin worker.found[k] /\ Confirmed(Learnt(k, m))
      BY <1>1, <2>3 DEF ListAfter
    <2>5. absentSince'[<<k, m>>] = (CASE k \in worker.failed -> absentSince[<<k, m>>]
                          [] m \in worker.found[k] -> Never
                          [] k \notin worker.failed /\ m \notin worker.found[k] -> MissedSince(<<k, m>>))
      BY <1>2, <2>2
    <2> DEFINE since == absentSince'[<<k, m>>]
    <2>6. Learnt(k, m) \in Misses /\ Dated(Learnt(k, m), since, syncClock) /\ since \in Nat
      <3> HIDE DEF since
      <3> QED BY <1>1, <2>1, <2>5, LearntDated DEF Answers, since
    <2>7. Learnt(k, m).count = 2
      BY <2>4, <2>6 DEF Confirmed, Misses
    <2> QED BY <2>6, <2>7 DEF Dated
  <1> QED BY <1>3, <1>4, <1>5

(* The safety half of KeySyncPromise, for any keys, models and interval:    *)
(* discovery takes a model off a key only when every answer since a miss    *)
(* that is a whole interval old was without it, across targeted jobs,       *)
(* cycles, edits and keys that did not answer, unless Redis kept its last   *)
(* listing from being recorded.                                             *)
THEOREM RemovalsWait == SyncSpec => ModelRemovedAfterInterval
  <1>1. SyncInv /\ [SyncNext]_syncVars =>
          [\A k \in SyncKeys, m \in SyncModels :
             m \in entry.lists[k] \ entry'.lists[k] =>
               \/ absentSince'[<<k, m>>] # Never /\ syncClock - absentSince'[<<k, m>>] >= Interval
               \/ <<k, m>> \in unrecorded]_syncVars
    BY RemovalConfirmed
  <1> QED BY <1>1, SyncInvInit, SyncInvNext, PTL DEF SyncSpec, ModelRemovedAfterInterval

-----------------------------------------------------------------------------
(* CapabilityProbes: a submission always has a job on its way.              *)

ProbeJobs == [route : Routes, fp : {"old", "new"}, rules : Nat]

OneEach(q) == \A i, j \in 1 .. Len(q) : q[i].route = q[j].route => i = j

ProbesTyped ==
    /\ route \in [Routes -> {"old", "new"}] /\ rules \in Nat
    /\ submitted \in [Routes -> ProbeJobs \cup {NoJob}]
    /\ running \in [Routes -> ProbeJobs \cup {NoJob}]
    /\ \A r \in Routes : /\ submitted[r] # NoJob => submitted[r].route = r
                         /\ running[r] # NoJob => running[r].route = r
    /\ ingress \in Seq(Seq(ProbeJobs) \ {<<>>}) /\ deferred \in Seq(ProbeJobs)
    /\ queued \in Seq(ProbeJobs) /\ OneEach(queued)

ProbesInv == ProbesTyped /\ SubmissionHasJob /\ KnownHasJob

InSeq(x, s) == \E i \in 1 .. Len(s) : s[i] = x
QueuedRoutes(q) == {r \in Routes : QueuedAt(q, r) # {}}

(* A job is on its way when it is in a batch, in the rest of one, or queued. *)
OnItsWay(x, batches, rest, q) ==
    (\E b \in 1 .. Len(batches) : InSeq(x, batches[b])) \/ InSeq(x, rest) \/ InSeq(x, q)

(* A job that waits is in a batch, in the rest of one, or queued.           *)
LEMMA WaitingIsOnItsWay ==
    \A x : x \in JobsWaiting <=> OnItsWay(x, ingress, deferred, queued)
BY DEF JobsWaiting, OnItsWay, InSeq

(* What a sequence holds after Append.                                      *)
LEMMA AppendHas ==
    ASSUME NEW S, NEW s \in Seq(S), NEW e \in S
    PROVE  /\ Append(s, e) \in Seq(S) /\ InSeq(e, Append(s, e))
           /\ \A x : InSeq(x, s) => InSeq(x, Append(s, e))
           /\ \A i \in 1 .. Len(Append(s, e)) : Append(s, e)[i] = IF i \in 1 .. Len(s) THEN s[i] ELSE e
           /\ Len(Append(s, e)) = Len(s) + 1
  <1>1. /\ Len(Append(s, e)) = Len(s) + 1 /\ Len(s) \in Nat /\ Append(s, e) \in Seq(S)
        /\ \A i \in 1 .. Len(s) : Append(s, e)[i] = s[i]
        /\ Append(s, e)[Len(s) + 1] = e
    OBVIOUS
  <1> DEFINE t == Append(s, e)
  <1> HIDE DEF t
  <1>2. InSeq(e, t)
    BY <1>1 DEF InSeq, t
  <1>3. \A x : InSeq(x, s) => InSeq(x, t)
    BY <1>1 DEF InSeq, t
  <1>4. \A i \in 1 .. Len(t) : t[i] = IF i \in 1 .. Len(s) THEN s[i] ELSE e
    BY <1>1 DEF t
  <1> QED BY <1>1, <1>2, <1>3, <1>4 DEF t

(* What a sequence holds without its head.                                  *)
LEMMA TailHas ==
    ASSUME NEW S, NEW s \in Seq(S), s # <<>>
    PROVE  /\ Tail(s) \in Seq(S) /\ Head(s) \in S
           /\ \A x : InSeq(x, s) => x = Head(s) \/ InSeq(x, Tail(s))
           /\ \A i \in 1 .. Len(Tail(s)) : Tail(s)[i] = s[i + 1] /\ i + 1 \in 1 .. Len(s)
           /\ \A i \in 1 .. Len(s) : s[i] = Head(s) \/ \E j \in 1 .. Len(Tail(s)) : Tail(s)[j] = s[i]
  <1>1. /\ Tail(s) \in Seq(S) /\ Head(s) \in S /\ Len(Tail(s)) = Len(s) - 1 /\ Head(s) = s[1]
        /\ Len(s) \in Nat /\ Len(s) > 0
        /\ \A i \in 1 .. Len(s) - 1 : Tail(s)[i] = s[i + 1]
    OBVIOUS
  <1> DEFINE t == Tail(s)
             h == Head(s)
  <1> HIDE DEF t, h
  <1>2. \A i \in 1 .. Len(t) : t[i] = s[i + 1] /\ i + 1 \in 1 .. Len(s)
    BY <1>1 DEF t
  <1>3. ASSUME NEW i \in 1 .. Len(s) PROVE s[i] = h \/ \E j \in 1 .. Len(t) : t[j] = s[i]
    <2>1. CASE i = 1
      BY <1>1, <2>1 DEF h
    <2>2. CASE i # 1
      <3>1. i - 1 \in 1 .. Len(t) /\ t[i - 1] = s[i]
        BY <1>1, <2>2 DEF t
      <3> QED BY <3>1
    <2> QED BY <2>1, <2>2
  <1>4. \A x : InSeq(x, s) => x = h \/ InSeq(x, t)
    BY <1>3 DEF InSeq
  <1> QED BY <1>1, <1>2, <1>3, <1>4 DEF t, h

(* What enqueue_with_outcome does to the queue.                             *)
LEMMA EnqueueMoves ==
    ASSUME ProbesInv, NEW job \in ProbeJobs, NEW wider,
           NEW e, e = Enqueue(queued, job, wider)
    PROVE  /\ e.queue \in Seq(ProbeJobs) /\ OneEach(e.queue)
           /\ \A x : InSeq(x, queued) => InSeq(x, e.queue) \/ (e.out = "replaced" /\ x = e.old)
           /\ e.out # "full" => InSeq(job, e.queue) \/ running[job.route] = job
           /\ QueuedRoutes(e.queue) = QueuedRoutes(queued) \cup (IF e.out = "enqueued" THEN {job.route} ELSE {})
           /\ e.old \in ProbeJobs /\ job.route \in Routes
  <1> DEFINE at == QueuedAt(queued, job.route)
             i == CHOOSE n \in at : TRUE
             r == job.route
             same == [queue |-> queued, out |-> "unchanged", old |-> job]
             full == [queue |-> queued, out |-> "full", old |-> job]
             new == [queue |-> Append(queued, job), out |-> "enqueued", old |-> job]
             other == [queue |-> [queued EXCEPT ![i] = job], out |-> "replaced", old |-> queued[i]]
  <1>1. /\ queued \in Seq(ProbeJobs) /\ OneEach(queued) /\ r \in Routes
        /\ known = BusyRoutes \cup QueuedRoutes(queued)
    BY DEF ProbesInv, ProbesTyped, ProbeJobs, KnownHasJob, QueuedRoutes
  <1>2. \/ at # {} /\ queued[i] = job /\ e = same
        \/ at # {} /\ e = other
        \/ at = {} /\ running[r] = job /\ e = same
        \/ at = {} /\ r \in known /\ running[r] = NoJob /\ e = same
        \/ at = {} /\ e \in {new, full}
    BY DEF Enqueue
  <1>3. at # {} => i \in at
    OBVIOUS
  <1> HIDE DEF i, at
  <1>4. at # {} => i \in 1 .. Len(queued) /\ queued[i].route = r
    BY <1>3 DEF at, QueuedAt
  <1>5. CASE e = same /\ (running[r] = job \/ InSeq(job, queued))
    BY <1>1, <1>5
  <1>6. CASE at # {} /\ queued[i] = job /\ e = same
    BY <1>4, <1>5, <1>6 DEF InSeq
  <1>7. ~(at = {} /\ r \in known /\ running[r] = NoJob)
    BY <1>1 DEF at, QueuedRoutes, BusyRoutes
  <1>8. CASE e = full
    BY <1>1, <1>8
  <1>9. CASE at = {} /\ e = new
    <2> DEFINE q == Append(queued, job)
    <2>1. /\ q \in Seq(ProbeJobs) /\ InSeq(job, q) /\ \A x : InSeq(x, queued) => InSeq(x, q)
          /\ \A n \in 1 .. Len(q) : q[n] = IF n \in 1 .. Len(queued) THEN queued[n] ELSE job
          /\ Len(q) = Len(queued) + 1 /\ Len(queued) \in Nat
      BY <1>1, AppendHas
    <2>2. e.queue = q /\ e.out = "enqueued" /\ e.old = job
      BY <1>9
    <2> HIDE DEF q
    <2>3. OneEach(q)
      <3>1. \A n \in 1 .. Len(queued) : queued[n].route # r
        BY <1>9 DEF at, QueuedAt
      <3> QED BY <1>1, <2>1, <3>1 DEF OneEach
    <2>4. QueuedRoutes(q) = QueuedRoutes(queued) \cup {r}
      <3>1. ASSUME NEW s \in Routes
            PROVE  QueuedAt(q, s) # {} <=> QueuedAt(queued, s) # {} \/ s = r
        <4>1. \A n \in 1 .. Len(queued) : n \in 1 .. Len(q) /\ q[n] = queued[n]
          BY <2>1
        <4>2. Len(q) \in 1 .. Len(q) /\ q[Len(q)] = job
          BY <2>1
        <4> QED BY <2>1, <4>1, <4>2 DEF QueuedAt
      <3> QED BY <1>1, <3>1 DEF QueuedRoutes
    <2> QED BY <1>1, <2>1, <2>2, <2>3, <2>4
  <1>10. CASE at # {} /\ e = other
    <2> DEFINE q == [queued EXCEPT ![i] = job]
    <2>1. /\ q \in Seq(ProbeJobs) /\ Len(q) = Len(queued) /\ q[i] = job
          /\ \A n \in 1 .. Len(queued) : n # i => q[n] = queued[n]
          /\ \A n \in 1 .. Len(queued) : q[n].route = queued[n].route
      BY <1>1, <1>4, <1>10
    <2>2. e.queue = q /\ e.out = "replaced" /\ e.old = queued[i] /\ queued[i] \in ProbeJobs
      BY <1>1, <1>4, <1>10
    <2> HIDE DEF q
    <2>3. OneEach(q)
      BY <1>1, <2>1 DEF OneEach
    <2>4. InSeq(job, q) /\ \A x : InSeq(x, queued) => InSeq(x, q) \/ x = queued[i]
      BY <1>4, <1>10, <2>1 DEF InSeq
    <2>5. QueuedRoutes(q) = QueuedRoutes(queued)
      BY <2>1 DEF QueuedRoutes, QueuedAt
    <2> QED BY <1>1, <2>1, <2>2, <2>3, <2>4, <2>5
  <1> QED BY <1>2, <1>5, <1>6, <1>7, <1>8, <1>9, <1>10

(* SubmissionHasJob, over where jobs wait.                                  *)
LEMMA HasJob ==
    ASSUME ProbesInv, NEW r \in Routes, submitted[r] # NoJob
    PROVE  OnItsWay(submitted[r], ingress, deferred, queued) \/ submitted[r] = running[r]
BY WaitingIsOnItsWay DEF ProbesInv, SubmissionHasJob

(* SubmissionHasJob after a step, over where jobs wait.                     *)
LEMMA HasJobNext ==
    ASSUME \A r \in Routes : submitted'[r] # NoJob =>
             OnItsWay(submitted'[r], ingress', deferred', queued') \/ submitted'[r] = running'[r]
    PROVE  SubmissionHasJob'
  <1>1. \A x : OnItsWay(x, ingress', deferred', queued') => x \in JobsWaiting'
    BY DEF JobsWaiting, OnItsWay, InSeq
  <1> QED BY <1>1 DEF SubmissionHasJob

(* finish_capability_probe_job takes an entry out only if it is the job's.  *)
LEMMA ReleasedEntries ==
    ASSUME ProbesInv, NEW job \in ProbeJobs
    PROVE  /\ ReleaseEntry(submitted, job) \in [Routes -> ProbeJobs \cup {NoJob}]
           /\ \A r \in Routes : ReleaseEntry(submitted, job)[r] # NoJob =>
                ReleaseEntry(submitted, job)[r] = submitted[r] /\ submitted[r] # job
  <1>1. submitted \in [Routes -> ProbeJobs \cup {NoJob}] /\ job.route \in Routes
    BY DEF ProbesInv, ProbesTyped, ProbeJobs
  <1>2. ReleaseEntry(submitted, job) = [submitted EXCEPT ![job.route] = IF @ = job THEN NoJob ELSE @]
    BY DEF ReleaseEntry
  <1>3. \A r \in Routes : submitted[r] = job => r = job.route
    BY ProbesAssumption DEF ProbesInv, ProbesTyped, ProbeJobs
  <1> QED BY <1>1, <1>2, <1>3

(* A job leaves its batch for the queue, or is turned away.                 *)
LEMMA EnqueueKeeps ==
    ASSUME ProbesInv, NEW job \in ProbeJobs, NEW wider, NEW e, e = Enqueue(queued, job, wider),
           queued' = e.queue,
           known' = IF e.out = "enqueued" THEN known \cup {job.route} ELSE known,
           submitted' = IF e.out = "replaced" THEN ReleaseEntry(submitted, e.old) ELSE submitted,
           ingress' \in Seq(Seq(ProbeJobs) \ {<<>>}), deferred' \in Seq(ProbeJobs),
           \A x : OnItsWay(x, ingress, deferred, <<>>) =>
               OnItsWay(x, ingress', deferred', <<>>) \/ (x = job /\ e.out # "full"),
           UNCHANGED <<route, rules, running>>
    PROVE  ProbesInv'
  <1>1. /\ e.queue \in Seq(ProbeJobs) /\ OneEach(e.queue)
        /\ \A x : InSeq(x, queued) => InSeq(x, e.queue) \/ (e.out = "replaced" /\ x = e.old)
        /\ e.out # "full" => InSeq(job, e.queue) \/ running[job.route] = job
        /\ QueuedRoutes(e.queue) = QueuedRoutes(queued) \cup (IF e.out = "enqueued" THEN {job.route} ELSE {})
        /\ e.old \in ProbeJobs /\ job.route \in Routes
    BY EnqueueMoves
  <1>2. /\ submitted' \in [Routes -> ProbeJobs \cup {NoJob}]
        /\ \A r \in Routes : submitted'[r] # NoJob =>
             submitted'[r] = submitted[r] /\ (e.out = "replaced" => submitted[r] # e.old)
    BY <1>1, ReleasedEntries DEF ProbesInv, ProbesTyped
  <1>3. ProbesTyped'
    BY <1>1, <1>2 DEF ProbesInv, ProbesTyped
  <1>4. SubmissionHasJob'
    <2>1. ASSUME NEW r \in Routes, submitted'[r] # NoJob
          PROVE  OnItsWay(submitted'[r], ingress', deferred', queued') \/ submitted'[r] = running'[r]
      <3> DEFINE x == submitted[r]
      <3>1. submitted'[r] = x /\ x # NoJob /\ (e.out = "replaced" => x # e.old) /\ x.route = r
        BY <1>2, <2>1 DEF ProbesInv, ProbesTyped
      <3>2. OnItsWay(x, ingress, deferred, queued) \/ x = running[r]
        BY <3>1, HasJob
      <3>3. ~InSeq(x, <<>>)
        BY DEF InSeq
      <3> HIDE DEF x
      <3>4. CASE InSeq(x, queued)
        BY <1>1, <3>1, <3>4 DEF OnItsWay
      <3>5. CASE OnItsWay(x, ingress, deferred, <<>>)
        <4>1. CASE OnItsWay(x, ingress', deferred', <<>>)
          BY <3>1, <3>3, <4>1 DEF OnItsWay
        <4>2. CASE x = job /\ e.out # "full"
          BY <1>1, <3>1, <4>2 DEF OnItsWay
        <4> QED BY <3>5, <4>1, <4>2
      <3> QED BY <3>1, <3>2, <3>4, <3>5 DEF OnItsWay
    <2> QED BY <2>1, HasJobNext
  <1>5. KnownHasJob'
    <2>1. known = BusyRoutes \cup QueuedRoutes(queued)
      BY DEF ProbesInv, KnownHasJob, QueuedRoutes
    <2>2. known' = BusyRoutes \cup QueuedRoutes(queued')
      BY <1>1, <2>1
    <2>3. BusyRoutes' = BusyRoutes
      BY DEF BusyRoutes
    <2> QED BY <2>2, <2>3 DEF KnownHasJob, QueuedRoutes
  <1> QED BY <1>3, <1>4, <1>5 DEF ProbesInv

(* The jobs of a batch and of the others.                                   *)
LEMMA BatchLeaves ==
    ASSUME ProbesInv, ingress # <<>>
    PROVE  /\ Head(ingress) \in Seq(ProbeJobs) \ {<<>>} /\ Tail(ingress) \in Seq(Seq(ProbeJobs) \ {<<>>})
           /\ \A x : (\E b \in 1 .. Len(ingress) : InSeq(x, ingress[b])) =>
                InSeq(x, Head(ingress)) \/ \E b \in 1 .. Len(Tail(ingress)) : InSeq(x, Tail(ingress)[b])
  <1>1. ingress \in Seq(Seq(ProbeJobs) \ {<<>>})
    BY DEF ProbesInv, ProbesTyped
  <1>2. /\ Tail(ingress) \in Seq(Seq(ProbeJobs) \ {<<>>}) /\ Head(ingress) \in Seq(ProbeJobs) \ {<<>>}
        /\ \A i \in 1 .. Len(ingress) : ingress[i] = Head(ingress) \/ \E j \in 1 .. Len(Tail(ingress)) : Tail(ingress)[j] = ingress[i]
    <2> DEFINE S == Seq(ProbeJobs) \ {<<>>}
    <2>1. ingress \in Seq(S)
      BY <1>1
    <2> HIDE DEF S
    <2>2. /\ Tail(ingress) \in Seq(S) /\ Head(ingress) \in S
          /\ \A i \in 1 .. Len(ingress) : ingress[i] = Head(ingress) \/ \E j \in 1 .. Len(Tail(ingress)) : Tail(ingress)[j] = ingress[i]
      BY <2>1, TailHas
    <2> QED BY <2>2 DEF S
  <1> DEFINE t == Tail(ingress)
             h == Head(ingress)
  <1> HIDE DEF t, h
  <1>3. ASSUME NEW x, \E b \in 1 .. Len(ingress) : InSeq(x, ingress[b])
        PROVE  InSeq(x, h) \/ \E b \in 1 .. Len(t) : InSeq(x, t[b])
    BY <1>2, <1>3 DEF t, h
  <1> QED BY <1>2, <1>3 DEF t, h

(* A batch is received or continued.                                        *)
LEMMA TakeKeeps ==
    ASSUME ProbesInv, ReceiveBatch \/ ContinueBatch
    PROVE  ProbesInv'
  <1>1. ASSUME NEW js \in Seq(ProbeJobs) \ {<<>>}, NEW wider, TakeJob(js, wider),
               ingress' \in Seq(Seq(ProbeJobs) \ {<<>>}),
               \A x : OnItsWay(x, ingress, deferred, <<>>) => OnItsWay(x, ingress', js, <<>>)
        PROVE  ProbesInv'
    <2> DEFINE job == Head(js)
               e == Enqueue(queued, job, wider)
    <2>1. /\ job \in ProbeJobs /\ Tail(js) \in Seq(ProbeJobs)
          /\ \A x : InSeq(x, js) => x = job \/ InSeq(x, Tail(js))
      <3>1. js \in Seq(ProbeJobs) /\ js # <<>>
        OBVIOUS
      <3> QED BY <3>1, TailHas
    <2>2. /\ queued' = e.queue
          /\ known' = IF e.out = "enqueued" THEN known \cup {job.route} ELSE known
          /\ submitted' = IF e.out = "replaced" THEN ReleaseEntry(submitted, e.old) ELSE submitted
          /\ deferred' = IF e.out = "full" THEN js ELSE Tail(js)
          /\ UNCHANGED <<route, rules, running>>
      BY <1>1 DEF TakeJob
    <2> HIDE DEF job
    <2>3. PICK f : f = e
      OBVIOUS
    <2>4. deferred' \in Seq(ProbeJobs)
      BY <2>1, <2>2
    <2>5. ASSUME NEW x, OnItsWay(x, ingress, deferred, <<>>)
          PROVE  OnItsWay(x, ingress', deferred', <<>>) \/ (x = job /\ f.out # "full")
      <3>1. OnItsWay(x, ingress', js, <<>>)
        BY <1>1, <2>5
      <3> QED BY <2>1, <2>2, <2>3, <3>1 DEF OnItsWay
    <2> HIDE DEF e
    <2>6. f = Enqueue(queued, job, wider)
      BY <2>3 DEF e
    <2> QED BY <1>1, <2>1, <2>2, <2>3, <2>4, <2>5, <2>6, EnqueueKeeps
  <1>2. CASE ReceiveBatch
    <2>1. /\ ingress # <<>> /\ deferred = <<>> /\ ingress' = Tail(ingress)
          /\ \E wider \in BOOLEAN : TakeJob(Head(ingress), wider)
      BY <1>2 DEF ReceiveBatch
    <2>2. PICK wider : TakeJob(Head(ingress), wider)
      BY <2>1
    <2>3. /\ Head(ingress) \in Seq(ProbeJobs) \ {<<>>} /\ Tail(ingress) \in Seq(Seq(ProbeJobs) \ {<<>>})
          /\ \A x : (\E b \in 1 .. Len(ingress) : InSeq(x, ingress[b])) =>
                InSeq(x, Head(ingress)) \/ \E b \in 1 .. Len(Tail(ingress)) : InSeq(x, Tail(ingress)[b])
      BY <2>1, BatchLeaves
    <2>4. \A x : OnItsWay(x, ingress, deferred, <<>>) => OnItsWay(x, ingress', Head(ingress), <<>>)
      <3>1. \A x : ~InSeq(x, <<>>)
        BY DEF InSeq
      <3> QED BY <2>1, <2>3, <3>1 DEF OnItsWay
    <2> QED BY <1>1, <2>1, <2>2, <2>3, <2>4
  <1>3. CASE ContinueBatch
    <2>1. /\ deferred # <<>> /\ ingress' = ingress /\ \E wider \in BOOLEAN : TakeJob(deferred, wider)
      BY <1>3 DEF ContinueBatch
    <2>2. PICK wider : TakeJob(deferred, wider)
      BY <2>1
    <2>3. deferred \in Seq(ProbeJobs) \ {<<>>} /\ ingress \in Seq(Seq(ProbeJobs) \ {<<>>})
      BY <2>1 DEF ProbesInv, ProbesTyped
    <2> QED BY <1>1, <2>1, <2>2, <2>3
  <1> QED BY <1>2, <1>3

(* The job of a route's present configuration.                              *)
LEMMA JobOfTyped ==
    ASSUME ProbesInv, NEW r \in Routes
    PROVE  JobOf(r) \in ProbeJobs /\ JobOf(r).route = r /\ JobOf(r) # NoJob
  <1>1. JobOf(r) \in ProbeJobs /\ JobOf(r).route = r
    BY DEF ProbesInv, ProbesTyped, JobOf, ProbeJobs
  <1> QED BY <1>1, ProbesAssumption DEF ProbeJobs

(* The tick enqueues a route of its own accord.                             *)
LEMMA TickKeeps ==
    ASSUME ProbesInv, NEW r \in Routes, TickFor(r)
    PROVE  ProbesInv'
  <1> DEFINE job == JobOf(r)
  <1>1. PICK e : e = Enqueue(queued, job, FALSE)
    OBVIOUS
  <1>2. /\ queued' = e.queue
        /\ known' = IF e.out = "enqueued" THEN known \cup {job.route} ELSE known
        /\ submitted' = IF e.out = "replaced" THEN ReleaseEntry(submitted, e.old) ELSE submitted
        /\ UNCHANGED <<route, rules, running, ingress, deferred>>
    BY <1>1, JobOfTyped DEF TickFor
  <1>3. job \in ProbeJobs
    BY JobOfTyped
  <1>4. ingress \in Seq(Seq(ProbeJobs) \ {<<>>}) /\ deferred \in Seq(ProbeJobs)
    BY DEF ProbesInv, ProbesTyped
  <1> HIDE DEF job
  <1> QED BY <1>1, <1>2, <1>3, <1>4, EnqueueKeeps

(* A step that only appends to the channel and changes entries of jobs that *)
(* are on their way.                                                        *)
LEMMA SubmissionKeeps ==
    ASSUME ProbesInv, UNCHANGED <<deferred, queued, known, running>>,
           route' \in [Routes -> {"old", "new"}], rules' \in Nat,
           NEW sent, sent \in Seq(Seq(ProbeJobs) \ {<<>>}), ingress' = sent,
           \A x : (\E b \in 1 .. Len(ingress) : InSeq(x, ingress[b])) => \E b \in 1 .. Len(sent) : InSeq(x, sent[b]),
           submitted' \in [Routes -> ProbeJobs \cup {NoJob}],
           \A r \in Routes : submitted'[r] # NoJob /\ submitted'[r] # submitted[r] =>
               submitted'[r].route = r /\ \E b \in 1 .. Len(sent) : InSeq(submitted'[r], sent[b])
    PROVE  ProbesInv'
  <1>1. ProbesTyped'
    BY DEF ProbesInv, ProbesTyped
  <1>2. ASSUME NEW r \in Routes, submitted'[r] # NoJob
        PROVE  OnItsWay(submitted'[r], ingress', deferred', queued') \/ submitted'[r] = running'[r]
    <2>1. CASE submitted'[r] # submitted[r]
      BY <1>2, <2>1 DEF OnItsWay
    <2>2. CASE submitted'[r] = submitted[r]
      <3>1. OnItsWay(submitted[r], ingress, deferred, queued) \/ submitted[r] = running[r]
        BY <1>2, <2>2, HasJob
      <3> QED BY <2>2, <3>1 DEF OnItsWay
    <2> QED BY <2>1, <2>2
  <1>3. KnownHasJob'
    BY DEF ProbesInv, KnownHasJob, BusyRoutes
  <1> QED BY <1>1, <1>2, <1>3, HasJobNext DEF ProbesInv

(* A request asks for one route.                                            *)
LEMMA AskOneKeeps ==
    ASSUME ProbesInv, NEW r \in Routes, AskOne(r)
    PROVE  ProbesInv'
  <1> DEFINE job == JobOf(r)
             one == <<job>>
             S == Seq(ProbeJobs) \ {<<>>}
  <1>1. /\ submitted' = [submitted EXCEPT ![r] = job] /\ ingress' = Append(ingress, one)
        /\ UNCHANGED <<route, rules, deferred, queued, known, running>>
    BY DEF AskOne
  <1>2. job \in ProbeJobs /\ job.route = r
    BY JobOfTyped
  <1>3. /\ submitted \in [Routes -> ProbeJobs \cup {NoJob}] /\ ingress \in Seq(S)
        /\ route \in [Routes -> {"old", "new"}] /\ rules \in Nat
    BY DEF ProbesInv, ProbesTyped
  <1> HIDE DEF job
  <1>4. one \in S /\ InSeq(job, one)
    BY <1>2 DEF InSeq
  <1> HIDE DEF one, S
  <1>5. /\ ingress' \in Seq(S) /\ Len(ingress') = Len(ingress) + 1 /\ Len(ingress) \in Nat
        /\ \A i \in 1 .. Len(ingress') : ingress'[i] = IF i \in 1 .. Len(ingress) THEN ingress[i] ELSE one
    BY <1>1, <1>3, <1>4, AppendHas
  <1>6. /\ \A i \in 1 .. Len(ingress) : i \in 1 .. Len(ingress') /\ ingress'[i] = ingress[i]
        /\ Len(ingress') \in 1 .. Len(ingress') /\ ingress'[Len(ingress')] = one
    BY <1>5
  <1>7. /\ \A x : (\E b \in 1 .. Len(ingress) : InSeq(x, ingress[b])) => \E b \in 1 .. Len(ingress') : InSeq(x, ingress'[b])
        /\ \E b \in 1 .. Len(ingress') : InSeq(job, ingress'[b])
    BY <1>4, <1>6
  <1>8. /\ submitted' \in [Routes -> ProbeJobs \cup {NoJob}]
        /\ \A s \in Routes : submitted'[s] # submitted[s] => s = r /\ submitted'[s] = job
    BY <1>1, <1>2, <1>3
  <1>9. ingress' \in Seq(Seq(ProbeJobs) \ {<<>>})
    BY <1>5 DEF S
  <1> DEFINE sent == ingress'
  <1> HIDE DEF sent
  <1>10. sent = ingress'
    BY DEF sent
  <1> QED BY <1>1, <1>2, <1>3, <1>7, <1>8, <1>9, <1>10, SubmissionKeeps

(* A function on an initial segment of the naturals is a sequence.          *)
LEMMA FunctionIsSeq ==
    ASSUME NEW S, NEW m \in Nat, NEW f \in [1 .. m -> S]
    PROVE  f \in Seq(S) /\ Len(f) = m
OBVIOUS

(* The jobs of a set of routes, in some order.                              *)
LEMMA OrderedJobs ==
    ASSUME ProbesInv, NEW asked \in SUBSET Routes, asked # {},
           NEW order \in [1 .. Cardinality(asked) -> asked],
           \A i, j \in DOMAIN order : i # j => order[i] # order[j],
           NEW js, js = [i \in DOMAIN order |-> JobOf(order[i])]
    PROVE  js \in Seq(ProbeJobs) \ {<<>>} /\ \A r \in asked : InSeq(JobOf(r), js)
  <1> DEFINE n == Cardinality(asked)
  <1>1. IsFiniteSet(asked) /\ n \in Nat /\ n # 0
    BY ProbesAssumption, FS_Subset, FS_CardinalityType, FS_EmptySet
  <1>2. \A i \in 1 .. n : JobOf(order[i]) \in ProbeJobs
    BY JobOfTyped
  <1>3. js \in [1 .. n -> ProbeJobs] /\ \A i \in 1 .. n : js[i] = JobOf(order[i])
    BY <1>2
  <1>4. order \in Injection(1 .. n, asked)
    BY DEF Injection, IsInjective
  <1>5. IsFiniteSet(1 .. n) /\ Cardinality(1 .. n) = n
    BY <1>1, FS_Interval
  <1>6. order \in Surjection(1 .. n, asked)
    BY <1>1, <1>4, <1>5, FS_Injection
  <1>7. \A r \in asked : \E i \in 1 .. n : order[i] = r
    BY <1>6 DEF Surjection
  <1> HIDE DEF n
  <1>8. js \in Seq(ProbeJobs) /\ Len(js) = n
    <2>1. n \in Nat /\ js \in [1 .. n -> ProbeJobs]
      BY <1>1, <1>3
    <2> QED BY <2>1, FunctionIsSeq
  <1> QED BY <1>1, <1>3, <1>7, <1>8 DEF InSeq

(* The channel after a batch was sent.                                      *)
LEMMA BatchSent ==
    ASSUME ProbesInv, NEW js \in Seq(ProbeJobs) \ {<<>>}, NEW sent, sent = Append(ingress, js)
    PROVE  /\ sent \in Seq(Seq(ProbeJobs) \ {<<>>})
           /\ \A x : (\E b \in 1 .. Len(ingress) : InSeq(x, ingress[b])) \/ InSeq(x, js)
                       => \E b \in 1 .. Len(sent) : InSeq(x, sent[b])
  <1> DEFINE S == Seq(ProbeJobs) \ {<<>>}
  <1>1. ingress \in Seq(S) /\ js \in S
    BY DEF ProbesInv, ProbesTyped
  <1> HIDE DEF S
  <1>2. /\ sent \in Seq(S) /\ Len(sent) = Len(ingress) + 1 /\ Len(ingress) \in Nat
        /\ \A i \in 1 .. Len(sent) : sent[i] = IF i \in 1 .. Len(ingress) THEN ingress[i] ELSE js
    BY <1>1, AppendHas
  <1>3. /\ \A i \in 1 .. Len(ingress) : i \in 1 .. Len(sent) /\ sent[i] = ingress[i]
        /\ Len(sent) \in 1 .. Len(sent) /\ sent[Len(sent)] = js
    BY <1>2
  <1>4. \A x : (\E b \in 1 .. Len(ingress) : InSeq(x, ingress[b])) \/ InSeq(x, js)
                 => \E b \in 1 .. Len(sent) : InSeq(x, sent[b])
    BY <1>3
  <1> QED BY <1>2, <1>4 DEF S

(* A change of an upstream asks for the stale routes.                       *)
LEMMA AskStaleKeeps ==
    ASSUME ProbesInv, AskStale
    PROVE  ProbesInv'
  <1> DEFINE stale == {r \in Routes : ~CurrentProfile(r)}
  <1>1. /\ stale # {} /\ UNCHANGED <<route, rules, submitted, deferred, queued, known, running>>
        /\ \E order \in [1 .. Cardinality(stale) -> stale] :
             /\ \A i, j \in DOMAIN order : i # j => order[i] # order[j]
             /\ ingress' = Append(ingress, [i \in DOMAIN order |-> JobOf(order[i])])
    BY DEF AskStale
  <1>2. PICK order \in [1 .. Cardinality(stale) -> stale] :
             /\ \A i, j \in DOMAIN order : i # j => order[i] # order[j]
             /\ ingress' = Append(ingress, [i \in DOMAIN order |-> JobOf(order[i])])
    BY <1>1
  <1>3. stale \in SUBSET Routes
    OBVIOUS
  <1> HIDE DEF stale
  <1>4. PICK js : js = [i \in DOMAIN order |-> JobOf(order[i])]
    OBVIOUS
  <1>5. js \in Seq(ProbeJobs) \ {<<>>}
    BY <1>1, <1>2, <1>3, <1>4, OrderedJobs
  <1>6. PICK sent : sent = Append(ingress, js)
    OBVIOUS
  <1>7. /\ sent \in Seq(Seq(ProbeJobs) \ {<<>>}) /\ ingress' = sent
        /\ \A x : (\E b \in 1 .. Len(ingress) : InSeq(x, ingress[b])) => \E b \in 1 .. Len(sent) : InSeq(x, sent[b])
    BY <1>2, <1>4, <1>5, <1>6, BatchSent
  <1>8. /\ submitted \in [Routes -> ProbeJobs \cup {NoJob}]
        /\ route \in [Routes -> {"old", "new"}] /\ rules \in Nat
    BY DEF ProbesInv, ProbesTyped
  <1> QED BY <1>1, <1>7, <1>8, SubmissionKeeps

(* A manual batch asks for every route.                                     *)
LEMMA AskAllKeeps ==
    ASSUME ProbesInv, AskAll
    PROVE  ProbesInv'
  <1> DEFINE asked == {r \in Routes : submitted[r] # JobOf(r)}
  <1>1. UNCHANGED <<route, rules, deferred, queued, known, running>>
    BY DEF AskAll
  <1>2. PICK order \in [1 .. Cardinality(asked) -> asked] :
          /\ \A i, j \in DOMAIN order : i # j => order[i] # order[j]
          /\ \/ UNCHANGED <<ingress, submitted>>
             \/ /\ asked # {} /\ submitted' = [r \in Routes |-> JobOf(r)]
                /\ ingress' = Append(ingress, [i \in DOMAIN order |-> JobOf(order[i])])
             \/ /\ UNCHANGED ingress
                /\ submitted' = [r \in Routes |-> IF r \in asked THEN NoJob ELSE submitted[r]]
    BY DEF AskAll
  <1>3. /\ submitted \in [Routes -> ProbeJobs \cup {NoJob}] /\ ingress \in Seq(Seq(ProbeJobs) \ {<<>>})
        /\ route \in [Routes -> {"old", "new"}] /\ rules \in Nat
    BY DEF ProbesInv, ProbesTyped
  <1>4. CASE UNCHANGED <<ingress, submitted>>
    <2>1. PICK sent : sent = ingress
      OBVIOUS
    <2> QED BY <1>1, <1>3, <1>4, <2>1, SubmissionKeeps
  <1>5. CASE /\ UNCHANGED ingress
             /\ submitted' = [r \in Routes |-> IF r \in asked THEN NoJob ELSE submitted[r]]
    <2>1. PICK sent : sent = ingress
      OBVIOUS
    <2>2. /\ submitted' \in [Routes -> ProbeJobs \cup {NoJob}]
          /\ \A r \in Routes : submitted'[r] # NoJob => submitted'[r] = submitted[r]
      BY <1>3, <1>5
    <2> QED BY <1>1, <1>3, <1>5, <2>1, <2>2, SubmissionKeeps
  <1>6. CASE /\ asked # {} /\ submitted' = [r \in Routes |-> JobOf(r)]
             /\ ingress' = Append(ingress, [i \in DOMAIN order |-> JobOf(order[i])])
    <2>1. PICK js : js = [i \in DOMAIN order |-> JobOf(order[i])]
      OBVIOUS
    <2>2. asked \in SUBSET Routes
      OBVIOUS
    <2>3. \A r \in Routes : submitted'[r] = JobOf(r) /\ (submitted'[r] # submitted[r] => r \in asked)
      BY <1>6
    <2>9. /\ order \in [1 .. Cardinality(asked) -> asked] /\ asked # {}
          /\ \A i, j \in DOMAIN order : i # j => order[i] # order[j]
      BY <1>2, <1>6
    <2> HIDE DEF asked
    <2>4. js \in Seq(ProbeJobs) \ {<<>>} /\ \A r \in asked : InSeq(JobOf(r), js)
      BY <2>9, <2>1, <2>2, OrderedJobs
    <2>5. PICK sent : sent = Append(ingress, js)
      OBVIOUS
    <2>6. /\ sent \in Seq(Seq(ProbeJobs) \ {<<>>}) /\ ingress' = sent
          /\ \A x : (\E b \in 1 .. Len(ingress) : InSeq(x, ingress[b])) \/ InSeq(x, js)
                      => \E b \in 1 .. Len(sent) : InSeq(x, sent[b])
      BY <1>6, <2>1, <2>4, <2>5, BatchSent
    <2>7. /\ submitted' \in [Routes -> ProbeJobs \cup {NoJob}]
          /\ \A r \in Routes : submitted'[r].route = r
      BY <1>6, <2>3, JobOfTyped
    <2> QED BY <1>1, <1>3, <2>3, <2>4, <2>6, <2>7, SubmissionKeeps
  <1> QED BY <1>2, <1>4, <1>5, <1>6

(* With probes off, what waits is discarded.                                *)
LEMMA DiscardKeeps ==
    ASSUME ProbesInv, DiscardWaiting \/ DiscardReceived
    PROVE  ProbesInv'
  <1>1. ASSUME NEW js \in Seq(ProbeJobs), submitted' = DropAll(js).table
        PROVE  /\ submitted' \in [Routes -> ProbeJobs \cup {NoJob}]
               /\ \A r \in Routes : submitted'[r] # NoJob => submitted'[r] = submitted[r] /\ ~InSeq(submitted[r], js)
    <2>1. submitted \in [Routes -> ProbeJobs \cup {NoJob}]
      BY DEF ProbesInv, ProbesTyped
    <2>2. submitted' = [r \in Routes |-> IF \E i \in 1 .. Len(js) : js[i] = submitted[r] THEN NoJob ELSE submitted[r]]
      BY <1>1 DEF DropAll
    <2>3. submitted' = [r \in Routes |-> IF InSeq(submitted[r], js) THEN NoJob ELSE submitted[r]]
      BY <2>2 DEF InSeq
    <2> QED BY <2>1, <2>3
  <1>2. \A x : ~InSeq(x, <<>>)
    BY DEF InSeq
  <1>3. CASE DiscardWaiting
    <2>1. /\ submitted' = DropAll(queued \o deferred).table /\ queued' = <<>> /\ deferred' = <<>>
          /\ known' = BusyRoutes /\ UNCHANGED <<route, rules, ingress, running>>
      BY <1>3 DEF DiscardWaiting
    <2>2. queued \in Seq(ProbeJobs) /\ deferred \in Seq(ProbeJobs)
      BY DEF ProbesInv, ProbesTyped
    <2> DEFINE js == queued \o deferred
    <2>3. /\ js \in Seq(ProbeJobs) /\ Len(js) = Len(queued) + Len(deferred)
          /\ \A i \in 1 .. Len(queued) : js[i] = queued[i]
          /\ \A i \in 1 .. Len(deferred) : js[i + Len(queued)] = deferred[i]
      BY <2>2
    <2>4. submitted' = DropAll(js).table
      BY <2>1
    <2> HIDE DEF js
    <2>5. \A x : InSeq(x, queued) \/ InSeq(x, deferred) => InSeq(x, js)
      <3>1. \A i \in 1 .. Len(queued) : i \in 1 .. Len(js)
        BY <2>2, <2>3
      <3>2. \A i \in 1 .. Len(deferred) : i + Len(queued) \in 1 .. Len(js)
        BY <2>2, <2>3
      <3> QED BY <2>3, <3>1, <3>2 DEF InSeq
    <2>6. /\ submitted' \in [Routes -> ProbeJobs \cup {NoJob}]
          /\ \A r \in Routes : submitted'[r] # NoJob => submitted'[r] = submitted[r] /\ ~InSeq(submitted[r], js)
      BY <1>1, <2>3, <2>4
    <2>7. ProbesTyped'
      BY <2>1, <2>6 DEF ProbesInv, ProbesTyped, OneEach
    <2>8. ASSUME NEW r \in Routes, submitted'[r] # NoJob
          PROVE  OnItsWay(submitted'[r], ingress', deferred', queued') \/ submitted'[r] = running'[r]
      <3>1. /\ submitted'[r] = submitted[r] /\ ~InSeq(submitted[r], queued) /\ ~InSeq(submitted[r], deferred)
        BY <2>5, <2>6, <2>8
      <3>2. OnItsWay(submitted[r], ingress, deferred, queued) \/ submitted[r] = running[r]
        BY <2>8, <3>1, HasJob
      <3> QED BY <2>1, <3>1, <3>2 DEF OnItsWay
    <2>9. KnownHasJob'
      <3>1. QueuedRoutes(<<>>) = {}
        BY DEF QueuedRoutes, QueuedAt
      <3> QED BY <2>1, <3>1 DEF KnownHasJob, BusyRoutes, QueuedRoutes
    <2> QED BY <2>7, <2>8, <2>9, HasJobNext DEF ProbesInv
  <1>4. CASE DiscardReceived
    <2>1. /\ ingress # <<>> /\ submitted' = DropAll(Head(ingress)).table /\ ingress' = Tail(ingress)
          /\ UNCHANGED <<route, rules, deferred, queued, known, running>>
      BY <1>4 DEF DiscardReceived
    <2>2. /\ Head(ingress) \in Seq(ProbeJobs) \ {<<>>} /\ Tail(ingress) \in Seq(Seq(ProbeJobs) \ {<<>>})
          /\ \A x : (\E b \in 1 .. Len(ingress) : InSeq(x, ingress[b])) =>
                InSeq(x, Head(ingress)) \/ \E b \in 1 .. Len(Tail(ingress)) : InSeq(x, Tail(ingress)[b])
      BY <2>1, BatchLeaves
    <2>3. /\ submitted' \in [Routes -> ProbeJobs \cup {NoJob}]
          /\ \A r \in Routes : submitted'[r] # NoJob =>
               submitted'[r] = submitted[r] /\ ~InSeq(submitted[r], Head(ingress))
      BY <1>1, <2>1, <2>2
    <2>4. ProbesTyped'
      BY <2>1, <2>2, <2>3 DEF ProbesInv, ProbesTyped
    <2>5. ASSUME NEW r \in Routes, submitted'[r] # NoJob
          PROVE  OnItsWay(submitted'[r], ingress', deferred', queued') \/ submitted'[r] = running'[r]
      <3>1. submitted'[r] = submitted[r] /\ ~InSeq(submitted[r], Head(ingress))
        BY <2>3, <2>5
      <3>2. OnItsWay(submitted[r], ingress, deferred, queued) \/ submitted[r] = running[r]
        BY <2>5, <3>1, HasJob
      <3> QED BY <2>1, <2>2, <3>1, <3>2 DEF OnItsWay
    <2>6. KnownHasJob'
      BY <2>1 DEF ProbesInv, KnownHasJob, BusyRoutes
    <2> QED BY <2>4, <2>5, <2>6, HasJobNext DEF ProbesInv
  <1> QED BY <1>3, <1>4

(* A probe is over: its entry goes, and the route is known no longer unless *)
(* a successor is queued.                                                   *)
LEMMA EndJobKeeps ==
    ASSUME ProbesInv, NEW r \in Routes, running[r] # NoJob, EndJob(r),
           UNCHANGED <<route, rules, ingress, deferred, queued>>
    PROVE  ProbesInv'
  <1> DEFINE job == running[r]
  <1>1. /\ running' = [running EXCEPT ![r] = NoJob] /\ known' = KnownAfter(r)
        /\ submitted' = ReleaseEntry(submitted, job)
    BY DEF EndJob
  <1>2. running \in [Routes -> ProbeJobs \cup {NoJob}] /\ job \in ProbeJobs
    BY DEF ProbesInv, ProbesTyped
  <1> HIDE DEF job
  <1>3. /\ submitted' \in [Routes -> ProbeJobs \cup {NoJob}]
        /\ \A s \in Routes : submitted'[s] # NoJob => submitted'[s] = submitted[s] /\ submitted[s] # job
    BY <1>1, <1>2, ReleasedEntries
  <1>4. running' \in [Routes -> ProbeJobs \cup {NoJob}] /\ running'[r] = NoJob
        /\ \A s \in Routes : s # r => running'[s] = running[s]
    BY <1>1, <1>2
  <1>5. ProbesTyped'
    BY <1>3, <1>4 DEF ProbesInv, ProbesTyped
  <1>6. ASSUME NEW s \in Routes, submitted'[s] # NoJob
        PROVE  OnItsWay(submitted'[s], ingress', deferred', queued') \/ submitted'[s] = running'[s]
    <2>1. submitted'[s] = submitted[s] /\ submitted[s] # job
      BY <1>3, <1>6
    <2>2. OnItsWay(submitted[s], ingress, deferred, queued) \/ submitted[s] = running[s]
      BY <1>6, <2>1, HasJob
    <2> QED BY <1>4, <2>1, <2>2 DEF job
  <1>7. KnownHasJob'
    <2>1. known = BusyRoutes \cup QueuedRoutes(queued)
      BY DEF ProbesInv, KnownHasJob, QueuedRoutes
    <2>2. BusyRoutes' = BusyRoutes \ {r}
      BY <1>4 DEF BusyRoutes
    <2>3. known' = BusyRoutes' \cup QueuedRoutes(queued)
      BY <1>1, <2>1, <2>2 DEF KnownAfter, QueuedRoutes
    <2> QED BY <2>3 DEF KnownHasJob, QueuedRoutes
  <1> QED BY <1>5, <1>6, <1>7, HasJobNext DEF ProbesInv

(* The first ready job leaves the queue and runs.                           *)
LEMMA StartKeeps ==
    ASSUME ProbesInv, StartNext
    PROVE  ProbesInv'
  <1> DEFINE ready == {i \in 1 .. Len(queued) : running[queued[i].route] = NoJob}
  <1>1. PICK i \in ready : /\ running' = [running EXCEPT ![queued[i].route] = queued[i]]
                           /\ queued' = [j \in 1 .. Len(queued) - 1 |-> IF j < i THEN queued[j] ELSE queued[j + 1]]
    <2>1. ready \in SUBSET Nat /\ ready # {}
      <3>1. ready # {}
        BY DEF StartNext
      <3>2. ready \subseteq 1 .. Len(queued)
        OBVIOUS
      <3>3. 1 .. Len(queued) \subseteq Nat
        OBVIOUS
      <3> HIDE DEF ready
      <3> QED BY <3>1, <3>2, <3>3
    <2>2. \E i \in ready : \A j \in ready : i <= j
      <3> HIDE DEF ready
      <3> QED BY <2>1, LeastOf
    <2> DEFINE i == CHOOSE i \in ready : \A j \in ready : i <= j
    <2>3. i \in ready
      <3> HIDE DEF ready
      <3> QED BY <2>2
    <2>4. /\ running' = [running EXCEPT ![queued[i].route] = queued[i]]
          /\ queued' = [j \in 1 .. Len(queued) - 1 |-> IF j < i THEN queued[j] ELSE queued[j + 1]]
      BY DEF StartNext
    <2> HIDE DEF i
    <2> QED BY <2>3, <2>4
  <1>2. UNCHANGED <<route, rules, submitted, ingress, deferred, known>>
    BY DEF StartNext
  <1>3. /\ queued \in Seq(ProbeJobs) /\ OneEach(queued) /\ running \in [Routes -> ProbeJobs \cup {NoJob}]
        /\ i \in 1 .. Len(queued) /\ Len(queued) \in Nat
    BY DEF ProbesInv, ProbesTyped
  <1> DEFINE job == queued[i]
             r == job.route
             n == Len(queued)
  <1>4. job \in ProbeJobs /\ r \in Routes /\ running[r] = NoJob /\ job # NoJob
    <2>1. i \in ready
      OBVIOUS
    <2>2. running[r] = NoJob
      BY <2>1
    <2>3. job \in ProbeJobs
      BY <1>3
    <2> HIDE DEF job, ready
    <2>4. r \in Routes /\ job # NoJob
      BY <2>3, ProbesAssumption DEF ProbeJobs
    <2> QED BY <2>2, <2>3, <2>4
  <1>5. /\ running' \in [Routes -> ProbeJobs \cup {NoJob}] /\ running'[r] = job
        /\ \A s \in Routes : s # r => running'[s] = running[s]
    BY <1>1, <1>3, <1>4
  <1>6. /\ queued' \in Seq(ProbeJobs) /\ Len(queued') = n - 1
        /\ \A j \in 1 .. n - 1 : queued'[j] = IF j < i THEN queued[j] ELSE queued[j + 1]
    <2>1. n - 1 \in Nat
      BY <1>3
    <2>2. \A j \in 1 .. n - 1 : (IF j < i THEN queued[j] ELSE queued[j + 1]) \in ProbeJobs
      BY <1>3
    <2>3. queued' \in [1 .. n - 1 -> ProbeJobs]
      BY <1>1, <2>2
    <2>4. queued' \in Seq(ProbeJobs) /\ Len(queued') = n - 1
      BY <2>1, <2>3
    <2> QED BY <1>1, <2>4
  <1>7. OneEach(queued')
    <2> DEFINE At(j) == IF j < i THEN j ELSE j + 1
    <2>1. \A j \in 1 .. n - 1 : At(j) \in 1 .. n /\ At(j) # i /\ queued'[j] = queued[At(j)]
      BY <1>3, <1>6
    <2>2. \A j, k \in 1 .. n - 1 : At(j) = At(k) => j = k
      BY <1>3
    <2> HIDE DEF At
    <2> QED BY <1>3, <1>6, <2>1, <2>2 DEF OneEach
  <1>8. \A j \in 1 .. n : j # i => \E k \in 1 .. n - 1 : queued'[k] = queued[j]
    <2>1. ASSUME NEW j \in 1 .. n, j # i PROVE \E k \in 1 .. n - 1 : queued'[k] = queued[j]
      <3>1. CASE j < i
        <4>1. j \in 1 .. n - 1 /\ queued'[j] = queued[j]
          BY <1>3, <1>6, <3>1
        <4> QED BY <4>1
      <3>2. CASE ~(j < i)
        <4>1. j - 1 \in 1 .. n - 1 /\ ~(j - 1 < i) /\ (j - 1) + 1 = j
          BY <1>3, <2>1, <3>2
        <4>2. queued'[j - 1] = queued[j]
          BY <1>6, <4>1
        <4> QED BY <4>1, <4>2
      <3> QED BY <3>1, <3>2
    <2> QED BY <2>1
  <1>9. \A k \in 1 .. n - 1 : \E j \in 1 .. n : queued'[k] = queued[j] /\ j # i
    BY <1>3, <1>6
  <1> HIDE DEF job, r, n
  <1>10. ProbesTyped'
    BY <1>2, <1>4, <1>5, <1>6, <1>7 DEF ProbesInv, ProbesTyped, r
  <1>11. \A x : InSeq(x, queued) => x = job \/ InSeq(x, queued')
    BY <1>6, <1>8 DEF InSeq, job, n
  <1>12. ASSUME NEW s \in Routes, submitted'[s] # NoJob
         PROVE  OnItsWay(submitted'[s], ingress', deferred', queued') \/ submitted'[s] = running'[s]
    <2>1. submitted'[s] = submitted[s] /\ submitted[s].route = s
      BY <1>2, <1>12 DEF ProbesInv, ProbesTyped
    <2>2. OnItsWay(submitted[s], ingress, deferred, queued) \/ submitted[s] = running[s]
      BY <1>12, <2>1, HasJob
    <2>3. CASE submitted[s] = running[s]
      <3>1. s # r
        BY <1>4, <1>12, <2>1, <2>3
      <3> QED BY <1>5, <2>1, <2>3, <3>1
    <2>4. CASE submitted[s] = job
      BY <1>5, <2>1, <2>4 DEF r
    <2>5. CASE submitted[s] # job /\ OnItsWay(submitted[s], ingress, deferred, queued)
      BY <1>2, <1>11, <2>1, <2>5 DEF OnItsWay
    <2> QED BY <2>2, <2>3, <2>4, <2>5
  <1>13. KnownHasJob'
    <2>1. known = BusyRoutes \cup QueuedRoutes(queued)
      BY DEF ProbesInv, KnownHasJob, QueuedRoutes
    <2>2. BusyRoutes' = BusyRoutes \cup {r}
      BY <1>4, <1>5 DEF BusyRoutes
    <2>3. r \in QueuedRoutes(queued)
      BY <1>3, <1>4 DEF QueuedRoutes, QueuedAt, r, job
    <2>4. ASSUME NEW s \in Routes, s # r PROVE s \in QueuedRoutes(queued) <=> s \in QueuedRoutes(queued')
      <3>1. \A j \in 1 .. Len(queued) : queued[j].route = s => j # i
        BY <2>4 DEF r, job
      <3>2. ASSUME NEW j \in 1 .. n, queued[j].route = s
            PROVE  \E k \in 1 .. Len(queued') : queued'[k].route = s
        <4>1. PICK k \in 1 .. n - 1 : queued'[k] = queued[j]
          BY <1>8, <3>1, <3>2 DEF n
        <4> QED BY <1>6, <3>2, <4>1
      <3>3. ASSUME NEW k \in 1 .. Len(queued'), queued'[k].route = s
            PROVE  \E j \in 1 .. n : queued[j].route = s
        <4>1. PICK j \in 1 .. n : queued'[k] = queued[j]
          BY <1>6, <1>9, <3>3
        <4> QED BY <3>3, <4>1
      <3>4. s \in QueuedRoutes(queued) <=> \E j \in 1 .. n : queued[j].route = s
        BY DEF QueuedRoutes, QueuedAt, n
      <3>5. s \in QueuedRoutes(queued') <=> \E k \in 1 .. Len(queued') : queued'[k].route = s
        BY DEF QueuedRoutes, QueuedAt
      <3> QED BY <3>2, <3>3, <3>4, <3>5
    <2>5. QueuedRoutes(queued) \subseteq Routes /\ QueuedRoutes(queued') \subseteq Routes
      BY DEF QueuedRoutes
    <2>6. known' = BusyRoutes' \cup QueuedRoutes(queued')
      BY <1>2, <1>4, <2>1, <2>2, <2>3, <2>4, <2>5
    <2> QED BY <2>6 DEF KnownHasJob, QueuedRoutes
  <1> QED BY <1>10, <1>12, <1>13, HasJobNext DEF ProbesInv

(* The other steps change no queue and no table.                            *)
LEMMA FramesKeep ==
    ASSUME ProbesInv, UNCHANGED <<submitted, ingress, deferred, queued, known, running>>,
           route' \in [Routes -> {"old", "new"}], rules' \in Nat
    PROVE  ProbesInv'
  <1>1. ProbesTyped'
    BY DEF ProbesInv, ProbesTyped
  <1>2. ASSUME NEW r \in Routes, submitted'[r] # NoJob
        PROVE  OnItsWay(submitted'[r], ingress', deferred', queued') \/ submitted'[r] = running'[r]
    <2>1. OnItsWay(submitted[r], ingress, deferred, queued) \/ submitted[r] = running[r]
      BY <1>2, HasJob
    <2> QED BY <2>1
  <1>3. KnownHasJob'
    <2>1. BusyRoutes' = BusyRoutes
      BY DEF BusyRoutes
    <2>2. known = BusyRoutes \cup QueuedRoutes(queued)
      BY DEF ProbesInv, KnownHasJob, QueuedRoutes
    <2>3. known' = BusyRoutes' \cup QueuedRoutes(queued')
      BY <2>1, <2>2
    <2> QED BY <2>3 DEF KnownHasJob, QueuedRoutes
  <1> QED BY <1>1, <1>2, <1>3, HasJobNext DEF ProbesInv

(* Every step keeps the invariant.                                          *)
LEMMA ProbesInvNext == ProbesInv /\ [ProbesNext]_probeVars => ProbesInv'
  <1> SUFFICES ASSUME ProbesInv, [ProbesNext]_probeVars PROVE ProbesInv'
    OBVIOUS
  <1>1. route \in [Routes -> {"old", "new"}] /\ rules \in Nat
    BY DEF ProbesInv, ProbesTyped
  <1>2. CASE UNCHANGED probeVars
    BY <1>1, <1>2, FramesKeep DEF probeVars
  <1>3. CASE EnterSelect
    BY <1>1, <1>3, FramesKeep DEF EnterSelect
  <1>4. CASE RecordBatch \/ ReplacePolicy
    BY <1>1, <1>4, FramesKeep DEF RecordBatch, ReplacePolicy, queueVars
  <1>5. ASSUME NEW r \in Routes, BeginPlan(r) \/ EndPlan(r) \/ LearnFromRequest(r) \/ DeleteProfiles(r)
        PROVE  ProbesInv'
    BY <1>1, <1>5, FramesKeep DEF BeginPlan, EndPlan, LearnFromRequest, DeleteProfiles, queueVars
  <1>6. ASSUME NEW r \in Routes, EditRoute(r) PROVE ProbesInv'
    BY <1>1, <1>6, FramesKeep DEF EditRoute, OtherConfiguration, queueVars
  <1>7. ASSUME NEW r \in Routes, Superseded(r) \/ StoreProfile(r) PROVE ProbesInv'
    BY <1>7, EndJobKeeps DEF Superseded, StoreProfile
  <1> QED BY <1>2, <1>3, <1>4, <1>5, <1>6, <1>7, TakeKeeps, TickKeeps, AskOneKeeps, AskStaleKeeps,
          AskAllKeeps, DiscardKeeps, StartKeeps DEF ProbesNext, LoopTop

(* The invariant holds at the start.                                        *)
LEMMA ProbesInvInit == ProbesInit => ProbesInv
  <1> SUFFICES ASSUME ProbesInit PROVE ProbesInv
    OBVIOUS
  <1>1. \A r \in Routes : submitted[r] = NoJob /\ running[r] = NoJob
    BY DEF ProbesInit
  <1>2. ProbesTyped
    BY <1>1 DEF ProbesInit, ProbesTyped, OneEach
  <1>3. KnownHasJob
    BY <1>1 DEF ProbesInit, KnownHasJob, BusyRoutes, QueuedAt
  <1> QED BY <1>1, <1>2, <1>3 DEF ProbesInv, SubmissionHasJob

(* The safety half of SubmissionsSettle, for any routes and any sizes of    *)
(* channel, queue and pool: an entry of the submission table always has a   *)
(* job in the channel, deferred, queued or running that will take it out,   *)
(* and the queue knows exactly the routes it holds or runs.                 *)
THEOREM SubmissionsHaveJobs == ProbesSpec => [](SubmissionHasJob /\ KnownHasJob)
  <1>1. ProbesInv => SubmissionHasJob /\ KnownHasJob
    BY DEF ProbesInv
  <1> QED BY <1>1, ProbesInvInit, ProbesInvNext, PTL DEF ProbesSpec
=============================================================================
