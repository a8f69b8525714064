----------------------------- MODULE ProbePlan -----------------------------
(***************************************************************************)
(* One run of a capability probe: the plan of cases for a route, the       *)
(* requests of each case and the verdict drawn from their replies, the     *)
(* evidence gathered over the plan, the outcome of the plan and what it    *)
(* makes of the stored profile.  A reply is the class the code tells       *)
(* apart: "ok" carries the asked evidence, "poor" carries it wrongly,      *)
(* "empty" not at all, "auth" is 401 or 403, "busy" 429 or 5xx, "bad" 400, *)
(* "refused" any other status, "cut" a stream that broke or was invalid,   *)
(* "full" no capacity for the request, "transport" no reply, "slow" the    *)
(* timeout of the case.                                                    *)
(***************************************************************************)
EXTENDS Naturals, Sequences, FiniteSets

CONSTANTS Plans,    \* the kinds of plan to run: "chat", "responses", "reasoning"
          MaxOdd    \* bound on the cases of a run that do not prove their point

ASSUME PlanAssumption == Plans \subseteq {"chat", "responses", "reasoning"} /\ MaxOdd \in Nat

VARIABLES planKind, caseIndex, evidence, sawConclusive, sawSkip, planComplete,
          planOutcome, priorFacts, storedFacts,
          proved,     \* facts some case of this run proved
          heard,      \* facts some reply of the provider spoke against
          answered,   \* some request of this run was answered
          odd

planVars == <<planKind, caseIndex, evidence, sawConclusive, sawSkip, planComplete, planOutcome,
              priorFacts, storedFacts, proved, heard, answered, odd>>

(********************************* the plan ********************************)

AgentCore == <<"text", "text_stream", "tools", "selection", "continuation", "arguments", "usage">>
FullChat == AgentCore \o <<"replay", "parallel", "image", "restricted">>

\* probe_plan_for_route and probe_plan_for_job, for a route with one candidate
\* of each kind; a responses route gets its reasoning carrier at the end.
PlanOf(kind) ==
    CASE kind = "chat"      -> FullChat \o <<"token_limit", "level", "extension", "image_https">>
      [] kind = "responses" -> AgentCore \o <<"token_limit", "level", "replay", "extension", "image", "image_https">>
      [] kind = "reasoning" -> <<"text", "level">>

\* The facts a case decides, and those it proves besides.
Decides(case) ==
    CASE case = "replay"      -> {"reasoning_replay", "reasoning_output"}
      [] case = "restricted"  -> {}
      [] case = "text"        -> {"non_streaming"}
      [] case = "continuation" -> {"tool_continuation"}
      [] OTHER                -> {case}
Implies(case) ==
    CASE case \in {"text", "text_stream"}           -> {"text_input"}
      [] case \in {"selection", "continuation"}     -> {"tools"}
      [] case = "replay"                            -> {"tools", "tool_continuation"}
      [] OTHER                                      -> {}

\* The token limit field and the reasoning levels are recorded only when proved.
ProvedOnly == {"token_limit", "level"}
Facts == {"non_streaming", "text_input", "text_stream", "tools", "selection", "tool_continuation",
          "arguments", "usage", "reasoning_replay", "reasoning_output", "parallel", "image",
          "image_https", "token_limit", "level", "extension"}

(*********************** requests and their verdicts ***********************)

NoReply == {"full", "transport", "slow"}
JsonReplies == NoReply \cup {"auth", "busy", "refused", "empty", "poor", "ok"}
StreamReplies == NoReply \cup {"auth", "busy", "bad", "refused", "cut", "poor", "ok"}
Streamed == {"text_stream", "arguments", "usage", "level"}
Replies(case) == IF case \in Streamed THEN StreamReplies ELSE JsonReplies

\* verdict_for_status, of a reply that is not a 200.
StatusVerdict(reply) ==
    CASE reply = "auth" -> "denied"
      [] reply = "busy" -> "unobserved"
      [] OTHER          -> "rejected"

TextVerdict(reply) ==
    CASE reply = "ok" -> "supported" [] reply = "poor" -> "rejected"
      [] reply \in {"empty", "cut"} -> "unobserved" [] OTHER -> StatusVerdict(reply)

ToolsVerdict(reply) ==
    CASE reply = "ok" -> "supported" [] reply = "poor" -> "rejected"
      [] reply = "empty" -> "unobserved" [] OTHER -> StatusVerdict(reply)

SelectionVerdict(reply) ==
    CASE reply = "ok" -> "supported" [] reply \in {"poor", "empty"} -> "rejected"
      [] OTHER -> StatusVerdict(reply)

\* Two requests: the tool call, then its result sent back.  Any status of the
\* second but 200 is a rejection.
FirstOfContinuation(reply) ==
    CASE reply = "auth" -> "denied" [] reply \in {"busy", "refused", "empty"} -> "unobserved"
      [] reply = "poor" -> "rejected" [] OTHER -> reply
SecondOfContinuation(reply, kind) ==
    CASE reply \in NoReply -> reply [] reply = "ok" -> "supported"
      [] reply \in {"poor", "empty"} /\ kind = "chat" -> "supported" [] OTHER -> "rejected"

StreamVerdict(reply) ==
    CASE reply = "ok" -> "supported" [] reply = "cut" -> "unobserved"
      [] reply \in {"poor", "bad"} -> "rejected" [] OTHER -> StatusVerdict(reply)

ParallelVerdict(reply) ==
    CASE reply = "ok" -> "supported" [] reply \in {"poor", "empty"} -> "rejected"
      [] reply = "auth" -> "denied" [] OTHER -> "unobserved"

ImageVerdict(reply) == ParallelVerdict(reply)

TokenLimitVerdict(reply) == IF reply \in {"ok", "poor", "empty"} THEN "supported" ELSE StatusVerdict(reply)

\* Streaming first; a 400 or a stream without its end asks once more without.
LevelVerdict(first, second) ==
    IF first \in {"bad", "cut"}
    THEN CASE second \in NoReply -> second [] second = "ok" -> "supported"
           [] second \in {"poor", "empty"} -> "rejected" [] OTHER -> StatusVerdict(second)
    ELSE CASE first = "ok" -> "supported" [] first = "poor" -> "rejected"
           [] OTHER -> StatusVerdict(first)

ExtensionVerdict(reply) ==
    CASE reply = "ok" -> "supported" [] reply \in {"poor", "empty"} -> "rejected"
      [] OTHER -> StatusVerdict(reply)

\* run_case: the verdict, or the reason there is none.
Verdict(case, first, second) ==
    CASE case = "restricted" -> "rejected"
      [] case # "restricted" /\ first \in NoReply -> first
      [] case \in {"continuation", "replay"} /\ first \notin NoReply ->
             IF FirstOfContinuation(first) = "ok" THEN SecondOfContinuation(second, planKind)
             ELSE FirstOfContinuation(first)
      [] case \in {"text", "text_stream"} /\ first \notin NoReply -> TextVerdict(first)
      [] case = "tools" /\ first \notin NoReply -> ToolsVerdict(first)
      [] case = "selection" /\ first \notin NoReply -> SelectionVerdict(first)
      [] case \in {"arguments", "usage"} /\ first \notin NoReply -> StreamVerdict(first)
      [] case = "parallel" /\ first \notin NoReply -> ParallelVerdict(first)
      [] case \in {"image", "image_https"} /\ first \notin NoReply -> ImageVerdict(first)
      [] case = "token_limit" /\ first \notin NoReply -> TokenLimitVerdict(first)
      [] case = "level" /\ first \notin NoReply -> LevelVerdict(first, second)
      [] case = "extension" /\ first \notin NoReply -> ExtensionVerdict(first)

(*************************** evidence and outcome **************************)

NoEvidence == [f \in Facts |-> "absent"]
Unobserved == {"absent", "unobserved"}

\* ProbeEvidence::apply.
Applied(facts, case, verdict) ==
    [f \in Facts |->
        IF f \in Implies(case) /\ verdict = "supported" THEN "supported"
        ELSE IF f \notin Decides(case) \/ (f \in ProvedOnly /\ verdict # "supported") THEN facts[f]
        ELSE verdict]

\* apply_probe_outcome of a conclusive outcome replaces what was known.
Replaced(old, new) == new

\* apply_probe_outcome_partial merges; the extension evidence is taken whole.
Merged(old, new) ==
    [f \in Facts |->
        IF f = "extension" THEN (IF new[f] = "absent" THEN old[f] ELSE new[f])
        ELSE IF new[f] \in Unobserved THEN old[f] ELSE new[f]]

StoredAlwaysWhole(outcome, facts) == IF outcome = "operational" THEN priorFacts ELSE facts

\* run_probe_job: what a plan that ended with this outcome stores.
Stored(outcome, facts) ==
    CASE outcome = "operational" -> priorFacts
      [] outcome = "full"        -> Replaced(priorFacts, facts)
      [] outcome = "partial"     -> Merged(priorFacts, facts)

PlanInit ==
    /\ planKind \in Plans /\ caseIndex = 1 /\ evidence = NoEvidence
    /\ sawConclusive = FALSE /\ sawSkip = FALSE /\ planComplete = TRUE /\ planOutcome = "none"
    /\ \E known \in {"absent", "supported", "rejected"} :
           priorFacts = [f \in Facts |-> IF f \in ProvedOnly /\ known = "rejected" THEN "absent" ELSE known]
    /\ storedFacts = priorFacts /\ proved = {} /\ heard = {} /\ answered = FALSE /\ odd = 0

\* The outcome of a plan whose cases have all been tried.
OutcomeAtEnd(conclusive, skip, full) ==
    IF ~conclusive /\ ~skip THEN "operational"
    ELSE IF full /\ planKind # "reasoning" THEN "full" ELSE "partial"
\* The first case is the gate; a credential error aborts the plan anywhere.
Aborts(verdict) ==
    verdict = "denied" \/ (caseIndex = 1 /\ verdict \in {"unobserved", "transport"})

TryCase(first, second) ==
    LET case == PlanOf(planKind)[caseIndex]
        verdict == Verdict(case, first, second)
        conclusive == sawConclusive \/ verdict \in {"supported", "rejected"}
        skip == sawSkip \/ verdict = "full"
        full == planComplete /\ verdict \in {"supported", "rejected"}
        facts == IF verdict = "full" THEN evidence
                 ELSE Applied(evidence, case, IF verdict \in {"supported", "rejected"} THEN verdict ELSE "unobserved")
        outcome == IF Aborts(verdict) THEN "operational"
                   ELSE IF caseIndex < Len(PlanOf(planKind)) THEN "none"
                   ELSE OutcomeAtEnd(conclusive, skip, full)
    IN /\ planOutcome = "none"
       /\ odd < MaxOdd \/ verdict = "supported" \/ case = "restricted"
       /\ odd' = IF verdict = "supported" \/ case = "restricted" THEN odd ELSE odd + 1
       /\ caseIndex' = caseIndex + 1 /\ evidence' = facts
       /\ sawConclusive' = conclusive /\ sawSkip' = skip /\ planComplete' = full
       /\ planOutcome' = outcome
       /\ storedFacts' = IF outcome = "none" THEN storedFacts ELSE Stored(outcome, facts)
       /\ proved' = IF verdict = "supported" THEN proved \cup Decides(case) \cup Implies(case) ELSE proved
       /\ heard' = IF verdict = "rejected" /\ {first, second} \cap {"poor", "empty", "bad", "refused"} # {}
                   THEN heard \cup Decides(case) ELSE heard
       /\ answered' = (answered \/ (case # "restricted" /\ first \notin NoReply))
       /\ UNCHANGED <<planKind, priorFacts>>

\* One case: the second reply matters only to the cases that send two requests.
PlanNext ==
    /\ planOutcome = "none"
    /\ LET case == PlanOf(planKind)[caseIndex] IN
       \E first \in IF case = "restricted" THEN {"ok"} ELSE Replies(case),
          second \in IF case \in {"continuation", "replay", "level"} THEN JsonReplies ELSE {"ok"} :
           TryCase(first, second)

PlanSpec == PlanInit /\ [][PlanNext]_planVars

(******************************** properties *******************************)

\* A state constraint for SilentRouteBacksOff: nothing has been answered yet.
SilentSoFar == ~answered

\* A plan that could not observe everything forgets nothing: what no case
\* decided stays as the profile had it.  The evidence of extensions is the
\* exception, see ExtensionsKept.
UnobservedErasesNothing ==
    planOutcome \in {"partial", "operational"} =>
        \A f \in Facts \ {"extension"} :
            f \in proved \/ evidence[f] = "rejected" \/ storedFacts[f] = priorFacts[f]

\* Only a plan in which every case got its verdict replaces the profile and
\* postpones the next probe by the refresh interval.
FreshIsComplete ==
    planOutcome = "full" =>
        \A i \in DOMAIN PlanOf(planKind) : \A f \in Decides(PlanOf(planKind)[i]) \ ProvedOnly :
            storedFacts[f] \in {"supported", "rejected"}

\* What one case of a run proved, no later case of the run takes back to
\* unobserved: the cases stand in the order that makes it so.
ProofKept == \A f \in proved : evidence[f] \notin Unobserved

\* The code does not guarantee this for extensions, whose evidence a partial
\* run takes whole.
ExtensionsKept ==
    planOutcome = "partial" /\ priorFacts["extension"] = "supported" /\ evidence["extension"] \in Unobserved =>
        storedFacts["extension"] = "supported"

\* A capability is rejected only on an answer about it.  The code does not
\* guarantee it: a 429 or a 5xx to the second request of a continuation counts.
RejectionIsHeard == \A f \in Facts : evidence[f] = "rejected" => f \in heard

\* A route that answered nothing is an operational failure and backs off.  The
\* code does not guarantee it: the restricted case, which sends nothing, counts
\* as conclusive evidence.
SilentRouteBacksOff == planOutcome \in {"partial", "full"} /\ ~sawSkip => answered

(* What a run of a plan stores is what it proved: a skipped or silent case  *)
(* erases nothing, a profile is fresh only when every case was decided, and *)
(* a capability once proved in the run is kept.                             *)
PlanStoresProof == UnobservedErasesNothing /\ FreshIsComplete /\ ProofKept
=============================================================================
