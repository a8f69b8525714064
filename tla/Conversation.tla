----------------------------- MODULE Conversation -----------------------------
(***************************************************************************)
(* What a continued conversation sends to a provider and stores for the    *)
(* next turn (src/src/server/gateway.rs, ResponseHistoryContext and        *)
(* dispatch_request): the replay of the prior turns, the sanitising of     *)
(* what another provider produced, the stages of the chat fallback, the    *)
(* escape from a continuation pin and the route hedge.                     *)
(*                                                                         *)
(* A profile is a provider route (upstream, key, model and protocol); an   *)
(* upstream has several.  The fallback stages are counted by downstream,   *)
(* client family, model and upstream, of which the requests here share the *)
(* first three.  An item is the answer of one turn; "bound" says that it   *)
(* still carries the fields of the provider that made it (ids, encrypted   *)
(* content, signatures).  The response id of a turn is its number.         *)
(***************************************************************************)
EXTENDS Integers, FiniteSets

CONSTANTS
    Providers,    \* profiles a turn can be routed to
    Upstreams,    \* the upstreams whose keys they are
    UpstreamOf,   \* the upstream of each profile
    StageTries,   \* failures after which a stage is skipped: 3 in the code
    MaxTurns      \* bound of the model

Nowhere == "nowhere"

ASSUME ConversationAssumption ==
    /\ IsFiniteSet(Providers) /\ Nowhere \notin Providers
    /\ UpstreamOf \in [Providers -> Upstreams]
    /\ StageTries \in Nat \ {0} /\ MaxTurns \in Nat

Turns == 1..MaxTurns
Stages == 1..4   \* high_fidelity, extension_cleanup, tool_replay_reduction, history_compaction
NoAnswer == [items |-> {}, source |-> Nowhere, hedged |-> FALSE, prior |-> 0]
NoTurn == [at |-> "idle", prior |-> 0, fallback |-> FALSE, replays |-> FALSE, escaped |-> FALSE,
           route |-> Nowhere, maker |-> Nowhere, stage |-> 0, context |-> {}, sent |-> {}]

VARIABLES
    answers,    \* the stored histories: items (turn and provider) and source profile
    turn,       \* the request in progress
    lastTurn,   \* number of the last turn
    failures,   \* fallback_stage_failures of each upstream
    depthUsed   \* the deepest stage a replaying turn used on an upstream since it last answered

conversationVars == <<answers, turn, lastTurn, failures, depthUsed>>

ConversationInit ==
    /\ answers = [n \in Turns |-> NoAnswer]
    /\ turn = NoTurn /\ lastTurn = 0
    /\ failures = [u \in Upstreams |-> [s \in Stages |-> 0]]
    /\ depthUsed = [u \in Upstreams |-> 1]

-----------------------------------------------------------------------------
(* prepare_response_history_context: a new conversation, or one continued   *)
(* from any answer that is still stored.  The chat fallback is used when    *)
(* the model is offered by chat routes alone.                               *)
Ask(prior, fallback, replays) ==
    /\ turn.at = "idle" /\ lastTurn < MaxTurns
    /\ prior # 0 => answers[prior] # NoAnswer /\ replays
    /\ ~ fallback => ~ replays \/ prior # 0
    /\ lastTurn' = lastTurn + 1
    /\ turn' = [NoTurn EXCEPT !.at = "routing", !.prior = prior, !.fallback = fallback,
                              !.replays = replays]
    /\ UNCHANGED <<answers, failures, depthUsed>>

PriorItems == IF turn.prior = 0 THEN {} ELSE answers[turn.prior].items
PriorSource == IF turn.prior = 0 THEN Nowhere ELSE answers[turn.prior].source

(* initial_chat_fallback_stage: the first stage that has not failed too     *)
(* often; a request that replays tools goes past the extension cleanup.     *)
StageFor(u) ==
    LET skip == turn.replays /\ failures[u][1] >= StageTries
        open == {s \in Stages : failures[u][s] < StageTries /\ (skip => s >= 3)}
    IN  IF open = {} THEN 4 ELSE CHOOSE s \in open : \A t \in open : s <= t

(* Sanitising on the escape pass alone.                                     *)
CrossesOnEscape(p) == turn.escaped

(* The body is sanitised on the escape pass, or when the history was        *)
(* captured from another profile than the one it is sent to.                *)
Crosses(p) == turn.escaped \/ PriorSource \notin {Nowhere, p}

(* A stage below the highest drops the prior turns from the request, and    *)
(* from the history the answer is stored with.                              *)
ContextFor(u) == IF turn.fallback /\ StageFor(u) # 1 THEN {} ELSE PriorItems

SentItems(items, clean) ==
    {[turn |-> i.turn, from |-> i.from, bound |-> ~ clean] : i \in items}

Dispatch(p) ==
    /\ turn.at = "routing"
    /\ LET u == UpstreamOf[p] IN
          /\ turn' = [turn EXCEPT !.at = "sent", !.route = p,
                                  !.stage = IF turn.fallback THEN StageFor(u) ELSE 0,
                                  !.context = ContextFor(u),
                                  !.sent = SentItems(ContextFor(u), Crosses(p))]
          /\ depthUsed' =
                [depthUsed EXCEPT ![u] = IF turn.fallback /\ turn.replays THEN StageFor(u) ELSE @]
    /\ UNCHANGED <<answers, lastTurn, failures>>

(* Continuation pin escape: once, when the pinned routes are exhausted.     *)
EscapePin ==
    /\ turn.at = "routing" /\ turn.prior # 0 /\ ~ turn.fallback /\ ~ turn.escaped
    /\ turn' = [turn EXCEPT !.escaped = TRUE]
    /\ UNCHANGED <<answers, lastTurn, failures, depthUsed>>

(* A count of consecutive failures.                                         *)
RecordedAlone(u, s) ==
    [failures EXCEPT ![u] = [t \in Stages |-> IF t = s /\ @[t] < StageTries THEN @[t] + 1
                                              ELSE IF t = s THEN StageTries ELSE 0]]

Recorded(u, s) ==
    [failures EXCEPT ![u][s] = IF @ >= StageTries THEN StageTries ELSE @ + 1]

(* The attempt fails; an answer that asks for a reduced request counts      *)
(* against the stage.  The request goes on to a further route or ends.      *)
FailAttempt ==
    /\ turn.at = "sent"
    /\ \/ failures' = failures
       \/ turn.fallback /\ failures' = Recorded(UpstreamOf[turn.route], turn.stage)
    /\ turn' \in {NoTurn,
                  [turn EXCEPT !.at = "routing", !.route = Nowhere, !.stage = 0,
                               !.context = {}, !.sent = {}]}
    /\ UNCHANGED <<answers, lastTurn, depthUsed>>

(* The upstream accepts the request: maker answers, the route or a route    *)
(* hedge, which is sent the body and the context of the primary and is not  *)
(* used in the chat fallback.  The upstream's counts are cleared before     *)
(* anything of the answer is read.                                          *)
BeginAnswer(maker) ==
    /\ turn.at = "sent"
    /\ maker # turn.route => ~ turn.fallback
    /\ turn' = [turn EXCEPT !.at = "answering", !.maker = maker]
    /\ LET u == UpstreamOf[turn.route] IN
          /\ failures' = [failures EXCEPT ![u] = IF turn.fallback THEN [s \in Stages |-> 0] ELSE @]
          /\ depthUsed' = [depthUsed EXCEPT ![u] = IF turn.fallback THEN 1 ELSE @]
    /\ UNCHANGED <<answers, lastTurn>>

(* store_from_response_value: the items of the context and the answer, with *)
(* the profile the context was dispatched with.                             *)
StoredAnswer ==
    [items |-> turn.context \cup {[turn |-> lastTurn, from |-> turn.maker]},
     source |-> turn.route, hedged |-> turn.maker # turn.route, prior |-> turn.prior]

(* The answer ends and is stored, or it breaks off before its completed     *)
(* event (or has no id or no output) and nothing is.                        *)
FinishAnswer ==
    /\ turn.at = "answering"
    /\ answers' \in {answers, [answers EXCEPT ![lastTurn] = StoredAnswer]}
    /\ turn' = NoTurn
    /\ UNCHANGED <<lastTurn, failures, depthUsed>>

ConversationNext ==
    \/ \E prior \in 0..MaxTurns, fallback, replays \in BOOLEAN :
          /\ prior <= lastTurn
          /\ Ask(prior, fallback, replays)
    \/ \E p \in Providers : Dispatch(p) \/ BeginAnswer(p)
    \/ EscapePin \/ FailAttempt \/ FinishAnswer

ConversationSpec == ConversationInit /\ [][ConversationNext]_conversationVars

-----------------------------------------------------------------------------
(* Properties.                                                              *)

(* The last answer of a conversation reaches no other provider with the     *)
(* fields of the one that made it, across retries, rotations and escapes.   *)
LastAnswerSanitised ==
    turn.at \in {"sent", "answering"} /\ turn.prior # 0 /\ ~ answers[turn.prior].hedged =>
        \A i \in turn.sent : i.turn = turn.prior /\ i.from # turn.route => ~ i.bound

(* An upstream that refused the richer stages is given them again, by any   *)
(* of its keys, only once one of its keys has begun to answer a reduced     *)
(* request.  The counts are the upstream's, so the answer of one key gives  *)
(* the richer stages back to the others, which have answered nothing.       *)
FallbackNeverClimbs ==
    [][\A u \in Upstreams : depthUsed'[u] < depthUsed[u] =>
          /\ turn.at = "sent" /\ turn'.at = "answering"
          /\ UpstreamOf[turn.route] = u]_conversationVars

(* gateway.rs:7668 "when the replayed history was captured from a different *)
(* profile, sanitize the replayed items before they are sent upstream".     *)
(* The history stored after a sanitised turn holds the items as they were   *)
(* and the new profile alone, so the turn after it sends them unsanitised.  *)
(* Answers of hedges are left to SourceMadeAnswer.                          *)
ForeignItemsSanitised ==
    turn.at = "sent" /\ (\A n \in Turns : ~ answers[n].hedged) => \A i \in turn.sent : i.from # turn.route => ~ i.bound

(* The profile stored with a history is the one that made its last answer:  *)
(* gateway.rs:4154 "Recorded at dispatch time from the actually-selected    *)
(* route".                                                                  *)
SourceMadeAnswer ==
    \A n \in Turns : answers[n] # NoAnswer =>
        \E i \in answers[n].items : i.turn = n /\ i.from = answers[n].source

(* A stored history keeps the turns of the one it continues.                *)
HistoryWhole ==
    \A n \in Turns : answers[n].prior # 0 => answers[answers[n].prior].items \subseteq answers[n].items
=============================================================================
