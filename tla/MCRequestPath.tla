--------------------------- MODULE MCRequestPath ---------------------------
(***************************************************************************)
(* What a request meets on its way, checked in one run: the admission      *)
(* window of its key in process memory (DownstreamAdmission), its leases,  *)
(* its account and its routes in Redis (RedisLeases, RedisAccount,         *)
(* RedisHealth), the response it continues (ResponseHistory) and the items *)
(* replayed from turn to turn (Conversation), the race of its stream with  *)
(* the hedges (HedgeRace) and the translation of that stream               *)
(* (ChatToResponses, ResponsesToChat).                                     *)
(*                                                                         *)
(* Each keeps keys of its own and touches none of the others' state, so    *)
(* their interleavings show nothing: "focus" picks the one that moves and  *)
(* the others keep their first state.                                      *)
(***************************************************************************)
EXTENDS DownstreamAdmission, RedisLeases, RedisAccount, RedisHealth, ResponseHistory,
        Conversation, HedgeRace, ChatToResponses, ResponsesToChat, TLC

CONSTANTS r1, r2, r3, g1

(* Two requests of one model group and one request outside any group.       *)
MixedGroups == (r1 :> g1) @@ (r2 :> g1) @@ (r3 :> NoGroup)
OneSlotEach == (g1 :> 1)

(* Two keys of one upstream and one of another.                             *)
TwoKeysAndOne == ("a" :> "ab") @@ ("b" :> "ab") @@ ("c" :> "c")

VARIABLE focus
redisPart == <<redisVars, accountVars, healthVars>>
turnPart == <<historyVars, conversationVars>>
streamPart == <<raceVars, chatVars, responsesVars>>
pathVars == <<vars, redisPart, turnPart, streamPart, focus>>

Concerns == {"admission", "leases", "account", "health", "history", "conversation",
             "race", "toResponses", "toChat"}

(* Where a part that does not move is.                                      *)
StandsStill ==
    /\ focus # "leases" =>
          side = "upstream" /\ bucket = [c \in Calls |-> CHOOSE b \in Buckets : TRUE]
    /\ focus # "account" => ~ acct.saturated
    /\ focus # "history" => configured = {CHOOSE o \in Owners : TRUE}
    /\ focus # "toResponses" => callStyle = "indexed"
    /\ focus # "toChat" => ~ agent /\ early = 0

PathInit ==
    /\ focus \in Concerns
    /\ Init /\ RedisInit /\ AccountInit /\ HealthInit
    /\ HistoryInit /\ ConversationInit
    /\ RaceInit /\ ChatInit /\ ResponsesInit
    /\ StandsStill

RedisMoves ==
    \/ focus = "leases" /\ RedisNext /\ UNCHANGED <<accountVars, healthVars>>
    \/ focus = "account" /\ AccountNext /\ UNCHANGED <<redisVars, healthVars>>
    \/ focus = "health" /\ HealthNext /\ UNCHANGED <<redisVars, accountVars>>

TurnMoves ==
    \/ focus = "history" /\ HistoryNext /\ UNCHANGED conversationVars
    \/ focus = "conversation" /\ ConversationNext /\ UNCHANGED historyVars

StreamMoves ==
    \/ focus = "race" /\ RaceNext /\ UNCHANGED <<chatVars, responsesVars>>
    \/ focus = "toResponses" /\ ChatNext /\ UNCHANGED <<raceVars, responsesVars>>
    \/ focus = "toChat" /\ ResponsesNext /\ UNCHANGED <<raceVars, chatVars>>

PathNext ==
    /\ UNCHANGED focus
    /\ \/ focus = "admission" /\ Next /\ UNCHANGED <<redisPart, turnPart, streamPart>>
       \/ RedisMoves /\ UNCHANGED <<vars, turnPart, streamPart>>
       \/ TurnMoves /\ UNCHANGED <<vars, redisPart, streamPart>>
       \/ StreamMoves /\ UNCHANGED <<vars, redisPart, turnPart>>

PathSpec == PathInit /\ [][PathNext]_pathVars
=============================================================================
