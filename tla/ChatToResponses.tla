-------------------------- MODULE ChatToResponses --------------------------
(***************************************************************************)
(* ChatToResponsesState (src/src/protocol.rs): a Chat completion stream    *)
(* translated, event by event, into Responses events, together with the    *)
(* client that puts the Responses items together from those events.        *)
(*                                                                         *)
(* The upstream reasons, speaks and calls Tools in any order.  A call's    *)
(* arguments are fragments: "open" and "rest" are the two halves of a JSON *)
(* value, "whole" is a complete one (a {} placeholder); a fragment is kept *)
(* with the call it is a fragment of.  A style says how the upstream names *)
(* the call a fragment belongs to:                                         *)
(*   indexed  index always             ided  id always, no index           *)
(*   bare     id on the first fragment anon  neither, only a name          *)
(* An upstream of the last two styles finishes a call before the next one. *)
(***************************************************************************)
EXTENDS Integers, Sequences, FiniteSets, SequencesExt, FiniteSetsExt

CONSTANTS
    Tools,         \* the upstream's calls, 1..n, each with a name of its own
    Styles,        \* subset of {"indexed", "ided", "bare", "anon"}
    MaxChatEvents  \* bound of the model

ASSUME ToolsAssumption ==
    /\ IsFiniteSet(Tools) /\ Tools \subseteq Nat \ {0} /\ MaxChatEvents \in Nat

VARIABLES
    callStyle,
    callSent,     \* the fragments of each call sent so far
    chatEvents,   \* events sent so far
    translator,   \* ChatToResponsesState
    view          \* the items of the Responses client, by output index

chatVars == <<callStyle, callSent, chatEvents, translator, view>>

NoItem == -1
ChatInit ==
    /\ callStyle \in Styles
    /\ callSent = [c \in Tools |-> <<>>]
    /\ chatEvents = 0
    /\ translator = [reasoning |-> NoItem, reasoned |-> FALSE, text |-> NoItem,
                     calls |-> <<>>, next |-> 0, completed |-> FALSE]
    /\ view = <<>>

-----------------------------------------------------------------------------
(* Emitting: the client's view of added, delta and done events.             *)

Item(what) == [what |-> what, deltas |-> <<>>, closes |-> 0, final |-> <<>>,
               reopened |-> FALSE]

\* allocate_output_index and an output_item.added event
Added(v, what) == Append(v, Item(what))

\* A delta event for output index i (the view is indexed from 1).
Delta(v, i, piece) ==
    [v EXCEPT ![i + 1].deltas = Append(@, piece),
              ![i + 1].reopened = @ \/ v[i + 1].closes > 0]

\* The done event and output_item.done, with the authoritative content.
Done(v, i, content) ==
    [v EXCEPT ![i + 1].closes = @ + 1, ![i + 1].final = content]

\* emit_reasoning_done
CloseReasoning(t, v) ==
    IF t.reasoning = NoItem \/ t.reasoned THEN <<t, v>>
    ELSE <<[t EXCEPT !.reasoned = TRUE],
           Done(v, t.reasoning, v[t.reasoning + 1].deltas)>>

-----------------------------------------------------------------------------
(* Tool calls.                                                              *)

Fragment(c, piece) == [call |-> c, piece |-> piece]
Complete(args) ==
    LET pieces == [i \in DOMAIN args |-> args[i].piece]
    IN pieces = <<"whole">> \/ pieces = <<"open", "rest">>

\* merge_tool_call_arguments: a complete value followed by the start of a new
\* one is replaced; the client is then no longer sent deltas.
MergeArguments(entry, f) ==
    IF Complete(entry.args) /\ f.piece \in {"open", "whole"}
      THEN [entry EXCEPT !.args = <<f>>, !.desynced = TRUE]
      ELSE [entry EXCEPT !.args = Append(@, f)]

\* normalize_tool_arguments: nothing becomes {}, of several values the last
\* object is kept, what does not parse is left alone.
NormalizeArguments(args) ==
    LET wholes == {i \in DOMAIN args :
                      \/ args[i].piece = "whole"
                      \/ i > 1 /\ args[i].piece = "rest" /\ args[i - 1].piece = "open"}
        last == Max(wholes)
    IN IF wholes = {} \/ args[1].piece = "rest" THEN args
       ELSE IF args[last].piece = "whole" THEN <<args[last]>>
       ELSE <<args[last - 1], args[last]>>

NextKey(t) == IF t.calls = <<>> THEN 0
              ELSE Max({t.calls[i].key : i \in DOMAIN t.calls}) + 1

\* Mutant: a fragment without index and id continues the first call.
KeyByPosition(t, index, id, name) ==
    LET known == {i \in DOMAIN t.calls : t.calls[i].id = id /\ id # 0}
    IN IF index # 0 THEN index
       ELSE IF known # {} THEN t.calls[Min(known)].key
       ELSE IF id # 0 THEN NextKey(t)
       ELSE 0

\* emit_chat_tool_call_delta, strict: by index, by id, or the only open call
\* unless the fragment names another tool.
KeyOf(t, index, id, name) ==
    LET known == {i \in DOMAIN t.calls : t.calls[i].id = id /\ id # 0}
        conflict == /\ name # 0 /\ t.calls[1].name # 0
                    /\ name # t.calls[1].name
    IN IF index # 0 THEN index
       ELSE IF known # {} THEN t.calls[Min(known)].key
       ELSE IF id # 0 \/ Len(t.calls) # 1 THEN NextKey(t)
       ELSE IF conflict THEN NextKey(t)
       ELSE t.calls[1].key

ToolDelta(t, v, index, id, name, f) ==
    LET key == KeyOf(t, index, id, name)
        at == {i \in DOMAIN t.calls : t.calls[i].key = key}
        new == at = {}
        i == IF new THEN Len(t.calls) + 1 ELSE Min(at)
        entry == IF new
                   THEN [key |-> key, id |-> id, name |-> name, args |-> <<>>,
                         item |-> t.next, desynced |-> FALSE]
                   ELSE t.calls[i]
        merged == MergeArguments(entry, f)
        shown == IF new THEN Added(v, "call") ELSE v
    IN <<[t EXCEPT !.calls = IF new THEN Append(@, merged) ELSE [@ EXCEPT ![i] = merged],
                   !.next = IF new THEN @ + 1 ELSE @],
         IF merged.desynced THEN shown ELSE Delta(shown, entry.item, f)>>

-----------------------------------------------------------------------------
(* translate_event and finish.                                              *)

Sending == ~translator.completed /\ chatEvents < MaxChatEvents

Reason ==
    /\ Sending
    /\ LET new == translator.reasoning = NoItem
           t == IF new THEN [translator EXCEPT !.reasoning = translator.next,
                                               !.next = @ + 1]
                ELSE translator
           v == IF new THEN Added(view, "reasoning") ELSE view
       IN translator' = t /\ view' = Delta(v, t.reasoning, "thought")
    /\ chatEvents' = chatEvents + 1
    /\ UNCHANGED <<callStyle, callSent>>

\* ensure_text_item, after the reasoning is closed
Speak ==
    /\ Sending
    /\ LET closed == CloseReasoning(translator, view)
           new == translator.text = NoItem
           t == IF new THEN [closed[1] EXCEPT !.text = closed[1].next,
                                              !.next = @ + 1]
                ELSE closed[1]
           v == IF new THEN Added(closed[2], "text") ELSE closed[2]
       IN translator' = t /\ view' = Delta(v, t.text, "word")
    /\ chatEvents' = chatEvents + 1
    /\ UNCHANGED <<callStyle, callSent>>

\* One call's arguments: a placeholder first, perhaps, then the two halves.
NextPieces(sent) ==
    CASE sent = <<>> -> {"whole", "open"}
      [] Len(sent) > 0 /\ Last(sent).piece = "whole" /\ Len(sent) = 1 -> {"open"}
      [] Len(sent) > 0 /\ Last(sent).piece = "open" -> {"rest"}
      [] OTHER -> {}

Finished(c) == callSent[c] # <<>> /\ Last(callSent[c]).piece # "open"

CallTool(c) ==
    /\ Sending
    /\ callStyle \in {"bare", "anon"} =>
          /\ \A d \in Tools : d < c => Finished(d)
          /\ \A d \in Tools : d > c => callSent[d] = <<>>
    /\ \E piece \in NextPieces(callSent[c]) :
          LET first == callSent[c] = <<>>
              f == Fragment(c, piece)
              closed == CloseReasoning(translator, view)
              r == ToolDelta(closed[1], closed[2],
                             IF callStyle = "indexed" THEN c ELSE 0,
                             IF callStyle = "ided" \/ (first /\ callStyle # "anon")
                               THEN c ELSE 0,
                             IF first THEN c ELSE 0, f)
          IN /\ translator' = r[1] /\ view' = r[2]
             /\ callSent' = [callSent EXCEPT ![c] = Append(@, f)]
    /\ chatEvents' = chatEvents + 1
    /\ UNCHANGED callStyle

CloseCalls(t, v) ==
    LET closed[n \in 0 .. Len(t.calls)] ==
            IF n = 0 THEN v
            ELSE Done(closed[n - 1], t.calls[n].item, NormalizeArguments(t.calls[n].args))
    IN closed[Len(t.calls)]

\* finish: reasoning, text and calls are closed, then response.completed.
CompleteResponse ==
    /\ ~translator.completed
    /\ LET closed == CloseReasoning(translator, view)
           spoken == IF translator.text = NoItem THEN closed[2]
                     ELSE Done(closed[2], translator.text,
                               closed[2][translator.text + 1].deltas)
       IN /\ view' = CloseCalls(closed[1], spoken)
          /\ translator' = [closed[1] EXCEPT !.completed = TRUE]
    /\ UNCHANGED <<callStyle, callSent, chatEvents>>

ChatNext == Reason \/ Speak \/ (\E c \in Tools : CallTool(c)) \/ CompleteResponse

ChatSpec == ChatInit /\ [][ChatNext]_chatVars

-----------------------------------------------------------------------------
CallOwners(args) == {args[i].call : i \in DOMAIN args}

(* The fragments of two upstream calls never end up in one call of the      *)
(* client, whatever the upstream leaves out of its fragments, and the       *)
(* client's deltas of a call are exactly the arguments its done event       *)
(* carries unless the translator stopped sending them.                      *)
CallsKeptApart ==
    /\ \A i \in DOMAIN view : view[i].what = "call" =>
          /\ Cardinality(CallOwners(view[i].deltas)) <= 1
          /\ Cardinality(CallOwners(view[i].final)) <= 1
    /\ \A i \in DOMAIN translator.calls :
          LET e == translator.calls[i]
          IN /\ view[e.item + 1].what = "call"
             /\ ~e.desynced => view[e.item + 1].deltas = e.args
             /\ ~translator.completed \/ view[e.item + 1].final # <<>>

(* An upstream that identifies its calls has each of them arrive whole: the *)
(* arguments of the done event are the last value the upstream sent.        *)
IdentifiedCallsWhole ==
    translator.completed /\ callStyle \in {"indexed", "ided"} =>
        \A c \in Tools : Finished(c) =>
            \E i \in DOMAIN view :
                /\ view[i].what = "call"
                /\ view[i].final = NormalizeArguments(callSent[c])

(* Text and call items follow the Responses life cycle: nothing after their *)
(* done event, one done event each, all of them closed by the completed     *)
(* event.                                                                   *)
ItemsClosedOnce ==
    \A i \in DOMAIN view :
        /\ view[i].closes <= 1
        /\ view[i].what # "reasoning" => ~view[i].reopened
        /\ translator.completed => view[i].closes = 1

(* The same for reasoning, which a chat stream may resume after text.       *)
ReasoningNotReopened == \A i \in DOMAIN view : ~view[i].reopened

(* The Responses client gets every tool call of the chat stream whole,      *)
(* apart from the others, and closed once.                                  *)
CallsTranslated == CallsKeptApart /\ IdentifiedCallsWhole /\ ItemsClosedOnce
=============================================================================
