-------------------------- MODULE ResponsesToChat --------------------------
(***************************************************************************)
(* ResponsesToChatState (src/src/protocol.rs): a Responses stream          *)
(* translated into Chat completion chunks, and the Chat client that        *)
(* concatenates the contents and arguments of those chunks.                *)
(*                                                                         *)
(* The provider streams one message, plain or an agent message, one        *)
(* function call and one custom tool call, each as an added event, deltas, *)
(* a done event and an item-done event.  It keeps their order and may      *)
(* leave out any of them; a done event carries all of what it ends.  A     *)
(* text is its pieces 1..Pieces.                                           *)
(***************************************************************************)
EXTENDS Naturals, Sequences, FiniteSets, SequencesExt

CONSTANT Pieces  \* pieces of the provider's text, arguments and input

ASSUME PiecesAssumption == Pieces \in Nat

First(n) == [i \in 1..n |-> i]
Whole == First(Pieces)
OpenMark == 0            \* the {"input":" a custom input is wrapped in
CloseMark == Pieces + 1  \* its "}
Parts == {"message", "function", "custom"}

VARIABLES
    agent,      \* the message is an agent message
    early,      \* how many pieces the added event of an agent message carries
    given,      \* per part, how many pieces went out as deltas or, of a call, when added
    seen,       \* per part, which of its added, done and item events came;
                \* "output" when the completed event listed the message
    chat,       \* ResponsesToChatState: what it knows
    content,    \* the Chat client's content
    arguments   \* the Chat client's arguments of both calls

responsesVars == <<agent, early, given, seen, chat, content, arguments>>

ResponsesInit ==
    /\ agent \in BOOLEAN /\ early \in 0..Pieces
    /\ given = [p \in Parts |-> 0]
    /\ seen = [p \in Parts |-> {}]
    /\ chat = [text |-> <<>>, textDone |-> FALSE, agentShown |-> FALSE,
               pendingAgent |-> FALSE, calls |-> {}, input |-> <<>>,
               closed |-> FALSE, ended |-> "no"]
    /\ content = <<>>
    /\ arguments = [p \in {"function", "custom"} |-> <<>>]

Open == chat.ended = "no"
Ends == {"done", "item"}
Came(p, event) == seen' = [seen EXCEPT ![p] = @ \cup {event}]

\* response.output_item.added of the message.
MessageAdded ==
    /\ Open /\ seen["message"] = {} /\ given["message"] = 0
    /\ Came("message", "added")
    /\ chat' = [chat EXCEPT !.pendingAgent = agent]
    /\ UNCHANGED <<agent, early, given, content, arguments>>

\* emit_function_call_item_added: the item carries the first n pieces of the
\* arguments or of the input, and the deltas go on after them.
CallAdded(p, n) ==
    /\ Open /\ seen[p] = {} /\ given[p] = 0
    /\ Came(p, "added")
    /\ given' = [given EXCEPT ![p] = n]
    /\ arguments' = [arguments EXCEPT ![p] = IF p = "custom" THEN <<OpenMark>> \o First(n) ELSE First(n)]
    /\ chat' = [chat EXCEPT !.calls = @ \cup {p}, !.input = IF p = "custom" THEN First(n) ELSE @]
    /\ UNCHANGED <<agent, early, content>>

\* response.output_text.delta
TextDelta ==
    /\ Open /\ seen["message"] \cap Ends = {} /\ given["message"] < Pieces
    /\ given' = [given EXCEPT !["message"] = @ + 1]
    /\ IF chat.agentShown \/ chat.textDone THEN UNCHANGED <<chat, content>>
       ELSE /\ chat' = [chat EXCEPT !.text = Append(@, given["message"] + 1)]
            /\ content' = Append(content, given["message"] + 1)
    /\ UNCHANGED <<agent, early, seen, arguments>>

\* Mutant: the complete text follows what was already streamed.
CompleteTextWhole(text) == content \o text

\* emit_complete_text: only what the deltas left out, or all of a text that
\* does not begin with what they gave.
CompleteText(text) ==
    content \o (IF chat.text # <<>> /\ IsPrefix(chat.text, text)
                  THEN SubSeq(text, Len(chat.text) + 1, Len(text)) ELSE text)

\* response.output_text.done
TextDone ==
    /\ Open /\ seen["message"] \cap Ends = {}
    /\ Came("message", "done")
    /\ content' = CompleteText(Whole)
    /\ chat' = [chat EXCEPT !.text = Whole, !.textDone = TRUE]
    /\ UNCHANGED <<agent, early, given, arguments>>

\* response.output_item.done of the message: an agent message shows its
\* content now, a plain one has shown what it shows.
MessageItemDone ==
    /\ Open /\ "item" \notin seen["message"]
    /\ Came("message", "item")
    /\ IF agent
         THEN /\ content' = CompleteText(Whole)
              /\ chat' = [chat EXCEPT !.text = Whole, !.agentShown = Pieces > 0,
                                      !.pendingAgent = FALSE]
         ELSE UNCHANGED <<content, chat>>
    /\ UNCHANGED <<agent, early, given, arguments>>

\* response.function_call_arguments.delta, response.custom_tool_call_input.delta:
\* a call the translator does not know is entered as it comes, and what it is
\* wrapped in is noted but not sent.
CallDelta(p) ==
    /\ Open /\ seen[p] \cap Ends = {} /\ given[p] < Pieces
    /\ given' = [given EXCEPT ![p] = @ + 1]
    /\ arguments' = [arguments EXCEPT ![p] = Append(@, given[p] + 1)]
    /\ chat' = [chat EXCEPT !.calls = @ \cup {p},
                            !.input = IF p = "custom" THEN Append(@, given[p] + 1) ELSE @]
    /\ UNCHANGED <<agent, early, seen, content>>

\* The done and item-done events of a part, in this order.
Ending(p, event) ==
    /\ Open /\ event \notin seen[p] /\ "item" \notin seen[p]
    /\ Came(p, event)

\* The done events of a function call only update the translator.
FunctionDone(event) ==
    /\ Ending("function", event)
    /\ UNCHANGED <<agent, early, given, chat, content, arguments>>

\* emit_custom_tool_call_input_done closes the JSON string once.
CustomSuffix == IF chat.closed THEN <<>> ELSE <<CloseMark>>

\* input.done and item.done: the missing input, and the suffix; an error, with
\* which the stream ends, for a call the translator does not know.
CustomDone(event) ==
    /\ Ending("custom", event)
    /\ IF "custom" \in chat.calls
         THEN /\ arguments' = [arguments EXCEPT !["custom"] =
                                 @ \o SubSeq(Whole, Len(chat.input) + 1, Pieces) \o CustomSuffix]
              /\ chat' = [chat EXCEPT !.input = Whole, !.closed = TRUE]
         ELSE chat' = [chat EXCEPT !.ended = "failed"] /\ UNCHANGED arguments
    /\ UNCHANGED <<agent, early, given, content>>

\* response.completed that lists the output: an agent message not shown yet is
\* shown.  A plain message and the calls are validated, not shown.
CompletedWithOutput ==
    /\ Open
    /\ Came("message", "output")
    /\ IF agent /\ ~chat.agentShown
         THEN /\ content' = CompleteText(Whole)
              /\ chat' = [chat EXCEPT !.text = Whole, !.agentShown = Pieces > 0,
                                      !.pendingAgent = FALSE, !.ended = "completed"]
         ELSE chat' = [chat EXCEPT !.ended = "completed"] /\ UNCHANGED content
    /\ UNCHANGED <<agent, early, given, arguments>>

\* response.completed without output, or the end of the stream: finish shows an
\* agent message that is pending as its added event gave it.
FinishChat ==
    /\ Open
    /\ IF chat.pendingAgent /\ early > 0
         THEN /\ content' = CompleteText(First(early))
              /\ chat' = [chat EXCEPT !.text = First(early), !.agentShown = TRUE,
                                      !.pendingAgent = FALSE, !.ended = "completed"]
         ELSE /\ chat' = [chat EXCEPT !.pendingAgent = FALSE, !.ended = "completed"]
              /\ UNCHANGED content
    /\ UNCHANGED <<agent, early, given, seen, arguments>>

ResponsesNext ==
    \/ \E p \in {"function", "custom"} : CallDelta(p) \/ \E n \in 0..Pieces : CallAdded(p, n)
    \/ \E event \in Ends : FunctionDone(event) \/ CustomDone(event)
    \/ MessageAdded \/ TextDelta \/ TextDone \/ MessageItemDone
    \/ CompletedWithOutput \/ FinishChat

ResponsesSpec == ResponsesInit /\ [][ResponsesNext]_responsesVars

-----------------------------------------------------------------------------
(* An event brought all of the text: the deltas, the text-done event or, of *)
(* an agent message, its item-done or the completed event.                  *)
TextBrought ==
    \/ given["message"] = Pieces \/ "done" \in seen["message"]
    \/ agent /\ seen["message"] \cap {"item", "output"} # {}

(* The Chat client gets no piece of the text twice or out of order, and has *)
(* all of it as soon as an event brought it, in whichever of the events it  *)
(* came and came again.  Not of a message whose added event carries a part  *)
(* of the text, which finish may show after the deltas.                   *)
TextArrivesOnce ==
    early \in {0, Pieces} =>
        /\ IsPrefix(content, Whole)
        /\ TextBrought => content = Whole

(* The JSON string a custom tool's input is wrapped in is opened and closed *)
(* exactly once around the provider's input, if the call was added.         *)
CustomInputWrapped ==
    "added" \in seen["custom"] /\ seen["custom"] \cap Ends # {} =>
        arguments["custom"] = <<OpenMark>> \o Whole \o <<CloseMark>>

(* The chat client gets the provider's text once, from whichever of the     *)
(* events the translator takes text from, and the input of a custom tool    *)
(* that was added as one JSON object, in whichever events it came.          *)
PartsTranslated == TextArrivesOnce /\ CustomInputWrapped

(* A function call's arguments reach the Chat client in full.               *)
FunctionArgumentsArrive ==
    seen["function"] \cap Ends # {} => arguments["function"] = Whole

(* So does the text of a plain message that only its item-done or the       *)
(* completed event carries.                                                 *)
PlainTextArrives == seen["message"] \cap {"item", "output"} # {} => content = Whole

(* The input of a custom call is wrapped whether or not its added event     *)
(* came, which the translator notes for itself (protocol.rs:4163).          *)
UnaddedInputWrapped ==
    Open /\ seen["custom"] \cap Ends # {} =>
        arguments["custom"] = <<OpenMark>> \o Whole \o <<CloseMark>>

(* No piece of the text comes twice, whatever the added event carried.      *)
TextNeverDoubled == IsPrefix(content, Whole)
=============================================================================
