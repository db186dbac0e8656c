----------------------------- MODULE ChatMessages -----------------------------
(***************************************************************************)
(* The one internal form of a conversation, ChatCompletionRequest.messages *)
(* (cmdcode-core, wire_format.rs), and deduplicate_tool_calls on it.       *)
(*                                                                         *)
(* A text is named by the turn of the conversation it belongs to.  A call  *)
(* id is what the upstream made up, or call_<name> of the function (what   *)
(* the Gemini protocols use), or the bare name.                            *)
(***************************************************************************)
EXTENDS Filtering, FiniteSets, SequencesExt

CONSTANTS
    Names,         \* functions
    NoName         \* no id, no name

ASSUME NamesAssumption == NoName \notin Names

Roles == {"system", "user", "assistant", "tool"}

(* call: written with the prefix "call_"; of: a number made up, or a name. *)
MadeUp(n)       == [call |-> TRUE, of |-> n]
CallOf(name)    == [call |-> TRUE, of |-> name]
Bare(name)      == [call |-> FALSE, of |-> name]
NoAnswer        == Bare(NoName)

(* OpenAiMessage: texts, tool_calls, and tool_call_id.                     *)
Message(role, texts, calls, answers) ==
    [role |-> role, texts |-> texts, calls |-> calls, answers |-> answers]

CallsOf(messages) == FoldLeft(LAMBDA acc, m : acc \o m.calls, <<>>, messages)

(* The messages at the indices S, in their order.                          *)
Keep(messages, S) ==
    LET at == Filter([i \in DOMAIN messages |-> i], S)
    IN  [k \in DOMAIN at |-> messages[at[k]]]

HasCalls(m) == m.role = "assistant" /\ m.calls # <<>>

(* The first pass: the calls of a message whose id came before, in this    *)
(* message or an earlier one.                                              *)
RepeatedCalls(messages, i) ==
    {k \in DOMAIN messages[i].calls :
        /\ HasCalls(messages[i])
        /\ \E j \in 1..i : HasCalls(messages[j]) /\
              \E l \in DOMAIN messages[j].calls :
                 (j < i \/ l < k) /\ messages[j].calls[l].id = messages[i].calls[k].id}

(* The second: from the last message down, the one at the index i goes     *)
(* once for each of i's repeated calls, if it has calls: the first time i  *)
(* itself, then those that have taken its place.  kept[d]: what is left of *)
(* the last d messages.                                                    *)
WithoutRepeatedCalls(messages) ==
    LET first(S, count) == {j \in S : /\ Cardinality({l \in S : l <= j}) <= count
                                      /\ \A l \in S : l <= j => HasCalls(messages[l])}
        kept[d \in 0..Len(messages)] ==
            IF d = 0 THEN {}
            ELSE LET i   == Len(messages) + 1 - d
                     all == kept[d - 1] \union {i}
                 IN  all \ first(all, Cardinality(RepeatedCalls(messages, i)))
    IN  Keep(messages, kept[Len(messages)])

(* Faulty variant: results are kept. *)
WithAllAnswers(messages) == messages

(* The third: only the first result of a call stays.                       *)
WithoutRepeatedAnswers(messages) ==
    LET again(i) == messages[i].role = "tool" /\ messages[i].answers # NoAnswer
                    /\ \E j \in 1..(i - 1) : /\ messages[j].role = "tool"
                                             /\ messages[j].answers = messages[i].answers
    IN  Keep(messages, {i \in DOMAIN messages : ~again(i)})

(* Faulty variant: of a repeated call the last message stays. *)
DeduplicateKeepingLast(messages) ==
    Reverse(WithoutRepeatedAnswers(WithoutRepeatedCalls(Reverse(messages))))

DeduplicateToolCalls(messages) == WithoutRepeatedAnswers(WithoutRepeatedCalls(messages))
=============================================================================
