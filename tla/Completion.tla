------------------------------ MODULE Completion ------------------------------
(***************************************************************************)
(* The non-streaming path: parse_non_streaming of the four providers makes *)
(* one completion of what the upstream said, and completion_to_* of the    *)
(* frontends (cmdcode-core, *_wire.rs) turn it into the client's dialect.  *)
(*                                                                         *)
(* Operators only.  A completion counts its pieces of text and reasoning;  *)
(* Failed is a parse that gives an error, and so a 502.                    *)
(***************************************************************************)
EXTENDS ChatChunks, FiniteSets, Functions

Call(id, args) == [id |-> id, args |-> args]
Completed(text, reasoning, calls, finish) ==
    [ok |-> TRUE, text |-> text, reasoning |-> reasoning, calls |-> calls, finish |-> finish]
Empty  == Completed(0, 0, <<>>, NoReason)
Failed == [Empty EXCEPT !.ok = FALSE]

NumberOf(log, kind) == Len(SelectSeq(log, LAMBDA e : e.kind = kind))

(* Command Code: texts, whole calls and the last finish; the pieces of     *)
(* calls and finish-step are not looked at.  An error, or no finish, fails.*)
CommandCodeWhole(log) ==
    LET calls    == SelectSeq(log, LAMBDA e : e.kind = "call")
        finishes == SelectSeq(log, LAMBDA e : e.kind = "finish")
    IN  IF finishes = <<>> \/ NumberOf(log, "error") > 0 THEN Failed
        ELSE Completed(NumberOf(log, "text"), NumberOf(log, "reasoning"),
                       [k \in DOMAIN calls |->
                          Call(calls[k].id, IF calls[k].id = NoId THEN <<>> ELSE <<calls[k].id>>)],
                       Last(finishes).reason)

(* Faulty variant: the arguments of a slot are those of its last fragment. *)
MergedOver(calls, p) ==
    LET slots == IF p.index < Len(calls) THEN calls
                 ELSE calls \o [k \in 1..(p.index + 1 - Len(calls)) |-> Call(NoId, <<>>)]
    IN  [slots EXCEPT ![p.index + 1] =
           Call(IF p.id = NoId THEN @.id ELSE p.id, p.args)]

(* The slot of a fragment's index, made with those below it if need be.    *)
Merged(calls, p) ==
    LET slots == IF p.index < Len(calls) THEN calls
                 ELSE calls \o [k \in 1..(p.index + 1 - Len(calls)) |-> Call(NoId, <<>>)]
    IN  [slots EXCEPT ![p.index + 1] =
           Call(IF p.id = NoId THEN @.id ELSE p.id, @.args \o p.args)]

(* An SSE body in reply to a request that asked for none; an error frame   *)
(* has no choice and is passed over.                                       *)
OpenAiWhole(chunks) ==
    LET one(acc, c) ==
            [acc EXCEPT !.ok = TRUE,
                        !.text = @ + (IF c.text THEN 1 ELSE 0),
                        !.reasoning = @ + (IF c.reasoning THEN 1 ELSE 0),
                        !.calls = FoldLeft(Merged, @, c.calls),
                        !.finish = IF c.finish = NoReason THEN @ ELSE c.finish]
    IN  FoldLeft(one, Failed, SelectSeq(chunks, LAMBDA c : ~c.done))

(* The body's content blocks are what the stream's blocks would add up to. *)
AnthropicWhole(log) ==
    LET starts == SelectSeq(log, LAMBDA e : e.kind = "start")
        pieces(id) == Len(SelectSeq(log, LAMBDA e : e.kind = "delta" /\ e.id = id))
    IN  Completed(NumberOf(log, "text"), NumberOf(log, "reasoning"),
                  [k \in DOMAIN starts |->
                     Call(starts[k].id, [j \in 1..pieces(starts[k].id) |-> starts[k].id])],
                  Last(SelectSeq(log, LAMBDA e : e.kind = "finish")).reason)

(* The parts of the candidate; calls among them make the reason.           *)
GeminiWhole(log) ==
    LET calls == SelectSeq(log, LAMBDA e : e.kind = "call")
    IN  Completed(NumberOf(log, "text"), 0,
                  [k \in DOMAIN calls |-> Call(calls[k].id, <<calls[k].id>>)],
                  IF calls # <<>> THEN "tool_calls"
                  ELSE Last(SelectSeq(log, LAMBDA e : e.kind = "finish")).reason)

Whole(provider, log, chunks) ==
    CASE provider = "command-code" -> CommandCodeWhole(log)
      [] provider = "openai"       -> OpenAiWhole(chunks)
      [] provider = "anthropic"    -> AnthropicWhole(log)
      [] provider = "gemini"       -> GeminiWhole(log)

(***************************************************************************)
(* The client's dialect                                                    *)
(***************************************************************************)

Item(kind, id, args) == [kind |-> kind, id |-> id, args |-> args]

(* Arguments are parsed, and what is not one call's JSON becomes {}.       *)
Parsed(args) == IF Cardinality(Range(args)) = 1 THEN args ELSE <<>>

(* Reasoning, calls, then the text, which is there if nothing else is.     *)
Items(m, parsing) ==
    LET thinking == IF m.reasoning > 0 THEN <<Item("thinking", NoId, <<>>)>> ELSE <<>>
        Given(c) == IF parsing THEN Parsed(c.args) ELSE c.args
        calls    == [k \in DOMAIN m.calls |-> Item("call", m.calls[k].id, Given(m.calls[k]))]
        before   == thinking \o calls
    IN  IF m.text > 0 \/ before = <<>> THEN Append(before, Item("text", NoId, <<>>)) ELSE before

CompletionToAnthropic(m) ==
    [items |-> Items(m, TRUE), reason |-> IF m.finish = "tool_calls" THEN "tool_use" ELSE "end_turn"]

(* Arguments stay a string; there is no reason.                            *)
CompletionToResponses(m) ==
    [items |-> Items(m, FALSE), reason |-> NoReason]

CompletionToGemini(m) == [items |-> Items(m, TRUE), reason |-> "STOP"]

(* One message with its text, an empty one included, and its calls.        *)
CompletionToOllama(m) ==
    [items |-> <<Item("text", NoId, <<>>)>>
                 \o [k \in DOMAIN m.calls |-> Item("call", m.calls[k].id, Parsed(m.calls[k].args))],
     reason |-> NoReason]

CompletionFor(frontend, m) ==
    CASE frontend = "anthropic" -> CompletionToAnthropic(m)
      [] frontend = "responses" -> CompletionToResponses(m)
      [] frontend = "gemini"    -> CompletionToGemini(m)
      [] frontend = "ollama"    -> CompletionToOllama(m)
      [] frontend = "openai"    -> [items |-> Items(m, FALSE), reason |-> m.finish]
=============================================================================
