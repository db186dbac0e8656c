------------------------------ MODULE ChatChunks ------------------------------
(***************************************************************************)
(* The one internal form of a streamed answer: the chat.completion.chunk   *)
(* payloads that a provider's translate_line produces and that a           *)
(* frontend's renderer consumes.                                           *)
(*                                                                         *)
(* Text is a mark (a chunk carries some or none).  A piece of a call's     *)
(* JSON arguments is named by the call it belongs to, so arguments are the *)
(* sequence of the owners of their pieces, and mixing is visible.  A call  *)
(* and the function it calls share one name.  "length" is handled as       *)
(* "stop" is.                                                              *)
(***************************************************************************)
EXTENDS Naturals, Sequences, SequencesExt

CONSTANTS
    Calls,         \* the tool calls of one answer
    NoId           \* no id, no name: absent or the empty string

ASSUME ChunkAssumption == NoId \notin Calls

NoReason == "none"
Reasons  == {"stop", "tool_calls"}

Arguments == Seq(Calls)

(* One element of delta.tool_calls: a call or a fragment of one.           *)
Part == [index : Nat, id : Calls \union {NoId}, name : Calls \union {NoId}, args : Arguments]

(* choice: the payload has a choices[0]; done: it is the [DONE] marker.    *)
Chunk == [text : BOOLEAN, reasoning : BOOLEAN, calls : Seq(Part),
          finish : Reasons \union {NoReason}, choice : BOOLEAN, error : BOOLEAN, done : BOOLEAN]

EmptyChunk == [text |-> FALSE, reasoning |-> FALSE, calls |-> <<>>, finish |-> NoReason,
               choice |-> TRUE, error |-> FALSE, done |-> FALSE]

TextChunk      == [EmptyChunk EXCEPT !.text = TRUE]
ReasoningChunk == [EmptyChunk EXCEPT !.reasoning = TRUE]
CallChunk(i, id, args) ==
    [EmptyChunk EXCEPT !.calls = <<[index |-> i, id |-> id, name |-> id, args |-> args]>>]
ArgsChunk(i, args) ==
    [EmptyChunk EXCEPT !.calls = <<[index |-> i, id |-> NoId, name |-> NoId, args |-> args]>>]
FinishChunk(reason) == [EmptyChunk EXCEPT !.finish = reason]
UsageChunk          == [EmptyChunk EXCEPT !.choice = FALSE]
ErrorChunk          == [EmptyChunk EXCEPT !.choice = FALSE, !.error = TRUE]
DoneMarker          == [EmptyChunk EXCEPT !.choice = FALSE, !.done = TRUE]
=============================================================================
