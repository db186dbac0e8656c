---------------------------- MODULE StreamRenderer ----------------------------
(***************************************************************************)
(* The frontends' stream renderers (cmdcode-core, *_wire.rs): feed takes   *)
(* one chat.completion chunk and gives the frames of the client's dialect. *)
(*                                                                         *)
(* A renderer is a record of the fields the four structs have; `out`       *)
(* collects the frames of one feed.  A frame is named for its part in the  *)
(* dialect: begin, open / delta / close of a content block or output item, *)
(* stop (the reason), end.                                                 *)
(***************************************************************************)
EXTENDS ChatChunks, Integers, FiniteSets, Functions

FrontendNames == {"openai", "anthropic", "responses", "gemini", "ollama"}

NoIndex == -1     \* no open block
NoBlock == [index |-> NoIndex, kind |-> "none", id |-> NoId, args |-> <<>>]

(* open_block / active_tool_call, next_index / output_index,               *)
(* seen_tool_calls, pending_tools.                                         *)
NewRenderer ==
    [started |-> FALSE, finished |-> FALSE, block |-> NoBlock, next |-> 0,
     seen |-> {}, pending |-> << >>, out |-> <<>>]

Frame(f, index, kind, id, args) ==
    [f |-> f, index |-> index, kind |-> kind, id |-> id, args |-> args]
BeginFrame          == Frame("begin", NoIndex, "message", NoId, <<>>)
OpenFrame(i, k, id) == Frame("open", i, k, id, <<>>)
DeltaFrame(i, k, a) == Frame("delta", i, k, NoId, a)
CloseFrame(b)       == Frame("close", b.index, b.kind, b.id, b.args)
StopFrame(reason)   == Frame("stop", NoIndex, reason, NoId, <<>>)
EndFrame            == Frame("end", NoIndex, "message", NoId, <<>>)
LooseFrame(k, a)    == Frame("loose", NoIndex, k, NoId, a)

Send(r, frame) == [r EXCEPT !.out = Append(@, frame)]
Begun(r)       == IF r.started THEN r ELSE [Send(r, BeginFrame) EXCEPT !.started = TRUE]

(* The calls of a chunk, one by one.                                       *)
Each(Takes(_, _), r, parts) ==
    LET after[k \in 0..Len(parts)] == IF k = 0 THEN r ELSE Takes(after[k - 1], parts[k])
    IN  after[Len(parts)]

(***************************************************************************)
(* AnthropicStreamRenderer                                                 *)
(***************************************************************************)

StopReason(reason) == IF reason = "tool_calls" THEN "tool_use" ELSE "end_turn"

CloseBlock(r) ==
    IF r.block = NoBlock THEN r ELSE [Send(r, CloseFrame(r.block)) EXCEPT !.block = NoBlock]

OpenBlock(r, kind, id) ==
    LET q == CloseBlock(r)
    IN  [Send(q, OpenFrame(q.next, kind, id)) EXCEPT
           !.next = @ + 1, !.block = [index |-> q.next, kind |-> kind, id |-> id, args |-> <<>>]]

(* A text or thinking delta continues an open block of its kind.           *)
AnthropicText(r, kind) ==
    LET q == IF r.block.kind = kind THEN r ELSE OpenBlock(r, kind, NoId)
    IN  Send(q, DeltaFrame(q.block.index, kind, <<>>))

(* A fragment with a name or an id opens a block; arguments go to the open *)
(* block, or to the number of the next one if there is none.               *)
AnthropicPart(r, p) ==
    LET q == IF p.name # NoId \/ p.id # NoId THEN OpenBlock(r, "tool_use", p.id) ELSE r
        index == IF q.block = NoBlock THEN q.next ELSE q.block.index
    IN  IF p.args = <<>> THEN q ELSE Send(q, DeltaFrame(index, "tool_use", p.args))

AnthropicEnd(r, reason) ==
    [Send(Send(CloseBlock(r), StopFrame(reason)), EndFrame) EXCEPT !.finished = TRUE]

(* Faulty variant: [DONE] always ends the message. *)
AnthropicDoneAgain(r) == AnthropicEnd(r, "end_turn")

(* [DONE]: ends a message that had no finish.                              *)
AnthropicDone(r) == IF r.finished THEN r ELSE AnthropicEnd(r, "end_turn")

AnthropicFeed(r, c) ==
    LET begun    == Begun(r)
        thinking == IF c.reasoning THEN AnthropicText(begun, "thinking") ELSE begun
        text     == IF c.text THEN AnthropicText(thinking, "text") ELSE thinking
        calls    == Each(AnthropicPart, text, c.calls)
    IN  IF c.done THEN AnthropicDone(r)
        ELSE IF c.finish = NoReason THEN calls
        ELSE AnthropicEnd(calls, StopReason(c.finish))

(***************************************************************************)
(* ResponsesStreamRenderer                                                 *)
(***************************************************************************)

(* output_item.added, after arguments.done and output_item.done of the     *)
(* call before; `next` is output_index, that of the active call.           *)
ItemAdded(r, id) ==
    LET q == IF r.block = NoBlock THEN r ELSE [CloseBlock(r) EXCEPT !.next = @ + 1]
    IN  [Send(q, OpenFrame(q.next, "function_call", id)) EXCEPT
           !.block = [index |-> q.next, kind |-> "function_call", id |-> id, args |-> <<>>]]

(* A named call not seen before is an item; arguments go to the buffer of  *)
(* the active call, and out under the current index.                       *)
ResponsesPart(r, p) ==
    LET fresh == p.id = NoId \/ p.id \notin r.seen
        noted == [r EXCEPT !.seen = @ \union ({p.id} \ {NoId})]
        q     == IF p.name # NoId /\ fresh THEN ItemAdded(noted, p.id) ELSE noted
        kept  == IF q.block = NoBlock THEN q ELSE [q EXCEPT !.block.args = @ \o p.args]
    IN  IF p.args = <<>> THEN q ELSE Send(kept, DeltaFrame(q.next, "function_call", p.args))

(* response.completed carries the chunk's id, response.created the one     *)
(* the renderer was made with.                                             *)
ResponsesEnd(r) ==
    [Send(CloseBlock(r), [EndFrame EXCEPT !.kind = "chunk_id"]) EXCEPT !.finished = TRUE]

ResponsesFeed(r, c) ==
    LET begun == IF r.started THEN r
                 ELSE [Send(r, [BeginFrame EXCEPT !.kind = "response_id"]) EXCEPT !.started = TRUE]
        thinking == IF c.reasoning THEN Send(begun, LooseFrame("thinking", <<>>)) ELSE begun
        text     == IF c.text THEN Send(thinking, LooseFrame("text", <<>>)) ELSE thinking
        calls    == Each(ResponsesPart, text, c.calls)
    IN  IF c.done \/ r.finished THEN r
        ELSE IF ~c.choice THEN begun
        ELSE IF c.finish = NoReason THEN calls ELSE ResponsesEnd(calls)

(***************************************************************************)
(* GeminiStreamRenderer, OllamaStreamRenderer, and no renderer (OpenAI)    *)
(***************************************************************************)

(* Faulty variant: the arguments are those of the last fragment. *)
GeminiPartLast(r, p) ==
    LET names == IF p.index \in DOMAIN r.pending THEN r.pending[p.index].names ELSE <<>>
        new   == [names |-> IF p.name = NoId THEN names ELSE Append(names, p.name),
                  args  |-> p.args]
    IN  [r EXCEPT !.pending = [i \in DOMAIN @ \union {p.index} |->
                                 IF i = p.index THEN new ELSE @[i]]]

(* Fragments of one index are one call: names and arguments are appended.  *)
GeminiPart(r, p) ==
    LET old == IF p.index \in DOMAIN r.pending THEN r.pending[p.index]
               ELSE [names |-> <<>>, args |-> <<>>]
        new == [names |-> IF p.name = NoId THEN old.names ELSE Append(old.names, p.name),
                args  |-> old.args \o p.args]
    IN  [r EXCEPT !.pending = [i \in DOMAIN @ \union {p.index} |->
                                 IF i = p.index THEN new ELSE @[i]]]

(* A functionCall part: two names run together are nobody's, and two       *)
(* calls' arguments run together are no JSON, so {}.                       *)
CallFrame(i, p) ==
    Frame("whole", i, "functionCall", IF Len(p.names) = 1 THEN p.names[1] ELSE NoId,
          IF \A j, k \in DOMAIN p.args : p.args[j] = p.args[k] THEN p.args ELSE <<>>)

(* The pending calls in the order of their indices, at the finish.         *)
GeminiFlush(r) ==
    LET indices == DOMAIN r.pending
        Nth(k) == CHOOSE i \in indices : Cardinality({j \in indices : j < i}) = k - 1
        parts == [k \in 1..Cardinality(indices) |-> CallFrame(Nth(k), r.pending[Nth(k)])]
    IN  [r EXCEPT !.out = (@ \o parts) \o <<EndFrame>>, !.pending = << >>, !.finished = TRUE]

(* The frames of a feed are the parts of one Gemini frame.                 *)
GeminiFeed(r, c) ==
    LET text  == IF c.text THEN Send(r, LooseFrame("text", <<>>)) ELSE r
        calls == Each(GeminiPart, text, c.calls)
    IN  IF c.done \/ r.finished THEN r
        ELSE IF c.finish = NoReason THEN calls ELSE GeminiFlush(calls)

(* Faulty variant: the done line takes the place of the chunk's text. *)
OllamaFeedDoneOnly(r, c) ==
    IF c.done \/ r.finished \/ ~c.choice THEN r
    ELSE IF c.finish # NoReason THEN [Send(r, EndFrame) EXCEPT !.finished = TRUE]
    ELSE IF c.text THEN Send(r, LooseFrame("text", <<>>)) ELSE r

(* Text lines and the done line; calls have no line.                       *)
OllamaFeed(r, c) ==
    LET text == IF c.text THEN Send(r, LooseFrame("text", <<>>)) ELSE r
    IN  IF c.done \/ r.finished \/ ~c.choice THEN r
        ELSE IF c.finish = NoReason THEN text
        ELSE [Send(text, EndFrame) EXCEPT !.finished = TRUE]

(* An OpenAI client gets the chunk itself: here, its members one by one.   *)
OpenAiFeed(r, c) ==
    LET marks == (IF c.reasoning THEN <<LooseFrame("thinking", <<>>)>> ELSE <<>>)
                   \o (IF c.text THEN <<LooseFrame("text", <<>>)>> ELSE <<>>)
        parts == [k \in DOMAIN c.calls |->
                    Frame("part", c.calls[k].index, "function", c.calls[k].id, c.calls[k].args)]
        ends  == (IF c.finish = NoReason THEN <<>> ELSE <<StopFrame(c.finish)>>)
                   \o (IF c.done THEN <<EndFrame>> ELSE <<>>)
    IN  [r EXCEPT !.out = ((@ \o marks) \o parts) \o ends]

Feed(frontend, r, c) ==
    CASE frontend = "anthropic" -> AnthropicFeed(r, c)
      [] frontend = "responses" -> ResponsesFeed(r, c)
      [] frontend = "gemini"    -> GeminiFeed(r, c)
      [] frontend = "ollama"    -> OllamaFeed(r, c)
      [] frontend = "openai"    -> OpenAiFeed(r, c)
=============================================================================
