--------------------------- MODULE RequestConversion ---------------------------
(***************************************************************************)
(* What becomes of a conversation on its way up: a client writes it in its *)
(* dialect, to_chat_completion of the dialect reads it into the internal   *)
(* form, and build_body of the provider writes it for the upstream.        *)
(*                                                                         *)
(* Operators only.  A client message is a role and blocks; a request to    *)
(* the upstream is its system texts and messages of blocks.                *)
(***************************************************************************)
EXTENDS ChatMessages

Dialects  == {"openai", "anthropic", "responses", "gemini", "ollama"}
Upstreams == {"command-code", "openai", "anthropic", "gemini"}

(* mark: the turn of a text, or of the call or result.                     *)
Block(kind, mark, id, name) == [kind |-> kind, mark |-> mark, id |-> id, name |-> name]
TextBlock(mark)             == Block("text", mark, NoAnswer, NoName)
Says(role, blocks)          == [role |-> role, blocks |-> blocks]

Of(m, kind)    == Filter(m.blocks, {b \in ToSet(m.blocks) : b.kind = kind})
Marks(blocks)  == [k \in DOMAIN blocks |-> blocks[k].mark]
Calls(blocks)  == [k \in DOMAIN blocks |->
                     [id |-> blocks[k].id, name |-> blocks[k].name, mark |-> blocks[k].mark]]
ResultOf(b, id) == Message("tool", <<b.mark>>, <<>>, id)
ConcatMap(Op(_), seq) == FlattenSeq([k \in DOMAIN seq |-> Op(seq[k])])

(***************************************************************************)
(* Dialect to internal form                                                *)
(***************************************************************************)

(* OpenAI and Ollama messages have the internal form already.              *)
OpenAiToChat(m) ==
    IF m.role = "tool" THEN <<ResultOf(m.blocks[1], m.blocks[1].id)>>
    ELSE <<Message(m.role, Marks(Of(m, "text")), Calls(Of(m, "call")), NoAnswer)>>

(* Of a user message with tool results, only these are kept.               *)
AnthropicToChat(m) ==
    IF m.role = "user" /\ Of(m, "result") # <<>>
    THEN ConcatMap(LAMBDA b : <<ResultOf(b, b.id)>>, Of(m, "result"))
    ELSE <<Message(m.role, Marks(Of(m, "text")),
                   IF m.role = "assistant" THEN Calls(Of(m, "call")) ELSE <<>>, NoAnswer)>>

(* Every item is a message of its own.                                     *)
ResponsesToChat(m) ==
    LET b == m.blocks[1]
    IN  CASE b.kind = "text"   -> <<Message(m.role, <<b.mark>>, <<>>, NoAnswer)>>
          [] b.kind = "call"   -> <<Message("assistant", <<>>, Calls(<<b>>), NoAnswer)>>
          [] b.kind = "result" -> <<ResultOf(b, b.id)>>

(* Faulty variant: "model" is no role of the internal form. *)
GeminiRoleAsIs(role) == role

GeminiRole(role) ==
    IF role = "model" THEN "assistant" ELSE IF role = "system" THEN "system" ELSE "user"

(* No ids: a call is call_<name>, a response goes by the name.  A turn     *)
(* with calls has no content.                                              *)
GeminiToChat(m) ==
    LET role  == GeminiRole(m.role)
        calls == Of(m, "call")
        one(b) == IF b.kind = "result" THEN <<ResultOf(b, Bare(b.name))>>
                  ELSE <<Message("user", <<b.mark>>, <<>>, NoAnswer)>>
    IN  IF role = "user" /\ Of(m, "result") # <<>>
        THEN ConcatMap(one, m.blocks)
        ELSE <<Message(role, IF calls = <<>> THEN Marks(Of(m, "text")) ELSE <<>>,
                       [k \in DOMAIN calls |-> [id |-> CallOf(calls[k].name), name |-> calls[k].name,
                                                mark |-> calls[k].mark]],
                       NoAnswer)>>

ToChat(dialect, messages) ==
    CASE dialect \in {"openai", "ollama"} -> ConcatMap(OpenAiToChat, messages)
      [] dialect = "anthropic"            -> ConcatMap(AnthropicToChat, messages)
      [] dialect = "responses"            -> ConcatMap(ResponsesToChat, messages)
      [] dialect = "gemini"               -> ConcatMap(GeminiToChat, messages)

(* Faulty variant: the instructions of every turn stay. *)
ChainKeepingSystem(stored, messages) == stored \o messages

(* previous_response_id: the stored conversation, then the new messages,   *)
(* without their system message if the stored ones begin with one.         *)
Chain(stored, messages) ==
    LET leads(ms) == ms # <<>> /\ ms[1].role = "system"
    IN  stored \o (IF leads(stored) /\ leads(messages) THEN Tail(messages) ELSE messages)

(***************************************************************************)
(* Internal form to upstream                                               *)
(***************************************************************************)

Systems(messages)  == SelectSeq(messages, LAMBDA m : m.role = "system")
Spoken(messages)   == SelectSeq(messages, LAMBDA m : m.role # "system")
TextBlocks(texts)  == [k \in DOMAIN texts |-> TextBlock(texts[k])]
CallBlocks(calls)  == [k \in DOMAIN calls |-> Block("call", calls[k].mark, calls[k].id, calls[k].name)]
ResultBlock(m, id, name) == Block("result", m.texts[1], id, name)
TasteMark  == 0
WithTaste(taste, system) == (IF taste THEN <<TasteMark>> ELSE <<>>) \o system
Request(system, messages) == [system |-> system, messages |-> messages]
SystemTexts(messages) == ConcatMap(LAMBDA m : m.texts, Systems(messages))

(* wire_messages: the name of a result's function is that of the last call *)
(* with its id so far, or else the text of the result.                     *)
CommandCodeMessages(messages) ==
    LET nameOf(i) ==
            LET before == CallsOf(SubSeq(messages, 1, i - 1))
                mine   == SelectSeq(before, LAMBDA c : c.id = messages[i].answers)
            IN  IF mine = <<>> THEN NoName ELSE Last(mine).name
        one(i) ==
            LET m == messages[i]
            IN  IF m.role = "tool"
                THEN <<Says("tool", <<ResultBlock(m, m.answers, nameOf(i))>>)>>
                ELSE IF m.texts = <<>> /\ m.calls = <<>> THEN <<>>
                ELSE <<Says(m.role, TextBlocks(m.texts) \o CallBlocks(m.calls))>>
    IN  ConcatMap(one, [i \in DOMAIN messages |-> i])

(* build_body: the first system message, with the taste if there is one.   *)
CommandCodeBody(messages, taste) ==
    Request(IF Systems(messages) = <<>> THEN <<>>
            ELSE WithTaste(taste, Systems(messages)[1].texts),
            CommandCodeMessages(Spoken(messages)))

(* The messages as they are; apply_taste puts the taste into the first     *)
(* system message or makes one.                                            *)
OpenAiBody(messages, taste) ==
    Request(WithTaste(taste, SystemTexts(messages)),
            ConcatMap(LAMBDA m : <<Says(m.role, IF m.role = "tool"
                                                THEN <<ResultBlock(m, m.answers, NoName)>>
                                                ELSE TextBlocks(m.texts) \o CallBlocks(m.calls))>>,
                      Spoken(messages)))

(* Faulty variant: a result takes the place of those before it. *)
AnthropicAddOver(out, m) ==
    IF m.role # "tool" THEN Append(out, Says(m.role, TextBlocks(m.texts) \o CallBlocks(m.calls)))
    ELSE LET block == ResultBlock(m, m.answers, NoName)
         IN  IF out # <<>> /\ Last(out).blocks # <<>> /\ Last(out).blocks[1].kind = "result"
             THEN Append(Front(out), Says("user", <<block>>))
             ELSE Append(out, Says("user", <<block>>))

(* Results go into a user message, consecutive ones into the same; an      *)
(* assistant message with nothing to say has an empty text.                *)
AnthropicAdd(out, m) ==
    IF m.role # "tool" THEN Append(out, Says(m.role, TextBlocks(m.texts) \o CallBlocks(m.calls)))
    ELSE LET block == ResultBlock(m, m.answers, NoName)
         IN  IF out # <<>> /\ Last(out).blocks # <<>> /\ Last(out).blocks[1].kind = "result"
             THEN Append(Front(out), Says("user", Append(Last(out).blocks, block)))
             ELSE Append(out, Says("user", <<block>>))

AnthropicBody(messages, taste) ==
    Request(WithTaste(taste, SystemTexts(messages)),
            FoldLeft(AnthropicAdd, <<>>, Spoken(messages)))

(* Faulty variant: the prefix stays. *)
NameKept(id) == id

(* The id without "call_", for want of a name.                             *)
NameIn(id) == id.of

GeminiMessage(m) ==
    CASE m.role = "assistant" -> <<Says("model", TextBlocks(m.texts) \o CallBlocks(m.calls))>>
      [] m.role = "tool" -> <<Says("user", <<Block("result", m.texts[1], NoAnswer, NameIn(m.answers))>>)>>
      [] OTHER -> <<Says("user", TextBlocks(m.texts))>>

GeminiBody(messages, taste) ==
    Request(WithTaste(taste, SystemTexts(messages)), ConcatMap(GeminiMessage, Spoken(messages)))

Body(upstream, messages, taste) ==
    CASE upstream = "command-code" -> CommandCodeBody(messages, taste)
      [] upstream = "openai"       -> OpenAiBody(messages, taste)
      [] upstream = "anthropic"    -> AnthropicBody(messages, taste)
      [] upstream = "gemini"       -> GeminiBody(messages, taste)

(***************************************************************************)
(* Tools                                                                   *)
(***************************************************************************)

(* A tool definition: in a "function" member, or flat.                     *)
Tool(name, flat) == [name |-> name, flat |-> flat]

(* Responses tools are flat, and named ones become functions; those of the *)
(* other dialects than OpenAI's have one form only.                        *)
ToolsToChat(dialect, tools) ==
    IF dialect \in {"openai", "ollama"} THEN tools
    ELSE [k \in DOMAIN SelectSeq(tools, LAMBDA t : t.name # NoName) |->
            Tool(SelectSeq(tools, LAMBDA t : t.name # NoName)[k].name, FALSE)]

(* Faulty variant: flat tools have no name. *)
WireToolsNested(tools) == [k \in DOMAIN tools |-> IF tools[k].flat THEN NoName ELSE tools[k].name]

WireTools(tools) == [k \in DOMAIN tools |-> tools[k].name]

(* Anthropic and Gemini take the functions, and leave out what is flat.    *)
ConvertTools(tools) ==
    LET nested == SelectSeq(tools, LAMBDA t : ~t.flat)
    IN  [k \in DOMAIN nested |-> nested[k].name]

ToolNames(upstream, tools) ==
    IF upstream = "command-code" THEN WireTools(tools)
    ELSE IF upstream = "openai" THEN [k \in DOMAIN tools |-> tools[k].name]
    ELSE ConvertTools(tools)
=============================================================================
