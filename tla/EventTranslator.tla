--------------------------- MODULE EventTranslator ---------------------------
(***************************************************************************)
(* translate_line of the four providers: the events of an upstream stream, *)
(* one line each, become chat.completion chunks (upstream.rs and           *)
(* providers/{openai,anthropic,gemini}.rs).  The reader task calls it and  *)
(* ends the stream (upstream.rs).                                          *)
(*                                                                         *)
(* The four share StreamState: the running tool index, the calls being     *)
(* assembled, the ids already emitted, and whether a finish went out.      *)
(*                                                                         *)
(* `log` keeps what the lines said in one vocabulary: text, reasoning,     *)
(* noise, and of a call its start, a delta of its arguments, its end, or   *)
(* all at once; finish, step, error.  An orderly upstream keeps to its     *)
(* protocol; otherwise the lines come in any order.                        *)
(***************************************************************************)
EXTENDS ChatChunks, FiniteSets, Functions

CONSTANTS
    Providers,     \* subset of ProviderNames
    MaxEvents,     \* bound: lines of an orderly stream
    MaxDisorder    \* bound: lines of a stream in any order

ProviderNames == {"command-code", "openai", "anthropic", "gemini"}

ASSUME TranslatorAssumption ==
    Providers \subseteq ProviderNames /\ MaxEvents \in Nat /\ MaxDisorder \in Nat

VARIABLES
    provider,      \* the provider of the stream
    orderly,       \* the upstream keeps to its protocol
    toolIndex,     \* StreamState.tool_index
    toolParts,     \* StreamState.tool_parts: call -> [index, args]
    seenCalls,     \* StreamState.seen_tool_calls
    finishSeen,    \* StreamState.finish_seen
    reading,       \* the reader task's loop is running
    log,           \* history: what the lines said
    sent           \* history: the payloads sent to the handler

state == <<toolIndex, toolParts, seenCalls, finishSeen>>
translatorVars ==
    <<provider, orderly, toolIndex, toolParts, seenCalls, finishSeen, reading, log, sent>>

TranslatorInit ==
    /\ provider \in Providers /\ orderly \in BOOLEAN
    /\ toolIndex = 0 /\ toolParts = << >> /\ seenCalls = {} /\ finishSeen = FALSE
    /\ reading = TRUE /\ log = <<>> /\ sent = <<>>

Event(kind) == [kind |-> kind, id |-> NoId, input |-> FALSE, reason |-> NoReason]
CallEvent(kind, id) == [Event(kind) EXCEPT !.id = id]

(***************************************************************************)
(* An orderly upstream                                                     *)
(***************************************************************************)

Terminal(e)     == e.kind = "finish" \/ (e.kind = "step" /\ e.reason # "tool_calls")
Said(Test(_))   == \E i \in DOMAIN log : Test(log[i])
TerminalSaid    == Said(Terminal)
ErrorSaid       == Said(LAMBDA e : e.kind = "error")
Named(kind, id) == Said(LAMBDA e : e.kind = kind /\ e.id = id)
StartPlaces     == {k \in DOMAIN log : log[k].kind = "start"}
Current(id)     == /\ \E k \in StartPlaces : log[k].id = id /\ \A j \in StartPlaces : j <= k
                   /\ ~Named("end", id)
Interrupted(id) == \E i, j \in DOMAIN log :
                     /\ i < j /\ log[i].kind = "start" /\ log[i].id = id
                     /\ log[j].kind \in {"text", "reasoning", "block"}

(* Content comes before the finish, a call starts once and one at a time,  *)
(* and the arguments follow their call, without other content in between.  *)
(* Command Code may have content there; it ends what it starts, repeats    *)
(* finishes, and names a finished call again as a whole.                   *)
Expected(e) ==
    /\ ~ErrorSaid
    /\ e.kind \notin {"finish", "step", "noise", "usage"} => ~TerminalSaid
    /\ e.kind = "start" =>
          /\ ~Named("start", e.id) /\ ~Named("call", e.id)
          /\ provider = "command-code" => \A id \in Calls : ~Current(id)
    /\ e.kind \in {"delta", "end"} => Current(e.id)
    /\ e.kind = "delta" /\ provider # "command-code" => ~Interrupted(e.id)
    /\ e.kind = "call" =>
          /\ e.id # NoId /\ ~Current(e.id)
          /\ provider # "command-code" => ~Named("call", e.id)
    /\ e.kind = "finish" /\ provider # "command-code" => ~TerminalSaid
    /\ Terminal(e) /\ provider = "command-code" => \A id \in Calls : ~Current(id)

(* The reader takes one more line, which says these things.                *)
Line(p, says) ==
    /\ reading /\ provider = p
    /\ Len(log) < IF orderly THEN MaxEvents ELSE MaxDisorder
    /\ orderly => \A i \in DOMAIN says : Expected(says[i])
    /\ log' = log \o says
    /\ UNCHANGED <<provider, orderly>>

Skip           == sent' = sent /\ reading' = reading
Emit(c)        == sent' = Append(sent, c) /\ reading' = reading
EmitAndStop(c) == sent' = sent \o <<c, DoneMarker>> /\ reading' = FALSE

(***************************************************************************)
(* Command Code: newline-delimited events                                  *)
(***************************************************************************)

(* text-delta and reasoning-delta.                                         *)
CcDelta ==
    \E c \in {TextChunk, ReasoningChunk} :
        /\ Line("command-code", <<Event(IF c.text THEN "text" ELSE "reasoning")>>)
        /\ Emit(c)
        /\ UNCHANGED state

(* start, boundaries, unparseable lines and unknown events.                *)
CcNoise ==
    /\ Line("command-code", <<Event("noise")>>)
    /\ Skip
    /\ UNCHANGED state

(* Faulty variant: the empty id is remembered like a name. *)
RemembersEmpty(id) == seenCalls' = seenCalls \union {id}

(* Emitted before, under a name of its own.                                *)
AlreadySeen(id) == id # NoId /\ id \in seenCalls
Remembers(id)   == seenCalls' = seenCalls \union ({id} \ {NoId})

(* Faulty variant: the index of a whole call is not used up. *)
CcToolCallKeepsIndex ==
    \E id \in Calls \union {NoId} :
        /\ Line("command-code", <<CallEvent("call", id)>>)
        /\ Remembers(id)
        /\ IF AlreadySeen(id) THEN Skip
           ELSE Emit(CallChunk(toolIndex, id, IF id = NoId THEN <<>> ELSE <<id>>))
        /\ UNCHANGED <<toolIndex, toolParts, finishSeen>>

(* tool-call: a whole call at once.                                        *)
CcToolCall ==
    \E id \in Calls \union {NoId} :
        /\ Line("command-code", <<CallEvent("call", id)>>)
        /\ Remembers(id)
        /\ IF AlreadySeen(id)
           THEN Skip /\ UNCHANGED toolIndex
           ELSE /\ Emit(CallChunk(toolIndex, id, IF id = NoId THEN <<>> ELSE <<id>>))
                /\ toolIndex' = toolIndex + 1
        /\ UNCHANGED <<toolParts, finishSeen>>

(* Faulty variant: a second start of a call begins it anew. *)
CcInputStartAnew ==
    \E id \in Calls :
        /\ Line("command-code", <<CallEvent("start", id)>>)
        /\ toolParts' = [x \in DOMAIN toolParts \union {id} |->
                           IF x = id THEN [index |-> toolIndex, args |-> <<>>] ELSE toolParts[x]]
        /\ toolIndex' = toolIndex + 1
        /\ Skip
        /\ UNCHANGED <<seenCalls, finishSeen>>

(* tool-input-start: seeds the call's entry, unless it has one.            *)
CcInputStart ==
    \E id \in Calls :
        /\ Line("command-code", <<CallEvent("start", id)>>)
        /\ IF id \in DOMAIN toolParts
           THEN UNCHANGED <<toolParts, toolIndex>>
           ELSE /\ toolParts' = [x \in DOMAIN toolParts \union {id} |->
                                   IF x = id THEN [index |-> toolIndex, args |-> <<>>]
                                   ELSE toolParts[x]]
                /\ toolIndex' = toolIndex + 1
        /\ Skip
        /\ UNCHANGED <<seenCalls, finishSeen>>

(* tool-input-delta: appended to a started call, else dropped.             *)
CcInputDelta ==
    \E id \in Calls :
        /\ Line("command-code", <<CallEvent("delta", id)>>)
        /\ toolParts' = [x \in DOMAIN toolParts |->
                           IF x = id THEN [toolParts[x] EXCEPT !.args = Append(@, id)]
                           ELSE toolParts[x]]
        /\ Skip
        /\ UNCHANGED <<toolIndex, seenCalls, finishSeen>>

Without(id) == toolParts' = Restrict(toolParts, DOMAIN toolParts \ {id})

(* tool-input-end and tool-input-available: flushes the call as one chunk, *)
(* with the snapshot when the event carries one, else what was collected;  *)
(* an unstarted call takes a fresh index.                                  *)
CcInputEnd ==
    \E id \in Calls \union {NoId}, snapshot \in BOOLEAN :
        LET started == id \in DOMAIN toolParts
            index   == IF started THEN toolParts[id].index ELSE toolIndex
            args    == IF snapshot THEN (IF id = NoId THEN <<>> ELSE <<id>>)
                       ELSE IF started THEN toolParts[id].args ELSE <<>>
        IN  /\ Line("command-code", <<[Event("end") EXCEPT !.id = id, !.input = snapshot]>>)
            /\ Remembers(id)
            /\ Without(id)
            /\ IF AlreadySeen(id)
               THEN Skip /\ UNCHANGED toolIndex
               ELSE /\ Emit(CallChunk(index, id, args))
                    /\ toolIndex' = IF started THEN toolIndex ELSE toolIndex + 1
            /\ UNCHANGED finishSeen

(* Faulty variant: every finish is forwarded. *)
FinishOnceAlways(reason) == Emit(FinishChunk(reason)) /\ finishSeen' = TRUE

FinishOnce(reason) ==
    IF finishSeen THEN Skip /\ UNCHANGED finishSeen
    ELSE Emit(FinishChunk(reason)) /\ finishSeen' = TRUE

(* finish: the terminal chunk, once.                                       *)
CcFinish ==
    \E reason \in Reasons :
        /\ Line("command-code", <<[Event("finish") EXCEPT !.reason = reason]>>)
        /\ FinishOnce(reason)
        /\ UNCHANGED <<toolIndex, toolParts, seenCalls>>

(* Faulty variant: any step ends the stream. *)
CcFinishStepAny ==
    \E reason \in Reasons :
        /\ Line("command-code", <<[Event("step") EXCEPT !.reason = reason]>>)
        /\ FinishOnce(reason)
        /\ UNCHANGED <<toolIndex, toolParts, seenCalls>>

(* finish-step: an intermediate step (tool calls) does not end the stream. *)
CcFinishStep ==
    \E reason \in Reasons :
        /\ Line("command-code", <<[Event("step") EXCEPT !.reason = reason]>>)
        /\ IF reason = "tool_calls" THEN Skip /\ UNCHANGED finishSeen ELSE FinishOnce(reason)
        /\ UNCHANGED <<toolIndex, toolParts, seenCalls>>

(* error: the error payload, then [DONE].                                  *)
CcError ==
    /\ Line("command-code", <<Event("error")>>)
    /\ EmitAndStop(ErrorChunk)
    /\ UNCHANGED state

CommandCodeLine ==
    CcDelta \/ CcNoise \/ CcToolCall \/ CcInputStart \/ CcInputDelta \/ CcInputEnd
        \/ CcFinish \/ CcFinishStep \/ CcError

(***************************************************************************)
(* OpenAI-compatible: chunks pass through                                  *)
(***************************************************************************)

(* The payloads such an upstream sends, with what they say.  A call's      *)
(* first fragment has its id and name, later ones only its index.          *)
Numbered(k) == Cardinality({j \in StartPlaces : j < k})
OpenAiFrames ==
    {[says |-> Event("text"), chunk |-> TextChunk],
     [says |-> Event("reasoning"), chunk |-> ReasoningChunk],
     [says |-> Event("usage"), chunk |-> UsageChunk],
     [says |-> Event("error"), chunk |-> ErrorChunk]}
    \union {[says |-> CallEvent("start", id),
              chunk |-> CallChunk(Cardinality(StartPlaces), id, <<>>)] :
               id \in {x \in Calls : ~Named("start", x)}}
    \union {[says |-> CallEvent("delta", log[k].id),
             chunk |-> ArgsChunk(Numbered(k), <<log[k].id>>)] : k \in StartPlaces}
    \union {[says |-> [Event("finish") EXCEPT !.reason = r], chunk |-> FinishChunk(r)] :
               r \in Reasons}

(* A payload with choices, an empty list included, or with an error goes   *)
(* on as it is.                                                            *)
OpenAiPayload ==
    \E f \in OpenAiFrames :
        Line("openai", <<f.says>>) /\ Emit(f.chunk) /\ UNCHANGED state

(* Comments, keep-alives, log lines, JSON without choices.                 *)
OpenAiNoise == Line("openai", <<Event("noise")>>) /\ Skip /\ UNCHANGED state

Ended == TerminalSaid \/ ErrorSaid

(* [DONE] is a payload to stop at, so the reader sends it and its own.     *)
OpenAiDone ==
    /\ Line("openai", <<>>) /\ (orderly => Ended)
    /\ finishSeen' = TRUE
    /\ EmitAndStop(DoneMarker)
    /\ UNCHANGED <<toolIndex, toolParts, seenCalls>>

OpenAiLine == OpenAiPayload \/ OpenAiNoise \/ OpenAiDone

(***************************************************************************)
(* Anthropic: content blocks                                               *)
(***************************************************************************)

(* The index of a block: how many blocks began before it.                  *)
BlockIndex(id) ==
    Cardinality({j \in DOMAIN log :
                   /\ log[j].kind \in {"start", "block"}
                   /\ \A k \in 1..j : ~(log[k].kind = "start" /\ log[k].id = id)})

(* content_block_start of a tool block; of another one, see AnNoise.       *)
AnToolStart ==
    \E id \in {x \in Calls : ~Named("start", x)} :
        /\ Line("anthropic", <<CallEvent("start", id)>>)
        /\ Emit(CallChunk(BlockIndex(id), id, <<>>))
        /\ UNCHANGED state

(* content_block_delta: text, thinking, or arguments of the block's call.  *)
AnDelta ==
    /\ \/ Line("anthropic", <<Event("text")>>) /\ Emit(TextChunk)
       \/ Line("anthropic", <<Event("reasoning")>>) /\ Emit(ReasoningChunk)
       \/ \E id \in {x \in Calls : Named("start", x)} :
             /\ Line("anthropic", <<CallEvent("delta", id)>>)
             /\ Emit(ArgsChunk(BlockIndex(id), <<id>>))
    /\ UNCHANGED state

(* message_start, ping, the start of a text block, the end of any, an      *)
(* error event, what does not parse.                                       *)
AnNoise ==
    /\ \E kind \in {"noise", "block"} : Line("anthropic", <<Event(kind)>>)
    /\ Skip
    /\ UNCHANGED state

(* message_delta is the finish; finish_seen is not kept.                   *)
AnMessageDelta ==
    \E reason \in Reasons :
        /\ Line("anthropic", <<[Event("finish") EXCEPT !.reason = reason]>>)
        /\ Emit(FinishChunk(reason))
        /\ UNCHANGED state

AnMessageStop ==
    /\ Line("anthropic", <<>>) /\ (orderly => TerminalSaid)
    /\ EmitAndStop(DoneMarker)
    /\ UNCHANGED state

AnthropicLine == AnToolStart \/ AnDelta \/ AnNoise \/ AnMessageDelta \/ AnMessageStop

(***************************************************************************)
(* Gemini: lists of parts                                                  *)
(***************************************************************************)

(* Up to two calls of one line.                                            *)
SomeCalls == {<<>>} \union {<<id>> : id \in Calls}
               \union {<<p[1], p[2]>> : p \in {q \in Calls \X Calls : q[1] # q[2]}}

(* Every functionCall part gets index 0; texts come first, whatever the    *)
(* order of the parts.                                                     *)
GeminiChunk(text, ids, reason) ==
    [EmptyChunk EXCEPT
       !.text = text, !.finish = reason,
       !.calls = [k \in DOMAIN ids |->
                    [index |-> 0, id |-> ids[k], name |-> ids[k], args |-> <<ids[k]>>]]]

(* A line with parts, a finishReason, or both.  STOP is also what a turn   *)
(* with calls ends with.                                                   *)
GeminiParts ==
    \E text \in BOOLEAN, ids \in SomeCalls, reason \in Reasons \union {NoReason} :
        LET says  == (IF text THEN <<Event("text")>> ELSE <<>>)
                       \o [k \in DOMAIN ids |-> CallEvent("call", ids[k])]
                       \o (IF reason = NoReason THEN <<>>
                           ELSE <<[Event("finish") EXCEPT !.reason = reason]>>)
            chunk == GeminiChunk(text, ids, reason)
        IN  /\ says # <<>> /\ reason # "tool_calls"
            /\ Line("gemini", says)
            /\ IF reason = NoReason THEN Emit(chunk) ELSE EmitAndStop(chunk)
            /\ UNCHANGED state

GeminiNoise == Line("gemini", <<Event("noise")>>) /\ Skip /\ UNCHANGED state

GeminiLine == GeminiParts \/ GeminiNoise

(***************************************************************************)
(* The end of the stream                                                   *)
(***************************************************************************)

(* Clean end: [DONE] if anything was emitted or a finish was seen.         *)
Eof ==
    /\ reading /\ (orderly => Ended)
    /\ sent' = IF finishSeen \/ sent # <<>> THEN Append(sent, DoneMarker) ELSE sent
    /\ reading' = FALSE
    /\ UNCHANGED <<provider, orderly, state, log>>

TranslatorNext ==
    CommandCodeLine \/ OpenAiLine \/ AnthropicLine \/ GeminiLine \/ Eof

TranslatorSpec == TranslatorInit /\ [][TranslatorNext]_translatorVars
=============================================================================
