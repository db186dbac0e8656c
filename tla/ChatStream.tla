------------------------------ MODULE ChatStream ------------------------------
(***************************************************************************)
(* One streamed answer from the upstream's lines to the client's frames:   *)
(* translate_line in the reader task, the renderer in handle_sse_stream    *)
(* (handler.rs), and a client that reads what its dialect promises.        *)
(*                                                                         *)
(* Reader and handler share only the channel, which keeps the order, so    *)
(* each payload is rendered and read before the next line; how the two     *)
(* tasks interleave, stop and fail is in StreamRelay.  Lines in any order  *)
(* are looked at behind the pass-through frontend only.                    *)
(***************************************************************************)
EXTENDS EventTranslator, StreamRenderer, Completion

CONSTANT Frontends      \* subset of FrontendNames

ASSUME StreamAssumption == Frontends \subseteq FrontendNames

VARIABLES
    frontend,      \* the client's dialect
    renderer,      \* its renderer
    fed,           \* how many of `sent` the handler has taken
    frames,        \* history: the frames written
    read,          \* how many of `frames` the client has read
    client         \* where the client thinks it is in the message

handlerVars == <<frontend, renderer, fed, frames, read, client>>
vars        == <<translatorVars, handlerVars>>

Init ==
    /\ TranslatorInit
    /\ frontend \in Frontends /\ (frontend # "openai" => orderly)
    /\ renderer = NewRenderer /\ fed = 0
    /\ frames = <<>> /\ read = 0
    /\ client = [phase |-> "none", open |-> NoIndex, next |-> 0, at |-> NoIndex]

Quiet == fed = Len(sent) /\ read = Len(frames)

Translate == Quiet /\ TranslatorNext /\ UNCHANGED handlerVars

(* The next payload of the channel through the renderer to the client.     *)
Render ==
    /\ fed < Len(sent) /\ read = Len(frames)
    /\ LET q == Feed(frontend, renderer, sent[fed + 1])
       IN  /\ frames' = frames \o q.out
           /\ renderer' = [q EXCEPT !.out = <<>>]
    /\ fed' = fed + 1
    /\ UNCHANGED <<translatorVars, frontend, read, client>>

(* The client reads a frame.                                               *)
ClientReads ==
    /\ read < Len(frames)
    /\ LET f == frames[read + 1]
       IN  client' = [phase |-> IF f.f = "begin" THEN "begun" ELSE
                                IF f.f = "end" THEN "ended" ELSE client.phase,
                      open  |-> IF f.f = "open" THEN f.index ELSE
                                IF f.f = "close" THEN NoIndex ELSE client.open,
                      next  |-> IF f.f = "open" THEN f.index + 1 ELSE client.next,
                      at    |-> IF f.f \in {"open", "delta", "close"} THEN f.index
                                ELSE client.at]
    /\ read' = read + 1
    /\ UNCHANGED <<translatorVars, frontend, renderer, fed, frames>>

Next == Translate \/ Render \/ ClientReads

Spec == Init /\ [][Next]_vars

(***************************************************************************)
(* What was said, and what the client understands                          *)
(***************************************************************************)

Occurrences(seq, Test(_)) == Len(SelectSeq(seq, Test))

(* Where a call is completed, and the arguments the upstream gave it with  *)
(* the first of these events: all at once, or piece by piece since its     *)
(* first start.                                                            *)
Completions(id)   == {n \in DOMAIN log : log[n].kind \in {"call", "end"} /\ log[n].id = id}
CompletedCalls    == {id \in Calls : Completions(id) # {}}
FirstOf(S)        == CHOOSE n \in S : \A k \in S : n <= k
Starts(id)        == {n \in DOMAIN log : log[n].kind = "start" /\ log[n].id = id}
PiecesUpTo(id, n) == {k \in 1..n : /\ log[k].kind = "delta" /\ log[k].id = id
                                   /\ \E s \in Starts(id) : s < k}
Pieces(id, n)     == [k \in 1..Cardinality(PiecesUpTo(id, n)) |-> id]
SaidArgs(id) ==
    LET n == FirstOf(Completions(id))
    IN  IF log[n].kind = "call" \/ log[n].input THEN <<id>> ELSE Pieces(id, n - 1)

(* The calls as a client puts them together: by block, item, part or index.*)
IsCallFrame(f) == /\ f.f \in {"open", "delta", "close", "part", "whole"}
                  /\ f.kind \notin {"text", "thinking"}
CallFrames == SelectSeq(frames, IsCallFrame)
ArgsAt(i) ==
    FoldLeft(LAMBDA acc, f : IF f.index = i /\ f.f \in {"delta", "part", "whole"}
                             THEN acc \o f.args ELSE acc, <<>>, CallFrames)
IdsAt(i)  == {CallFrames[k].id : k \in {j \in DOMAIN CallFrames : CallFrames[j].index = i}}
ClientCalls ==
    {[ids |-> IdsAt(i) \ {NoId}, args |-> ArgsAt(i)] :
        i \in {CallFrames[k].index : k \in DOMAIN CallFrames}}

(* The calls an orderly upstream has said, whatever the protocol.          *)
SaidCalls ==
    {[ids |-> {id}, args |-> IF id \in CompletedCalls THEN SaidArgs(id)
                             ELSE Pieces(id, Len(log))] :
        id \in {x \in Calls : Named("start", x) \/ Named("call", x)}}

Delivered == orderly /\ ~reading /\ Quiet /\ TerminalSaid /\ ~ErrorSaid

(***************************************************************************)
(* Properties                                                              *)
(***************************************************************************)

(* Type invariant. *)
TypeOK ==
    /\ provider \in Providers /\ frontend \in Frontends
    /\ orderly \in BOOLEAN /\ reading \in BOOLEAN /\ finishSeen \in BOOLEAN
    /\ toolIndex \in Nat /\ seenCalls \subseteq Calls
    /\ DOMAIN toolParts \subseteq Calls
    /\ \A id \in DOMAIN toolParts : toolParts[id] \in [index : Nat, args : Arguments]
    /\ \A i \in DOMAIN sent : sent[i] \in Chunk
    /\ fed \in 0..Len(sent) /\ read \in 0..Len(frames)
    /\ client \in [phase : {"none", "begun", "ended"}, open : Nat \union {NoIndex},
                  next : Nat, at : Nat \union {NoIndex}]

(* Command Code, lines in any order: a call goes out once it is complete,  *)
(* once, with the arguments given since its first start, whatever other    *)
(* starts, deltas, ends and repetitions came between.                      *)
CallsAsSaid ==
    provider = "command-code" =>
        /\ \A id \in CompletedCalls :
              \E i \in DOMAIN sent : \E m \in DOMAIN sent[i].calls : sent[i].calls[m].id = id
        /\ \A i \in DOMAIN sent : \A m \in DOMAIN sent[i].calls :
              LET call == sent[i].calls[m]
              IN  call.id \in Calls =>
                    /\ call.id \in CompletedCalls /\ call.args = SaidArgs(call.id)
                    /\ \A j \in DOMAIN sent : \A n \in DOMAIN sent[j].calls :
                          sent[j].calls[n].id = call.id => i = j /\ m = n

(* Command Code, any order: no two calls of an answer share an index, or   *)
(* OpenAI clients, which merge by index, would mix them.                   *)
IndicesApart ==
    provider = "command-code" =>
        \A i, j \in DOMAIN sent : \A m \in DOMAIN sent[i].calls, n \in DOMAIN sent[j].calls :
            sent[i].calls[m].index = sent[j].calls[n].index => i = j /\ m = n

(* Command Code, any order: at most one terminal chunk, since a second one *)
(* "breaks client streaming validators".                                   *)
OneFinish ==
    provider = "command-code" =>
        \A i, j \in DOMAIN sent :
            sent[i].finish # NoReason /\ sent[j].finish # NoReason => i = j

(* What clients that merge chunks by index and end with the first terminal *)
(* one rely on.                                                            *)
ChunksApart == IndicesApart /\ OneFinish

(* The frames of the framed dialects implement FrameStream.                *)
IsFramed == orderly /\ frontend \in {"anthropic", "responses"}
FS == INSTANCE FrameStream WITH
        phase <- IF IsFramed THEN client.phase ELSE "none",
        open  <- IF IsFramed THEN client.open ELSE NoIndex,
        next  <- IF IsFramed THEN client.next ELSE 0,
        at    <- IF IsFramed THEN client.at ELSE NoIndex,
        count <- IF IsFramed THEN read ELSE 0
Framed == FS!Spec

(* A complete orderly answer reaches the client with its calls, each with  *)
(* its own arguments, through every pair of protocols; except that Ollama  *)
(* streams have no calls, and that Gemini's calls all have index 0, by     *)
(* which OpenAI and Gemini clients take several for one.                   *)
Mergeable == provider = "gemini" /\ frontend \in {"openai", "gemini"} /\ Cardinality(SaidCalls) > 1
CallsDelivered ==
    Delivered /\ frontend # "ollama" /\ ~Mergeable => ClientCalls = SaidCalls

(* The text of a complete orderly answer reaches the client, all of it,    *)
(* and so does its end: frontends other than Anthropic depend on the       *)
(* finish chunk for it, not on [DONE].                                     *)
TextDelivered ==
    Delivered =>
        /\ Occurrences(frames, LAMBDA f : f.kind = "text" /\ f.f \in {"delta", "loose"})
             = Occurrences(log, LAMBDA e : e.kind = "text")
        /\ client.phase = "ended"

(* An Anthropic client is told to run the tools exactly when the upstream  *)
(* finished for them.  (A streaming Gemini upstream never says so.)        *)
ReasonDelivered ==
    Delivered /\ frontend = "anthropic" =>
        LET stop  == SelectSeq(frames, LAMBDA f : f.f = "stop")
            first == log[SelectInSeq(log, Terminal)]
        IN  stop[1].kind = StopReason(first.reason)

(* Had the client not asked for a stream, it would have got the same       *)
(* answer: the same calls in the same order with the same arguments, text  *)
(* where there was text, and, in the Anthropic dialect, the same reason.   *)
(* Command Code's answer is understood in whole only if every call is      *)
(* named once, as a whole, and the finish is said; a Gemini upstream's     *)
(* reason is lost in streams.                                              *)
Understood ==
    provider = "command-code" =>
        /\ \A i \in DOMAIN log : log[i].kind \notin {"start", "delta", "end"}
        /\ Said(LAMBDA e : e.kind = "finish")
        /\ \A i, j \in DOMAIN log : i # j /\ log[i].kind = "call" => log[j] # log[i]
        /\ \A i, j \in DOMAIN log : Terminal(log[i]) /\ Terminal(log[j]) =>
                                        log[i].reason = log[j].reason
SameAnswerWhole ==
    Delivered /\ Understood =>
        LET whole  == Whole(provider, log, sent)
            answer == CompletionFor(frontend, whole)
            calls  == SelectSeq(answer.items, LAMBDA x : x.kind = "call")
            named  == SelectSeq(CallFrames, LAMBDA f : f.f \in {"open", "whole", "part"} /\ f.id # NoId)
        IN  /\ whole.ok
            /\ frontend # "ollama" /\ ~Mergeable =>
                  /\ {[ids |-> {calls[k].id}, args |-> calls[k].args] : k \in DOMAIN calls}
                        = ClientCalls
                  /\ [k \in DOMAIN calls |-> calls[k].id] = [k \in DOMAIN named |-> named[k].id]
            /\ frontend = "anthropic" /\ provider # "gemini" =>
                  answer.reason = SelectSeq(frames, LAMBDA f : f.f = "stop")[1].kind

(* The whole answer arrives: calls, text and reason.                       *)
AnswerDelivered == CallsDelivered /\ TextDelivered /\ ReasonDelivered
=============================================================================
