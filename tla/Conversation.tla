----------------------------- MODULE Conversation -----------------------------
(***************************************************************************)
(* An agent's conversation through the proxy: user turns, answers with     *)
(* calls, results, each request carrying the whole history, or, in the     *)
(* Responses dialect, what is new since the response it is chained to      *)
(* (handler.rs).  Ids and names of calls come from the upstream.  A client *)
(* may accumulate copies of earlier messages.                              *)
(***************************************************************************)
EXTENDS RequestConversion

CONSTANTS
    MaxTurns,      \* bound: turns, copies not counted
    MaxCopies,     \* bound: copies
    MaxCalls       \* bound: calls of one answer

ASSUME ConversationAssumption == MaxTurns \in Nat /\ MaxCopies \in Nat /\ MaxCalls \in Nat

VARIABLES
    dialect,       \* of the client
    upstream,      \* the provider of the model
    chained,       \* the client chains with previous_response_id
    history,       \* the client's turns
    stored,        \* the conversation in the session store
    unsent         \* the first turn not sent yet, when chaining

vars == <<dialect, upstream, chained, history, stored, unsent>>

(* calls: made by a model turn, or answered by a tools turn; extra: a text *)
(* in a tools turn.                                                        *)
Turn(who, text, calls) ==
    [who |-> who, mark |-> Len(history) + 1, text |-> text, calls |-> calls, copy |-> FALSE]

Init ==
    /\ dialect \in Dialects /\ upstream \in Upstreams
    /\ chained \in (IF dialect = "responses" THEN BOOLEAN ELSE {FALSE})
    /\ \E system \in BOOLEAN :
          history = IF system THEN <<[who |-> "system", mark |-> 1, text |-> TRUE,
                                      calls |-> <<>>, copy |-> FALSE]>> ELSE <<>>
    /\ stored = <<>> /\ unsent = 1

Turns     == Filter(history, {t \in ToSet(history) : ~t.copy})
Done(t)   == t.who = "system" \/ (t.who = "model" /\ t.calls = <<>>)
LastIs(Test(_)) == Turns # <<>> /\ Test(Last(Turns))
Room      == Len(Turns) < MaxTurns
Asking    == LastIs(LAMBDA t : t.who \in {"user", "tools"})

(***************************************************************************)
(* The client writes a turn in its dialect                                 *)
(***************************************************************************)

RoleOf(who) ==
    CASE who \in {"system", "user"} -> who
      [] who = "model" -> IF dialect = "gemini" THEN "model" ELSE "assistant"
      [] who = "tools" -> IF dialect \in {"anthropic", "gemini"} THEN "user" ELSE "tool"

Blocks(t) ==
    LET said == IF t.text THEN <<TextBlock(t.mark)>> ELSE <<>>
        kind == IF t.who = "tools" THEN "result" ELSE "call"
        acts == [k \in DOMAIN t.calls |-> Block(kind, t.mark, t.calls[k].id, t.calls[k].name)]
    IN  IF t.who = "tools" THEN acts \o said ELSE said \o acts

(* One message for a turn, or for each block of it.                        *)
Written(t) ==
    IF dialect = "responses" \/ (t.who = "tools" /\ dialect \in {"openai", "ollama"})
    THEN [k \in DOMAIN Blocks(t) |-> Says(RoleOf(t.who), <<Blocks(t)[k]>>)]
    ELSE <<Says(RoleOf(t.who), Blocks(t))>>

(* Instructions are sent with every request, chained or not.               *)
New ==
    LET fresh == SubSeq(history, unsent, Len(history))
    IN  IF ~chained THEN history
        ELSE IF unsent > 1 /\ history[1].who = "system" THEN <<history[1]>> \o fresh ELSE fresh

(* request_filter: read, chain, deduplicate; then build_body, with or      *)
(* without taste learning.                                                 *)
Messages ==
    LET new == ToChat(dialect, ConcatMap(Written, New))
    IN  IF chained THEN Chain(stored, new) ELSE new
Sent == DeduplicateToolCalls(Messages)
View(taste) == Body(upstream, Sent, taste)

Say ==
    /\ Room /\ (Turns # <<>> => LastIs(Done))
    /\ history' = Append(history, Turn("user", TRUE, <<>>))
    /\ UNCHANGED <<dialect, upstream, chained, stored, unsent>>

(* The answer to the request.  Calls of a Gemini upstream are call_<name>, *)
(* those of the others have ids of their own.  The store keeps the         *)
(* messages of the request, as they were before the deduplication.         *)
Answer(text, names) ==
    LET mark   == Len(history) + 1
        idOf(k) == IF upstream = "gemini" THEN CallOf(names[k]) ELSE MadeUp(mark * 10 + k)
    IN  /\ Asking /\ Room
        /\ history' = Append(history, Turn("model", text,
                                [k \in DOMAIN names |-> [id |-> idOf(k), name |-> names[k]]]))
        /\ stored' = IF chained THEN Messages ELSE stored
        /\ unsent' = IF chained THEN Len(history) + 2 ELSE unsent
        /\ UNCHANGED <<dialect, upstream, chained>>

(* The client runs the tools; Anthropic and Gemini clients may add a text. *)
RunTools(extra) ==
    /\ Room /\ LastIs(LAMBDA t : t.who = "model" /\ t.calls # <<>>)
    /\ extra => dialect \in {"anthropic", "gemini"}
    /\ history' = Append(history, Turn("tools", extra, Last(Turns).calls))
    /\ UNCHANGED <<dialect, upstream, chained, stored, unsent>>

(* "Some clients can accumulate duplicate tool call IDs in their history": *)
(* messages with calls or results, not those with texts only.              *)
Accumulate(i) ==
    /\ ~chained /\ Len(history) - Len(Turns) < MaxCopies
    /\ ~history[i].copy /\ history[i].calls # <<>>
    /\ history' = Append(history, [history[i] EXCEPT !.copy = TRUE,
                     !.text = @ /\ history[i].who = "model" /\ dialect # "responses"])
    /\ UNCHANGED <<dialect, upstream, chained, stored, unsent>>

CallLists == UNION {[1..n -> Names] : n \in 0..MaxCalls}

Next ==
    \/ Say
    \/ \E text \in BOOLEAN, names \in CallLists : (text \/ names # <<>>) /\ Answer(text, names)
    \/ \E extra \in BOOLEAN : RunTools(extra)
    \/ \E i \in DOMAIN history : Accumulate(i)

Spec == Init /\ [][Next]_vars

(***************************************************************************)
(* Properties                                                              *)
(***************************************************************************)

CallIds      == [call : {TRUE}, of : Names \union Nat]
TurnType     == [who : {"system", "user", "model", "tools"}, mark : Nat, text : BOOLEAN,
                 calls : Seq([id : CallIds, name : Names]), copy : BOOLEAN]
AnswerIds    == CallIds \union {Bare(name) : name \in Names}
InternalForm == [role : Roles, texts : Seq(Nat),
                 calls : Seq([id : CallIds, name : Names, mark : Nat]),
                 answers : AnswerIds \union {NoAnswer}]

(* Type invariant: requests, as they are stored and as they are sent, have *)
(* the internal form. *)
TypeOK ==
    /\ dialect \in Dialects /\ upstream \in Upstreams
    /\ chained \in BOOLEAN
    /\ history \in Seq(TurnType)
    /\ stored \in Seq(InternalForm) /\ Sent \in Seq(InternalForm)
    /\ unsent \in 1..(Len(history) + 1)

CallIdsDiffer(messages) ==
    \A i, j \in DOMAIN messages :
    \A k \in DOMAIN messages[i].calls, l \in DOMAIN messages[j].calls :
        messages[i].calls[k].id = messages[j].calls[l].id => i = j /\ k = l
AnswersDiffer(messages) ==
    \A i, j \in DOMAIN messages :
        /\ messages[i].role = "tool" /\ messages[j].role = "tool"
        /\ messages[i].answers = messages[j].answers
        => i = j
Originals       == ToChat(dialect, ConcatMap(Written, Turns))
DistinctIds     == CallIdsDiffer(Originals)
NoCopies        == Turns = history

(* What the upstream is told, block by block.                              *)
Seen == ConcatMap(LAMBDA m : m.blocks, View(FALSE).messages)

(* No request carries a call id twice, or two results for one call, which  *)
(* upstreams reject; whatever copies the client has accumulated.           *)
IdsUnique ==
    Asking => CallIdsDiffer(Sent) /\ AnswersDiffer(Sent)

(* Copies are dropped, and nothing else: "keeping only the first           *)
(* occurrence".  This needs ids that tell the calls apart, and copies of   *)
(* messages with one call.                                                 *)
CopiesDropped ==
    Asking /\ ~chained /\ DistinctIds
        /\ (\A i \in DOMAIN history : history[i].copy /\ history[i].who = "model" =>
               Len(history[i].calls) = 1)
      => Sent = Originals

(* Every dialect through every provider: the upstream is told every text,  *)
(* call and result of the history, in order.  Excepted are the text beside *)
(* Anthropic tool results and beside Gemini calls, and the answers that    *)
(* chaining forgets.                                                       *)
Kept(t) ==
    /\ t.who # "system" /\ (chained => t.who # "model")
Told(t) ==
    LET lost == \/ dialect = "anthropic" /\ t.who = "tools"
                \/ dialect = "gemini" /\ t.calls # <<>> /\ t.who = "model"
        blocks == SelectSeq(Blocks(t), LAMBDA b : ~(lost /\ b.kind = "text"))
    IN  [k \in DOMAIN blocks |-> <<blocks[k].kind, blocks[k].mark>>]
HistoryIntact ==
    Asking /\ NoCopies /\ DistinctIds =>
        [k \in DOMAIN Seen |-> <<Seen[k].kind, Seen[k].mark>>]
            = ConcatMap(Told, SelectSeq(history, Kept))

(* The system text reaches the upstream once, behind the taste; Command    *)
(* Code gets no taste where there is no system text.                       *)
SystemLeads ==
    Asking => \A taste \in BOOLEAN :
        LET system == IF history[1].who = "system" THEN <<1>> ELSE <<>>
        IN  View(taste).system = WithTaste(taste /\ (upstream = "command-code" => system # <<>>), system)

(* Each result the upstream sees is for a call it sees, before it, and     *)
(* Gemini upstreams are told the function's name.  Gemini clients' results *)
(* go by name and pair only with a Gemini upstream.                        *)
ResultsPaired ==
    Asking /\ NoCopies /\ DistinctIds /\ ~chained /\ (dialect = "gemini" => upstream = "gemini") =>
        \A i \in DOMAIN Seen : Seen[i].kind = "result" =>
            \/ upstream # "gemini" /\ \E j \in 1..(i - 1) :
                  Seen[j].kind = "call" /\ Seen[j].id = Seen[i].id
            \/ upstream = "gemini" /\ \E j \in 1..(i - 1) :
                  Seen[j].kind = "call" /\ Seen[j].name = Seen[i].name

(* Calls and results are sent as upstreams accept them: nothing but copies *)
(* dropped, each result behind its call.                                   *)
CallsInOrder == CopiesDropped /\ ResultsPaired

(* One function; a flat tool and a function.                               *)
Offers ==
    {<<Tool(x, TRUE), Tool(y, FALSE)>> : x, y \in Names} \union {<<Tool(x, FALSE)>> : x \in Names}

(* The tools a client offers are offered to the upstream; flat ones only   *)
(* where the provider, or the dialect, makes functions of them.            *)
ToolsOffered ==
    \A tools \in Offers :
    LET named == [k \in DOMAIN tools |-> tools[k].name]
        flat  == \E k \in DOMAIN tools : tools[k].flat
    IN  (flat => upstream \in {"command-code", "openai"} \/ dialect \notin {"openai", "ollama"}) =>
            ToolNames(upstream, ToolsToChat(dialect, tools)) = named

(* All the client told the proxy reaches the upstream: history, system     *)
(* text and tools; and of the calls and results nothing but copies is      *)
(* dropped, and each result stands behind its call.                        *)
UpstreamSeesAll == HistoryIntact /\ SystemLeads /\ ToolsOffered /\ CallsInOrder

(* "Stores each completed response's full conversation ... without         *)
(* resending history": an upstream sees the answers of a chained           *)
(* conversation, too.                                                      *)
AnswersInContext ==
    chained /\ Asking =>
        \A i \in DOMAIN history : history[i].who = "model" =>
            \E k \in DOMAIN Seen : Seen[k].mark = history[i].mark
=============================================================================
