----------------------------- MODULE StreamRelay -----------------------------
(***************************************************************************)
(* The life of a chat request in the proxy, from the handler's call of     *)
(* forward_request to the end of the answer.                               *)
(*                                                                         *)
(* Three actors work on one request: the handler task of the downstream    *)
(* connection (handler.rs), the reader task that forward_request spawns    *)
(* for a 200 streaming answer (upstream.rs), and the client, which may go  *)
(* away.  Handler and reader share a bounded channel and a cancellation    *)
(* token; all requests share the semaphore that bounds concurrent upstream *)
(* exchanges, the active_streams gauge and the Responses session store.    *)
(*                                                                         *)
(* The upstream is the environment: any status, any sequence of lines, an  *)
(* end or a failure at any point.  Chunks that hold part of a line, and    *)
(* lines that translate_line skips, change nothing and are left out.       *)
(***************************************************************************)
EXTENDS Naturals, Sequences, FiniteSets

CONSTANTS
    Requests,        \* the requests, each served once
    MaxConcurrent,   \* config.max_concurrent, 0 = unlimited
    MaxRetries,      \* config.max_retries
    ChannelCap,      \* capacity of the reader -> handler channel (256 in the code)
    MaxLines,        \* bound: translated lines an upstream stream may carry
    Dialects         \* the frontends in use, a subset of DialectNames

DialectNames == {"openai", "anthropic", "responses", "gemini", "ollama"}

ASSUME RelayAssumption ==
    /\ IsFiniteSet(Requests)
    /\ MaxConcurrent \in Nat
    /\ MaxRetries \in Nat
    /\ ChannelCap \in Nat \ {0}
    /\ MaxLines \in Nat
    /\ Dialects \subseteq DialectNames

VARIABLES
    permits,    \* permits left in the semaphore (unused when unlimited)
    permit,     \* who holds the request's permit: "none", "call" or "task"
    handler,    \* the handler's control point
    call,       \* the state of the forward_request call in progress
    open,       \* between stream_started and the handler's return
    empties,    \* `attempts` of handle_sse_stream: empty streams so far
    task,       \* the reader task of the current stream
    chan,       \* channel, receiver and cancellation token of that stream
    reply,      \* what was written to the client, and the renderer's flags
    client,     \* the client is still connected
    gauge,      \* Metrics::active_streams
    stored      \* requests whose conversation is in the session store

vars == <<permits, permit, handler, call, open, empties, task, chan, reply,
          client, gauge, stored>>

Limited == MaxConcurrent > 0
MaxAttempts == 1 + MaxRetries

(***************************************************************************)
(* Payloads.  "text" is a content delta, "fragment" a delta that some      *)
(* dialects do not render (reasoning, tool arguments), "finish" the chunk  *)
(* with finish_reason, "error" the payload of an upstream error event,     *)
(* "done" the [DONE] marker, "err" an Err(_) in the channel.               *)
(***************************************************************************)
Deltas   == {"text", "fragment", "finish"}
Contents == Deltas \union {"error"}
Payloads == Contents \union {"done"}
Items    == Payloads \union {"err"}

(* StreamRenderer::feed: does the payload become at least one frame?       *)
Renders(d, started, finished, i) ==
    CASE d = "openai"    -> TRUE
      [] d = "anthropic" -> IF i = "done" THEN ~finished
                                          ELSE i \in Deltas \/ ~started
      [] d = "responses" -> ~finished /\ i # "done" /\ (i \in Deltas \/ ~started)
      [] OTHER           -> ~finished /\ i \in {"text", "finish"}

TaskAt(s) == [st |-> s, todo |-> <<>>, lines |-> 0, emitted |-> FALSE, finish |-> FALSE]
NewChan == [q |-> <<>>, rx |-> TRUE, cancelled |-> FALSE]
NewCall == [attempt |-> 0, authRetried |-> FALSE]
NewReply(d, s) == [dialect |-> d, stream |-> s, head |-> "none", first |-> "none",
                   started |-> FALSE, finished |-> FALSE,
                   chunks |-> FALSE, sawFinish |-> FALSE, late |-> FALSE]

TaskAlive(r) == task[r].st \in {"reading", "ending"}
Closed(r)    == ~TaskAlive(r) /\ chan[r].q = <<>>     \* rx.recv() gives None

Goto(r, l)     == handler' = [handler EXCEPT ![r] = l]
Give(r, who)   == permit' = [permit EXCEPT ![r] = who]
ReleasePermit(r) ==
    /\ Give(r, "none")
    /\ permits' = IF Limited THEN permits + 1 ELSE permits

Init ==
    /\ permits = MaxConcurrent
    /\ permit  = [r \in Requests |-> "none"]
    /\ handler = [r \in Requests |-> "idle"]
    /\ call    = [r \in Requests |-> NewCall]
    /\ open    = [r \in Requests |-> FALSE]
    /\ empties = [r \in Requests |-> 0]
    /\ task    = [r \in Requests |-> TaskAt("none")]
    /\ chan    = [r \in Requests |-> NewChan]
    /\ reply   = [r \in Requests |-> NewReply("openai", TRUE)]   \* set by Start
    /\ client  = [r \in Requests |-> TRUE]
    /\ gauge   = 0
    /\ stored  = {}

(* request_filter: a validated request of some dialect reaches the upstream call. *)
Start(r) ==
    /\ handler[r] = "idle"
    /\ \E d \in Dialects, s \in BOOLEAN : reply' = [reply EXCEPT ![r] = NewReply(d, s)]
    /\ Goto(r, "acquire")
    /\ UNCHANGED <<permits, permit, call, open, empties, task, chan, client, gauge, stored>>

(* The client closes its connection; the proxy learns of it at a write.    *)
ClientLeaves(r) ==
    /\ handler[r] \notin {"idle", "done"}
    /\ client[r]
    /\ client' = [client EXCEPT ![r] = FALSE]
    /\ UNCHANGED <<permits, permit, handler, call, open, empties, task, chan, reply, gauge, stored>>

(***************************************************************************)
(* forward_request                                                         *)
(***************************************************************************)

(* Faulty variant: the semaphore is not waited for. *)
AcquireUnguarded(r) ==
    /\ handler[r] = "acquire"
    /\ UNCHANGED permits
    /\ Give(r, "call")
    /\ Goto(r, "exchange")
    /\ UNCHANGED <<call, open, empties, task, chan, reply, client, gauge, stored>>

Acquire(r) ==
    /\ handler[r] = "acquire"
    /\ Limited => permits > 0
    /\ permits' = IF Limited THEN permits - 1 ELSE permits
    /\ Give(r, "call")
    /\ Goto(r, "exchange")
    /\ UNCHANGED <<call, open, empties, task, chan, reply, client, gauge, stored>>

CallReturns(r) == call' = [call EXCEPT ![r] = NewCall]

(* should_rotate(status) and not yet retried: the credential is refreshed  *)
(* and the attempt repeated, outside the retry budget.                     *)
RefreshCredential(r) ==
    /\ handler[r] = "exchange"
    /\ ~call[r].authRetried
    /\ call' = [call EXCEPT ![r].authRetried = TRUE]
    /\ UNCHANGED <<permits, permit, handler, open, empties, task, chan, reply, client, gauge, stored>>

(* A 502-504 status or a connect error with attempts left: back off, retry. *)
RetryAttempt(r) ==
    /\ handler[r] = "exchange"
    /\ call[r].attempt + 1 < MaxAttempts
    /\ call' = [call EXCEPT ![r].attempt = @ + 1]
    /\ UNCHANGED <<permits, permit, handler, open, empties, task, chan, reply, client, gauge, stored>>

(* Any other answer or failure, all providers disabled, or no credential.  *)
ForwardFails(r) ==
    /\ handler[r] = "exchange"
    /\ CallReturns(r)
    /\ ReleasePermit(r)
    /\ Goto(r, "fail")
    /\ UNCHANGED <<open, empties, task, chan, reply, client, gauge, stored>>

(* 200 to a non-streaming request: body read and parsed, permit dropped.   *)
ForwardJson(r) ==
    /\ handler[r] = "exchange" /\ ~reply[r].stream
    /\ CallReturns(r)
    /\ ReleasePermit(r)
    /\ Goto(r, "json")
    /\ UNCHANGED <<open, empties, task, chan, reply, client, gauge, stored>>

(* Faulty variant: the permit is dropped when forward_request returns, not *)
(* moved into the reader task.                                             *)
ForwardStreamDropsPermit(r) ==
    /\ handler[r] = "exchange" /\ reply[r].stream
    /\ CallReturns(r)
    /\ ReleasePermit(r)
    /\ task' = [task EXCEPT ![r] = TaskAt("reading")]
    /\ chan' = [chan EXCEPT ![r] = NewChan]
    /\ open' = [open EXCEPT ![r] = TRUE]
    /\ gauge' = IF open[r] THEN gauge ELSE gauge + 1
    /\ Goto(r, "first")
    /\ UNCHANGED <<empties, reply, client, stored>>

(* 200 to a streaming request: the reader task is spawned and takes the    *)
(* permit; the handler (re)enters its wait for the first chunk.            *)
ForwardStream(r) ==
    /\ handler[r] = "exchange" /\ reply[r].stream
    /\ CallReturns(r)
    /\ Give(r, "task")
    /\ task' = [task EXCEPT ![r] = TaskAt("reading")]
    /\ chan' = [chan EXCEPT ![r] = NewChan]
    /\ open' = [open EXCEPT ![r] = TRUE]
    /\ gauge' = IF open[r] THEN gauge ELSE gauge + 1        \* stream_started
    /\ Goto(r, "first")
    /\ UNCHANGED <<permits, empties, reply, client, stored>>

(***************************************************************************)
(* The reader task                                                         *)
(***************************************************************************)

handlerVars == <<handler, call, open, empties, reply, client, gauge, stored>>

Reading(r)  == task[r].st = "reading" /\ task[r].todo = <<>>
Push(r, st, items) ==
    task' = [task EXCEPT ![r] = [@ EXCEPT !.st = st, !.todo = items]]

(* Faulty variant: a return path of the task that forgets the permit. *)
TaskExitsLeaking(r) ==
    /\ task' = [task EXCEPT ![r] = TaskAt("exited")]
    /\ UNCHANGED <<permits, permit, chan, handlerVars>>

(* The task returns: its locals drop, the permit with them, and then tx.   *)
TaskExits(r) ==
    /\ task' = [task EXCEPT ![r] = TaskAt("exited")]
    /\ ReleasePermit(r)
    /\ UNCHANGED <<chan, handlerVars>>

(* LineOutcome::Emit; a second finish is dropped by translate_line.        *)
EmitLine(r) == \E i \in Deltas :
    /\ Reading(r)
    /\ task[r].lines < MaxLines
    /\ i = "finish" => ~task[r].finish
    /\ task' = [task EXCEPT ![r] = [st |-> "reading", todo |-> <<i>>, emitted |-> TRUE,
                                    lines |-> task[r].lines + 1,
                                    finish |-> task[r].finish \/ i = "finish"]]
    /\ UNCHANGED <<permits, permit, chan, handlerVars>>

(* LineOutcome::EmitAndStop: the error payload, [DONE], and return.        *)
EmitErrorLine(r) ==
    /\ Reading(r)
    /\ Push(r, "ending", <<"error", "done">>)
    /\ UNCHANGED <<permits, permit, chan, handlerVars>>

(* The HTTP body fails, or the client-wide request timeout cuts it off.    *)
StreamFails(r) ==
    /\ Reading(r)
    /\ Push(r, "ending", <<"err">>)
    /\ UNCHANGED <<permits, permit, chan, handlerVars>>

(* More than MAX_STREAM_BUFFER_LIMIT bytes without a newline: plain return. *)
BufferOverflow(r) ==
    /\ Reading(r)
    /\ TaskExits(r)

(* Faulty variant: [DONE] is sent also after a stream without content. *)
UpstreamEofAlwaysDone(r) ==
    /\ Reading(r)
    /\ Push(r, "ending", <<"done">>)
    /\ UNCHANGED <<permits, permit, chan, handlerVars>>

(* Clean EOF: [DONE] after content or a finish; an unterminated last line  *)
(* is translated first, and is truncation when it does not parse.          *)
UpstreamEof(r) ==
    LET t == task[r]
        noResidual == IF t.finish \/ t.emitted THEN <<"done">> ELSE <<>>
        residual   == {<<>>, <<"error">>}
                        \union {<<i, "done">> : i \in {j \in Deltas : j = "finish" => ~t.finish}}
    IN  /\ Reading(r)
        /\ \E items \in {noResidual} \union residual : Push(r, "ending", items)
        /\ UNCHANGED <<permits, permit, chan, handlerVars>>

(* select! takes the cancelled() branch; only between two lines.           *)
ObserveCancel(r) ==
    /\ Reading(r)
    /\ chan[r].cancelled
    /\ TaskExits(r)

(* tx.send completes when there is room ...                                *)
SendItem(r) ==
    /\ TaskAlive(r) /\ task[r].todo # <<>>
    /\ chan[r].rx
    /\ Len(chan[r].q) < ChannelCap
    /\ chan' = [chan EXCEPT ![r] = [@ EXCEPT !.q = Append(chan[r].q, Head(task[r].todo))]]
    /\ task' = [task EXCEPT ![r] = [@ EXCEPT !.todo = Tail(task[r].todo)]]
    /\ UNCHANGED <<permits, permit, handlerVars>>

(* ... and fails once the receiver is dropped: every such path returns.    *)
SendFails(r) ==
    /\ TaskAlive(r) /\ task[r].todo # <<>>
    /\ ~chan[r].rx
    /\ TaskExits(r)

EndTask(r) ==
    /\ task[r].st = "ending" /\ task[r].todo = <<>>
    /\ TaskExits(r)

TaskStep(r) ==
    \/ EmitLine(r) \/ EmitErrorLine(r) \/ StreamFails(r) \/ BufferOverflow(r)
    \/ UpstreamEof(r) \/ ObserveCancel(r) \/ SendItem(r) \/ SendFails(r) \/ EndTask(r)

(***************************************************************************)
(* handle_sse_stream and the other ends of request_filter                  *)
(***************************************************************************)

taskVars == <<permits, permit, call, task>>

(* Faulty variant: something else keeps the receiver alive. *)
ReturnKeepingReceiver(r) ==
    /\ Goto(r, "done")
    /\ empties' = [empties EXCEPT ![r] = 0]
    /\ open' = [open EXCEPT ![r] = FALSE]
    /\ UNCHANGED chan

(* The handler returns: its locals, rx and with it the channel, are dropped. *)
Return(r) ==
    /\ Goto(r, "done")
    /\ empties' = [empties EXCEPT ![r] = 0]
    /\ open' = [open EXCEPT ![r] = FALSE]
    /\ chan' = [chan EXCEPT ![r] = [@ EXCEPT !.rx = FALSE, !.q = <<>>]]

(* Faulty variant: stream_finished also for a request that opened no stream. *)
StreamFinishedAlways(r) == gauge' = gauge - 1

StreamFinished(r) == gauge' = IF open[r] THEN gauge - 1 ELSE gauge

Cancel(r)  == chan' = [chan EXCEPT ![r] = [@ EXCEPT !.cancelled = TRUE]]
Receive(r) == chan' = [chan EXCEPT ![r] = [@ EXCEPT !.q = Tail(chan[r].q)]]

(* send_json(status, err).await?; stream_finished(); return -- of a failed *)
(* (re)call and of a stream that never produced a chunk.  A write to a     *)
(* connection that is gone fails, and the ? skips stream_finished.         *)
ReplyError(r) ==
    /\ handler[r] \in {"fail", "noChunk"}
    /\ Return(r)
    /\ \/ /\ reply' = [reply EXCEPT ![r] = [@ EXCEPT !.head = "error"]]
          /\ StreamFinished(r)
       \/ /\ ~client[r]
          /\ UNCHANGED <<reply, gauge>>
    /\ UNCHANGED <<taskVars, client, stored>>

(* UpstreamResponse::Json: persist the Responses entry, then answer.       *)
ReplyJson(r) ==
    /\ handler[r] = "json"
    /\ Return(r)
    /\ stored' = IF reply[r].dialect = "responses" THEN stored \union {r} ELSE stored
    /\ \/ reply' = [reply EXCEPT ![r] = [@ EXCEPT !.head = "json"]]
       \/ ~client[r] /\ UNCHANGED reply
    /\ UNCHANGED <<taskVars, client, gauge>>

(* The first item of the stream arrives: a payload, or an Err that aborts. *)
FirstChunk(r) ==
    /\ handler[r] = "first"
    /\ chan[r].q # <<>>
    /\ IF Head(chan[r].q) = "err"
       THEN /\ chan' = [chan EXCEPT ![r] = [@ EXCEPT !.q = Tail(chan[r].q), !.cancelled = TRUE]]
            /\ Goto(r, "noChunk")
            /\ UNCHANGED reply
       ELSE /\ reply' = [reply EXCEPT ![r] = [@ EXCEPT !.first = Head(chan[r].q)]]
            /\ Receive(r)
            /\ Goto(r, "header")
    /\ UNCHANGED <<taskVars, open, empties, client, gauge, stored>>

(* Faulty variants: one attempt too many, and attempts not counted. *)
EmptyStreamOffByOne(r) ==
    /\ handler[r] = "first"
    /\ Closed(r)
    /\ Cancel(r)
    /\ empties' = [empties EXCEPT ![r] = @ + 1]
    /\ Goto(r, IF empties[r] >= MaxAttempts THEN "noChunk" ELSE "acquire")
    /\ UNCHANGED <<taskVars, open, reply, client, gauge, stored>>

EmptyStreamUncounted(r) ==
    /\ handler[r] = "first"
    /\ Closed(r)
    /\ Cancel(r)
    /\ Goto(r, "acquire")
    /\ UNCHANGED <<taskVars, open, empties, reply, client, gauge, stored>>

(* An empty stream: call the upstream again, at most MaxRetries times.     *)
EmptyStream(r) ==
    /\ handler[r] = "first"
    /\ Closed(r)
    /\ Cancel(r)
    /\ empties' = [empties EXCEPT ![r] = @ + 1]
    /\ Goto(r, IF empties[r] + 1 >= MaxAttempts THEN "noChunk" ELSE "acquire")
    /\ UNCHANGED <<taskVars, open, reply, client, gauge, stored>>

(* tokio::time::timeout(idle_timeout, rx.recv()) elapses.                  *)
Idle(r) == TaskAlive(r) /\ chan[r].q = <<>>

FirstChunkTimeout(r) ==
    /\ handler[r] = "first"
    /\ Idle(r)
    /\ Cancel(r)
    /\ Goto(r, "noChunk")
    /\ UNCHANGED <<taskVars, open, empties, reply, client, gauge, stored>>

(* Feed one payload to the renderer and write its frames, if any.  A write *)
(* may still succeed after the client has left (kernel buffers); when it   *)
(* fails the loop ends and the token is cancelled.  `rest` is the channel  *)
(* content left behind.                                                    *)
Deliver(r, i, rest) ==
    LET shown == Renders(reply[r].dialect, reply[r].started, reply[r].finished, i)
        Fed(written) ==
            reply' = [reply EXCEPT ![r] =
                [@ EXCEPT !.head = "sse", !.first = "none", !.started = TRUE,
                          !.finished  = reply[r].finished \/ i = "finish",
                          !.chunks    = reply[r].chunks \/ written,
                          !.sawFinish = reply[r].sawFinish \/ (written /\ i = "finish")]]
    IN  \/ /\ Fed(shown)
           /\ chan' = [chan EXCEPT ![r] = [@ EXCEPT !.q = rest]]
           /\ Goto(r, "stream")
        \/ /\ shown /\ ~client[r]
           /\ Fed(FALSE)
           /\ chan' = [chan EXCEPT ![r] = [@ EXCEPT !.q = rest, !.cancelled = TRUE]]
           /\ Goto(r, "close")

(* The 200 header goes out with the first chunk in hand.                   *)
WriteHeader(r) ==
    /\ handler[r] = "header"
    /\ \/ Deliver(r, reply[r].first, chan[r].q)
       \/ /\ ~client[r]                               \* header_ok is false
          /\ Cancel(r)
          /\ Goto(r, "close")
          /\ reply' = [reply EXCEPT ![r] = [@ EXCEPT !.first = "none"]]
    /\ UNCHANGED <<taskVars, open, empties, client, gauge, stored>>

RelayChunk(r) ==
    /\ handler[r] = "stream"
    /\ chan[r].q # <<>>
    /\ IF Head(chan[r].q) = "err"
       THEN /\ chan' = [chan EXCEPT ![r] = [@ EXCEPT !.q = Tail(chan[r].q), !.cancelled = TRUE]]
            /\ Goto(r, "close")
            /\ UNCHANGED reply
       ELSE Deliver(r, Head(chan[r].q), Tail(chan[r].q))
    /\ UNCHANGED <<taskVars, open, empties, client, gauge, stored>>

StreamTimeout(r) ==
    /\ handler[r] = "stream"
    /\ Idle(r)
    /\ Cancel(r)
    /\ Goto(r, "close")
    /\ UNCHANGED <<taskVars, open, empties, reply, client, gauge, stored>>

StreamEnds(r) ==
    /\ handler[r] = "stream"
    /\ Closed(r)
    /\ Goto(r, "close")
    /\ UNCHANGED <<taskVars, open, empties, chan, reply, client, gauge, stored>>

(* Faulty variant: the incomplete-stream check is gone, so whatever was    *)
(* not aborted is persisted.                                               *)
CloseStreamUnchecked(r) ==
    /\ handler[r] = "close"
    /\ stored' = IF ~chan[r].cancelled /\ reply[r].dialect = "responses"
                 THEN stored \union {r} ELSE stored
    /\ Return(r)
    /\ StreamFinished(r)
    /\ UNCHANGED <<taskVars, reply, client>>

(* After the loop.  A stream that was not aborted and wrote any chunk gets *)
(* the 502 "ended before terminal chunk" body and returns; the session is  *)
(* persisted only past that return.                                        *)
CloseStream(r) ==
    LET ended == ~chan[r].cancelled
    IN  /\ handler[r] = "close"
        /\ reply' = [reply EXCEPT ![r] = [@ EXCEPT !.late = ended /\ reply[r].chunks]]
        /\ stored' = IF ended /\ ~reply[r].chunks /\ reply[r].dialect = "responses"
                     THEN stored \union {r} ELSE stored
        /\ Return(r)
        /\ StreamFinished(r)
        /\ UNCHANGED <<taskVars, client>>

HandlerStep(r) ==
    \/ Acquire(r) \/ RefreshCredential(r) \/ RetryAttempt(r) \/ ForwardFails(r)
    \/ ForwardJson(r) \/ ForwardStream(r)
    \/ ReplyError(r) \/ ReplyJson(r) \/ FirstChunk(r) \/ EmptyStream(r)
    \/ FirstChunkTimeout(r) \/ WriteHeader(r) \/ RelayChunk(r) \/ StreamTimeout(r)
    \/ StreamEnds(r) \/ CloseStream(r)

AllDone == /\ \A r \in Requests : handler[r] = "done" /\ ~TaskAlive(r)
           /\ UNCHANGED vars

Next == \/ \E r \in Requests :
              Start(r) \/ ClientLeaves(r) \/ HandlerStep(r) \/ TaskStep(r)
        \/ AllDone

(* Every await of the handler completes: a timer bounds its waits on the   *)
(* channel, the upstream call has a request timeout, and tokio's semaphore *)
(* is first come first served.  The same request timeout bounds the body,  *)
(* so the reader is never stuck in stream.next().  Clients owe nothing.    *)
Fairness == \A r \in Requests : /\ SF_vars(Acquire(r))
                                /\ WF_vars(HandlerStep(r))
                                /\ WF_vars(TaskStep(r))

Spec == Init /\ [][Next]_vars /\ Fairness

(***************************************************************************)
(* Properties                                                              *)
(***************************************************************************)

HandlerPoints == {"idle", "acquire", "exchange", "fail", "json", "first", "noChunk",
                  "header", "stream", "close", "done"}

CallRecord == [attempt : 0..MaxRetries, authRetried : BOOLEAN]
TaskRecord == [st : {"none", "reading", "ending", "exited"}, todo : Seq(Items),
               lines : 0..MaxLines, emitted : BOOLEAN, finish : BOOLEAN]
ChanRecord == [q : Seq(Items), rx : BOOLEAN, cancelled : BOOLEAN]
ReplyRecord == [dialect : DialectNames, stream : BOOLEAN,
                head : {"none", "sse", "json", "error"}, first : Items \union {"none"},
                started : BOOLEAN, finished : BOOLEAN, chunks : BOOLEAN,
                sawFinish : BOOLEAN, late : BOOLEAN]

(* Type invariant. *)
TypeOK ==
    /\ permits \in 0..MaxConcurrent
    /\ permit \in [Requests -> {"none", "call", "task"}]
    /\ handler \in [Requests -> HandlerPoints]
    /\ call \in [Requests -> CallRecord]
    /\ open \in [Requests -> BOOLEAN]
    /\ empties \in [Requests -> 0..MaxAttempts]
    /\ task \in [Requests -> TaskRecord]
    /\ chan \in [Requests -> ChanRecord]
    /\ reply \in [Requests -> ReplyRecord]
    /\ client \in [Requests -> BOOLEAN]
    /\ gauge \in Nat
    /\ stored \subseteq Requests

Holders == {r \in Requests : permit[r] # "none"}

(* No permit is lost, doubled or held without a purpose: those in the      *)
(* semaphore and those held add up, the call holds one exactly during its  *)
(* exchange and the reader task exactly while it lives (upstream.rs 231-   *)
(* 244: the guard moves into the task and drops with it).                  *)
PermitConservation ==
    /\ Limited => permits + Cardinality(Holders) = MaxConcurrent
    /\ \A r \in Requests :
          /\ permit[r] = "call" <=> handler[r] = "exchange"
          /\ permit[r] = "task" <=> TaskAlive(r)

(* "so the semaphore actually bounds concurrent streams": requests in an   *)
(* upstream exchange or with a live upstream stream, whatever their        *)
(* handler does meanwhile, number at most max_concurrent.                  *)
Exchanging == {r \in Requests : handler[r] = "exchange" \/ TaskAlive(r)}
StreamsBounded == Limited => Cardinality(Exchanging) <= MaxConcurrent

(* The comment in handle_sse_stream's first loop: the first line seen is   *)
(* real content, a finish chunk or an error, never a bare [DONE] -- so a   *)
(* 200 is only committed for a stream that carries something.              *)
FirstIsContent ==
    \A r \in Requests : handler[r] = "header" => reply[r].first \in Contents

(* active_streams never counts fewer streams than are open. *)
Open == {r \in Requests : open[r]}
GaugeCoversOpen == gauge >= Cardinality(Open)

(* What bounds the load and what reports it, together: permits, the        *)
(* exchanges they stand for, and the gauge.                                *)
ResourcesAccounted == PermitConservation /\ StreamsBounded /\ GaugeCoversOpen

(* active_streams is the "number of streams currently open". *)
GaugeExact == gauge = Cardinality(Open)

(* A conversation reaches the session store only for a request the         *)
(* upstream completed: no failed, aborted or unfinished generation becomes *)
(* the context of a chained request ("so failed generations don't pollute  *)
(* chained context", handler.rs 527-529).                                  *)
StoredOnlyWhenAnswered ==
    \A r \in stored : /\ handler[r] = "done" /\ ~chan[r].cancelled
                      /\ reply[r].head # "error"
                      /\ reply[r].stream => reply[r].sawFinish

(* The error body for an incomplete stream is only appended to a stream    *)
(* that ended without its finish event.                                    *)
NoErrorAfterFinish == \A r \in Requests : reply[r].late => ~reply[r].sawFinish

(* An exchange does not outlive its handler for ever: once the handler has *)
(* returned, the reader stops, also when it is stuck on a full channel.    *)
PermitReturned == \A r \in Requests : permit[r] # "none" ~> permit[r] = "none"

(* Every request the proxy took on is answered or given up.                *)
RequestEnds == \A r \in Requests : handler[r] # "idle" ~> handler[r] = "done"

(* Both tasks of a request come to an end, whatever the client, the        *)
(* upstream and the channel do.                                            *)
BothTasksEnd == PermitReturned /\ RequestEnds

(* The relay implements the abstract concurrency limit.                    *)
Load == INSTANCE ConcurrencyLimit WITH Limit <- MaxConcurrent, active <- Exchanging
LoadSafety == Load!LimitSafety

(* ... including that every exchange ends. *)
LoadBounded == Load!LimitSpec
=============================================================================
