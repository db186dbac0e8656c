------------------------- MODULE StreamRelay_proofs -------------------------
(***************************************************************************)
(* Safety of StreamRelay for every set of requests, every concurrency      *)
(* limit (also none), retry budget, channel capacity and mix of dialects.  *)
(*                                                                         *)
(* The argument: permits are counted by Holders.  A call acquires its      *)
(* permit only when the request holds none, which needs to know that the   *)
(* reader task of an earlier, empty stream is gone when the handler calls  *)
(* again (NoTaskBeforeCall); that in turn holds because the handler reads  *)
(* None from the channel only after the task has exited.                   *)
(*                                                                         *)
(* A second invariant, AnswerInv, on top of it: what the client is sent    *)
(* and what is stored, from where each item of a stream is on its way.     *)
(***************************************************************************)
EXTENDS StreamRelay, FiniteSetTheorems, TLAPS

(* No reader task is alive while a forward_request call is under way. *)
NoTaskBeforeCall ==
    \A r \in Requests : handler[r] \in {"idle", "acquire", "exchange"} => ~TaskAlive(r)

(* The empty-stream counter is below its limit whenever it may still grow. *)
EmptiesBelow ==
    \A r \in Requests : handler[r] \in {"idle", "acquire", "exchange", "first"}
                            => empties[r] < MaxAttempts

(* The inductive invariant. *)
IInv == TypeOK /\ NoTaskBeforeCall /\ EmptiesBelow /\ PermitConservation /\ GaugeCoversOpen

(* The initial values of the records are of their types. *)
LEMMA FreshRecords ==
    /\ NewCall \in CallRecord
    /\ \A s \in {"none", "reading", "exited"} : TaskAt(s) \in TaskRecord
    /\ NewChan \in ChanRecord
    /\ \A d \in DialectNames, s \in BOOLEAN : NewReply(d, s) \in ReplyRecord
<1>1. NewCall \in CallRecord
  BY RelayAssumption DEF NewCall, CallRecord
<1>2. \A s \in {"none", "reading", "exited"} : TaskAt(s) \in TaskRecord
  <2>1. <<>> \in Seq(Items) /\ 0 \in 0..MaxLines
    BY RelayAssumption
  <2> QED BY <2>1 DEF TaskAt, TaskRecord
<1>3. NewChan \in ChanRecord
  BY DEF NewChan, ChanRecord
<1>4. \A d \in DialectNames, s \in BOOLEAN : NewReply(d, s) \in ReplyRecord
  BY DEF NewReply, ReplyRecord
<1> QED BY <1>1, <1>2, <1>3, <1>4

(* A permit that is returned reduces the holders by one. *)
LEMMA ReleaseCount ==
    ASSUME TypeOK, PermitConservation, NEW r \in Requests,
           permit[r] # "none", ReleasePermit(r)
    PROVE  /\ permits' \in 0..MaxConcurrent
           /\ permit' \in [Requests -> {"none", "call", "task"}]
           /\ Limited => permits' + Cardinality(Holders') = MaxConcurrent
<1>1. permit' \in [Requests -> {"none", "call", "task"}]
  BY DEF TypeOK, ReleasePermit, Give
<1>2. Holders' = Holders \ {r}
  BY DEF TypeOK, ReleasePermit, Give, Holders
<1>3. IsFiniteSet(Holders)
  BY RelayAssumption, FS_Subset DEF Holders
<1>4. r \in Holders
  BY DEF Holders
<1>5. Cardinality(Holders') = Cardinality(Holders) - 1 /\ Cardinality(Holders) \in Nat
      /\ Cardinality(Holders') \in Nat
  BY <1>2, <1>3, <1>4, FS_RemoveElement, FS_CardinalityType, FS_Subset
<1>6. permits' \in 0..MaxConcurrent /\ (Limited => permits' + Cardinality(Holders') = MaxConcurrent)
  BY <1>5, RelayAssumption DEF TypeOK, PermitConservation, ReleasePermit, Limited
<1> QED BY <1>1, <1>6

(* Steps that move no permit, start or end no exchange, keep the count. *)
LEMMA SamePermits ==
    ASSUME PermitConservation, UNCHANGED <<permits, permit>>,
           \A r \in Requests : (handler'[r] = "exchange") <=> (handler[r] = "exchange"),
           \A r \in Requests : TaskAlive(r)' <=> TaskAlive(r)
    PROVE  PermitConservation'
BY DEF PermitConservation, Holders, Limited

(* A handler step that touches neither permit nor task. *)
LEMMA SameExchange ==
    ASSUME TypeOK, PermitConservation, UNCHANGED <<permits, permit, task>>,
           NEW r \in Requests, NEW l \in HandlerPoints, Goto(r, l),
           handler[r] # "exchange", l # "exchange"
    PROVE  PermitConservation'
<1>1. \A s \in Requests : (handler'[s] = "exchange") <=> (handler[s] = "exchange")
  BY DEF TypeOK, Goto
<1>2. \A s \in Requests : TaskAlive(s)' <=> TaskAlive(s)
  BY DEF TaskAlive
<1> QED BY <1>1, <1>2, SamePermits

(* A handler that returns closes at most its own stream in the gauge. *)
LEMMA ReturnGauge ==
    ASSUME TypeOK, GaugeCoversOpen, NEW r \in Requests,
           open' = [open EXCEPT ![r] = FALSE],
           StreamFinished(r) \/ gauge' = gauge
    PROVE  GaugeCoversOpen' /\ gauge' \in Nat
<1>1. Open' = Open \ {r}
  BY DEF TypeOK, Open
<1>2. IsFiniteSet(Open) /\ Cardinality(Open) \in Nat
  BY RelayAssumption, FS_Subset, FS_CardinalityType DEF Open
<1>3. CASE r \in Open
  <2>1. Cardinality(Open') = Cardinality(Open) - 1 /\ Cardinality(Open') \in Nat
    BY <1>1, <1>2, <1>3, FS_RemoveElement, FS_CardinalityType, FS_Subset
  <2> QED BY <2>1, <1>2 DEF TypeOK, GaugeCoversOpen, StreamFinished
<1>4. CASE r \notin Open
  <2>1. Open' = Open /\ gauge' = gauge
    BY <1>1, <1>4 DEF Open, StreamFinished
  <2> QED BY <2>1 DEF TypeOK, GaugeCoversOpen
<1> QED BY <1>3, <1>4

(* A stream that starts is counted. *)
LEMMA StartGauge ==
    ASSUME TypeOK, GaugeCoversOpen, NEW r \in Requests,
           open' = [open EXCEPT ![r] = TRUE],
           gauge' = IF open[r] THEN gauge ELSE gauge + 1
    PROVE  GaugeCoversOpen' /\ gauge' \in Nat
<1>1. Open' = Open \union {r}
  BY DEF TypeOK, Open
<1>2. IsFiniteSet(Open) /\ Cardinality(Open) \in Nat
  BY RelayAssumption, FS_Subset, FS_CardinalityType DEF Open
<1>3. CASE r \in Open
  <2>1. Open' = Open /\ gauge' = gauge
    BY <1>1, <1>3 DEF Open
  <2> QED BY <2>1 DEF TypeOK, GaugeCoversOpen
<1>4. CASE r \notin Open
  <2>1. Cardinality(Open') = Cardinality(Open) + 1
    BY <1>1, <1>2, <1>4, FS_AddElement
  <2>2. gauge' = gauge + 1
    BY <1>4 DEF Open
  <2> QED BY <1>2, <2>1, <2>2 DEF TypeOK, GaugeCoversOpen
<1> QED BY <1>3, <1>4

(* The initial state satisfies the invariant. *)
LEMMA InitIInv == Init => IInv
<1> SUFFICES ASSUME Init PROVE IInv
  OBVIOUS
<1>1. TypeOK
  <2>1. "openai" \in DialectNames /\ TRUE \in BOOLEAN
    BY DEF DialectNames
  <2>2. NewReply("openai", TRUE) \in ReplyRecord /\ TaskAt("none") \in TaskRecord
        /\ NewCall \in CallRecord /\ NewChan \in ChanRecord
    BY <2>1, FreshRecords
  <2>3. 0 \in 0..MaxAttempts /\ MaxConcurrent \in 0..MaxConcurrent
    BY RelayAssumption DEF MaxAttempts
  <2>4. /\ task \in [Requests -> TaskRecord] /\ reply \in [Requests -> ReplyRecord]
        /\ call \in [Requests -> CallRecord] /\ chan \in [Requests -> ChanRecord]
        /\ empties \in [Requests -> 0..MaxAttempts]
    BY <2>2, <2>3 DEF Init
  <2>5. /\ permits \in 0..MaxConcurrent /\ permit \in [Requests -> {"none", "call", "task"}]
        /\ handler \in [Requests -> HandlerPoints] /\ open \in [Requests -> BOOLEAN]
        /\ client \in [Requests -> BOOLEAN] /\ gauge \in Nat /\ stored \subseteq Requests
    BY <2>3 DEF Init, HandlerPoints
  <2> QED BY <2>4, <2>5 DEF TypeOK
<1>2. NoTaskBeforeCall /\ EmptiesBelow
  BY RelayAssumption DEF Init, NoTaskBeforeCall, EmptiesBelow, TaskAlive, TaskAt, MaxAttempts
<1>3. PermitConservation
  <2>1. Holders = {}
    BY DEF Init, Holders
  <2> QED BY <2>1, RelayAssumption, FS_EmptySet DEF Init, PermitConservation, TaskAlive, TaskAt
<1>4. GaugeCoversOpen
  <2>1. Open = {}
    BY DEF Init, Open
  <2> QED BY <2>1, FS_EmptySet DEF Init, GaugeCoversOpen
<1> QED BY <1>1, <1>2, <1>3, <1>4 DEF IInv

(* ---- steps ---- *)

(* Pushing items keeps the task's type. *)
LEMMA PushType ==
    ASSUME TypeOK, NEW r \in Requests, NEW items \in Seq(Items), Push(r, "ending", items)
    PROVE  task' \in [Requests -> TaskRecord]
<1> DEFINE t == [task[r] EXCEPT !.st = "ending", !.todo = items]
<1>1. t \in TaskRecord
  BY DEF TypeOK, TaskRecord
<1>2. task' = [task EXCEPT ![r] = t]
  BY DEF Push
<1> HIDE DEF t
<1> QED BY <1>1, <1>2 DEF TypeOK

(* A request enters. *)
LEMMA StartStep == ASSUME IInv, NEW r \in Requests, Start(r) PROVE IInv'
<1> USE DEF IInv
<1>1. TypeOK'
  <2>1. \A d \in Dialects, b \in BOOLEAN : NewReply(d, b) \in ReplyRecord
    BY FreshRecords, RelayAssumption
  <2> QED BY <2>1 DEF Start, Goto, TypeOK, HandlerPoints
<1>2. NoTaskBeforeCall' /\ EmptiesBelow'
  BY RelayAssumption DEF Start, TypeOK, NoTaskBeforeCall, EmptiesBelow, TaskAlive, Goto, MaxAttempts, taskVars, handlerVars
<1>3. PermitConservation'
  <2>1. UNCHANGED <<permits, permit, task>> /\ Goto(r, "acquire") /\ handler[r] # "exchange"
    BY DEF Start, taskVars
  <2> QED BY <2>1, SameExchange DEF HandlerPoints
<1>4. GaugeCoversOpen'
  BY DEF Start, GaugeCoversOpen, Open, taskVars, handlerVars
<1> QED BY <1>1, <1>2, <1>3, <1>4

(* Only the client's flag changes. *)
LEMMA ClientLeavesStep == ASSUME IInv, NEW r \in Requests, ClientLeaves(r) PROVE IInv'
<1> USE DEF IInv
<1>1. TypeOK'
  BY DEF ClientLeaves, TypeOK
<1>2. NoTaskBeforeCall' /\ EmptiesBelow'
  BY DEF ClientLeaves, NoTaskBeforeCall, EmptiesBelow, TaskAlive
<1>3. PermitConservation'
  BY DEF ClientLeaves, PermitConservation, Holders, TaskAlive
<1>4. GaugeCoversOpen'
  BY DEF ClientLeaves, GaugeCoversOpen, Open, taskVars, handlerVars
<1> QED BY <1>1, <1>2, <1>3, <1>4

(* A free permit goes to the call of a request that holds none. *)
LEMMA AcquireStep == ASSUME IInv, NEW r \in Requests, Acquire(r) PROVE IInv'
<1> USE DEF IInv
<1>1. TypeOK'
  BY RelayAssumption DEF Acquire, Goto, Give, TypeOK, HandlerPoints, Limited
<1>2. NoTaskBeforeCall' /\ EmptiesBelow'
  BY RelayAssumption DEF Acquire, TypeOK, NoTaskBeforeCall, EmptiesBelow, TaskAlive, Goto, MaxAttempts, taskVars, handlerVars
<1>3. PermitConservation'
  <2>1. permit[r] = "none"
    BY DEF Acquire, TypeOK, PermitConservation, NoTaskBeforeCall
  <2>2. Holders' = Holders \union {r} /\ r \notin Holders
    BY <2>1 DEF Acquire, Give, TypeOK, Holders
  <2>3. IsFiniteSet(Holders) /\ Cardinality(Holders) \in Nat
    BY RelayAssumption, FS_Subset, FS_CardinalityType DEF Holders
  <2>4. Cardinality(Holders') = Cardinality(Holders) + 1
    BY <2>2, <2>3, FS_AddElement
  <2>5. Limited => permits' + Cardinality(Holders') = MaxConcurrent
    BY <2>3, <2>4, RelayAssumption DEF Acquire, TypeOK, PermitConservation, Limited
  <2>6. \A s \in Requests :
           /\ permit'[s] = "call" <=> handler'[s] = "exchange"
           /\ permit'[s] = "task" <=> TaskAlive(s)'
    BY <2>1 DEF Acquire, Give, Goto, TypeOK, PermitConservation, TaskAlive
  <2> QED BY <2>5, <2>6 DEF PermitConservation, Limited
<1>4. GaugeCoversOpen'
  BY DEF Acquire, GaugeCoversOpen, Open, taskVars, handlerVars
<1> QED BY <1>1, <1>2, <1>3, <1>4

(* One more attempt, the permit kept. *)
LEMMA RefreshCredentialStep == ASSUME IInv, NEW r \in Requests, RefreshCredential(r) PROVE IInv'
<1> USE DEF IInv
<1>1. TypeOK'
  BY RelayAssumption DEF RefreshCredential, TypeOK, CallRecord, MaxAttempts
<1>2. NoTaskBeforeCall' /\ EmptiesBelow'
  BY DEF RefreshCredential, NoTaskBeforeCall, EmptiesBelow, TaskAlive
<1>3. PermitConservation'
  BY DEF RefreshCredential, PermitConservation, Holders, TaskAlive
<1>4. GaugeCoversOpen'
  BY DEF RefreshCredential, GaugeCoversOpen, Open, taskVars, handlerVars
<1> QED BY <1>1, <1>2, <1>3, <1>4

(* One more attempt, the permit kept. *)
LEMMA RetryAttemptStep == ASSUME IInv, NEW r \in Requests, RetryAttempt(r) PROVE IInv'
<1> USE DEF IInv
<1>1. TypeOK'
  BY RelayAssumption DEF RetryAttempt, TypeOK, CallRecord, MaxAttempts
<1>2. NoTaskBeforeCall' /\ EmptiesBelow'
  BY DEF RetryAttempt, NoTaskBeforeCall, EmptiesBelow, TaskAlive
<1>3. PermitConservation'
  BY DEF RetryAttempt, PermitConservation, Holders, TaskAlive
<1>4. GaugeCoversOpen'
  BY DEF RetryAttempt, GaugeCoversOpen, Open, taskVars, handlerVars
<1> QED BY <1>1, <1>2, <1>3, <1>4

(* The call returns its permit. *)
LEMMA ForwardFailsStep == ASSUME IInv, NEW r \in Requests, ForwardFails(r) PROVE IInv'
<1> USE DEF IInv
<1>1. TypeOK'
  <2>1. permit[r] # "none"
    BY DEF ForwardFails, PermitConservation, TypeOK
  <2>2. permits' \in 0..MaxConcurrent /\ permit' \in [Requests -> {"none", "call", "task"}]
    BY <2>1, ReleaseCount DEF ForwardFails
  <2>3. call' \in [Requests -> CallRecord]
    BY FreshRecords DEF ForwardFails, CallReturns, TypeOK
  <2> QED BY <2>2, <2>3 DEF ForwardFails, Goto, TypeOK, HandlerPoints
<1>2. NoTaskBeforeCall' /\ EmptiesBelow'
  BY RelayAssumption DEF ForwardFails, TypeOK, NoTaskBeforeCall, EmptiesBelow, TaskAlive, Goto, MaxAttempts, taskVars, handlerVars
<1>3. PermitConservation'
  <2>1. permit[r] # "none"
    BY DEF ForwardFails, PermitConservation, TypeOK
  <2>2. Limited => permits' + Cardinality(Holders') = MaxConcurrent
    BY <2>1, ReleaseCount DEF ForwardFails
  <2>3. ~TaskAlive(r)
    BY DEF ForwardFails, NoTaskBeforeCall
  <2>4. \A s \in Requests :
           /\ permit'[s] = "call" <=> handler'[s] = "exchange"
           /\ permit'[s] = "task" <=> TaskAlive(s)'
    BY <2>3 DEF ForwardFails, ReleasePermit, Give, Goto, TypeOK, PermitConservation, TaskAlive
  <2> QED BY <2>2, <2>4 DEF PermitConservation, Limited
<1>4. GaugeCoversOpen'
  BY DEF ForwardFails, GaugeCoversOpen, Open, taskVars, handlerVars
<1> QED BY <1>1, <1>2, <1>3, <1>4

(* The call returns its permit. *)
LEMMA ForwardJsonStep == ASSUME IInv, NEW r \in Requests, ForwardJson(r) PROVE IInv'
<1> USE DEF IInv
<1>1. TypeOK'
  <2>1. permit[r] # "none"
    BY DEF ForwardJson, PermitConservation, TypeOK
  <2>2. permits' \in 0..MaxConcurrent /\ permit' \in [Requests -> {"none", "call", "task"}]
    BY <2>1, ReleaseCount DEF ForwardJson
  <2>3. call' \in [Requests -> CallRecord]
    BY FreshRecords DEF ForwardJson, CallReturns, TypeOK
  <2> QED BY <2>2, <2>3 DEF ForwardJson, Goto, TypeOK, HandlerPoints
<1>2. NoTaskBeforeCall' /\ EmptiesBelow'
  BY RelayAssumption DEF ForwardJson, TypeOK, NoTaskBeforeCall, EmptiesBelow, TaskAlive, Goto, MaxAttempts, taskVars, handlerVars
<1>3. PermitConservation'
  <2>1. permit[r] # "none"
    BY DEF ForwardJson, PermitConservation, TypeOK
  <2>2. Limited => permits' + Cardinality(Holders') = MaxConcurrent
    BY <2>1, ReleaseCount DEF ForwardJson
  <2>3. ~TaskAlive(r)
    BY DEF ForwardJson, NoTaskBeforeCall
  <2>4. \A s \in Requests :
           /\ permit'[s] = "call" <=> handler'[s] = "exchange"
           /\ permit'[s] = "task" <=> TaskAlive(s)'
    BY <2>3 DEF ForwardJson, ReleasePermit, Give, Goto, TypeOK, PermitConservation, TaskAlive
  <2> QED BY <2>2, <2>4 DEF PermitConservation, Limited
<1>4. GaugeCoversOpen'
  BY DEF ForwardJson, GaugeCoversOpen, Open, taskVars, handlerVars
<1> QED BY <1>1, <1>2, <1>3, <1>4

(* The permit moves from the call to the reader task. *)
LEMMA ForwardStreamStep == ASSUME IInv, NEW r \in Requests, ForwardStream(r) PROVE IInv'
<1> USE DEF IInv
<1>1. TypeOK'
  <2>1. /\ task' \in [Requests -> TaskRecord] /\ chan' \in [Requests -> ChanRecord]
        /\ call' \in [Requests -> CallRecord]
    BY FreshRecords DEF ForwardStream, CallReturns, TypeOK
  <2>2. gauge' \in Nat
    BY StartGauge DEF ForwardStream
  <2> QED BY <2>1, <2>2 DEF ForwardStream, Give, Goto, TypeOK, HandlerPoints
<1>2. NoTaskBeforeCall' /\ EmptiesBelow'
  BY RelayAssumption DEF ForwardStream, TypeOK, NoTaskBeforeCall, EmptiesBelow, TaskAlive, Goto, MaxAttempts, taskVars, handlerVars
<1>3. PermitConservation'
  <2>1. permit[r] = "call"
    BY DEF ForwardStream, PermitConservation, TypeOK
  <2>2. Holders' = Holders /\ permits' = permits
    BY <2>1 DEF ForwardStream, Give, TypeOK, Holders
  <2>3. \A s \in Requests :
           /\ permit'[s] = "call" <=> handler'[s] = "exchange"
           /\ permit'[s] = "task" <=> TaskAlive(s)'
    BY DEF ForwardStream, Give, Goto, TypeOK, PermitConservation, TaskAlive, TaskAt
  <2> QED BY <2>2, <2>3 DEF PermitConservation, Limited
<1>4. GaugeCoversOpen'
  BY StartGauge DEF ForwardStream
<1> QED BY <1>1, <1>2, <1>3, <1>4

(* The task stays alive with one payload to send. *)
LEMMA EmitLineStep == ASSUME IInv, NEW r \in Requests, EmitLine(r) PROVE IInv'
<1> USE DEF IInv
<1>1. TypeOK'
  <2>1. PICK i \in Deltas :
           /\ task[r].lines < MaxLines
           /\ task' = [task EXCEPT ![r] = [st |-> "reading", todo |-> <<i>>, emitted |-> TRUE,
                                           lines |-> task[r].lines + 1,
                                           finish |-> task[r].finish \/ i = "finish"]]
    BY DEF EmitLine
  <2>2. <<i>> \in Seq(Items)
    BY DEF Deltas, Contents, Payloads, Items
  <2>3. task' \in [Requests -> TaskRecord]
    <3> DEFINE t == [st |-> "reading", todo |-> <<i>>, emitted |-> TRUE,
                     lines |-> task[r].lines + 1, finish |-> task[r].finish \/ i = "finish"]
    <3>1. task[r].lines + 1 \in 0..MaxLines
      BY <2>1, RelayAssumption DEF TypeOK, TaskRecord
    <3>2. (task[r].finish \/ i = "finish") \in BOOLEAN
      OBVIOUS
    <3>3. t \in TaskRecord
      BY <2>2, <3>1, <3>2 DEF TaskRecord
    <3>4. task' = [task EXCEPT ![r] = t]
      BY <2>1
    <3> HIDE DEF t
    <3> QED BY <3>3, <3>4 DEF TypeOK
  <2> QED BY <2>3 DEF EmitLine, TypeOK, handlerVars
<1>2. NoTaskBeforeCall' /\ EmptiesBelow'
  BY DEF EmitLine, Reading, Push, TypeOK, TaskRecord, NoTaskBeforeCall, EmptiesBelow, TaskAlive, handlerVars
<1>3. PermitConservation'
  <2>1. \A s \in Requests : TaskAlive(s)' <=> TaskAlive(s)
    BY DEF EmitLine, Reading, Push, TypeOK, TaskRecord, TaskAlive
  <2>2. UNCHANGED <<permits, permit, handler>>
    BY DEF EmitLine, handlerVars
  <2> QED BY <2>1, <2>2, SamePermits
<1>4. GaugeCoversOpen'
  BY DEF EmitLine, GaugeCoversOpen, Open, taskVars, handlerVars
<1> QED BY <1>1, <1>2, <1>3, <1>4

(* The task stays alive with its last items to send. *)
LEMMA EmitErrorLineStep == ASSUME IInv, NEW r \in Requests, EmitErrorLine(r) PROVE IInv'
<1> USE DEF IInv
<1>1. TypeOK'
  <2>1. <<"error", "done">> \in Seq(Items)
    BY DEF Contents, Payloads, Items
  <2>2. task' \in [Requests -> TaskRecord]
    BY <2>1, PushType DEF EmitErrorLine
  <2> QED BY <2>2 DEF EmitErrorLine, TypeOK, handlerVars
<1>2. NoTaskBeforeCall' /\ EmptiesBelow'
  BY DEF EmitErrorLine, Reading, Push, TypeOK, TaskRecord, NoTaskBeforeCall, EmptiesBelow, TaskAlive, handlerVars
<1>3. PermitConservation'
  <2>1. \A s \in Requests : TaskAlive(s)' <=> TaskAlive(s)
    BY DEF EmitErrorLine, Reading, Push, TypeOK, TaskRecord, TaskAlive
  <2>2. UNCHANGED <<permits, permit, handler>>
    BY DEF EmitErrorLine, handlerVars
  <2> QED BY <2>1, <2>2, SamePermits
<1>4. GaugeCoversOpen'
  BY DEF EmitErrorLine, GaugeCoversOpen, Open, taskVars, handlerVars
<1> QED BY <1>1, <1>2, <1>3, <1>4

(* The task stays alive with its last items to send. *)
LEMMA StreamFailsStep == ASSUME IInv, NEW r \in Requests, StreamFails(r) PROVE IInv'
<1> USE DEF IInv
<1>1. TypeOK'
  <2>1. <<"err">> \in Seq(Items)
    BY DEF Contents, Payloads, Items
  <2>2. task' \in [Requests -> TaskRecord]
    BY <2>1, PushType DEF StreamFails
  <2> QED BY <2>2 DEF StreamFails, TypeOK, handlerVars
<1>2. NoTaskBeforeCall' /\ EmptiesBelow'
  BY DEF StreamFails, Reading, Push, TypeOK, TaskRecord, NoTaskBeforeCall, EmptiesBelow, TaskAlive, handlerVars
<1>3. PermitConservation'
  <2>1. \A s \in Requests : TaskAlive(s)' <=> TaskAlive(s)
    BY DEF StreamFails, Reading, Push, TypeOK, TaskRecord, TaskAlive
  <2>2. UNCHANGED <<permits, permit, handler>>
    BY DEF StreamFails, handlerVars
  <2> QED BY <2>1, <2>2, SamePermits
<1>4. GaugeCoversOpen'
  BY DEF StreamFails, GaugeCoversOpen, Open, taskVars, handlerVars
<1> QED BY <1>1, <1>2, <1>3, <1>4

(* The task stays alive with its last items to send. *)
LEMMA UpstreamEofStep == ASSUME IInv, NEW r \in Requests, UpstreamEof(r) PROVE IInv'
<1> USE DEF IInv
<1>1. TypeOK'
  <2>1. PICK items \in Seq(Items) : Push(r, "ending", items)
    <3>1. /\ <<>> \in Seq(Items) /\ <<"done">> \in Seq(Items) /\ <<"error">> \in Seq(Items)
          /\ \A i \in Deltas : <<i, "done">> \in Seq(Items)
      BY DEF Deltas, Contents, Payloads, Items
    <3> QED BY <3>1 DEF UpstreamEof
  <2>2. task' \in [Requests -> TaskRecord]
    BY <2>1, PushType
  <2> QED BY <2>2 DEF UpstreamEof, TypeOK, handlerVars
<1>2. NoTaskBeforeCall' /\ EmptiesBelow'
  BY DEF UpstreamEof, Reading, Push, TypeOK, TaskRecord, NoTaskBeforeCall, EmptiesBelow, TaskAlive, handlerVars
<1>3. PermitConservation'
  <2>1. \A s \in Requests : TaskAlive(s)' <=> TaskAlive(s)
    BY DEF UpstreamEof, Reading, Push, TypeOK, TaskRecord, TaskAlive
  <2>2. UNCHANGED <<permits, permit, handler>>
    BY DEF UpstreamEof, handlerVars
  <2> QED BY <2>1, <2>2, SamePermits
<1>4. GaugeCoversOpen'
  BY DEF UpstreamEof, GaugeCoversOpen, Open, taskVars, handlerVars
<1> QED BY <1>1, <1>2, <1>3, <1>4

(* One item moves from the task to the channel. *)
LEMMA SendItemStep == ASSUME IInv, NEW r \in Requests, SendItem(r) PROVE IInv'
<1> USE DEF IInv
<1>1. TypeOK'
  <2>1. Tail(task[r].todo) \in Seq(Items) /\ Append(chan[r].q, Head(task[r].todo)) \in Seq(Items)
    BY DEF SendItem, TypeOK, TaskRecord, ChanRecord
  <2>2. task' \in [Requests -> TaskRecord] /\ chan' \in [Requests -> ChanRecord]
    <3> DEFINE t == [task[r] EXCEPT !.todo = Tail(task[r].todo)]
               c == [chan[r] EXCEPT !.q = Append(chan[r].q, Head(task[r].todo))]
    <3>1. t \in TaskRecord /\ c \in ChanRecord
      <4>1. task[r] \in TaskRecord /\ chan[r] \in ChanRecord
        BY DEF TypeOK
      <4>2. t \in TaskRecord
        BY <2>1, <4>1 DEF TaskRecord
      <4>3. c \in ChanRecord
        BY <2>1, <4>1 DEF ChanRecord
      <4> QED BY <4>2, <4>3
    <3>2. task' = [task EXCEPT ![r] = t] /\ chan' = [chan EXCEPT ![r] = c]
      BY DEF SendItem
    <3> HIDE DEF t, c
    <3> QED BY <3>1, <3>2 DEF TypeOK
  <2> QED BY <2>2 DEF SendItem, TypeOK, handlerVars
<1>2. NoTaskBeforeCall' /\ EmptiesBelow'
  BY DEF SendItem, Reading, Push, TypeOK, TaskRecord, NoTaskBeforeCall, EmptiesBelow, TaskAlive, handlerVars
<1>3. PermitConservation'
  <2>1. \A s \in Requests : TaskAlive(s)' <=> TaskAlive(s)
    BY DEF SendItem, Reading, Push, TypeOK, TaskRecord, TaskAlive
  <2>2. UNCHANGED <<permits, permit, handler>>
    BY DEF SendItem, handlerVars
  <2> QED BY <2>1, <2>2, SamePermits
<1>4. GaugeCoversOpen'
  BY DEF SendItem, GaugeCoversOpen, Open, taskVars, handlerVars
<1> QED BY <1>1, <1>2, <1>3, <1>4

(* A task that returns gives its permit back; nothing of the handler moves. *)
LEMMA TaskExitsStep == ASSUME IInv, NEW r \in Requests, TaskAlive(r), TaskExits(r) PROVE IInv'
<1> USE DEF IInv
<1>1. permit[r] = "task"
  BY DEF PermitConservation
<1>2. TypeOK'
  <2>1. task' \in [Requests -> TaskRecord]
    BY FreshRecords DEF TaskExits, TypeOK
  <2>2. permits' \in 0..MaxConcurrent /\ permit' \in [Requests -> {"none", "call", "task"}]
    BY <1>1, ReleaseCount DEF TaskExits
  <2> QED BY <2>1, <2>2 DEF TaskExits, handlerVars, TypeOK
<1>3. NoTaskBeforeCall' /\ EmptiesBelow'
  BY DEF TaskExits, TaskAt, handlerVars, TypeOK, NoTaskBeforeCall, EmptiesBelow, TaskAlive
<1>4. PermitConservation'
  <2>1. Limited => permits' + Cardinality(Holders') = MaxConcurrent
    BY <1>1, ReleaseCount DEF TaskExits
  <2>2. \A s \in Requests :
           /\ permit'[s] = "call" <=> handler'[s] = "exchange"
           /\ permit'[s] = "task" <=> TaskAlive(s)'
    BY <1>1 DEF TaskExits, ReleasePermit, Give, handlerVars, TypeOK, PermitConservation, TaskAlive, TaskAt
  <2> QED BY <2>1, <2>2 DEF PermitConservation, Limited
<1>5. GaugeCoversOpen'
  BY DEF TaskExits, handlerVars, GaugeCoversOpen, Open
<1> QED BY <1>2, <1>3, <1>4, <1>5

(* The ways a reader task returns. *)
LEMMA ExitingStep ==
    ASSUME IInv, NEW r \in Requests,
           BufferOverflow(r) \/ ObserveCancel(r) \/ SendFails(r) \/ EndTask(r)
    PROVE  IInv'
BY TaskExitsStep DEF BufferOverflow, ObserveCancel, SendFails, EndTask, Reading, TaskAlive

(* Cancelling keeps the channel's type. *)
LEMMA CancelType ==
    ASSUME TypeOK, NEW r \in Requests, Cancel(r) PROVE chan' \in [Requests -> ChanRecord]
BY DEF Cancel, TypeOK, ChanRecord

(* What the end of a handler leaves behind is of its type. *)
LEMMA ReturnType ==
    ASSUME TypeOK, NEW r \in Requests, Return(r)
    PROVE  /\ handler' \in [Requests -> HandlerPoints]
           /\ open' \in [Requests -> BOOLEAN]
           /\ empties' \in [Requests -> 0..MaxAttempts]
           /\ chan' \in [Requests -> ChanRecord]
<1>1. /\ handler' \in [Requests -> HandlerPoints]
      /\ open' \in [Requests -> BOOLEAN]
      /\ empties' \in [Requests -> 0..MaxAttempts]
  BY RelayAssumption DEF Return, Goto, TypeOK, HandlerPoints, MaxAttempts
<1>2. chan' \in [Requests -> ChanRecord]
  <2>1. <<>> \in Seq(Items)
    OBVIOUS
  <2> QED BY <2>1 DEF Return, TypeOK, ChanRecord
<1> QED BY <1>1, <1>2

(* Setting one field of a reply to a value of its type. *)
LEMMA ReplyFields ==
    ASSUME TypeOK, NEW r \in Requests
    PROVE  /\ \A h \in {"none", "sse", "json", "error"} : [reply[r] EXCEPT !.head = h] \in ReplyRecord
           /\ \A i \in Items \union {"none"} : [reply[r] EXCEPT !.first = i] \in ReplyRecord
           /\ \A b \in BOOLEAN : [reply[r] EXCEPT !.late = b] \in ReplyRecord
<1>1. reply[r] \in ReplyRecord
  BY DEF TypeOK
<1> HIDE DEF TypeOK
<1>2. \A h \in {"none", "sse", "json", "error"} : [reply[r] EXCEPT !.head = h] \in ReplyRecord
  BY <1>1 DEF ReplyRecord
<1>3. \A i \in Items \union {"none"} : [reply[r] EXCEPT !.first = i] \in ReplyRecord
  BY <1>1 DEF ReplyRecord
<1>4. \A b \in BOOLEAN : [reply[r] EXCEPT !.late = b] \in ReplyRecord
  BY <1>1 DEF ReplyRecord
<1> QED BY <1>2, <1>3, <1>4

(* Replacing one request's reply by a well-formed one. *)
LEMMA ReplyType ==
    ASSUME TypeOK, NEW r \in Requests, NEW t \in ReplyRecord,
           reply' = [reply EXCEPT ![r] = t]
    PROVE  reply' \in [Requests -> ReplyRecord]
BY DEF TypeOK

(* An error answer ends the handler; the gauge may keep counting the stream. *)
LEMMA ReplyErrorStep == ASSUME IInv, NEW r \in Requests, ReplyError(r) PROVE IInv'
<1> USE DEF IInv
<1>1. TypeOK'
  <2>1. reply' \in [Requests -> ReplyRecord]
    <3>1. [reply[r] EXCEPT !.head = "error"] \in ReplyRecord
      BY ReplyFields
    <3>2. reply' = [reply EXCEPT ![r] = [@ EXCEPT !.head = "error"]] \/ reply' = reply
      BY DEF ReplyError
    <3> QED BY <3>1, <3>2, ReplyType DEF TypeOK
  <2>2. gauge' \in Nat
    BY ReturnGauge DEF ReplyError, Return, TypeOK
  <2> QED BY <2>1, <2>2, ReturnType DEF ReplyError, taskVars, TypeOK
<1>2. NoTaskBeforeCall' /\ EmptiesBelow'
  BY RelayAssumption DEF ReplyError, TypeOK, NoTaskBeforeCall, EmptiesBelow, TaskAlive, Goto, MaxAttempts, taskVars, handlerVars, Return
<1>3. PermitConservation'
  <2>1. UNCHANGED <<permits, permit, task>> /\ Goto(r, "done") /\ handler[r] # "exchange"
    BY DEF ReplyError, taskVars, Return
  <2> QED BY <2>1, SameExchange DEF HandlerPoints
<1>4. GaugeCoversOpen'
  BY ReturnGauge DEF ReplyError, Return
<1> QED BY <1>1, <1>2, <1>3, <1>4

(* A JSON answer ends the handler. *)
LEMMA ReplyJsonStep == ASSUME IInv, NEW r \in Requests, ReplyJson(r) PROVE IInv'
<1> USE DEF IInv
<1>1. TypeOK'
  <2>1. reply' \in [Requests -> ReplyRecord]
    <3>1. [reply[r] EXCEPT !.head = "json"] \in ReplyRecord
      BY ReplyFields
    <3>2. reply' = [reply EXCEPT ![r] = [@ EXCEPT !.head = "json"]] \/ reply' = reply
      BY DEF ReplyJson
    <3> QED BY <3>1, <3>2, ReplyType DEF TypeOK
  <2>2. gauge' \in Nat
    BY ReturnGauge DEF ReplyJson, Return, TypeOK
  <2> QED BY <2>1, <2>2, ReturnType DEF ReplyJson, taskVars, TypeOK
<1>2. NoTaskBeforeCall' /\ EmptiesBelow'
  BY RelayAssumption DEF ReplyJson, TypeOK, NoTaskBeforeCall, EmptiesBelow, TaskAlive, Goto, MaxAttempts, taskVars, handlerVars, Return
<1>3. PermitConservation'
  <2>1. UNCHANGED <<permits, permit, task>> /\ Goto(r, "done") /\ handler[r] # "exchange"
    BY DEF ReplyJson, taskVars, Return
  <2> QED BY <2>1, SameExchange DEF HandlerPoints
<1>4. GaugeCoversOpen'
  BY ReturnGauge DEF ReplyJson, Return
<1> QED BY <1>1, <1>2, <1>3, <1>4

(* The end of a relayed stream. *)
LEMMA CloseStreamStep == ASSUME IInv, NEW r \in Requests, CloseStream(r) PROVE IInv'
<1> USE DEF IInv
<1>1. TypeOK'
  <2>1. reply' \in [Requests -> ReplyRecord]
    <3> DEFINE b == ~chan[r].cancelled /\ reply[r].chunks
    <3>1. b \in BOOLEAN
      BY DEF TypeOK, ChanRecord, ReplyRecord
    <3> HIDE DEF b
    <3>3. [reply[r] EXCEPT !.late = b] \in ReplyRecord
      BY <3>1, ReplyFields
    <3>2. reply' = [reply EXCEPT ![r] = [@ EXCEPT !.late = b]]
      BY DEF CloseStream, b
    <3> QED BY <3>2, <3>3, ReplyType
  <2>2. gauge' \in Nat
    BY ReturnGauge DEF CloseStream, Return, TypeOK
  <2> QED BY <2>1, <2>2, ReturnType DEF CloseStream, taskVars, TypeOK
<1>2. NoTaskBeforeCall' /\ EmptiesBelow'
  BY RelayAssumption DEF CloseStream, TypeOK, NoTaskBeforeCall, EmptiesBelow, TaskAlive, Goto, MaxAttempts, taskVars, handlerVars, Return
<1>3. PermitConservation'
  <2>1. UNCHANGED <<permits, permit, task>> /\ Goto(r, "done") /\ handler[r] # "exchange"
    BY DEF CloseStream, taskVars, Return
  <2> QED BY <2>1, SameExchange DEF HandlerPoints
<1>4. GaugeCoversOpen'
  BY ReturnGauge DEF CloseStream, Return
<1> QED BY <1>1, <1>2, <1>3, <1>4

(* An empty stream is counted; the handler calls again only below the limit. *)
LEMMA EmptyStreamStep == ASSUME IInv, NEW r \in Requests, EmptyStream(r) PROVE IInv'
<1> USE DEF IInv
<1>1. TypeOK'
  <2>1. empties' \in [Requests -> 0..MaxAttempts]
    BY RelayAssumption DEF EmptyStream, EmptiesBelow, TypeOK, MaxAttempts
  <2>2. chan' \in [Requests -> ChanRecord]
    BY CancelType DEF EmptyStream
  <2> QED BY <2>1, <2>2 DEF EmptyStream, Goto, taskVars, TypeOK, HandlerPoints
<1>2. NoTaskBeforeCall' /\ EmptiesBelow'
  BY RelayAssumption DEF EmptyStream, TypeOK, NoTaskBeforeCall, EmptiesBelow, TaskAlive, Goto, MaxAttempts, taskVars, handlerVars, Closed
<1>3. PermitConservation'
  <2>1. PICK l \in HandlerPoints \ {"exchange"} : Goto(r, l)
    BY DEF EmptyStream, HandlerPoints
  <2>2. UNCHANGED <<permits, permit, task>> /\ handler[r] # "exchange"
    BY DEF EmptyStream, taskVars
  <2> QED BY <2>1, <2>2, SameExchange
<1>4. GaugeCoversOpen'
  BY DEF EmptyStream, GaugeCoversOpen, Open, taskVars, handlerVars
<1> QED BY <1>1, <1>2, <1>3, <1>4

(* The idle timer cancels the stream. *)
LEMMA FirstChunkTimeoutStep == ASSUME IInv, NEW r \in Requests, FirstChunkTimeout(r) PROVE IInv'
<1> USE DEF IInv
<1>1. TypeOK'
  BY CancelType DEF FirstChunkTimeout, Goto, taskVars, TypeOK, HandlerPoints
<1>2. NoTaskBeforeCall' /\ EmptiesBelow'
  BY RelayAssumption DEF FirstChunkTimeout, TypeOK, NoTaskBeforeCall, EmptiesBelow, TaskAlive, Goto, MaxAttempts, taskVars, handlerVars
<1>3. PermitConservation'
  <2>1. UNCHANGED <<permits, permit, task>> /\ Goto(r, "noChunk") /\ handler[r] # "exchange"
    BY DEF FirstChunkTimeout, taskVars
  <2> QED BY <2>1, SameExchange DEF HandlerPoints
<1>4. GaugeCoversOpen'
  BY DEF FirstChunkTimeout, GaugeCoversOpen, Open, taskVars, handlerVars
<1> QED BY <1>1, <1>2, <1>3, <1>4

(* The idle timer cancels the stream. *)
LEMMA StreamTimeoutStep == ASSUME IInv, NEW r \in Requests, StreamTimeout(r) PROVE IInv'
<1> USE DEF IInv
<1>1. TypeOK'
  BY CancelType DEF StreamTimeout, Goto, taskVars, TypeOK, HandlerPoints
<1>2. NoTaskBeforeCall' /\ EmptiesBelow'
  BY RelayAssumption DEF StreamTimeout, TypeOK, NoTaskBeforeCall, EmptiesBelow, TaskAlive, Goto, MaxAttempts, taskVars, handlerVars
<1>3. PermitConservation'
  <2>1. UNCHANGED <<permits, permit, task>> /\ Goto(r, "close") /\ handler[r] # "exchange"
    BY DEF StreamTimeout, taskVars
  <2> QED BY <2>1, SameExchange DEF HandlerPoints
<1>4. GaugeCoversOpen'
  BY DEF StreamTimeout, GaugeCoversOpen, Open, taskVars, handlerVars
<1> QED BY <1>1, <1>2, <1>3, <1>4

(* The relay loop ends. *)
LEMMA StreamEndsStep == ASSUME IInv, NEW r \in Requests, StreamEnds(r) PROVE IInv'
<1> USE DEF IInv
<1>1. TypeOK'
  BY DEF StreamEnds, Goto, taskVars, TypeOK, HandlerPoints
<1>2. NoTaskBeforeCall' /\ EmptiesBelow'
  BY RelayAssumption DEF StreamEnds, TypeOK, NoTaskBeforeCall, EmptiesBelow, TaskAlive, Goto, MaxAttempts, taskVars, handlerVars
<1>3. PermitConservation'
  <2>1. UNCHANGED <<permits, permit, task>> /\ Goto(r, "close") /\ handler[r] # "exchange"
    BY DEF StreamEnds, taskVars
  <2> QED BY <2>1, SameExchange DEF HandlerPoints
<1>4. GaugeCoversOpen'
  BY DEF StreamEnds, GaugeCoversOpen, Open, taskVars, handlerVars
<1> QED BY <1>1, <1>2, <1>3, <1>4

(* Taking the head off the channel, with or without cancelling, keeps its type. *)
LEMMA RestType ==
    ASSUME TypeOK, NEW r \in Requests, NEW q \in Seq(Items),
           \/ chan' = [chan EXCEPT ![r] = [@ EXCEPT !.q = q]]
           \/ chan' = [chan EXCEPT ![r] = [@ EXCEPT !.q = q, !.cancelled = TRUE]]
    PROVE  chan' \in [Requests -> ChanRecord]
<1>1. chan[r] \in ChanRecord
  BY DEF TypeOK
<1>2. [chan[r] EXCEPT !.q = q] \in ChanRecord
  BY <1>1 DEF ChanRecord
<1>3. [chan[r] EXCEPT !.q = q, !.cancelled = TRUE] \in ChanRecord
  BY <1>1 DEF ChanRecord
<1> QED BY <1>2, <1>3 DEF TypeOK

(* Rendering and writing one payload. *)
LEMMA DeliverStep ==
    ASSUME TypeOK, NEW r \in Requests, NEW i, NEW q \in Seq(Items), Deliver(r, i, q)
    PROVE  /\ reply' \in [Requests -> ReplyRecord]
           /\ chan' \in [Requests -> ChanRecord]
           /\ Goto(r, "stream") \/ Goto(r, "close")
<1> DEFINE t(b) == [reply[r] EXCEPT !.head = "sse", !.first = "none", !.started = TRUE,
                        !.finished  = reply[r].finished \/ i = "finish",
                        !.chunks    = reply[r].chunks \/ b,
                        !.sawFinish = reply[r].sawFinish \/ (b /\ i = "finish")]
           shown == Renders(reply[r].dialect, reply[r].started, reply[r].finished, i)
<1>1. \A b : t(b) \in ReplyRecord
  <2>1. reply[r] \in ReplyRecord
    BY DEF TypeOK
  <2> QED BY <2>1 DEF ReplyRecord
<1>2. \/ reply' = [reply EXCEPT ![r] = t(shown)]
      \/ reply' = [reply EXCEPT ![r] = t(FALSE)]
  BY DEF Deliver
<1>3. chan' \in [Requests -> ChanRecord]
  BY RestType DEF Deliver
<1>4. Goto(r, "stream") \/ Goto(r, "close")
  BY DEF Deliver
<1> HIDE DEF t, shown
<1>5. reply' \in [Requests -> ReplyRecord]
  BY <1>1, <1>2, ReplyType
<1> QED BY <1>3, <1>4, <1>5

(* What is in the channel: a nonempty queue has a head and a rest. *)
LEMMA HeadTail ==
    ASSUME TypeOK, NEW r \in Requests
    PROVE  /\ chan[r].q \in Seq(Items)
           /\ chan[r].q # <<>> => Head(chan[r].q) \in Items /\ Tail(chan[r].q) \in Seq(Items)
<1>1. chan[r].q \in Seq(Items)
  BY DEF TypeOK, ChanRecord
<1> QED BY <1>1

(* The first item decides between the 200 header and an error. *)
LEMMA FirstChunkStep == ASSUME IInv, NEW r \in Requests, FirstChunk(r) PROVE IInv'
<1> USE DEF IInv
<1>1. TypeOK'
  <2>1. chan' \in [Requests -> ChanRecord]
    BY HeadTail, RestType DEF FirstChunk, Receive
  <2>2. reply' \in [Requests -> ReplyRecord]
    <3>1. [reply[r] EXCEPT !.first = Head(chan[r].q)] \in ReplyRecord
      BY HeadTail, ReplyFields DEF FirstChunk
    <3> QED BY <3>1, ReplyType DEF FirstChunk, TypeOK
  <2> QED BY <2>1, <2>2 DEF FirstChunk, Goto, taskVars, TypeOK, HandlerPoints
<1>2. NoTaskBeforeCall' /\ EmptiesBelow'
  <2>1. Goto(r, "noChunk") \/ Goto(r, "header")
    BY DeliverStep, HeadTail DEF FirstChunk, IInv
  <2> QED BY <2>1 DEF FirstChunk, TypeOK, NoTaskBeforeCall, EmptiesBelow, TaskAlive, Goto, taskVars
<1>3. PermitConservation'
  <2>1. Goto(r, "noChunk") \/ Goto(r, "header")
    BY DeliverStep, HeadTail DEF FirstChunk, IInv
  <2>2. UNCHANGED <<permits, permit, task>> /\ handler[r] # "exchange"
    BY DEF FirstChunk, taskVars
  <2> QED BY <2>1, <2>2, SameExchange DEF HandlerPoints
<1>4. GaugeCoversOpen'
  BY DEF FirstChunk, GaugeCoversOpen, Open, taskVars, handlerVars
<1> QED BY <1>1, <1>2, <1>3, <1>4

(* The header and the first chunk. *)
LEMMA WriteHeaderStep == ASSUME IInv, NEW r \in Requests, WriteHeader(r) PROVE IInv'
<1> USE DEF IInv
<1>1. TypeOK'
  <2>1. chan' \in [Requests -> ChanRecord]
    BY HeadTail, DeliverStep, CancelType DEF WriteHeader
  <2>2. reply' \in [Requests -> ReplyRecord] /\ (Goto(r, "stream") \/ Goto(r, "close"))
    <3>1. [reply[r] EXCEPT !.first = "none"] \in ReplyRecord
      BY ReplyFields
    <3> QED BY <3>1, HeadTail, DeliverStep, ReplyType DEF WriteHeader
  <2> QED BY <2>1, <2>2 DEF WriteHeader, Goto, taskVars, TypeOK, HandlerPoints
<1>2. NoTaskBeforeCall' /\ EmptiesBelow'
  <2>1. Goto(r, "stream") \/ Goto(r, "close")
    BY DeliverStep, HeadTail DEF WriteHeader, IInv
  <2> QED BY <2>1 DEF WriteHeader, TypeOK, NoTaskBeforeCall, EmptiesBelow, TaskAlive, Goto, taskVars
<1>3. PermitConservation'
  <2>1. Goto(r, "stream") \/ Goto(r, "close")
    BY DeliverStep, HeadTail DEF WriteHeader, IInv
  <2>2. UNCHANGED <<permits, permit, task>> /\ handler[r] # "exchange"
    BY DEF WriteHeader, taskVars
  <2> QED BY <2>1, <2>2, SameExchange DEF HandlerPoints
<1>4. GaugeCoversOpen'
  BY DEF WriteHeader, GaugeCoversOpen, Open, taskVars, handlerVars
<1> QED BY <1>1, <1>2, <1>3, <1>4

(* One more chunk, or an error item that aborts. *)
LEMMA RelayChunkStep == ASSUME IInv, NEW r \in Requests, RelayChunk(r) PROVE IInv'
<1> USE DEF IInv
<1>1. TypeOK'
  <2>1. chan' \in [Requests -> ChanRecord]
    BY HeadTail, DeliverStep, RestType DEF RelayChunk
  <2>2. reply' \in [Requests -> ReplyRecord] /\ (Goto(r, "stream") \/ Goto(r, "close"))
    BY HeadTail, DeliverStep DEF RelayChunk, TypeOK
  <2> QED BY <2>1, <2>2 DEF RelayChunk, Goto, taskVars, TypeOK, HandlerPoints
<1>2. NoTaskBeforeCall' /\ EmptiesBelow'
  <2>1. Goto(r, "stream") \/ Goto(r, "close")
    BY DeliverStep, HeadTail DEF RelayChunk, IInv
  <2> QED BY <2>1 DEF RelayChunk, TypeOK, NoTaskBeforeCall, EmptiesBelow, TaskAlive, Goto, taskVars
<1>3. PermitConservation'
  <2>1. Goto(r, "stream") \/ Goto(r, "close")
    BY DeliverStep, HeadTail DEF RelayChunk, IInv
  <2>2. UNCHANGED <<permits, permit, task>> /\ handler[r] # "exchange"
    BY DEF RelayChunk, taskVars
  <2> QED BY <2>1, <2>2, SameExchange DEF HandlerPoints
<1>4. GaugeCoversOpen'
  BY DEF RelayChunk, GaugeCoversOpen, Open, taskVars, handlerVars
<1> QED BY <1>1, <1>2, <1>3, <1>4

(* Every step preserves the invariant. *)
LEMMA NextIInv == IInv /\ [Next]_vars => IInv'
<1> SUFFICES ASSUME IInv, [Next]_vars PROVE IInv'
  OBVIOUS
<1>1. CASE UNCHANGED vars
  BY <1>1 DEF vars, IInv, TypeOK, NoTaskBeforeCall, EmptiesBelow, PermitConservation,
              GaugeCoversOpen, Holders, Open, TaskAlive
<1>2. ASSUME NEW r \in Requests, Start(r) \/ ClientLeaves(r) PROVE IInv'
  BY <1>2, StartStep, ClientLeavesStep
<1>3. ASSUME NEW r \in Requests, HandlerStep(r) PROVE IInv'
  BY <1>3, AcquireStep, RefreshCredentialStep, RetryAttemptStep, ForwardFailsStep,
     ForwardJsonStep, ForwardStreamStep, ReplyErrorStep, ReplyJsonStep, FirstChunkStep,
     EmptyStreamStep, FirstChunkTimeoutStep, WriteHeaderStep, RelayChunkStep,
     StreamTimeoutStep, StreamEndsStep, CloseStreamStep DEF HandlerStep
<1>4. ASSUME NEW r \in Requests, TaskStep(r) PROVE IInv'
  BY <1>4, EmitLineStep, EmitErrorLineStep, StreamFailsStep, UpstreamEofStep, SendItemStep,
     ExitingStep DEF TaskStep
<1> QED BY <1>1, <1>2, <1>3, <1>4 DEF Next, AllDone

(* The inductive invariant holds in every reachable state. *)
LEMMA Invariance == Spec => []IInv
BY InitIInv, NextIInv, PTL DEF Spec

(* Type correctness of the relay. *)
THEOREM RelayTypeCorrect == Spec => []TypeOK
<1>1. IInv => TypeOK
  BY DEF IInv
<1> QED BY <1>1, Invariance, PTL

(* No permit is lost, doubled, or held by anyone but the exchanging call or *)
(* the live reader task, whatever the interleaving of handler, reader,      *)
(* client and retries (upstream.rs 95-101 and 231-244).                     *)
THEOREM PermitsConserved == Spec => []PermitConservation
<1>1. IInv => PermitConservation
  BY DEF IInv
<1> QED BY <1>1, Invariance, PTL

(* The requests with an upstream exchange or a live upstream stream never   *)
(* outnumber max_concurrent: the reader task keeps the permit to its end.   *)
THEOREM ConcurrencyBounded == Spec => []StreamsBounded
<1>1. IInv => StreamsBounded
  <2> SUFFICES ASSUME IInv, Limited PROVE Cardinality(Exchanging) <= MaxConcurrent
    BY DEF StreamsBounded
  <2>1. Exchanging = Holders
    BY DEF IInv, TypeOK, PermitConservation, Exchanging, Holders
  <2>2. IsFiniteSet(Holders) /\ Cardinality(Holders) \in Nat
    BY RelayAssumption, FS_Subset, FS_CardinalityType DEF Holders
  <2>3. permits \in Nat /\ permits + Cardinality(Holders) = MaxConcurrent
    BY RelayAssumption DEF IInv, TypeOK, PermitConservation
  <2> QED BY <2>1, <2>2, <2>3, RelayAssumption
<1> QED BY <1>1, Invariance, PTL

(* The active_streams gauge never undercounts the open streams. *)
THEOREM GaugeNeverUndercounts == Spec => []GaugeCoversOpen
<1>1. IInv => GaugeCoversOpen
  BY DEF IInv
<1> QED BY <1>1, Invariance, PTL

(* What bounds the load and what reports it agree in every reachable state, *)
(* for any number of requests and permits.                                  *)
THEOREM ResourcesConserved == Spec => []ResourcesAccounted
<1>1. PermitConservation /\ StreamsBounded /\ GaugeCoversOpen => ResourcesAccounted
  BY DEF ResourcesAccounted
<1> QED BY <1>1, PermitsConserved, ConcurrencyBounded, GaugeNeverUndercounts, PTL

(* What a step does to the set of holders. *)
LEMMA HoldersStep ==
    ASSUME IInv, Next
    PROVE  \/ \E r \in Requests : /\ r \notin Holders /\ Holders' = Holders \union {r}
                                  /\ Limited => Cardinality(Holders) < MaxConcurrent
           \/ \E r \in Requests : r \in Holders /\ Holders' = Holders \ {r}
           \/ Holders' = Holders
<1>1. ASSUME NEW r \in Requests, Acquire(r)
      PROVE  /\ r \notin Holders /\ Holders' = Holders \union {r}
             /\ Limited => Cardinality(Holders) < MaxConcurrent
  <2>1. permit[r] = "none"
    BY <1>1 DEF Acquire, IInv, TypeOK, PermitConservation, NoTaskBeforeCall
  <2>2. r \notin Holders /\ Holders' = Holders \union {r}
    BY <1>1, <2>1 DEF Acquire, Give, IInv, TypeOK, Holders
  <2>3. IsFiniteSet(Holders) /\ Cardinality(Holders) \in Nat
    BY RelayAssumption, FS_Subset, FS_CardinalityType DEF Holders
  <2>4. Limited => Cardinality(Holders) < MaxConcurrent
    BY <1>1, <2>3, RelayAssumption DEF Acquire, IInv, TypeOK, PermitConservation
  <2> QED BY <2>2, <2>4
<1>2. ASSUME NEW r \in Requests, permit[r] # "none", ReleasePermit(r)
      PROVE  r \in Holders /\ Holders' = Holders \ {r}
  BY <1>2 DEF ReleasePermit, Give, IInv, TypeOK, Holders
<1>3. ASSUME NEW r \in Requests, ForwardStream(r) PROVE Holders' = Holders
  <2>1. permit[r] = "call"
    BY <1>3 DEF ForwardStream, IInv, PermitConservation, TypeOK
  <2> QED BY <1>3, <2>1 DEF ForwardStream, Give, IInv, TypeOK, Holders
<1>4. ASSUME UNCHANGED permit PROVE Holders' = Holders
  BY <1>4 DEF Holders
<1>5. ASSUME NEW r \in Requests, ForwardFails(r) \/ ForwardJson(r)
      PROVE  permit[r] # "none" /\ ReleasePermit(r)
  BY <1>5 DEF ForwardFails, ForwardJson, IInv, PermitConservation, TypeOK
<1>6. ASSUME NEW r \in Requests, BufferOverflow(r) \/ ObserveCancel(r) \/ SendFails(r) \/ EndTask(r)
      PROVE  permit[r] # "none" /\ ReleasePermit(r)
  BY <1>6 DEF BufferOverflow, ObserveCancel, SendFails, EndTask, TaskExits, Reading, TaskAlive,
              IInv, PermitConservation
<1>7. ASSUME NEW r \in Requests, HandlerStep(r)
      PROVE  \/ Acquire(r) \/ ForwardFails(r) \/ ForwardJson(r) \/ ForwardStream(r)
             \/ UNCHANGED permit
  BY <1>7 DEF HandlerStep, RefreshCredential, RetryAttempt, ReplyError, ReplyJson, FirstChunk,
              EmptyStream, FirstChunkTimeout, WriteHeader, RelayChunk, StreamTimeout, StreamEnds,
              CloseStream, taskVars
<1>8. ASSUME NEW r \in Requests, TaskStep(r)
      PROVE  \/ BufferOverflow(r) \/ ObserveCancel(r) \/ SendFails(r) \/ EndTask(r)
             \/ UNCHANGED permit
  BY <1>8 DEF TaskStep, EmitLine, EmitErrorLine, StreamFails, UpstreamEof, SendItem
<1>9. ASSUME NEW r \in Requests, Start(r) \/ ClientLeaves(r) PROVE UNCHANGED permit
  BY <1>9 DEF Start, ClientLeaves
<1>10. ASSUME AllDone PROVE UNCHANGED permit
  BY <1>10 DEF AllDone, vars
<1> QED BY <1>1, <1>2, <1>3, <1>4, <1>5, <1>6, <1>7, <1>8, <1>9, <1>10 DEF Next

(* The instance has its own name for the cardinality operator. *)
LEMMA SameCardinality == \A S : Load!Cardinality(S) = Cardinality(S)
BY DEF Load!Cardinality, Cardinality

(* The relay implements the abstract concurrency limit: each of its steps   *)
(* lets one request in below the limit, lets one out, or changes nothing.   *)
THEOREM ImplementsLimit == Spec => LoadSafety
<1>1. ASSUME IInv PROVE Exchanging = Holders
  BY <1>1 DEF IInv, TypeOK, PermitConservation, Exchanging, Holders
<1>2. Init => Load!LimitInit
  BY DEF Init, Load!LimitInit, Exchanging, TaskAlive, TaskAt
<1>3. IInv /\ IInv' /\ [Next]_vars => [Load!LimitNext]_Exchanging
  <2> SUFFICES ASSUME IInv, IInv', [Next]_vars PROVE [Load!LimitNext]_Exchanging
    OBVIOUS
  <2>1. Exchanging = Holders /\ Exchanging' = Holders'
    <3>1. Exchanging' = Holders'
      BY DEF IInv, TypeOK, PermitConservation, Exchanging, Holders
    <3> QED BY <1>1, <3>1
  <2>2. CASE UNCHANGED vars
    BY <2>1, <2>2 DEF vars, Holders
  <2>3. CASE Next
    BY <2>1, <2>3, HoldersStep, SameCardinality DEF Load!LimitNext, Load!Enter, Load!Leave, Limited
  <2> QED BY <2>2, <2>3
<1> QED
  BY <1>2, <1>3, Invariance, PTL DEF Spec, LoadSafety, Load!LimitSafety
(***************************************************************************)
(* What is written and what is stored.  While the handler waits for the    *)
(* first item of a stream, everything the reader has made of the stream is *)
(* in the channel or still in the reader's hands; [DONE] can then be the   *)
(* next item only if the reader remembers a delta that is ahead of it.     *)
(* A Responses stream always writes its first payload, so that CloseStream *)
(* finds every one that was not aborted with chunks: what is stored was    *)
(* answered as JSON.                                                       *)
(***************************************************************************)
(* [DONE] is not the next item of a stream nothing was received of. *)
FirstInLine(r) ==
    handler[r] = "first" =>
        /\ chan[r].q # <<>> => Head(chan[r].q) # "done"
        /\ chan[r].q = <<>> /\ task[r].todo # <<>> => Head(task[r].todo) # "done"
        /\ chan[r].q = <<>> /\ task[r].todo = <<>> /\ task[r].st = "reading"
              => ~task[r].emitted /\ ~task[r].finish

HeaderHasContent(r) == handler[r] = "header" => reply[r].first \in Contents

(* Before the first payload is fed, nothing was written. *)
BeforeAnswer == {"idle", "acquire", "exchange", "fail", "json", "first", "noChunk", "header"}
NothingWritten(r) ==
    handler[r] \in BeforeAnswer =>
        reply[r].head = "none" /\ ~reply[r].started /\ ~reply[r].finished

(* A request that does not stream has no channel to cancel. *)
StreamOnly(r) ==
    /\ handler[r] = "idle" => ~chan[r].cancelled
    /\ ~reply[r].stream => /\ handler[r] \in {"idle", "acquire", "exchange", "fail", "json", "done"}
                           /\ ~chan[r].cancelled
    /\ handler[r] = "json" => ~reply[r].stream

(* A Responses stream that was not aborted has written a chunk. *)
ChunkWritten(r) ==
    /\ reply[r].dialect = "responses"
    /\ handler[r] = "stream" \/ (handler[r] = "close" /\ ~chan[r].cancelled)
    => reply[r].chunks

StoredAnswered(r) ==
    r \in stored => handler[r] = "done" /\ reply[r].head # "error" /\ ~reply[r].stream

(* The inductive invariant of the answers. *)
AnswerOk(r) == /\ FirstInLine(r) /\ HeaderHasContent(r) /\ NothingWritten(r)
               /\ StreamOnly(r) /\ ChunkWritten(r) /\ StoredAnswered(r)
AnswerInv == \A r \in Requests : AnswerOk(r)

(* Nothing was received, written or stored at the start. *)
LEMMA AnswerInit == Init => AnswerInv
  BY DEF Init, AnswerInv, AnswerOk, FirstInLine, HeaderHasContent, NothingWritten, StreamOnly,
         ChunkWritten, StoredAnswered, NewChan, NewReply, TaskAt

(* What a request's step leaves alone keeps the other requests' answers.   *)
LEMMA OthersUntouched ==
    ASSUME AnswerInv, NEW r \in Requests, NEW s \in Requests, s # r,
           handler'[s] = handler[s], chan'[s] = chan[s], task'[s] = task[s], reply'[s] = reply[s],
           s \in stored' <=> s \in stored
    PROVE  AnswerOk(s)'
<1>1. AnswerOk(s)
  BY DEF AnswerInv
<1> QED BY <1>1 DEF AnswerOk, FirstInLine, HeaderHasContent, NothingWritten, StreamOnly,
                    ChunkWritten, StoredAnswered

(* A request's step leaves the other requests' state alone. *)
LEMMA OnlyOwnState ==
    ASSUME IInv, NEW r \in Requests, NEW s \in Requests, s # r,
           Start(r) \/ ClientLeaves(r) \/ HandlerStep(r) \/ TaskStep(r)
    PROVE  /\ handler'[s] = handler[s] /\ chan'[s] = chan[s] /\ task'[s] = task[s]
           /\ reply'[s] = reply[s] /\ (s \in stored' <=> s \in stored)
<1> USE DEF IInv, TypeOK, Goto
<1>1. CASE Start(r) \/ ClientLeaves(r)
  BY <1>1 DEF Start, ClientLeaves
<1>2. CASE HandlerStep(r)
  <2>1. CASE Acquire(r) \/ RefreshCredential(r) \/ RetryAttempt(r) \/ ForwardFails(r) \/ ForwardJson(r)
    BY <2>1 DEF Acquire, RefreshCredential, RetryAttempt, ForwardFails, ForwardJson
  <2>2. CASE ForwardStream(r)
    BY <2>2 DEF ForwardStream
  <2>3. CASE ReplyError(r) \/ ReplyJson(r) \/ CloseStream(r)
    BY <2>3 DEF ReplyError, ReplyJson, CloseStream, Return, taskVars
  <2>4. CASE FirstChunk(r) \/ EmptyStream(r) \/ FirstChunkTimeout(r) \/ StreamTimeout(r) \/ StreamEnds(r)
    BY <2>4 DEF FirstChunk, EmptyStream, FirstChunkTimeout, StreamTimeout, StreamEnds, Receive, Cancel, taskVars
  <2>5. CASE WriteHeader(r) \/ RelayChunk(r)
    BY <2>5 DEF WriteHeader, RelayChunk, Deliver, Cancel, taskVars
  <2> QED BY <1>2, <2>1, <2>2, <2>3, <2>4, <2>5 DEF HandlerStep
<1>3. CASE TaskStep(r)
  <2>1. UNCHANGED handlerVars
    BY <1>3 DEF TaskStep, EmitLine, EmitErrorLine, StreamFails, BufferOverflow, UpstreamEof, ObserveCancel,
                SendItem, SendFails, EndTask, TaskExits
  <2>2. task'[s] = task[s] /\ chan'[s] = chan[s]
    BY <1>3 DEF TaskStep, EmitLine, EmitErrorLine, StreamFails, BufferOverflow, UpstreamEof, ObserveCancel,
                SendItem, SendFails, EndTask, TaskExits, Push
  <2> QED BY <2>1, <2>2 DEF handlerVars
<1> QED BY <1>1, <1>2, <1>3
(* The steps of the reader: they touch its items and its channel only.     *)
LEMMA ReaderKeepsAnswer ==
    ASSUME IInv, NEW r \in Requests, AnswerOk(r), TaskStep(r)
    PROVE  AnswerOk(r)'
<1>1. task[r] \in TaskRecord /\ chan[r] \in ChanRecord /\ task[r].todo \in Seq(Items) /\ chan[r].q \in Seq(Items)
  BY DEF IInv, TypeOK, TaskRecord, ChanRecord
<1>2. UNCHANGED handlerVars
  BY DEF TaskStep, EmitLine, EmitErrorLine, StreamFails, BufferOverflow, UpstreamEof, ObserveCancel,
         SendItem, SendFails, EndTask, TaskExits
<1>3. chan'[r].cancelled = chan[r].cancelled
  BY <1>1 DEF TaskStep, EmitLine, EmitErrorLine, StreamFails, BufferOverflow, UpstreamEof, ObserveCancel,
         SendItem, SendFails, EndTask, TaskExits, IInv, TypeOK, ChanRecord
<1>4. FirstInLine(r)'
  <2> SUFFICES ASSUME handler[r] = "first" PROVE FirstInLine(r)'
    BY <1>2 DEF FirstInLine, handlerVars
  <2>1. /\ chan[r].q # <<>> => Head(chan[r].q) # "done"
        /\ chan[r].q = <<>> /\ task[r].todo # <<>> => Head(task[r].todo) # "done"
        /\ chan[r].q = <<>> /\ task[r].todo = <<>> /\ task[r].st = "reading"
              => ~task[r].emitted /\ ~task[r].finish
    BY DEF AnswerOk, FirstInLine
  <2>2. ASSUME UNCHANGED chan, task[r].todo = <<>>, task[r].st = "reading",
               NEW t, task' = [task EXCEPT ![r] = t],
               (~task[r].emitted /\ ~task[r].finish) =>
                  /\ t.todo # <<>> => Head(t.todo) # "done"
                  /\ t.todo = <<>> => t.st # "reading"
        PROVE  FirstInLine(r)'
    BY <2>1, <2>2 DEF FirstInLine, IInv, TypeOK
  <2>3. CASE EmitLine(r)
    <3>1. PICK i \in Deltas :
             task' = [task EXCEPT ![r] = [st |-> "reading", todo |-> <<i>>, emitted |-> TRUE,
                                          lines |-> task[r].lines + 1,
                                          finish |-> task[r].finish \/ i = "finish"]]
      BY <2>3 DEF EmitLine
    <3>2. Head(<<i>>) = i /\ i # "done" /\ <<i>> # <<>>
      BY DEF Deltas
    <3> QED BY <2>2, <2>3, <3>1, <3>2 DEF EmitLine, Reading
  <2>4. CASE EmitErrorLine(r) \/ StreamFails(r) \/ UpstreamEof(r)
    <3>1. UNCHANGED chan /\ task[r].todo = <<>> /\ task[r].st = "reading"
      BY <2>4 DEF EmitErrorLine, StreamFails, UpstreamEof, Reading
    <3>2. PICK items : /\ Push(r, "ending", items)
                       /\ (~task[r].emitted /\ ~task[r].finish) => (items # <<>> => Head(items) # "done")
      <4>1. /\ Head(<<"error", "done">>) # "done" /\ Head(<<"err">>) # "done" /\ Head(<<"error">>) # "done"
            /\ \A i \in Deltas : Head(<<i, "done">>) # "done"
        BY DEF Deltas
      <4>2. CASE EmitErrorLine(r) \/ StreamFails(r)
        BY <4>1, <4>2 DEF EmitErrorLine, StreamFails
      <4>3. CASE UpstreamEof(r)
        BY <4>1, <4>3 DEF UpstreamEof
      <4> QED BY <2>4, <4>2, <4>3
    <3> DEFINE t == [task[r] EXCEPT !.st = "ending", !.todo = items]
    <3>3. task' = [task EXCEPT ![r] = t] /\ t.todo = items /\ t.st = "ending"
      BY <1>1, <3>2 DEF Push, TaskRecord
    <3> HIDE DEF t
    <3> QED BY <2>2, <3>1, <3>2, <3>3
  <2>5. CASE SendItem(r)
    <3>1. task[r].todo # <<>> /\ chan' = [chan EXCEPT ![r] = [@ EXCEPT !.q = Append(chan[r].q, Head(task[r].todo))]]
      BY <2>5 DEF SendItem
    <3>2. chan'[r].q = Append(chan[r].q, Head(task[r].todo))
      BY <3>1, <1>1 DEF IInv, TypeOK, ChanRecord
    <3>3. Head(task[r].todo) \in Items
      BY <1>1, <3>1
    <3>4. /\ chan'[r].q # <<>>
          /\ Head(chan'[r].q) = IF chan[r].q = <<>> THEN Head(task[r].todo) ELSE Head(chan[r].q)
      BY <1>1, <3>2, <3>3
    <3> QED BY <2>1, <3>1, <3>4 DEF FirstInLine
  <2>6. CASE BufferOverflow(r) \/ ObserveCancel(r) \/ SendFails(r) \/ EndTask(r)
    <3>1. UNCHANGED chan /\ task'[r] = TaskAt("exited")
      BY <2>6 DEF BufferOverflow, ObserveCancel, SendFails, EndTask, TaskExits, IInv, TypeOK
    <3> QED BY <2>1, <3>1 DEF FirstInLine, TaskAt
  <2> QED BY <2>3, <2>4, <2>5, <2>6 DEF TaskStep
<1> QED BY <1>2, <1>3, <1>4 DEF AnswerOk, handlerVars, HeaderHasContent, NothingWritten, StreamOnly,
                               ChunkWritten, StoredAnswered

(* Up to the first item. *)
LEMMA CallKeepsAnswer ==
    ASSUME IInv, NEW r \in Requests, AnswerOk(r),
           \/ Start(r) \/ ClientLeaves(r) \/ Acquire(r) \/ RefreshCredential(r) \/ RetryAttempt(r)
           \/ ForwardFails(r) \/ ForwardJson(r) \/ ForwardStream(r)
    PROVE  AnswerOk(r)'
<1> USE DEF IInv, TypeOK, Goto
<1>1. CASE Start(r)
  BY <1>1 DEF Start, NewReply, AnswerOk, FirstInLine, HeaderHasContent, NothingWritten, StreamOnly,
              ChunkWritten, StoredAnswered, BeforeAnswer
<1>2. CASE ClientLeaves(r) \/ RefreshCredential(r) \/ RetryAttempt(r)
  BY <1>2 DEF ClientLeaves, RefreshCredential, RetryAttempt, AnswerOk, FirstInLine, HeaderHasContent,
              NothingWritten, StreamOnly, ChunkWritten, StoredAnswered
<1>3. CASE Acquire(r) \/ ForwardFails(r) \/ ForwardJson(r)
  BY <1>3 DEF Acquire, ForwardFails, ForwardJson, AnswerOk, FirstInLine, HeaderHasContent,
              NothingWritten, StreamOnly, ChunkWritten, StoredAnswered, BeforeAnswer
<1>4. CASE ForwardStream(r)
  BY <1>4 DEF ForwardStream, NewChan, TaskAt, AnswerOk, FirstInLine, HeaderHasContent,
              NothingWritten, StreamOnly, ChunkWritten, StoredAnswered, BeforeAnswer
<1> QED BY <1>1, <1>2, <1>3, <1>4

(* The first item, or none. *)
LEMMA FirstKeepsAnswer ==
    ASSUME IInv, NEW r \in Requests, AnswerOk(r),
           FirstChunk(r) \/ EmptyStream(r) \/ FirstChunkTimeout(r)
    PROVE  AnswerOk(r)'
<1>1. reply[r].stream /\ r \notin stored /\ UNCHANGED stored
  BY DEF FirstChunk, EmptyStream, FirstChunkTimeout, AnswerOk, StreamOnly, StoredAnswered
<1>2. handler'[r] \in {"noChunk", "header", "acquire"}
  BY DEF FirstChunk, EmptyStream, FirstChunkTimeout, Goto, IInv, TypeOK
<1>3. reply[r] \in ReplyRecord /\ reply[r].head = "none" /\ ~reply[r].started /\ ~reply[r].finished
  BY DEF FirstChunk, EmptyStream, FirstChunkTimeout, AnswerOk, NothingWritten, BeforeAnswer, IInv, TypeOK
<1>4. /\ reply'[r].head = reply[r].head /\ reply'[r].started = reply[r].started
      /\ reply'[r].finished = reply[r].finished /\ reply'[r].stream = reply[r].stream
  BY <1>3 DEF FirstChunk, EmptyStream, FirstChunkTimeout, IInv, TypeOK, ReplyRecord
<1>5. handler'[r] = "header" => reply'[r].first \in Contents
  <2> SUFFICES ASSUME handler'[r] = "header" PROVE reply'[r].first \in Contents
    OBVIOUS
  <2>1. FirstChunk(r) /\ chan[r].q # <<>> /\ Head(chan[r].q) # "err"
    BY DEF FirstChunk, EmptyStream, FirstChunkTimeout, Goto, IInv, TypeOK
  <2>2. Head(chan[r].q) \in Items /\ Head(chan[r].q) # "done"
    BY <2>1, HeadTail DEF FirstChunk, AnswerOk, FirstInLine, IInv
  <2>3. reply'[r].first = Head(chan[r].q)
    BY <1>3, <2>1 DEF FirstChunk, IInv, TypeOK, ReplyRecord
  <2> QED BY <2>1, <2>2, <2>3 DEF Items, Payloads
<1> QED BY <1>1, <1>2, <1>3, <1>4, <1>5 DEF AnswerOk, FirstInLine, HeaderHasContent, NothingWritten,
                                            StreamOnly, ChunkWritten, StoredAnswered
(* What delivering a payload leaves: the loop goes on with the frames      *)
(* written, or it is aborted.                                              *)
LEMMA DeliverLeaves ==
    ASSUME IInv, NEW r \in Requests, NEW i, NEW q \in Seq(Items), Deliver(r, i, q)
    PROVE  /\ reply'[r].stream = reply[r].stream /\ reply'[r].dialect = reply[r].dialect
           /\ reply[r].chunks => reply'[r].chunks
           /\ \/ /\ handler'[r] = "stream"
                 /\ Renders(reply[r].dialect, reply[r].started, reply[r].finished, i) => reply'[r].chunks
              \/ handler'[r] = "close" /\ chan'[r].cancelled
<1> DEFINE shown == Renders(reply[r].dialect, reply[r].started, reply[r].finished, i)
           t(b) == [reply[r] EXCEPT !.head = "sse", !.first = "none", !.started = TRUE,
                        !.finished  = reply[r].finished \/ i = "finish",
                        !.chunks    = reply[r].chunks \/ b,
                        !.sawFinish = reply[r].sawFinish \/ (b /\ i = "finish")]
<1>1. reply[r] \in ReplyRecord /\ chan[r] \in ChanRecord
  BY DEF IInv, TypeOK
<1>2. \A b : /\ t(b).stream = reply[r].stream /\ t(b).dialect = reply[r].dialect
             /\ t(b).chunks = (reply[r].chunks \/ b)
  BY <1>1 DEF ReplyRecord
<1>3. \/ reply' = [reply EXCEPT ![r] = t(shown)] /\ Goto(r, "stream")
      \/ /\ reply' = [reply EXCEPT ![r] = t(FALSE)] /\ Goto(r, "close")
         /\ chan' = [chan EXCEPT ![r] = [@ EXCEPT !.q = q, !.cancelled = TRUE]]
  BY DEF Deliver
<1> HIDE DEF t, shown
<1>4. \/ reply'[r] = t(shown) /\ handler'[r] = "stream"
      \/ reply'[r] = t(FALSE) /\ handler'[r] = "close" /\ chan'[r].cancelled
  <2>1. [chan[r] EXCEPT !.q = q, !.cancelled = TRUE].cancelled
    BY <1>1 DEF ChanRecord
  <2>2. CASE reply' = [reply EXCEPT ![r] = t(shown)] /\ Goto(r, "stream")
    BY <2>2 DEF IInv, TypeOK, Goto
  <2>3. CASE /\ reply' = [reply EXCEPT ![r] = t(FALSE)] /\ Goto(r, "close")
             /\ chan' = [chan EXCEPT ![r] = [@ EXCEPT !.q = q, !.cancelled = TRUE]]
    BY <2>1, <2>3 DEF IInv, TypeOK, Goto
  <2> QED BY <1>3, <2>2, <2>3
<1>5. CASE reply'[r] = t(shown) /\ handler'[r] = "stream"
  BY <1>2, <1>5 DEF shown
<1>6. CASE reply'[r] = t(FALSE) /\ handler'[r] = "close" /\ chan'[r].cancelled
  BY <1>2, <1>6
<1> QED BY <1>4, <1>5, <1>6

(* The relay loop: what it needs of a step is a chunk written or an abort.  *)
LEMMA RelayKeepsAnswer ==
    ASSUME IInv, NEW r \in Requests, AnswerOk(r),
           WriteHeader(r) \/ RelayChunk(r) \/ StreamTimeout(r) \/ StreamEnds(r)
    PROVE  AnswerOk(r)'
<1>1. reply[r].stream /\ r \notin stored /\ UNCHANGED stored
  BY DEF WriteHeader, RelayChunk, StreamTimeout, StreamEnds, AnswerOk, StreamOnly, StoredAnswered
<1>2. reply[r] \in ReplyRecord /\ chan[r] \in ChanRecord
  BY DEF IInv, TypeOK
<1>3. ASSUME reply'[r].stream = reply[r].stream,
             \/ handler'[r] = "stream" /\ (reply'[r].dialect = "responses" => reply'[r].chunks)
             \/ handler'[r] = "close" /\ chan'[r].cancelled
             \/ handler'[r] = "close" /\ (reply'[r].dialect = "responses" => reply'[r].chunks)
      PROVE  AnswerOk(r)'
  BY <1>1, <1>3 DEF AnswerOk, FirstInLine, HeaderHasContent, NothingWritten, StreamOnly, ChunkWritten,
                    StoredAnswered, BeforeAnswer
<1>4. CASE WriteHeader(r)
  <2>1. /\ reply[r].first \in Contents /\ ~reply[r].started /\ ~reply[r].finished
    BY <1>4 DEF WriteHeader, AnswerOk, HeaderHasContent, NothingWritten, BeforeAnswer
  <2>2. reply[r].dialect = "responses" =>
           Renders(reply[r].dialect, reply[r].started, reply[r].finished, reply[r].first)
    BY <2>1 DEF Renders, Contents, Deltas
  <2>3. CASE Deliver(r, reply[r].first, chan[r].q)
    <3>1. chan[r].q \in Seq(Items)
      BY <1>2 DEF ChanRecord
    <3> QED BY <1>3, <2>2, <2>3, <3>1, DeliverLeaves
  <2>4. CASE /\ Cancel(r) /\ Goto(r, "close")
             /\ reply' = [reply EXCEPT ![r] = [@ EXCEPT !.first = "none"]]
    <3>1. handler'[r] = "close" /\ chan'[r].cancelled /\ reply'[r].stream = reply[r].stream
      BY <1>2, <2>4 DEF Cancel, Goto, IInv, TypeOK, ChanRecord, ReplyRecord
    <3> QED BY <1>3, <3>1
  <2> QED BY <1>4, <2>3, <2>4 DEF WriteHeader
<1>5. CASE RelayChunk(r)
  <2>1. reply[r].dialect = "responses" => reply[r].chunks
    BY <1>5 DEF RelayChunk, AnswerOk, ChunkWritten
  <2>2. CASE Deliver(r, Head(chan[r].q), Tail(chan[r].q))
    <3>1. Tail(chan[r].q) \in Seq(Items)
      BY <1>5, HeadTail DEF RelayChunk, IInv
    <3> QED BY <1>3, <2>1, <2>2, <3>1, DeliverLeaves
  <2>3. CASE /\ chan' = [chan EXCEPT ![r] = [@ EXCEPT !.q = Tail(chan[r].q), !.cancelled = TRUE]]
             /\ Goto(r, "close") /\ UNCHANGED reply
    <3>1. handler'[r] = "close" /\ chan'[r].cancelled /\ reply'[r].stream = reply[r].stream
      BY <1>2, <2>3 DEF Goto, IInv, TypeOK, ChanRecord
    <3> QED BY <1>3, <3>1
  <2> QED BY <1>5, <2>2, <2>3 DEF RelayChunk
<1>6. CASE StreamTimeout(r)
  <2>1. handler'[r] = "close" /\ chan'[r].cancelled /\ reply'[r].stream = reply[r].stream
    BY <1>2, <1>6 DEF StreamTimeout, Cancel, Goto, IInv, TypeOK, ChanRecord
  <2> QED BY <1>3, <2>1
<1>7. CASE StreamEnds(r)
  <2>1. reply[r].dialect = "responses" => reply[r].chunks
    BY <1>7 DEF StreamEnds, AnswerOk, ChunkWritten
  <2>2. handler'[r] = "close" /\ UNCHANGED reply
    BY <1>7 DEF StreamEnds, Goto, IInv, TypeOK
  <2> QED BY <1>3, <2>1, <2>2
<1> QED BY <1>4, <1>5, <1>6, <1>7

(* The ends of a handler, and what each of them stores. *)
LEMMA EndsKeepAnswer ==
    ASSUME IInv, NEW r \in Requests, AnswerOk(r), ReplyError(r) \/ ReplyJson(r) \/ CloseStream(r)
    PROVE  AnswerOk(r)'
<1>1. reply[r] \in ReplyRecord /\ chan[r] \in ChanRecord /\ r \notin stored
  BY DEF IInv, TypeOK, ReplyError, ReplyJson, CloseStream, AnswerOk, StoredAnswered
<1>2. handler'[r] = "done" /\ chan'[r].cancelled = chan[r].cancelled
  <2>1. [chan[r] EXCEPT !.rx = FALSE, !.q = <<>>].cancelled = chan[r].cancelled
    BY <1>1 DEF ChanRecord
  <2>2. Return(r)
    BY DEF ReplyError, ReplyJson, CloseStream
  <2> QED BY <2>1, <2>2 DEF Return, Goto, IInv, TypeOK
<1>3. reply'[r].stream = reply[r].stream
  BY <1>1 DEF ReplyError, ReplyJson, CloseStream, IInv, TypeOK, ReplyRecord
<1>4. ~reply[r].stream => ~chan[r].cancelled
  BY DEF AnswerOk, StreamOnly
<1>5. StoredAnswered(r)'
  <2>1. CASE ReplyError(r)
    BY <1>1, <2>1 DEF ReplyError, StoredAnswered
  <2>2. CASE ReplyJson(r)
    <3>1. ~reply[r].stream /\ reply[r].head = "none"
      BY <2>2 DEF ReplyJson, AnswerOk, StreamOnly, NothingWritten, BeforeAnswer
    <3>2. reply'[r].head \in {"none", "json"}
      BY <1>1, <2>2, <3>1 DEF ReplyJson, IInv, TypeOK, ReplyRecord
    <3> QED BY <1>2, <1>3, <3>1, <3>2 DEF StoredAnswered
  <2>3. CASE CloseStream(r)
    <3>1. reply[r].dialect = "responses" /\ ~chan[r].cancelled => reply[r].chunks
      BY <2>3 DEF CloseStream, AnswerOk, ChunkWritten
    <3>2. stored' = stored
      BY <2>3, <3>1 DEF CloseStream
    <3> QED BY <1>1, <3>2 DEF StoredAnswered
  <2> QED BY <2>1, <2>2, <2>3
<1> QED BY <1>2, <1>3, <1>4, <1>5 DEF AnswerOk, FirstInLine, HeaderHasContent, NothingWritten,
                                       StreamOnly, ChunkWritten, BeforeAnswer

(* Every step keeps the answer of its own request as it has to be, and does*)
(* not touch the others.                                                   *)
LEMMA AnswerInductive == IInv /\ AnswerInv /\ [Next]_vars => AnswerInv'
<1> SUFFICES ASSUME IInv, AnswerInv, [Next]_vars PROVE AnswerInv'
  OBVIOUS
<1>1. CASE UNCHANGED vars
  BY <1>1 DEF vars, AnswerInv, AnswerOk, FirstInLine, HeaderHasContent, NothingWritten, StreamOnly,
              ChunkWritten, StoredAnswered
<1>2. ASSUME NEW r \in Requests, Start(r) \/ ClientLeaves(r) \/ HandlerStep(r) \/ TaskStep(r)
      PROVE  AnswerInv'
  <2>1. AnswerOk(r)
    BY DEF AnswerInv
  <2>2. AnswerOk(r)'
    BY <1>2, <2>1, ReaderKeepsAnswer, CallKeepsAnswer, FirstKeepsAnswer, RelayKeepsAnswer, EndsKeepAnswer
       DEF HandlerStep
  <2>3. ASSUME NEW s \in Requests, s # r PROVE AnswerOk(s)'
    BY <1>2, <2>3, OnlyOwnState, OthersUntouched
  <2> QED BY <2>2, <2>3 DEF AnswerInv
<1> QED BY <1>1, <1>2 DEF Next, AllDone

(* The invariant of the answers. *)
LEMMA AnswerInvariant == Spec => []AnswerInv
  BY AnswerInit, AnswerInductive, Invariance, PTL DEF Spec

(* A 200 is committed only for a stream that carries something: whatever    *)
(* the reader, the timers and the retries do, the item in hand when the     *)
(* header goes out is a delta or an error, never a bare [DONE].             *)
THEOREM HeaderOnlyForContent == Spec => []FirstIsContent
<1>1. AnswerInv => FirstIsContent
  BY DEF AnswerInv, AnswerOk, HeaderHasContent, FirstIsContent
<1> QED BY <1>1, AnswerInvariant, PTL

(* Nothing failed, aborted or unfinished reaches the session store.         *)
THEOREM OnlyAnsweredStored == Spec => []StoredOnlyWhenAnswered
<1>1. IInv /\ AnswerInv => StoredOnlyWhenAnswered
  BY DEF IInv, TypeOK, AnswerInv, AnswerOk, StoredAnswered, StreamOnly, StoredOnlyWhenAnswered
<1> QED BY <1>1, Invariance, AnswerInvariant, PTL

(* Nor does anything streamed: the check for an incomplete stream also      *)
(* catches every complete one (handler.rs 1004-1026), whose turn is then    *)
(* missing from a chained request.                                          *)
NoStreamStored == \A r \in stored : ~reply[r].stream
(* However a stream ends, it is not stored (the code of 1004-1026, not its *)
(* comment).                                                               *)
THEOREM StreamsNeverStored == Spec => []NoStreamStored
<1>1. IInv /\ AnswerInv => NoStreamStored
  BY DEF IInv, TypeOK, AnswerInv, AnswerOk, StoredAnswered, NoStreamStored
<1> QED BY <1>1, Invariance, AnswerInvariant, PTL
=============================================================================
