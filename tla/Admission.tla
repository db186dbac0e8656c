------------------------------ MODULE Admission ------------------------------
(***************************************************************************)
(* request_filter (handler.rs), from the request line to the status of the *)
(* answer, and the counters of Metrics (metrics.rs) it moves.  Connections    *)
(* run concurrently; what the client sent is decided when the handler      *)
(* looks at it.  The limiter is the number of requests the window still    *)
(* has room for (RateLimiter has its buckets), the upstream is one step    *)
(* (StreamRelay takes a stream apart, RequestConversion the bodies).       *)
(* Response texts and CORS headers are left out.                           *)
(***************************************************************************)
EXTENDS Naturals, Sequences, FiniteSets, SequencesExt

CONSTANTS
    Connections,    \* requests in flight
    MaxServed,   \* bound: requests
    MaxBody,     \* max_body_size, in chunks of the body reader
    WindowSize   \* rate_limit_max_requests

ASSUME AdmissionAssumption ==
    IsFiniteSet(Connections) /\ MaxServed \in Nat /\ MaxBody \in Nat /\ WindowSize \in Nat

VARIABLES
    policy,    \* configured: incoming_token, rate limit, model_allowlist
    req,       \* the requests
    room,      \* requests the current window still admits
    counters,  \* Metrics
    served     \* history: the answered requests, with their status

admissionVars == <<policy, req, room, counters, served>>

Counted == {"requests", "stream", "nonstream", "errors", "bad", "large", "denied", "unknown", "timeouts"}
Dialects == {"OpenAi", "Anthropic", "Responses", "Gemini", "Ollama"}
NoRequest == [pc |-> "none", dialect |-> "OpenAi", token |-> FALSE, charged |-> FALSE,
              length |-> 0, listed |-> FALSE, stream |-> FALSE, forwarded |-> FALSE, status |-> 0]

AdmissionInit ==
    /\ policy \in [gate : BOOLEAN, limit : BOOLEAN, allowlist : BOOLEAN]
    /\ req = [r \in Connections |-> NoRequest]
    /\ room = WindowSize
    /\ counters = [c \in Counted |-> 0]
    /\ served = <<>>

RAt(r, l) == req[r].pc = l

(***************************************************************************)
(* Metrics: every refusal of a kind of its own is an error as well.        *)
(***************************************************************************)

Inc(m, cs) == [c \in Counted |-> IF c \in cs THEN m[c] + 1 ELSE m[c]]
inc_error(m) == Inc(m, {"errors"})

(* Faulty variant: a kind of refusal that is no error. *)
inc_kindAlone(m, kind) == Inc(m, {kind})

inc_kind(m, kind) == inc_error(Inc(m, {kind}))
inc_request(m, stream) == Inc(m, {"requests", IF stream THEN "stream" ELSE "nonstream"})

(* inc_error and inc_upstream_timeout, which is an inc_error of its own.   *)
Failed(m, timeout) == IF timeout THEN inc_kind(inc_error(m), "timeouts") ELSE inc_error(m)

(***************************************************************************)
(* The handler                                                             *)
(***************************************************************************)

Goes(r, v) == req' = [req EXCEPT ![r] = v] /\ UNCHANGED served
Answers(r, status, m) ==
    /\ req' = [req EXCEPT ![r] = NoRequest]
    /\ served' = Append(served, [req[r] EXCEPT !.status = status, !.pc = "none",
                                               !.dialect = "OpenAi", !.stream = FALSE])
    /\ counters' = m

Refuses(r, status, kind) == Answers(r, status, inc_kind(counters, kind))
Error(r, status) == Answers(r, status, inc_error(counters))

InFlight == {r \in Connections : ~RAt(r, "none")}

Accept(r) ==
    /\ RAt(r, "none") /\ Len(served) + Cardinality(InFlight) < MaxServed
    /\ Goes(r, [NoRequest EXCEPT !.pc = "route"])
    /\ UNCHANGED <<policy, room, counters>>

(* Paths, without the trailing slashes both tables take off.               *)
ChatPaths == {"/v1/chat/completions", "/v1/messages", "/v1/responses", "/api/chat",
              "models/m:generateContent", "models/m:streamGenerateContent"}
OpenPaths == {"/v1/models", "/api/tags", "/health", "/metrics"}
Paths == ChatPaths \union OpenPaths \union {"/elsewhere"}

(* detect_frontend                                                         *)
DetectFrontend(path) ==
    CASE path \in {"models/m:generateContent", "models/m:streamGenerateContent"} -> "Gemini"
      [] path = "/v1/messages"  -> "Anthropic"
      [] path = "/v1/responses" -> "Responses"
      [] path = "/api/chat"     -> "Ollama"
      [] OTHER                  -> "OpenAi"

(* OPTIONS, the route table and its answers; a Gemini path says by itself  *)
(* whether it streams.                                                     *)
Route(r) == \E path \in Paths, method \in {"GET", "POST", "OPTIONS"} :
    /\ RAt(r, "route")
    /\ CASE method = "OPTIONS" -> Answers(r, 204, counters)
         [] method = "GET" /\ path \in OpenPaths -> Answers(r, 200, counters)
         [] method = "POST" /\ path \in ChatPaths ->
               /\ Goes(r, [req[r] EXCEPT !.pc = "gate", !.dialect = DetectFrontend(path),
                              !.stream = path = "models/m:streamGenerateContent"])
               /\ UNCHANGED counters
         [] OTHER -> Refuses(r, 404, "unknown")
    /\ UNCHANGED <<policy, room>>

Gate(r) == \E token \in BOOLEAN :
    /\ RAt(r, "gate")
    /\ IF policy.gate /\ ~token THEN Error(r, 401)
       ELSE Goes(r, [req[r] EXCEPT !.pc = "limit", !.token = token]) /\ UNCHANGED counters
    /\ UNCHANGED <<policy, room>>

(* Without a gate the bucket key is empty, which is never limited.         *)
Charged == policy.limit /\ policy.gate

Limit(r) ==
    /\ RAt(r, "limit")
    /\ IF Charged /\ room = 0 THEN Error(r, 429) /\ UNCHANGED room
       ELSE /\ Goes(r, [req[r] EXCEPT !.pc = "body", !.charged = Charged])
            /\ room' = IF Charged THEN room - 1 ELSE room
            /\ UNCHANGED counters
    /\ UNCHANGED policy

(* Faulty variant: the limit is compared after the last chunk only. *)
TooLargeAtEnd(r) == FALSE

TooLarge(r) == req[r].length + 1 > MaxBody

(* read_request_body, one chunk per call, until None.                      *)
ReadChunk(r) ==
    /\ RAt(r, "body") /\ req[r].length <= MaxBody
    /\ LET read == [req[r] EXCEPT !.length = @ + 1] IN
       IF TooLarge(r) THEN Refuses(r, 413, "large")
       ELSE Goes(r, read) /\ UNCHANGED counters
    /\ UNCHANGED <<policy, room>>

(* None; then the body is not JSON, is not a request of the dialect, has   *)
(* no messages (Gemini and Ollama), or chains onto an unknown response.    *)
EndBody(r) == \E defect \in {"none", "json", "shape", "empty", "unknown"}, stream \in BOOLEAN :
    /\ RAt(r, "body")
    /\ defect = "empty" => req[r].dialect \in {"Gemini", "Ollama"}
    /\ defect = "unknown" => req[r].dialect = "Responses"
    /\ req[r].length = 0 => defect = "json"
    /\ IF defect = "none"
       THEN /\ Goes(r, [req[r] EXCEPT !.pc = "model",
                           !.stream = IF req[r].dialect = "Gemini" THEN @ ELSE stream])
            /\ UNCHANGED counters
       ELSE Refuses(r, IF defect = "unknown" THEN 404 ELSE 400, "bad")
    /\ UNCHANGED <<policy, room>>

Model(r) == \E listed \in BOOLEAN :
    /\ RAt(r, "model")
    /\ IF policy.allowlist /\ ~listed THEN Refuses(r, 400, "denied")
       ELSE /\ Goes(r, [req[r] EXCEPT !.pc = "forward", !.listed = listed, !.forwarded = TRUE])
            /\ counters' = inc_request(counters, req[r].stream)
    /\ UNCHANGED <<policy, room>>

(* forward_request and what becomes of its result.                         *)
Forward(r) == \E outcome \in {"ok", "refused", "reset", "timeout", "http"} :
    /\ RAt(r, "forward")
    /\ Answers(r, CASE outcome = "ok" -> 200 [] outcome = "timeout" -> 504
                    [] outcome = "http" -> 500 [] OTHER -> 502,
               IF outcome = "ok" THEN counters ELSE Failed(counters, outcome = "timeout"))
    /\ UNCHANGED <<policy, room>>

(* The window has passed.                                                  *)
NewWindow ==
    /\ room < WindowSize
    /\ room' = WindowSize
    /\ UNCHANGED <<policy, req, counters, served>>

AdmissionNext ==
    \/ \E r \in Connections :
          \/ Accept(r) \/ Route(r) \/ Gate(r) \/ Limit(r) \/ ReadChunk(r) \/ EndBody(r)
          \/ Model(r) \/ Forward(r)
    \/ NewWindow

(***************************************************************************)
(* Properties                                                              *)
(***************************************************************************)

(* Type of the admission part. *)
AdmissionTypeOK ==
    /\ \A r \in Connections : req[r].dialect \in Dialects /\ req[r].length \in 0..MaxBody
    /\ room \in 0..WindowSize
    /\ \A c \in Counted : counters[c] \in Nat
    /\ Len(served) <= MaxServed

(* Every request, answered or under way.                                   *)
Known == {served[i] : i \in DOMAIN served} \union {req[r] : r \in Connections}

(* What is sent upstream has passed every check that is configured, in an  *)
(* order in which nobody pays for the window without the right token: a    *)
(* body within the limit, a model on the list, a place in the window.      *)
(* Without a gate the window is nobody's ("treats unauthenticated traffic  *)
(* as unlimited").                                                         *)
OnlyAdmitted ==
    \A q \in Known :
        /\ q.charged => policy.gate /\ q.token
        /\ q.forwarded =>
              /\ policy.gate => q.token
              /\ policy.gate /\ policy.limit => q.charged
              /\ policy.allowlist => q.listed
              /\ q.length \in 1..MaxBody
        /\ ~policy.gate => q.status \notin {401, 429}

Number(Test(_)) == Cardinality({i \in DOMAIN served : Test(served[i])})

(* The counters of /metrics agree with the answers given, whatever the     *)
(* interleaving: requests are those that were sent upstream, each either   *)
(* streaming or not, and errors those answered with one, a timeout twice.  *)
Accounted ==
    /\ counters.requests = counters.stream + counters.nonstream
    /\ counters.requests = Number(LAMBDA q : q.forwarded)
                             + Cardinality({r \in Connections : req[r].forwarded})
    /\ counters.timeouts = Number(LAMBDA q : q.status = 504)
    /\ counters.errors = Number(LAMBDA q : q.status >= 400) + counters.timeouts
    /\ counters.bad + counters.large + counters.denied + counters.unknown =
          Number(LAMBDA q : ~q.forwarded /\ q.status \in {400, 404, 413})

(* Nothing slips through, and nothing goes uncounted.                      *)
AdmissionSound == OnlyAdmitted /\ Accounted
=============================================================================
