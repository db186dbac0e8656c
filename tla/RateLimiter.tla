----------------------------- MODULE RateLimiter -----------------------------
(***************************************************************************)
(* The per-key request limit of the proxy: the admission part of           *)
(* request_filter (handler.rs) in front of RateLimiter (rate_limiter.rs).  *)
(*                                                                         *)
(* A request reads the clock, then waits for the write lock, so the `now`  *)
(* it decides with may lie behind that of a request that overtook it.      *)
(* Time is counted in ticks.                                               *)
(***************************************************************************)
EXTENDS Integers, Sequences

CONSTANTS
    Requests,      \* slots for requests at the limiter; a slot is reused
    Credentials,   \* what clients present
    Token,         \* config.incoming_token
    Gated,         \* whether incoming_token is set
    NoKey,         \* the empty bucket key
    MaxRequests,   \* config.rate_limit_max_requests, 0 = unlimited
    Window,        \* config.rate_limit_window_secs, in ticks
    MaxWait,       \* bound: how long a request waits for the lock
    MaxTime        \* bound: the clock

ASSUME LimiterAssumption ==
    /\ Token \in Credentials /\ NoKey \notin Credentials
    /\ Gated \in BOOLEAN
    /\ MaxRequests \in Nat /\ Window \in Nat
    /\ MaxWait \in Nat /\ MaxTime \in Nat

VARIABLES
    clock,     \* Instant::now()
    entry,     \* RateLimiter.state; a key without an entry has none
    waiting,   \* the requests at the lock, with their key and their `now`
    granted    \* history: by credential, the times at which requests were let through

limiterVars == <<clock, entry, waiting, granted>>

BucketKeys == Credentials \union {NoKey}
Slot == [at : BOOLEAN, cred : Credentials, key : BucketKeys, now : 0..MaxTime]
Free == [at |-> FALSE, cred |-> Token, key |-> NoKey, now |-> 0]

LimiterInit ==
    /\ clock = 0
    /\ entry = << >>
    /\ waiting = [r \in Requests |-> Free]
    /\ granted = [c \in Credentials |-> << >>]

Grant(c) == granted' = [granted EXCEPT ![c] = Append(@, clock)]

(* The bucket key: the credential the gate has checked, else empty.        *)
BucketKey(c) == IF Gated THEN c ELSE NoKey

(* The gate lets only incoming_token through.  Without a limit, or with an *)
(* empty key, the request passes at once.                                  *)
Unlimited(c) == MaxRequests = 0 \/ BucketKey(c) = NoKey

Arrive(r) == \E c \in Credentials :
    /\ ~waiting[r].at
    /\ Gated => c = Token
    /\ IF Unlimited(c)
       THEN Grant(c) /\ UNCHANGED waiting
       ELSE /\ waiting' = [waiting EXCEPT ![r] = [at |-> TRUE, cred |-> c,
                                                  key |-> BucketKey(c), now |-> clock]]
            /\ UNCHANGED granted
    /\ UNCHANGED <<clock, entry>>

(* Instant::duration_since saturates at zero.                              *)
Since(now, start) == IF now > start THEN now - start ELSE 0

(* Faulty variants: the end of the window is kept instead of its start, a  *)
(* new entry already counts its request, and a window ends a tick early.   *)
EntryEnding(k, now) ==
    IF k \in DOMAIN entry THEN entry[k] ELSE [count |-> 0, start |-> now + Window]
EntryCounted(k, now) ==
    IF k \in DOMAIN entry THEN entry[k] ELSE [count |-> 1, start |-> now]
OverEarly(e, now) == Since(now, e.start) >= Window

EntryAt(k, now) == IF k \in DOMAIN entry THEN entry[k] ELSE [count |-> 0, start |-> now]
Over(e, now)    == Since(now, e.start) > Window
Put(k, e)       == entry' = [x \in DOMAIN entry \union {k} |-> IF x = k THEN e ELSE entry[x]]

(* check_rate_limit under the write lock: an expired window restarts with  *)
(* this request, a full one refuses (429), otherwise the request counts.   *)
CheckRateLimit(r) ==
    LET k == waiting[r].key  now == waiting[r].now  e == EntryAt(k, now)
    IN  /\ waiting[r].at
        /\ \/ Over(e, now) /\ Put(k, [count |-> 1, start |-> now]) /\ Grant(waiting[r].cred)
           \/ ~Over(e, now) /\ e.count >= MaxRequests /\ Put(k, e) /\ UNCHANGED granted
           \/ /\ ~Over(e, now) /\ e.count < MaxRequests
              /\ Put(k, [e EXCEPT !.count = @ + 1]) /\ Grant(waiting[r].cred)
        /\ waiting' = [waiting EXCEPT ![r] = Free]
        /\ UNCHANGED clock

(* Time passes; no request stays at the lock for more than MaxWait.        *)
Tick ==
    /\ clock < MaxTime
    /\ \A r \in Requests : waiting[r].at => clock - waiting[r].now < MaxWait
    /\ clock' = clock + 1
    /\ UNCHANGED <<entry, waiting, granted>>

LimiterNext == (\E r \in Requests : Arrive(r) \/ CheckRateLimit(r)) \/ Tick

(***************************************************************************)
(* Properties                                                              *)
(***************************************************************************)

Entry == [count : Nat, start : 0..MaxTime]

(* Type of the limiter part. *)
LimiterTypeOK ==
    /\ clock \in 0..MaxTime
    /\ DOMAIN entry \subseteq BucketKeys /\ \A k \in DOMAIN entry : entry[k] \in Entry
    /\ waiting \in [Requests -> Slot]
    /\ granted \in [Credentials -> Seq(0..MaxTime)]

(* Without a token nobody has a bucket, without a limit nobody needs one.   *)
Limited == Gated /\ MaxRequests > 0

(* The real bound of a fixed window: whatever the arrivals, no interval as *)
(* long as the window sees more than two windows' worth of requests (of    *)
(* two that are so many apart the second comes later than a window), also  *)
(* when requests decide with a `now` up to a tick old (with older ones a   *)
(* third window can reach into the interval).                              *)
BurstBound ==
    Limited /\ MaxWait <= 1 =>
        \A c \in Credentials : \A i, j \in DOMAIN granted[c] :
            j = i + 2 * MaxRequests => granted[c][j] - granted[c][i] > Window

(* On average a key gets no more than MaxRequests per window: by any time, *)
(* at most that many per window begun since the start.                     *)
AverageRate ==
    Limited =>
        \A c \in Credentials :
            Len(granted[c]) <= MaxRequests * ((clock \div (Window + 1)) + 1)

(* A key is not refused before it used up its quota: what its bucket       *)
(* counts are requests let through, the last ones, none before its window. *)
RefusedOnlyWhenFull ==
    \A k \in DOMAIN entry \ {NoKey} :
        LET times == granted[k]  first == Len(times) - entry[k].count + 1
        IN  entry[k].count > 0 => first >= 1 /\ times[first] >= entry[k].start

(* The quota is kept from both sides: not exceeded, and not cut short.     *)
QuotaKept == BurstBound /\ AverageRate /\ RefusedOnlyWhenFull
=============================================================================
