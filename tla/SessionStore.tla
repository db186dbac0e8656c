----------------------------- MODULE SessionStore -----------------------------
(***************************************************************************)
(* Chaining of Responses API turns through ResponseSessionStore            *)
(* (session_store.rs) by request_filter and its completion paths           *)
(* (handler.rs).                                                           *)
(*                                                                         *)
(* A turn may name an earlier response; its conversation is fetched when   *)
(* the request arrives and the turn's own is inserted, under a new id,     *)
(* when the upstream has completed: other turns, evictions and expiry come *)
(* between.  A conversation is the sequence of the turns whose input it    *)
(* holds; the upstream's answers are not stored.                           *)
(***************************************************************************)
EXTENDS Naturals, Sequences, FiniteSets

CONSTANTS
    ResponseIds,   \* resp_<uuid>: ids of the turns, never reused
    NoId,          \* no previous_response_id
    MaxEntries,    \* MAX_ENTRIES, 10 000 in the code
    TTL,           \* ENTRY_TTL, an hour in the code
    MaxStoreTime   \* bound: the clock

ASSUME StoreAssumption ==
    /\ IsFiniteSet(ResponseIds) /\ NoId \notin ResponseIds
    /\ MaxEntries \in Nat \ {0}
    /\ TTL \in Nat /\ MaxStoreTime \in Nat

VARIABLES
    storeClock,  \* Instant::now(): later at each insert than at the one before
    entries,     \* the map: id -> [messages, created]
    turn,        \* the turns: id -> [st, prev, messages]
    log          \* history: ids in the order they were stored, with the time

storeVars == <<storeClock, entries, turn, log>>

NewTurn == [st |-> "unused", prev |-> NoId, messages |-> <<>>]

StoreInit ==
    /\ storeClock = 0
    /\ entries = << >>
    /\ turn = [id \in ResponseIds |-> NewTurn]
    /\ log = <<>>

(***************************************************************************)
(* The store                                                               *)
(***************************************************************************)

(* Faulty variant: the time to live is not looked at. *)
AliveForever(id) == TRUE

Alive(id) == storeClock - entries[id].created < TTL

(* get: an expired entry answers None, and stays.                          *)
Found(id) == id \in DOMAIN entries /\ Alive(id)

(* Faulty variants: the youngest are evicted, and there is room for one    *)
(* more at the cap.                                                        *)
KeptYoungestOut ==
    LET live == {id \in DOMAIN entries : Alive(id)}
    IN  IF Cardinality(DOMAIN entries) < MaxEntries THEN {DOMAIN entries}
        ELSE {kept \in SUBSET live :
                /\ Cardinality(kept) = IF Cardinality(live) < MaxEntries
                                       THEN Cardinality(live) ELSE MaxEntries - 1
                /\ \A k \in kept, g \in live \ kept : entries[k].created <= entries[g].created}
KeptAtCap == {DOMAIN entries}

(* Eviction in insert: nothing below the cap; at the cap the expired       *)
(* entries go, then the oldest ones one by one until there is room.        *)
Kept ==
    LET live == {id \in DOMAIN entries : Alive(id)}
    IN  IF Cardinality(DOMAIN entries) < MaxEntries THEN {DOMAIN entries}
        ELSE {kept \in SUBSET live :
                /\ Cardinality(kept) = IF Cardinality(live) < MaxEntries
                                       THEN Cardinality(live) ELSE MaxEntries - 1
                /\ \A k \in kept, g \in live \ kept : entries[g].created <= entries[k].created}

Insert(id, msgs) == \E kept \in Kept :
    entries' = [k \in kept \union {id} |->
                    IF k = id THEN [messages |-> msgs, created |-> storeClock] ELSE entries[k]]

(***************************************************************************)
(* request_filter and the completion of a turn                             *)
(***************************************************************************)

(* A turn arrives.  An unknown or expired previous id is a 404.            *)
TurnArrives(id) == \E prev \in {NoId} \union {p \in ResponseIds : turn[p].st = "completed"} :
    /\ turn[id].st = "unused"
    /\ turn' = [turn EXCEPT ![id] =
                  IF prev # NoId /\ ~Found(prev)
                  THEN [st |-> "notFound", prev |-> prev, messages |-> <<>>]
                  ELSE [st |-> "pending", prev |-> prev,
                        messages |-> Append(IF prev = NoId THEN <<>> ELSE entries[prev].messages,
                                            id)]]
    /\ UNCHANGED <<storeClock, entries, log>>

(* Faulty variant: the conversation is fetched again at completion, from   *)
(* whatever the store holds then.                                          *)
CompleteRefetching(id) ==
    /\ turn[id].st = "pending" /\ storeClock < MaxStoreTime
    /\ LET prev == turn[id].prev
           past == IF prev \in DOMAIN entries THEN entries[prev].messages ELSE <<>>
       IN  Insert(id, Append(past, id))
    /\ turn' = [turn EXCEPT ![id].st = "completed"]
    /\ log' = Append(log, [id |-> id, at |-> storeClock])
    /\ storeClock' = storeClock + 1

(* A non-streaming upstream answer: pending_session_entry, the             *)
(* conversation as it was sent upstream, is stored, and the client gets    *)
(* the answer.  (Whether a stream is stored is in StreamRelay.)            *)
Complete(id) ==
    /\ turn[id].st = "pending" /\ storeClock < MaxStoreTime
    /\ Insert(id, turn[id].messages)
    /\ turn' = [turn EXCEPT ![id].st = "completed"]
    /\ log' = Append(log, [id |-> id, at |-> storeClock])
    /\ storeClock' = storeClock + 1

(* The upstream failed, or the client went away: nothing is stored.        *)
Abandon(id) ==
    /\ turn[id].st = "pending"
    /\ turn' = [turn EXCEPT ![id].st = "abandoned"]
    /\ UNCHANGED <<storeClock, entries, log>>

StoreTick ==
    /\ storeClock < MaxStoreTime
    /\ storeClock' = storeClock + 1
    /\ UNCHANGED <<entries, turn, log>>

StoreNext == (\E id \in ResponseIds : TurnArrives(id) \/ Complete(id) \/ Abandon(id)) \/ StoreTick

StoreSpec == StoreInit /\ [][StoreNext]_storeVars

(***************************************************************************)
(* Properties                                                              *)
(***************************************************************************)

Messages == Seq(ResponseIds)

(* Type of the session store part. *)
StoreTypeOK ==
    /\ storeClock \in 0..MaxStoreTime
    /\ DOMAIN entries \subseteq ResponseIds
    /\ \A id \in DOMAIN entries : entries[id] \in [messages : Messages, created : 0..MaxStoreTime]
    /\ turn \in [ResponseIds -> [st : {"unused", "pending", "notFound", "completed", "abandoned"},
                         prev : ResponseIds \union {NoId}, messages : Messages]]
    /\ log \in Seq([id : ResponseIds, at : 0..MaxStoreTime])

(* "the map is capped to bound memory": however completions interleave.    *)
CapHeld == IsFiniteSet(DOMAIN entries) /\ Cardinality(DOMAIN entries) <= MaxEntries

(* A response stays reachable for its TTL unless MaxEntries later ones     *)
(* displaced it: expiry and "oldest are evicted first" lose nothing else.  *)
KeptWhileYoung ==
    \A i \in DOMAIN log :
        storeClock - log[i].at < TTL /\ Len(log) - i < MaxEntries => Found(log[i].id)

(* A response is not chained onto after its TTL.                           *)
Chained(id) == turn'[id].st = "pending" /\ turn[id].st = "unused" /\ turn'[id].prev # NoId
NoExpiredChain ==
    [][\A id \in ResponseIds : Chained(id) =>
          \E i \in DOMAIN log : log[i].id = turn'[id].prev /\ storeClock - log[i].at < TTL]_storeVars

(* A stored conversation is its predecessor's plus its own turn, also when *)
(* the predecessor has been evicted or expired meanwhile.                  *)
ChainIntact ==
    \A id \in DOMAIN entries :
        LET prev == turn[id].prev
            past == IF prev = NoId THEN <<>> ELSE turn[prev].messages
        IN  entries[id].messages = Append(past, id)

(* What the store promises to chained requests: bounded memory, no early   *)
(* loss, and whole conversations.                                          *)
StoreSound == CapHeld /\ KeptWhileYoung /\ ChainIntact
=============================================================================
