------------------------- MODULE SessionStore_proofs -------------------------
(***************************************************************************)
(* Properties of the session store for every number of turns, every cap    *)
(* and every time to live.                                                 *)
(*                                                                         *)
(* CapHeld is inductive: below the cap an insert adds one entry to fewer   *)
(* than MaxEntries, at the cap eviction leaves at most MaxEntries - 1.     *)
(* ChainIntact and NoExpiredChain are not: they follow from StoreInv,      *)
(* which relates the turns on their way to the turns they continue, every  *)
(* entry to its turn, and every entry to the log of inserts.  For          *)
(* KeptWhileYoung the log is ordered in time, so that an entry which is    *)
(* evicted although it is alive has left MaxEntries - 1 entries behind,    *)
(* each inserted after it at a place of its own in the log.                *)
(***************************************************************************)
EXTENDS SessionStore, FiniteSetTheorems, TLAPS

(* What eviction leaves has room for one more entry. *)
LEMMA KeptHasRoom ==
    ASSUME CapHeld, NEW kept \in Kept
    PROVE  IsFiniteSet(kept) /\ Cardinality(kept) <= MaxEntries - 1
<1> DEFINE live == {id \in DOMAIN entries : Alive(id)}
<1>max. MaxEntries \in Nat \ {0}
    BY StoreAssumption
<1>fin. IsFiniteSet(DOMAIN entries)
    BY DEF CapHeld
<1>1. CASE Cardinality(DOMAIN entries) < MaxEntries
    <2>1. kept = DOMAIN entries
        BY <1>1 DEF Kept
    <2>2. Cardinality(DOMAIN entries) \in Nat
        BY <1>fin, FS_CardinalityType
    <2> QED
        BY <2>1, <2>2, <1>1, <1>fin, <1>max
<1>2. CASE ~(Cardinality(DOMAIN entries) < MaxEntries)
    <2>1. /\ kept \subseteq live
          /\ Cardinality(kept) = IF Cardinality(live) < MaxEntries
                                 THEN Cardinality(live) ELSE MaxEntries - 1
        BY <1>2 DEF Kept
    <2>2. live \subseteq DOMAIN entries
        OBVIOUS
    <2>3. /\ IsFiniteSet(live)
          /\ Cardinality(live) \in Nat
        BY <2>2, <1>fin, FS_Subset, FS_CardinalityType
    <2>4. IsFiniteSet(kept)
        BY <2>1, <2>3, FS_Subset
    <2> HIDE DEF live
    <2> QED
        BY <2>1, <2>3, <2>4, <1>max
<1> QED
    BY <1>1, <1>2

(* An insert keeps the cap. *)
LEMMA InsertKeepsCap ==
    ASSUME CapHeld, NEW id \in ResponseIds, NEW msgs, Insert(id, msgs)
    PROVE  CapHeld'
<1>1. PICK kept \in Kept : DOMAIN entries' = kept \union {id}
    BY DEF Insert
<1>2. /\ IsFiniteSet(kept)
      /\ Cardinality(kept) <= MaxEntries - 1
      /\ Cardinality(kept) \in Nat
    BY KeptHasRoom, FS_CardinalityType
<1>3. /\ IsFiniteSet(kept \union {id})
      /\ Cardinality(kept \union {id}) <= Cardinality(kept) + 1
    <2>1. /\ IsFiniteSet(kept \union {id})
          /\ Cardinality(kept \union {id}) =
                IF id \in kept THEN Cardinality(kept) ELSE Cardinality(kept) + 1
        BY <1>2, FS_AddElement
    <2> QED
        BY <1>2, <2>1
<1>4. /\ MaxEntries \in Nat
      /\ Cardinality(kept \union {id}) \in Nat
    BY <1>3, FS_CardinalityType, StoreAssumption
<1> QED
    BY <1>1, <1>2, <1>3, <1>4 DEF CapHeld

(* "the map is capped to bound memory" (session_store.rs): at no time does *)
(* the store hold more than MAX_ENTRIES conversations.                     *)
THEOREM StoreCapped == StoreSpec => []CapHeld
<1>1. StoreInit => CapHeld
    <2> SUFFICES ASSUME StoreInit PROVE CapHeld
        OBVIOUS
    <2>1. DOMAIN entries = {}
        BY DEF StoreInit
    <2>2. IsFiniteSet({}) /\ Cardinality({}) = 0
        BY FS_EmptySet
    <2>3. 0 <= MaxEntries
        BY StoreAssumption
    <2> QED
        BY <2>1, <2>2, <2>3 DEF CapHeld
<1>2. CapHeld /\ [StoreNext]_storeVars => CapHeld'
    <2> SUFFICES ASSUME CapHeld, [StoreNext]_storeVars PROVE CapHeld'
        OBVIOUS
    <2>1. ASSUME NEW id \in ResponseIds, TurnArrives(id) PROVE CapHeld'
        BY <2>1 DEF TurnArrives, CapHeld
    <2>2. ASSUME NEW id \in ResponseIds, Complete(id) PROVE CapHeld'
        BY <2>2, InsertKeepsCap DEF Complete
    <2>3. ASSUME NEW id \in ResponseIds, Abandon(id) PROVE CapHeld'
        BY <2>3 DEF Abandon, CapHeld
    <2>4. ASSUME StoreTick PROVE CapHeld'
        BY <2>4 DEF StoreTick, CapHeld
    <2>5. ASSUME UNCHANGED storeVars PROVE CapHeld'
        BY <2>5 DEF storeVars, CapHeld
    <2> QED
        BY <2>1, <2>2, <2>3, <2>4, <2>5 DEF StoreNext
<1> QED
    BY <1>1, <1>2, PTL DEF StoreSpec

(* The conversation a turn continues. *)
Past(id) == IF turn[id].prev = NoId THEN <<>> ELSE turn[turn[id].prev].messages

(* A turn that has not failed holds its predecessor's conversation and its *)
(* own input, and its predecessor, if any, has completed.                  *)
TurnsChained ==
    \A id \in ResponseIds : turn[id].st \in {"pending", "completed"} =>
        /\ turn[id].messages = Append(Past(id), id)
        /\ turn[id].prev # NoId => turn[turn[id].prev].st = "completed"

(* An entry is the conversation of a completed turn, ... *)
EntriesOfTurns ==
    \A id \in DOMAIN entries :
        turn[id].st = "completed" /\ entries[id].messages = turn[id].messages

(* ... and was inserted when it says. *)
EntriesLogged ==
    \A id \in DOMAIN entries :
        \E i \in DOMAIN log : log[i].id = id /\ log[i].at = entries[id].created

StoreInv == StoreTypeOK /\ TurnsChained /\ EntriesOfTurns /\ EntriesLogged

(* The store is empty at the start. *)
LEMMA StoreInvInit == StoreInit => StoreInv
<1> SUFFICES ASSUME StoreInit PROVE StoreInv
    OBVIOUS
<1> USE DEF StoreInit, NewTurn
<1>1. StoreTypeOK
    <2>1. 0 \in 0..MaxStoreTime
        BY StoreAssumption
    <2>2. <<>> \in Messages /\ <<>> \in Seq([id : ResponseIds, at : 0..MaxStoreTime])
        BY DEF Messages
    <2> QED
        BY <2>1, <2>2 DEF StoreTypeOK
<1>2. TurnsChained /\ EntriesOfTurns /\ EntriesLogged
    BY DEF TurnsChained, EntriesOfTurns, EntriesLogged
<1> QED
    BY <1>1, <1>2 DEF StoreInv

(* A turn arrives: it was unused, so no turn continues it and no entry is  *)
(* its own, and what it fetches is its predecessor's conversation.         *)
LEMMA ArrivalKeepsStoreInv ==
    ASSUME StoreInv, NEW id \in ResponseIds, TurnArrives(id)
    PROVE  StoreInv'
<1>1. PICK prev \in {NoId} \union {p \in ResponseIds : turn[p].st = "completed"} :
          turn' = [turn EXCEPT ![id] =
                      IF prev # NoId /\ ~Found(prev)
                      THEN [st |-> "notFound", prev |-> prev, messages |-> <<>>]
                      ELSE [st |-> "pending", prev |-> prev,
                            messages |-> Append(IF prev = NoId THEN <<>>
                                                ELSE entries[prev].messages, id)]]
    BY DEF TurnArrives
<1>2. turn[id].st = "unused" /\ UNCHANGED <<storeClock, entries, log>>
    BY DEF TurnArrives
<1> DEFINE new == turn'[id]
<1>3. /\ \A x \in ResponseIds \ {id} : turn'[x] = turn[x]
      /\ \/ prev # NoId /\ ~Found(prev)
            /\ new = [st |-> "notFound", prev |-> prev, messages |-> <<>>]
         \/ /\ prev = NoId \/ Found(prev)
            /\ new = [st |-> "pending", prev |-> prev,
                      messages |-> Append(IF prev = NoId THEN <<>>
                                          ELSE entries[prev].messages, id)]
      /\ DOMAIN turn' = ResponseIds
    BY <1>1 DEF StoreInv, StoreTypeOK
<1>4. prev \in ResponseIds \union {NoId}
    OBVIOUS
<1>5. prev # NoId => turn[prev].st = "completed" /\ prev # id
    BY <1>2
<1>6. prev # NoId /\ Found(prev) => entries[prev].messages = turn[prev].messages
    BY DEF StoreInv, EntriesOfTurns, Found
<1>7. StoreTypeOK'
    <2>1. prev # NoId /\ Found(prev) => entries[prev].messages \in Messages
        BY <1>4, <1>6 DEF StoreInv, StoreTypeOK
    <2>2. new \in [st : {"unused", "pending", "notFound", "completed", "abandoned"},
                   prev : ResponseIds \union {NoId}, messages : Messages]
        <3>1. <<>> \in Messages /\ \A s \in Messages : Append(s, id) \in Messages
            BY DEF Messages
        <3>2. CASE prev # NoId /\ ~Found(prev)
            BY <1>3, <1>4, <3>1, <3>2
        <3>3. CASE prev = NoId \/ Found(prev)
            <4>1. (IF prev = NoId THEN <<>> ELSE entries[prev].messages) \in Messages
                BY <2>1, <3>1, <3>3
            <4>2. new = [st |-> "pending", prev |-> prev,
                         messages |-> Append(IF prev = NoId THEN <<>>
                                             ELSE entries[prev].messages, id)]
                BY <1>3, <3>3
            <4>3. new.messages \in Messages
                BY <3>1, <4>1, <4>2
            <4> QED
                BY <1>4, <4>2, <4>3
        <3> QED
            BY <3>2, <3>3
    <2>3. turn' \in [ResponseIds -> [st : {"unused", "pending", "notFound", "completed", "abandoned"},
                                     prev : ResponseIds \union {NoId}, messages : Messages]]
        BY <1>1, <2>2 DEF StoreInv, StoreTypeOK
    <2> QED
        BY <1>2, <2>3 DEF StoreInv, StoreTypeOK
<1>8. TurnsChained'
    <2> SUFFICES ASSUME NEW x \in ResponseIds, turn'[x].st \in {"pending", "completed"}
                 PROVE  /\ turn'[x].messages = Append(Past(x)', x)
                        /\ turn'[x].prev # NoId => turn'[turn'[x].prev].st = "completed"
        BY DEF TurnsChained
    <2>1. CASE x = id
        <3>1. new.prev = prev /\ (prev = NoId \/ Found(prev))
              /\ new.messages = Append(IF prev = NoId THEN <<>> ELSE entries[prev].messages, id)
            BY <2>1, <1>3
        <3>2. prev # NoId => turn'[prev] = turn[prev]
            BY <1>3, <1>4, <1>5
        <3> QED
            BY <2>1, <3>1, <3>2, <1>5, <1>6 DEF Past
    <2>2. CASE x # id
        <3>1. turn'[x] = turn[x]
            BY <2>2, <1>3
        <3>2. /\ turn[x].messages = Append(Past(x), x)
              /\ turn[x].prev # NoId => turn[turn[x].prev].st = "completed"
            BY <3>1 DEF StoreInv, TurnsChained
        <3>3. turn[x].prev \in ResponseIds \union {NoId}
            BY DEF StoreInv, StoreTypeOK
        <3>4. turn[x].prev # NoId => turn'[turn[x].prev] = turn[turn[x].prev]
            BY <3>2, <3>3, <1>2, <1>3
        <3> QED
            BY <3>1, <3>2, <3>4 DEF Past
    <2> QED
        BY <2>1, <2>2
<1>9. EntriesOfTurns'
    <2>1. \A x \in DOMAIN entries : x \in ResponseIds /\ x # id
        BY <1>2 DEF StoreInv, StoreTypeOK, EntriesOfTurns
    <2> QED
        BY <2>1, <1>2, <1>3 DEF StoreInv, EntriesOfTurns
<1>10. EntriesLogged'
    BY <1>2 DEF StoreInv, EntriesLogged
<1> QED
    BY <1>7, <1>8, <1>9, <1>10 DEF StoreInv

(* A turn completes: its entry is its own conversation, made now; the      *)
(* entries that are kept are what they were.                               *)
LEMMA CompletionKeepsStoreInv ==
    ASSUME StoreInv, NEW id \in ResponseIds, Complete(id)
    PROVE  StoreInv'
<1>1. PICK kept \in Kept :
          entries' = [k \in kept \union {id} |->
                         IF k = id THEN [messages |-> turn[id].messages, created |-> storeClock]
                         ELSE entries[k]]
    BY DEF Complete, Insert
<1>2. kept \subseteq DOMAIN entries
    BY DEF Kept
<1>3. /\ turn[id].st = "pending" /\ storeClock < MaxStoreTime
      /\ turn' = [turn EXCEPT ![id].st = "completed"]
      /\ log' = Append(log, [id |-> id, at |-> storeClock])
      /\ storeClock' = storeClock + 1
    BY DEF Complete
<1>4. /\ \A x \in ResponseIds : turn'[x].messages = turn[x].messages /\ turn'[x].prev = turn[x].prev
      /\ \A x \in ResponseIds \ {id} : turn'[x].st = turn[x].st
      /\ turn'[id].st = "completed"
    BY <1>3 DEF StoreInv, StoreTypeOK
<1>5. storeClock \in 0..MaxStoreTime /\ storeClock' \in 0..MaxStoreTime
    BY <1>3, StoreAssumption DEF StoreInv, StoreTypeOK
<1>6. /\ log \in Seq([id : ResponseIds, at : 0..MaxStoreTime])
      /\ [id |-> id, at |-> storeClock] \in [id : ResponseIds, at : 0..MaxStoreTime]
    BY <1>5 DEF StoreInv, StoreTypeOK
<1>7. StoreTypeOK'
    <2>1. DOMAIN entries' \subseteq ResponseIds
        BY <1>1, <1>2 DEF StoreInv, StoreTypeOK
    <2>2. \A x \in DOMAIN entries' :
             entries'[x] \in [messages : Messages, created : 0..MaxStoreTime]
        <3>1. turn[id].messages \in Messages
            BY DEF StoreInv, StoreTypeOK
        <3>2. \A x \in kept : entries[x] \in [messages : Messages, created : 0..MaxStoreTime]
            BY <1>2 DEF StoreInv, StoreTypeOK
        <3> QED
            BY <1>1, <1>5, <3>1, <3>2
    <2>3. turn' \in [ResponseIds -> [st : {"unused", "pending", "notFound", "completed", "abandoned"},
                                     prev : ResponseIds \union {NoId}, messages : Messages]]
        BY <1>3 DEF StoreInv, StoreTypeOK
    <2>4. log' \in Seq([id : ResponseIds, at : 0..MaxStoreTime])
        BY <1>3, <1>6
    <2> QED
        BY <1>5, <2>1, <2>2, <2>3, <2>4 DEF StoreTypeOK
<1>8. TurnsChained'
    <2> SUFFICES ASSUME NEW x \in ResponseIds, turn'[x].st \in {"pending", "completed"}
                 PROVE  /\ turn'[x].messages = Append(Past(x)', x)
                        /\ turn'[x].prev # NoId => turn'[turn'[x].prev].st = "completed"
        BY DEF TurnsChained
    <2>1. turn[x].st \in {"pending", "completed"}
        BY <1>3, <1>4
    <2>2. /\ turn[x].messages = Append(Past(x), x)
          /\ turn[x].prev # NoId => turn[turn[x].prev].st = "completed"
        BY <2>1 DEF StoreInv, TurnsChained
    <2>3. turn[x].prev \in ResponseIds \union {NoId}
        BY DEF StoreInv, StoreTypeOK
    <2>4. turn[x].prev # NoId => /\ turn'[turn[x].prev].messages = turn[turn[x].prev].messages
                                 /\ turn'[turn[x].prev].st = "completed"
        BY <2>2, <2>3, <1>4
    <2>5. Past(x)' = Past(x)
        BY <1>4, <2>4 DEF Past
    <2> QED
        BY <1>4, <2>2, <2>4, <2>5
<1>9. EntriesOfTurns'
    <2> SUFFICES ASSUME NEW x \in DOMAIN entries'
                 PROVE  turn'[x].st = "completed" /\ entries'[x].messages = turn'[x].messages
        BY DEF EntriesOfTurns
    <2>1. CASE x = id
        BY <2>1, <1>1, <1>4
    <2>2. CASE x # id
        <3>1. x \in DOMAIN entries /\ entries'[x] = entries[x] /\ x \in ResponseIds
            BY <2>2, <1>1, <1>2 DEF StoreInv, StoreTypeOK
        <3> QED
            BY <2>2, <3>1, <1>4 DEF StoreInv, EntriesOfTurns
    <2> QED
        BY <2>1, <2>2
<1>10. EntriesLogged'
    <2> SUFFICES ASSUME NEW x \in DOMAIN entries'
                 PROVE  \E i \in DOMAIN log' : log'[i].id = x /\ log'[i].at = entries'[x].created
        BY DEF EntriesLogged
    <2>1. /\ DOMAIN log' = 1..(Len(log) + 1) /\ DOMAIN log = 1..Len(log) /\ Len(log) \in Nat
          /\ log'[Len(log) + 1] = [id |-> id, at |-> storeClock]
          /\ \A i \in DOMAIN log : log'[i] = log[i]
        BY <1>3, <1>6
    <2>2. CASE x = id
        BY <2>1, <2>2, <1>1
    <2>3. CASE x # id
        <3>1. x \in DOMAIN entries /\ entries'[x] = entries[x]
            BY <2>3, <1>1, <1>2
        <3>2. PICK i \in DOMAIN log : log[i].id = x /\ log[i].at = entries[x].created
            BY <3>1 DEF StoreInv, EntriesLogged
        <3>3. i \in DOMAIN log' /\ log'[i] = log[i]
            BY <2>1
        <3> QED
            BY <3>1, <3>2, <3>3
    <2> QED
        BY <2>2, <2>3
<1> QED
    BY <1>7, <1>8, <1>9, <1>10 DEF StoreInv

(* The upstream failed or the client went away: nothing is stored. *)
LEMMA AbandonKeepsStoreInv ==
    ASSUME StoreInv, NEW id \in ResponseIds, Abandon(id)
    PROVE  StoreInv'
<1>1. /\ turn[id].st = "pending"
      /\ turn' = [turn EXCEPT ![id].st = "abandoned"]
      /\ UNCHANGED <<storeClock, entries, log>>
    BY DEF Abandon
<1>2. /\ \A x \in ResponseIds : turn'[x].messages = turn[x].messages /\ turn'[x].prev = turn[x].prev
      /\ \A x \in ResponseIds \ {id} : turn'[x].st = turn[x].st
      /\ turn'[id].st = "abandoned"
    BY <1>1 DEF StoreInv, StoreTypeOK
<1>3. StoreTypeOK'
    BY <1>1 DEF StoreInv, StoreTypeOK
<1>4. TurnsChained'
    <2> SUFFICES ASSUME NEW x \in ResponseIds, turn'[x].st \in {"pending", "completed"}
                 PROVE  /\ turn'[x].messages = Append(Past(x)', x)
                        /\ turn'[x].prev # NoId => turn'[turn'[x].prev].st = "completed"
        BY DEF TurnsChained
    <2>1. x # id /\ turn[x].st \in {"pending", "completed"}
        BY <1>2
    <2>2. /\ turn[x].messages = Append(Past(x), x)
          /\ turn[x].prev # NoId => turn[turn[x].prev].st = "completed"
        BY <2>1 DEF StoreInv, TurnsChained
    <2>3. turn[x].prev \in ResponseIds \union {NoId}
        BY DEF StoreInv, StoreTypeOK
    <2>4. turn[x].prev # NoId => /\ turn'[turn[x].prev].messages = turn[turn[x].prev].messages
                                 /\ turn'[turn[x].prev].st = "completed"
        BY <2>2, <2>3, <1>1, <1>2
    <2>5. Past(x)' = Past(x)
        BY <1>2, <2>4 DEF Past
    <2> QED
        BY <1>2, <2>2, <2>4, <2>5
<1>5. EntriesOfTurns'
    <2>1. \A x \in DOMAIN entries : x \in ResponseIds /\ x # id
        BY <1>1 DEF StoreInv, StoreTypeOK, EntriesOfTurns
    <2> QED
        BY <2>1, <1>1, <1>2 DEF StoreInv, EntriesOfTurns
<1>6. EntriesLogged'
    BY <1>1 DEF StoreInv, EntriesLogged
<1> QED
    BY <1>3, <1>4, <1>5, <1>6 DEF StoreInv

(* Every action keeps the invariant of the store. *)
LEMMA StoreInvInductive == StoreInv /\ [StoreNext]_storeVars => StoreInv'
<1> SUFFICES ASSUME StoreInv, [StoreNext]_storeVars PROVE StoreInv'
    OBVIOUS
<1>1. ASSUME StoreTick PROVE StoreInv'
    <2>1. storeClock' \in 0..MaxStoreTime
        BY <1>1, StoreAssumption DEF StoreTick, StoreInv, StoreTypeOK
    <2>2. UNCHANGED <<entries, turn, log>>
        BY <1>1 DEF StoreTick
    <2> QED
        BY <2>1, <2>2 DEF StoreInv, StoreTypeOK, TurnsChained, Past, EntriesOfTurns, EntriesLogged
<1>2. ASSUME UNCHANGED storeVars PROVE StoreInv'
    BY <1>2 DEF storeVars, StoreInv, StoreTypeOK, TurnsChained, Past, EntriesOfTurns, EntriesLogged
<1> QED
    BY <1>1, <1>2, ArrivalKeepsStoreInv, CompletionKeepsStoreInv, AbandonKeepsStoreInv DEF StoreNext

(* The invariant of the store. *)
LEMMA StoreInvariant == StoreSpec => []StoreInv
    BY StoreInvInit, StoreInvInductive, PTL DEF StoreSpec

(* Every variable of the store keeps its type. *)
THEOREM StoreTypeCorrect == StoreSpec => []StoreTypeOK
<1>1. StoreInv => StoreTypeOK
    BY DEF StoreInv
<1> QED
    BY <1>1, StoreInvariant, PTL

(* A stored conversation is its predecessor's plus its own turn, also when *)
(* the predecessor has been evicted or expired between the fetch of        *)
(* request_filter and the insert at completion.                            *)
THEOREM ConversationsChain == StoreSpec => []ChainIntact
<1>1. StoreInv => ChainIntact
    BY DEF StoreInv, StoreTypeOK, EntriesOfTurns, TurnsChained, Past, ChainIntact
<1> QED
    BY <1>1, StoreInvariant, PTL

(* A turn that is let through continues a response stored less than        *)
(* ENTRY_TTL ago.                                                          *)
THEOREM NoChainPastTTL == StoreSpec => NoExpiredChain
<1> DEFINE Fresh == \A id \in ResponseIds : Chained(id) =>
              \E i \in DOMAIN log : log[i].id = turn'[id].prev /\ storeClock - log[i].at < TTL
<1>1. StoreInv /\ [StoreNext]_storeVars => [Fresh]_storeVars
    <2> SUFFICES ASSUME StoreInv, StoreNext, NEW id \in ResponseIds, Chained(id)
                 PROVE  \E i \in DOMAIN log : log[i].id = turn'[id].prev /\ storeClock - log[i].at < TTL
        OBVIOUS
    <2>1. turn[id].st = "unused" /\ turn'[id].st = "pending" /\ turn'[id].prev # NoId
        BY DEF Chained
    <2>2. TurnArrives(id)
        <3>1. ASSUME NEW x \in ResponseIds, TurnArrives(x), x # id PROVE turn'[id] = turn[id]
            BY <3>1 DEF TurnArrives, StoreInv, StoreTypeOK
        <3>2. ASSUME NEW x \in ResponseIds, Complete(x) PROVE turn'[id].st # "pending" \/ turn[id].st # "unused"
            BY <3>2 DEF Complete, StoreInv, StoreTypeOK
        <3>3. ASSUME NEW x \in ResponseIds, Abandon(x) PROVE turn'[id].st # "pending" \/ turn[id].st # "unused"
            BY <3>3 DEF Abandon, StoreInv, StoreTypeOK
        <3>4. ASSUME StoreTick PROVE turn'[id] = turn[id]
            BY <3>4 DEF StoreTick
        <3> QED
            BY <2>1, <3>1, <3>2, <3>3, <3>4 DEF StoreNext
    <2>3. PICK prev \in {NoId} \union {p \in ResponseIds : turn[p].st = "completed"} :
              turn' = [turn EXCEPT ![id] =
                          IF prev # NoId /\ ~Found(prev)
                          THEN [st |-> "notFound", prev |-> prev, messages |-> <<>>]
                          ELSE [st |-> "pending", prev |-> prev,
                                messages |-> Append(IF prev = NoId THEN <<>>
                                                    ELSE entries[prev].messages, id)]]
        BY <2>2 DEF TurnArrives
    <2>4. turn'[id].prev = prev /\ Found(prev)
        BY <2>1, <2>3 DEF StoreInv, StoreTypeOK
    <2>5. PICK i \in DOMAIN log : log[i].id = prev /\ log[i].at = entries[prev].created
        BY <2>4 DEF Found, StoreInv, EntriesLogged
    <2> QED
        BY <2>4, <2>5 DEF Found, Alive
<1> QED
    BY <1>1, StoreInvariant, PTL DEF StoreSpec, NoExpiredChain

(* Inserts are logged in the order of their times, all of them past. *)
LogOrdered ==
    /\ \A i, j \in DOMAIN log : i < j => log[i].at < log[j].at
    /\ \A i \in DOMAIN log : log[i].at < storeClock

(* KeptWhileYoung, with the entry that is found. *)
YoungPresent ==
    \A i \in DOMAIN log :
        storeClock - log[i].at < TTL /\ Len(log) - i < MaxEntries =>
            log[i].id \in DOMAIN entries /\ entries[log[i].id].created = log[i].at

YoungInv == StoreInv /\ CapHeld /\ LogOrdered /\ YoungPresent

(* Turns were stored at a time. *)
LEMMA LogTimes == StoreInv => \A i \in DOMAIN log : log[i].at \in Nat
<1> SUFFICES ASSUME StoreInv, NEW i \in DOMAIN log PROVE log[i].at \in Nat
    OBVIOUS
<1> DEFINE Logged == [id : ResponseIds, at : 0..MaxStoreTime]
<1>1. log \in Seq(Logged)
    BY DEF StoreInv, StoreTypeOK
<1> HIDE DEF Logged
<1>2. log[i] \in Logged
    BY <1>1
<1> QED
    BY <1>2 DEF Logged

(* Eviction leaves an entry that is alive and has fewer than MaxEntries - 1 *)
(* inserts after it.                                                       *)
LEMMA YoungIsKept ==
    ASSUME YoungInv, NEW kept \in Kept, NEW i \in DOMAIN log,
           log[i].id \in DOMAIN entries, entries[log[i].id].created = log[i].at,
           storeClock - log[i].at < TTL, Len(log) + 1 - i < MaxEntries
    PROVE  log[i].id \in kept
<1> DEFINE live == {id \in DOMAIN entries : Alive(id)}
           k    == log[i].id
<1>nat. /\ MaxEntries \in Nat \ {0} /\ Len(log) \in Nat /\ DOMAIN log = 1..Len(log)
        /\ i \in 1..Len(log)
    BY StoreAssumption DEF YoungInv, StoreInv, StoreTypeOK
<1>live. k \in live
    BY DEF Alive
<1>fin. IsFiniteSet(live) /\ Cardinality(live) \in Nat
    BY FS_Subset, FS_CardinalityType DEF YoungInv, CapHeld
<1>1. CASE Cardinality(DOMAIN entries) < MaxEntries
    BY <1>1 DEF Kept
<1>2. CASE ~(Cardinality(DOMAIN entries) < MaxEntries)
    <2>1. /\ kept \subseteq live
          /\ Cardinality(kept) = IF Cardinality(live) < MaxEntries
                                 THEN Cardinality(live) ELSE MaxEntries - 1
          /\ \A x \in kept, g \in live \ kept : entries[g].created <= entries[x].created
        BY <1>2 DEF Kept
    <2> HIDE DEF live
    <2>2. CASE Cardinality(live) < MaxEntries
        BY <2>1, <2>2, <1>live, <1>fin, FS_Subset
    <2>3. CASE ~(Cardinality(live) < MaxEntries)
        <3> SUFFICES ASSUME k \notin kept PROVE FALSE
            OBVIOUS
        <3> DEFINE after == (i + 1)..Len(log)
        <3>1. \A x \in kept : \E j \in after : log[j].id = x
            <4> SUFFICES ASSUME NEW x \in kept PROVE \E j \in after : log[j].id = x
                OBVIOUS
            <4>1. x \in DOMAIN entries /\ x # k
                BY <2>1 DEF live
            <4>2. PICK j \in DOMAIN log : log[j].id = x /\ log[j].at = entries[x].created
                BY <4>1 DEF YoungInv, StoreInv, EntriesLogged
            <4>3. log[i].at <= log[j].at
                BY <2>1, <1>live, <4>2
            <4>4. log[i].at \in Nat /\ log[j].at \in Nat
                BY LogTimes DEF YoungInv
            <4>5. ~(j < i)
                BY <4>3, <4>4 DEF YoungInv, LogOrdered
            <4>6. j # i
                BY <4>1, <4>2
            <4>7. j \in after
                BY <4>5, <4>6, <1>nat
            <4> QED
                BY <4>2, <4>7
        <3> DEFINE place == [x \in kept |-> CHOOSE j \in after : log[j].id = x]
        <3>2. place \in [kept -> after] /\ \A x \in kept : log[place[x]].id = x
            BY <3>1
        <3>3. IsFiniteSet(after) /\ Cardinality(after) <= Len(log) - i
            <4>1. i + 1 \in Int /\ Len(log) \in Int
                BY <1>nat
            <4>2. /\ IsFiniteSet((i + 1)..Len(log))
                  /\ Cardinality((i + 1)..Len(log)) =
                        IF i + 1 > Len(log) THEN 0 ELSE Len(log) - (i + 1) + 1
                BY <4>1, FS_Interval
            <4> QED
                BY <4>2, <1>nat
        <3>4. IsFiniteSet(kept) /\ Cardinality(kept) = MaxEntries - 1
            BY <2>1, <2>3, <1>fin, FS_Subset
        <3>5. Cardinality(after) < Cardinality(kept)
            <4>1. Cardinality(after) \in Nat
                BY <3>3, FS_CardinalityType
            <4> QED
                BY <4>1, <3>3, <3>4, <1>nat
        <3> HIDE DEF place, after
        <3>6. PICK x, y \in kept : x # y /\ place[x] = place[y]
            BY <3>2, <3>3, <3>4, <3>5, FS_PigeonHole
        <3> QED
            BY <3>2, <3>6
    <2> QED
        BY <2>2, <2>3
<1> QED
    BY <1>1, <1>2

(* No turn is stored at the start. *)
LEMMA YoungInvInit == StoreInit => YoungInv
<1>1. StoreInit => CapHeld
    BY StoreAssumption, FS_EmptySet DEF StoreInit, CapHeld
<1>2. StoreInit => LogOrdered /\ YoungPresent
    BY DEF StoreInit, LogOrdered, YoungPresent
<1> QED
    BY <1>1, <1>2, StoreInvInit DEF YoungInv

(* A completed turn is the youngest, and takes the place of none that is   *)
(* young.                                                                  *)
LEMMA CompletionKeepsYoung ==
    ASSUME YoungInv, NEW id \in ResponseIds, Complete(id)
    PROVE  LogOrdered' /\ YoungPresent'
<1>1. PICK kept \in Kept :
          entries' = [k \in kept \union {id} |->
                         IF k = id THEN [messages |-> turn[id].messages, created |-> storeClock]
                         ELSE entries[k]]
    BY DEF Complete, Insert
<1>2. /\ turn[id].st = "pending"
      /\ log' = Append(log, [id |-> id, at |-> storeClock])
      /\ storeClock' = storeClock + 1
    BY DEF Complete
<1>3. /\ storeClock \in Nat /\ Len(log) \in Nat /\ TTL \in Nat /\ MaxEntries \in Nat \ {0}
      /\ log \in Seq([id : ResponseIds, at : 0..MaxStoreTime])
    BY StoreAssumption DEF YoungInv, StoreInv, StoreTypeOK
<1>4. /\ DOMAIN log = 1..Len(log) /\ DOMAIN log' = 1..(Len(log) + 1)
      /\ Len(log') = Len(log) + 1
      /\ \A i \in DOMAIN log : log'[i] = log[i]
      /\ log'[Len(log) + 1] = [id |-> id, at |-> storeClock]
    BY <1>2, <1>3
<1>5. \A i \in DOMAIN log : log[i].at \in Nat
    BY LogTimes DEF YoungInv
<1>6. LogOrdered'
    <2>1. ASSUME NEW i \in DOMAIN log', NEW j \in DOMAIN log', i < j PROVE log'[i].at < log'[j].at
        <3>1. i \in DOMAIN log
            BY <2>1, <1>3, <1>4
        <3>2. CASE j \in DOMAIN log
            BY <2>1, <3>1, <3>2, <1>4 DEF YoungInv, LogOrdered
        <3>3. CASE j = Len(log) + 1
            BY <3>1, <3>3, <1>4 DEF YoungInv, LogOrdered
        <3> QED
            BY <3>2, <3>3, <1>3, <1>4
    <2>2. ASSUME NEW i \in DOMAIN log' PROVE log'[i].at < storeClock'
        <3>1. CASE i \in DOMAIN log
            BY <3>1, <1>2, <1>3, <1>4, <1>5 DEF YoungInv, LogOrdered
        <3>2. CASE i = Len(log) + 1
            BY <3>2, <1>2, <1>3, <1>4
        <3> QED
            BY <3>1, <3>2, <1>3, <1>4
    <2> QED
        BY <2>1, <2>2 DEF LogOrdered
<1>7. YoungPresent'
    <2> SUFFICES ASSUME NEW i \in DOMAIN log',
                        storeClock' - log'[i].at < TTL, Len(log') - i < MaxEntries
                 PROVE  /\ log'[i].id \in DOMAIN entries'
                        /\ entries'[log'[i].id].created = log'[i].at
        BY DEF YoungPresent
    <2>1. CASE i = Len(log) + 1
        BY <2>1, <1>1, <1>4
    <2>2. CASE i \in DOMAIN log
        <3>1. storeClock - log[i].at < TTL /\ Len(log) - i < MaxEntries /\ Len(log) + 1 - i < MaxEntries
            BY <2>2, <1>2, <1>3, <1>4, <1>5
        <3>2. log[i].id \in DOMAIN entries /\ entries[log[i].id].created = log[i].at
            BY <2>2, <3>1 DEF YoungInv, YoungPresent
        <3>3. log[i].id \in kept
            BY <2>2, <3>1, <3>2, YoungIsKept
        <3>4. log[i].id # id
            BY <1>2, <3>2 DEF YoungInv, StoreInv, EntriesOfTurns
        <3> QED
            BY <2>2, <3>2, <3>3, <3>4, <1>1, <1>4
    <2> QED
        BY <2>1, <2>2, <1>3, <1>4
<1> QED
    BY <1>6, <1>7

(* Other steps leave entries and log alone; time only makes fewer young.   *)
LEMMA OthersKeepYoung ==
    ASSUME YoungInv, UNCHANGED <<entries, log>>,
           storeClock' \in {storeClock, storeClock + 1}
    PROVE  LogOrdered' /\ YoungPresent'
<1>1. /\ storeClock \in Nat /\ TTL \in Nat
      /\ \A i \in DOMAIN log : log[i].at \in Nat
    BY StoreAssumption, LogTimes DEF YoungInv, StoreInv, StoreTypeOK
<1>2. LogOrdered'
    BY <1>1 DEF YoungInv, LogOrdered
<1>3. \A i \in DOMAIN log : storeClock' - log[i].at < TTL => storeClock - log[i].at < TTL
    BY <1>1
<1>4. YoungPresent'
    BY <1>3 DEF YoungInv, YoungPresent
<1> QED
    BY <1>2, <1>4

(* Every action keeps the younger turns while the cap holds. *)
LEMMA YoungInvInductive == YoungInv /\ CapHeld' /\ [StoreNext]_storeVars => YoungInv'
<1> SUFFICES ASSUME YoungInv, CapHeld', [StoreNext]_storeVars PROVE YoungInv'
    OBVIOUS
<1>1. StoreInv'
    BY StoreInvInductive DEF YoungInv
<1>2. ASSUME NEW id \in ResponseIds, TurnArrives(id) PROVE LogOrdered' /\ YoungPresent'
    BY <1>2, OthersKeepYoung DEF TurnArrives
<1>3. ASSUME NEW id \in ResponseIds, Complete(id) PROVE LogOrdered' /\ YoungPresent'
    BY <1>3, CompletionKeepsYoung
<1>4. ASSUME NEW id \in ResponseIds, Abandon(id) PROVE LogOrdered' /\ YoungPresent'
    BY <1>4, OthersKeepYoung DEF Abandon
<1>5. ASSUME StoreTick PROVE LogOrdered' /\ YoungPresent'
    BY <1>5, OthersKeepYoung DEF StoreTick
<1>6. ASSUME UNCHANGED storeVars PROVE LogOrdered' /\ YoungPresent'
    BY <1>6, OthersKeepYoung DEF storeVars
<1> QED
    BY <1>1, <1>2, <1>3, <1>4, <1>5, <1>6 DEF StoreNext, YoungInv

(* A response can be continued for ENTRY_TTL unless MAX_ENTRIES later ones *)
(* were stored: "oldest are evicted first" and expiry lose nothing else.   *)
THEOREM YoungResponsesKept == StoreSpec => []KeptWhileYoung
<1>1. YoungInv => KeptWhileYoung
    BY DEF YoungInv, YoungPresent, KeptWhileYoung, Found, Alive
<1> QED
    BY <1>1, StoreCapped, YoungInvInit, YoungInvInductive, PTL DEF StoreSpec

(* The promises of the session store together: capped, no younger entry     *)
(* lost, conversations whole.                                               *)
THEOREM StoreKeepsPromises == StoreSpec => []StoreSound
<1>1. CapHeld /\ KeptWhileYoung /\ ChainIntact => StoreSound
    BY DEF StoreSound
<1> QED
    BY <1>1, StoreCapped, YoungResponsesKept, ConversationsChain, PTL
=============================================================================
