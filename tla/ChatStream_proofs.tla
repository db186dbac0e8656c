-------------------------- MODULE ChatStream_proofs --------------------------
(***************************************************************************)
(* Command Code streams, for any number of calls, lines in any order and   *)
(* every frontend: no two calls of an answer have the same index, at most  *)
(* one chunk is terminal, and each call goes out once, with its own        *)
(* arguments.  Orderly streams of every provider: the frames of the        *)
(* Anthropic and Responses dialects implement FrameStream.                 *)
(*                                                                         *)
(* IndicesApart is not inductive: a call that has started keeps its index  *)
(* until it ends, when others have gone out.  CommandCodeInv adds that the *)
(* indices of the calls being assembled differ from one another and from   *)
(* those sent, and that tool_index is beyond them all; and that a terminal *)
(* chunk has gone out only if finish_seen.  CallsInv says of a call that is*)
(* not complete that it is being assembled if it has started, with the     *)
(* pieces given since, and of a complete one that it was remembered.       *)
(*                                                                         *)
(* For the frames, ToldInv says that the payloads of an orderly stream suit*)
(* one another, and FramedInv that the client can read the frames left and *)
(* will then stand where the renderer does.                                *)
(*                                                                         *)
(* At the end, the types of all variables, for every frontend.             *)
(***************************************************************************)
EXTENDS ChatStream, TLAPS, FiniteSetTheorems

(***************************************************************************)
(* What a payload adds to those sent                                       *)
(***************************************************************************)

IndicesIn(c)   == {c.calls[m].index : m \in DOMAIN c.calls}
IndicesOf(s)   == UNION {IndicesIn(s[i]) : i \in DOMAIN s}
Apart(s) ==
    \A i, j \in DOMAIN s : \A m \in DOMAIN s[i].calls, n \in DOMAIN s[j].calls :
        s[i].calls[m].index = s[j].calls[n].index => i = j /\ m = n
Terminals(s)   == {i \in DOMAIN s : s[i].finish # NoReason}
AtMostOne(S)   == \A i, j \in S : i = j

(* A payload appended to those sent. *)
LEMMA Appended ==
    ASSUME NEW s \in Seq(Chunk), NEW c \in Chunk
    PROVE  LET t == Append(s, c) IN
           /\ t \in Seq(Chunk) /\ DOMAIN t = DOMAIN s \union {Len(s) + 1}
           /\ Len(s) + 1 \notin DOMAIN s
           /\ \A i \in DOMAIN s : t[i] = s[i]
           /\ t[Len(s) + 1] = c
    OBVIOUS

(* The indices used are those of before and those of the new payload. *)
LEMMA AppendedIndices ==
    ASSUME NEW s \in Seq(Chunk), NEW c \in Chunk
    PROVE  IndicesOf(Append(s, c)) = IndicesOf(s) \union IndicesIn(c)
<1> DEFINE t == Append(s, c)
<1>1. /\ DOMAIN t = DOMAIN s \union {Len(s) + 1}
      /\ \A i \in DOMAIN s : t[i] = s[i]
      /\ t[Len(s) + 1] = c
    BY Appended
<1> HIDE DEF t
<1>2. IndicesOf(t) = IndicesOf(s) \union IndicesIn(c)
    BY <1>1 DEF IndicesOf
<1> QED
    BY <1>2 DEF t

(* A chunk with at most one call, of an index not used yet, keeps the      *)
(* indices apart.                                                          *)
LEMMA AppendedApart ==
    ASSUME NEW s \in Seq(Chunk), NEW c \in Chunk, Apart(s),
           \A m, n \in DOMAIN c.calls : m = n,
           \A m \in DOMAIN c.calls : c.calls[m].index \notin IndicesOf(s)
    PROVE  Apart(Append(s, c))
<1> DEFINE t == Append(s, c)
<1>1. /\ DOMAIN t = DOMAIN s \union {Len(s) + 1}
      /\ \A i \in DOMAIN s : t[i] = s[i]
      /\ t[Len(s) + 1] = c
    BY Appended
<1> HIDE DEF t
<1> SUFFICES ASSUME NEW i \in DOMAIN t, NEW j \in DOMAIN t,
                    NEW m \in DOMAIN t[i].calls, NEW n \in DOMAIN t[j].calls,
                    t[i].calls[m].index = t[j].calls[n].index
             PROVE  i = j /\ m = n
    BY DEF Apart, t
<1>2. CASE i \in DOMAIN s /\ j \in DOMAIN s
    BY <1>1, <1>2 DEF Apart
<1>3. ASSUME NEW x \in DOMAIN s, NEW k \in DOMAIN s[x].calls, NEW l \in DOMAIN c.calls
      PROVE  s[x].calls[k].index # c.calls[l].index
    BY DEF IndicesOf, IndicesIn
<1>4. CASE i = Len(s) + 1 /\ j = Len(s) + 1
    BY <1>1, <1>4
<1>5. CASE i \in DOMAIN s /\ j = Len(s) + 1
    BY <1>1, <1>3, <1>5
<1>6. CASE i = Len(s) + 1 /\ j \in DOMAIN s
    BY <1>1, <1>3, <1>6
<1> QED
    BY <1>1, <1>2, <1>4, <1>5, <1>6

(* The terminal payloads are those of before, and the new one if it is. *)
LEMMA AppendedTerminals ==
    ASSUME NEW s \in Seq(Chunk), NEW c \in Chunk
    PROVE  Terminals(Append(s, c)) =
              IF c.finish # NoReason THEN Terminals(s) \union {Len(s) + 1} ELSE Terminals(s)
<1> DEFINE t == Append(s, c)
<1>1. /\ DOMAIN t = DOMAIN s \union {Len(s) + 1}
      /\ Len(s) + 1 \notin DOMAIN s
      /\ \A i \in DOMAIN s : t[i] = s[i]
      /\ t[Len(s) + 1] = c
    BY Appended
<1> HIDE DEF t
<1>2. Terminals(t) = IF c.finish # NoReason THEN Terminals(s) \union {Len(s) + 1} ELSE Terminals(s)
    BY <1>1 DEF Terminals
<1> QED
    BY <1>2 DEF t

(* The payloads of a Command Code stream.                                  *)
LEMMA PlainChunks ==
    /\ \A c \in {TextChunk, ReasoningChunk, ErrorChunk, DoneMarker} :
          c \in Chunk /\ c.calls = <<>> /\ c.finish = NoReason
    /\ \A r \in Reasons : FinishChunk(r) \in Chunk /\ FinishChunk(r).calls = <<>>
<1>1. <<>> \in Seq(Part)
    OBVIOUS
<1> QED
    BY <1>1 DEF TextChunk, ReasoningChunk, ErrorChunk, DoneMarker, FinishChunk, EmptyChunk,
                Chunk, Reasons, NoReason

(* A payload with one call. *)
LEMMA CallChunks ==
    ASSUME NEW i \in Nat, NEW id \in Calls \union {NoId}, NEW args \in Arguments
    PROVE  LET c == CallChunk(i, id, args) IN
           /\ c \in Chunk /\ c.finish = NoReason
           /\ DOMAIN c.calls = {1} /\ c.calls[1].index = i
           /\ IndicesIn(c) = {i}
<1> DEFINE p == [index |-> i, id |-> id, name |-> id, args |-> args]
           c == CallChunk(i, id, args)
<1>1. p \in Part
    BY DEF Part
<1>2. <<p>> \in Seq(Part) /\ DOMAIN <<p>> = {1} /\ <<p>>[1] = p
    BY <1>1
<1>3. c \in Chunk /\ c.calls = <<p>> /\ c.finish = NoReason
    BY <1>2 DEF CallChunk, EmptyChunk, Chunk, Reasons, NoReason
<1>4. p.index = i
    OBVIOUS
<1> HIDE DEF c, p
<1>5. /\ DOMAIN c.calls = {1} /\ c.calls[1].index = i
      /\ IndicesIn(c) = {i}
    BY <1>2, <1>3, <1>4 DEF IndicesIn
<1> QED
    BY <1>3, <1>5 DEF c

(***************************************************************************)
(* The invariant                                                           *)
(***************************************************************************)

(* The calls being assembled have indices of their own, ... *)
AssembledApart ==
    /\ DOMAIN toolParts \subseteq Calls
    /\ \A x \in DOMAIN toolParts :
          /\ toolParts[x] \in [index : Nat, args : Arguments]
          /\ toolParts[x].index < toolIndex /\ toolParts[x].index \notin IndicesOf(sent)
    /\ \A x, y \in DOMAIN toolParts : toolParts[x].index = toolParts[y].index => x = y

(* ... those that went out are apart and used up, ... *)
SentApart ==
    /\ sent \in Seq(Chunk) /\ Apart(sent)
    /\ toolIndex \in Nat
    /\ \A n \in IndicesOf(sent) : n \in Nat /\ n < toolIndex

(* ... and so did a finish, if any. *)
FinishKnown ==
    AtMostOne(Terminals(sent)) /\ (Terminals(sent) # {} => finishSeen)

CommandCodeInv ==
    provider = "command-code" => AssembledApart /\ SentApart /\ FinishKnown

(* A payload without calls and reason says nothing to the invariant. *)
LEMMA PlainAppend ==
    ASSUME NEW s \in Seq(Chunk), Apart(s),
           NEW c \in {TextChunk, ReasoningChunk, ErrorChunk, DoneMarker}
    PROVE  LET t == Append(s, c) IN
           /\ t \in Seq(Chunk) /\ Apart(t)
           /\ IndicesOf(t) = IndicesOf(s) /\ Terminals(t) = Terminals(s)
<1>1. c \in Chunk /\ c.calls = <<>> /\ c.finish = NoReason
    BY PlainChunks
<1>2. DOMAIN c.calls = {} /\ IndicesIn(c) = {}
    BY <1>1 DEF IndicesIn
<1>3. Append(s, c) \in Seq(Chunk)
    BY <1>1
<1>4. Apart(Append(s, c))
    BY <1>1, <1>2, AppendedApart
<1>5. IndicesOf(Append(s, c)) = IndicesOf(s)
    BY <1>1, <1>2, AppendedIndices
<1>6. Terminals(Append(s, c)) = Terminals(s)
    BY <1>1, AppendedTerminals
<1> QED
    BY <1>3, <1>4, <1>5, <1>6

(* Payloads that bring no index and no finish keep the invariant. *)
LEMMA SentPlain ==
    ASSUME AssembledApart, SentApart, FinishKnown, UNCHANGED state,
           sent' \in Seq(Chunk), Apart(sent'),
           IndicesOf(sent') = IndicesOf(sent), Terminals(sent') = Terminals(sent)
    PROVE  AssembledApart' /\ SentApart' /\ FinishKnown'
<1>1. UNCHANGED <<toolIndex, toolParts, finishSeen>>
    BY DEF state
<1>2. IndicesOf(sent)' = IndicesOf(sent)
    BY DEF IndicesOf, IndicesIn
<1>3. Terminals(sent)' = Terminals(sent)
    BY DEF Terminals
<1>4. AssembledApart'
    BY <1>1, <1>2 DEF AssembledApart
<1>5. SentApart'
    BY <1>1, <1>2 DEF SentApart, Apart
<1>6. FinishKnown'
    BY <1>1, <1>3 DEF FinishKnown, AtMostOne
<1> QED
    BY <1>4, <1>5, <1>6

(* Lines that change nothing but the payloads sent, and the end.           *)
LEMMA PlainLines ==
    ASSUME AssembledApart, SentApart, FinishKnown, CcDelta \/ CcNoise \/ CcError \/ Eof
    PROVE  AssembledApart' /\ SentApart' /\ FinishKnown'
<1>1. UNCHANGED state
    BY DEF CcDelta, CcNoise, CcError, Eof
<1>2. \/ sent' = sent
      \/ \E c \in {TextChunk, ReasoningChunk, DoneMarker} : sent' = Append(sent, c)
      \/ sent' = sent \o <<ErrorChunk, DoneMarker>>
    BY DEF CcDelta, CcNoise, CcError, Eof, Emit, Skip, EmitAndStop
<1>3. sent \in Seq(Chunk) /\ Apart(sent)
    BY DEF SentApart
<1>4. CASE sent' = sent
    BY <1>1, <1>3, <1>4, SentPlain
<1>5. CASE \E c \in {TextChunk, ReasoningChunk, DoneMarker} : sent' = Append(sent, c)
    <2>1. PICK c \in {TextChunk, ReasoningChunk, DoneMarker} : sent' = Append(sent, c)
        BY <1>5
    <2>2. /\ sent' \in Seq(Chunk) /\ Apart(sent')
          /\ IndicesOf(sent') = IndicesOf(sent) /\ Terminals(sent') = Terminals(sent)
        BY <1>3, <2>1, PlainAppend
    <2> QED
        BY <1>1, <2>2, SentPlain
<1>6. CASE sent' = sent \o <<ErrorChunk, DoneMarker>>
    <2> DEFINE s == Append(sent, ErrorChunk)
    <2>1. /\ s \in Seq(Chunk) /\ Apart(s)
          /\ IndicesOf(s) = IndicesOf(sent) /\ Terminals(s) = Terminals(sent)
        BY <1>3, PlainAppend
    <2>2. sent' = Append(s, DoneMarker)
        <3>1. ErrorChunk \in Chunk /\ DoneMarker \in Chunk
            BY PlainChunks
        <3> QED
            BY <1>3, <1>6, <3>1
    <2> HIDE DEF s
    <2>3. /\ sent' \in Seq(Chunk) /\ Apart(sent')
          /\ IndicesOf(sent') = IndicesOf(s) /\ Terminals(sent') = Terminals(s)
        BY <2>1, <2>2, PlainAppend
    <2> QED
        BY <1>1, <2>1, <2>3, SentPlain
<1> QED
    BY <1>2, <1>4, <1>5, <1>6

(* A call goes out under an index of its own. *)
LEMMA CallSent ==
    ASSUME SentApart, FinishKnown, UNCHANGED finishSeen,
           NEW i \in Nat, NEW id \in Calls \union {NoId}, NEW args \in Arguments,
           i \notin IndicesOf(sent), i < toolIndex',
           toolIndex' \in {toolIndex, toolIndex + 1},
           sent' = Append(sent, CallChunk(i, id, args))
    PROVE  SentApart' /\ FinishKnown' /\ IndicesOf(sent)' = IndicesOf(sent) \union {i}
<1> DEFINE c == CallChunk(i, id, args)
<1>1. /\ c \in Chunk /\ c.finish = NoReason
      /\ DOMAIN c.calls = {1} /\ c.calls[1].index = i
      /\ IndicesIn(c) = {i}
    BY CallChunks
<1>2. sent' = Append(sent, c)
    OBVIOUS
<1> HIDE DEF c
<1>3. sent \in Seq(Chunk) /\ Apart(sent)
    BY DEF SentApart
<1>4. sent' \in Seq(Chunk)
    BY <1>1, <1>2, <1>3
<1>5. Apart(sent')
    BY <1>1, <1>2, <1>3, AppendedApart
<1>6. IndicesOf(sent') = IndicesOf(sent) \union {i}
    BY <1>1, <1>2, <1>3, AppendedIndices
<1>7. Terminals(sent') = Terminals(sent)
    BY <1>1, <1>2, <1>3, AppendedTerminals
<1>8. IndicesOf(sent)' = IndicesOf(sent') /\ Terminals(sent)' = Terminals(sent')
      /\ (Apart(sent') => Apart(sent)')
    BY DEF IndicesOf, IndicesIn, Terminals, Apart
<1>9. SentApart'
    <2>1. toolIndex' \in Nat /\ \A n \in IndicesOf(sent) : n \in Nat /\ n < toolIndex'
        BY DEF SentApart
    <2> QED
        BY <1>4, <1>5, <1>6, <1>8, <2>1 DEF SentApart
<1>10. FinishKnown'
    BY <1>7, <1>8 DEF FinishKnown, AtMostOne
<1> QED
    BY <1>6, <1>8, <1>9, <1>10

(* tool-call. *)
LEMMA ToolCallLine ==
    ASSUME AssembledApart, SentApart, FinishKnown, CcToolCall
    PROVE  AssembledApart' /\ SentApart' /\ FinishKnown'
<1>1. PICK id \in Calls \union {NoId} :
          IF AlreadySeen(id)
          THEN Skip /\ UNCHANGED toolIndex
          ELSE /\ Emit(CallChunk(toolIndex, id, IF id = NoId THEN <<>> ELSE <<id>>))
               /\ toolIndex' = toolIndex + 1
    BY DEF CcToolCall
<1>2. UNCHANGED <<toolParts, finishSeen>>
    BY DEF CcToolCall
<1>3. CASE AlreadySeen(id)
    <2>1. UNCHANGED <<sent, toolIndex>>
        BY <1>1, <1>3 DEF Skip
    <2> QED
        BY <1>2, <2>1 DEF AssembledApart, SentApart, FinishKnown, Apart, IndicesOf, IndicesIn,
                          Terminals, AtMostOne
<1>4. CASE ~AlreadySeen(id)
    <2> DEFINE args == IF id = NoId THEN <<>> ELSE <<id>>
    <2>1. sent' = Append(sent, CallChunk(toolIndex, id, args)) /\ toolIndex' = toolIndex + 1
        BY <1>1, <1>4 DEF Emit
    <2>2. args \in Arguments
        BY DEF Arguments
    <2>3. toolIndex \in Nat /\ toolIndex \notin IndicesOf(sent)
        BY DEF SentApart
    <2> HIDE DEF args
    <2>4. SentApart' /\ FinishKnown' /\ IndicesOf(sent)' = IndicesOf(sent) \union {toolIndex}
        BY <1>2, <2>1, <2>2, <2>3, CallSent
    <2>5. AssembledApart'
        BY <1>2, <2>1, <2>3, <2>4 DEF AssembledApart
    <2> QED
        BY <2>4, <2>5
<1> QED
    BY <1>3, <1>4

(* tool-input-start and tool-input-delta send nothing. *)
LEMMA InputLines ==
    ASSUME AssembledApart, SentApart, FinishKnown, CcInputStart \/ CcInputDelta
    PROVE  AssembledApart' /\ SentApart' /\ FinishKnown'
<1>1. UNCHANGED <<sent, finishSeen>> /\ toolIndex' \in {toolIndex, toolIndex + 1}
    BY DEF CcInputStart, CcInputDelta, Skip
<1>2. IndicesOf(sent)' = IndicesOf(sent) /\ Terminals(sent)' = Terminals(sent)
    BY <1>1 DEF IndicesOf, IndicesIn, Terminals
<1>3. SentApart' /\ FinishKnown'
    BY <1>1, <1>2 DEF SentApart, FinishKnown, Apart, AtMostOne
<1>4. ASSUME CcInputStart PROVE AssembledApart'
    <2>1. PICK id \in Calls :
              IF id \in DOMAIN toolParts
              THEN UNCHANGED <<toolParts, toolIndex>>
              ELSE /\ toolParts' = [x \in DOMAIN toolParts \union {id} |->
                                      IF x = id THEN [index |-> toolIndex, args |-> <<>>]
                                      ELSE toolParts[x]]
                   /\ toolIndex' = toolIndex + 1
        BY <1>4 DEF CcInputStart
    <2>2. CASE id \in DOMAIN toolParts
        BY <1>2, <2>1, <2>2 DEF AssembledApart
    <2>3. CASE id \notin DOMAIN toolParts
        <3>1. [index |-> toolIndex, args |-> <<>>] \in [index : Nat, args : Arguments]
            BY DEF SentApart, Arguments
        <3>2. toolIndex \in Nat /\ toolIndex \notin IndicesOf(sent)
            BY DEF SentApart
        <3> QED
            BY <1>2, <2>1, <2>3, <3>1, <3>2 DEF AssembledApart
    <2> QED
        BY <2>2, <2>3
<1>5. ASSUME CcInputDelta PROVE AssembledApart'
    <2>1. PICK id \in Calls :
              toolParts' = [x \in DOMAIN toolParts |->
                              IF x = id THEN [toolParts[x] EXCEPT !.args = Append(@, id)]
                              ELSE toolParts[x]]
        BY <1>5 DEF CcInputDelta
    <2>2. toolIndex' = toolIndex
        BY <1>5 DEF CcInputDelta
    <2>3. \A x \in DOMAIN toolParts :
             /\ toolParts'[x] \in [index : Nat, args : Arguments]
             /\ toolParts'[x].index = toolParts[x].index
        <3> SUFFICES ASSUME NEW x \in DOMAIN toolParts
                     PROVE  /\ toolParts'[x] \in [index : Nat, args : Arguments]
                            /\ toolParts'[x].index = toolParts[x].index
            OBVIOUS
        <3>1. toolParts[x] \in [index : Nat, args : Arguments]
            BY DEF AssembledApart
        <3>2. Append(toolParts[x].args, id) \in Arguments
            BY <3>1 DEF Arguments
        <3> QED
            BY <2>1, <3>1, <3>2
    <2>4. DOMAIN toolParts' = DOMAIN toolParts
        BY <2>1
    <2> QED
        BY <1>2, <2>2, <2>3, <2>4 DEF AssembledApart
<1> QED
    BY <1>3, <1>4, <1>5

(* tool-input-end: the call leaves the table with its index. *)
LEMMA InputEndLine ==
    ASSUME AssembledApart, SentApart, FinishKnown, CcInputEnd
    PROVE  AssembledApart' /\ SentApart' /\ FinishKnown'
<1>1. PICK id \in Calls \union {NoId}, snapshot \in BOOLEAN :
          LET started == id \in DOMAIN toolParts
              index   == IF started THEN toolParts[id].index ELSE toolIndex
              args    == IF snapshot THEN (IF id = NoId THEN <<>> ELSE <<id>>)
                         ELSE IF started THEN toolParts[id].args ELSE <<>>
          IN  /\ Without(id)
              /\ IF AlreadySeen(id)
                 THEN Skip /\ UNCHANGED toolIndex
                 ELSE /\ Emit(CallChunk(index, id, args))
                      /\ toolIndex' = IF started THEN toolIndex ELSE toolIndex + 1
              /\ UNCHANGED finishSeen
    BY DEF CcInputEnd
<1> DEFINE started == id \in DOMAIN toolParts
           index   == IF started THEN toolParts[id].index ELSE toolIndex
           args    == IF snapshot THEN (IF id = NoId THEN <<>> ELSE <<id>>)
                      ELSE IF started THEN toolParts[id].args ELSE <<>>
<1>2. /\ DOMAIN toolParts' = DOMAIN toolParts \ {id}
      /\ \A x \in DOMAIN toolParts' : toolParts'[x] = toolParts[x]
      /\ UNCHANGED finishSeen
    BY <1>1 DEF Without, Restrict
<1>3. CASE AlreadySeen(id)
    <2>1. UNCHANGED <<sent, toolIndex>>
        BY <1>1, <1>3 DEF Skip
    <2>2. IndicesOf(sent)' = IndicesOf(sent) /\ Terminals(sent)' = Terminals(sent)
        BY <2>1 DEF IndicesOf, IndicesIn, Terminals
    <2> QED
        BY <1>2, <2>1, <2>2 DEF AssembledApart, SentApart, FinishKnown, Apart, AtMostOne
<1>4. CASE ~AlreadySeen(id)
    <2>1. /\ sent' = Append(sent, CallChunk(index, id, args))
          /\ toolIndex' = IF started THEN toolIndex ELSE toolIndex + 1
        BY <1>1, <1>4 DEF Emit
    <2>2. args \in Arguments
        BY DEF Arguments, AssembledApart
    <2>3. index \in Nat /\ index \notin IndicesOf(sent) /\ index < toolIndex'
        BY <2>1 DEF SentApart, AssembledApart
    <2>4. toolIndex' \in {toolIndex, toolIndex + 1}
        BY <2>1
    <2>5. \A x \in DOMAIN toolParts \ {id} : toolParts[x].index # index /\ toolParts[x].index < toolIndex'
        BY <2>1 DEF AssembledApart, SentApart
    <2> HIDE DEF started, index, args
    <2>6. SentApart' /\ FinishKnown' /\ IndicesOf(sent)' = IndicesOf(sent) \union {index}
        BY <1>2, <2>1, <2>2, <2>3, <2>4, CallSent
    <2>7. AssembledApart'
        BY <1>2, <2>5, <2>6 DEF AssembledApart
    <2> QED
        BY <2>6, <2>7
<1> QED
    BY <1>3, <1>4

(* finish and finish-step: a second one is dropped. *)
LEMMA FinishLines ==
    ASSUME AssembledApart, SentApart, FinishKnown, CcFinish \/ CcFinishStep
    PROVE  AssembledApart' /\ SentApart' /\ FinishKnown'
<1>1. UNCHANGED <<toolIndex, toolParts>>
    BY DEF CcFinish, CcFinishStep
<1>2. \/ UNCHANGED <<sent, finishSeen>>
      \/ ~finishSeen /\ finishSeen' /\ \E r \in Reasons : sent' = Append(sent, FinishChunk(r))
    BY DEF CcFinish, CcFinishStep, FinishOnce, Emit, Skip
<1>3. CASE UNCHANGED <<sent, finishSeen>>
    <2>1. IndicesOf(sent)' = IndicesOf(sent) /\ Terminals(sent)' = Terminals(sent)
        BY <1>3 DEF IndicesOf, IndicesIn, Terminals
    <2> QED
        BY <1>1, <1>3, <2>1 DEF AssembledApart, SentApart, FinishKnown, Apart, AtMostOne
<1>4. CASE ~finishSeen /\ finishSeen' /\ \E r \in Reasons : sent' = Append(sent, FinishChunk(r))
    <2>1. PICK r \in Reasons : sent' = Append(sent, FinishChunk(r))
        BY <1>4
    <2> DEFINE c == FinishChunk(r)
    <2>2. c \in Chunk /\ DOMAIN c.calls = {} /\ IndicesIn(c) = {}
        BY PlainChunks DEF IndicesIn
    <2>3. sent' = Append(sent, c)
        BY <2>1
    <2> HIDE DEF c
    <2>4. sent \in Seq(Chunk) /\ Apart(sent)
        BY DEF SentApart
    <2>5. sent' \in Seq(Chunk) /\ Apart(sent') /\ IndicesOf(sent') = IndicesOf(sent)
        <3>1. sent' \in Seq(Chunk)
            BY <2>2, <2>3, <2>4
        <3>2. Apart(sent')
            BY <2>2, <2>3, <2>4, AppendedApart
        <3>3. IndicesOf(sent') = IndicesOf(sent)
            BY <2>2, <2>3, <2>4, AppendedIndices
        <3> QED
            BY <3>1, <3>2, <3>3
    <2>6. Terminals(sent) = {}
        BY <1>4 DEF FinishKnown
    <2>7. Terminals(sent') \subseteq {Len(sent) + 1}
        BY <2>2, <2>3, <2>4, <2>6, AppendedTerminals
    <2>8. IndicesOf(sent)' = IndicesOf(sent') /\ Terminals(sent)' = Terminals(sent')
          /\ (Apart(sent') => Apart(sent)')
        BY DEF IndicesOf, IndicesIn, Terminals, Apart
    <2>9. AssembledApart' /\ SentApart'
        BY <1>1, <2>5, <2>8 DEF AssembledApart, SentApart
    <2>10. FinishKnown'
        BY <1>4, <2>7, <2>8 DEF FinishKnown, AtMostOne
    <2> QED
        BY <2>9, <2>10
<1> QED
    BY <1>2, <1>3, <1>4

(***************************************************************************)
(* The theorems                                                            *)
(***************************************************************************)

(* Nothing is assembled and nothing sent at the start. *)
LEMMA CommandCodeInit == Init => CommandCodeInv
<1> SUFFICES ASSUME Init PROVE CommandCodeInv
    OBVIOUS
<1>1. toolIndex = 0 /\ toolParts = << >> /\ sent = <<>>
    BY DEF Init, TranslatorInit
<1>2. IndicesOf(sent) = {} /\ Terminals(sent) = {} /\ Apart(sent) /\ sent \in Seq(Chunk)
    BY <1>1 DEF IndicesOf, Terminals, Apart
<1> QED
    BY <1>1, <1>2 DEF CommandCodeInv, AssembledApart, SentApart, FinishKnown, AtMostOne

(* The other providers' lines are not those of a Command Code stream.      *)
LEMMA OwnLines ==
    ASSUME TranslatorNext, provider = "command-code"
    PROVE  CommandCodeLine \/ Eof
<1>1. ~OpenAiLine
    BY DEF OpenAiLine, OpenAiPayload, OpenAiNoise, OpenAiDone, Line
<1>2. ~AnthropicLine
    BY DEF AnthropicLine, AnToolStart, AnDelta, AnNoise, AnMessageDelta, AnMessageStop, Line
<1>3. ~GeminiLine
    BY DEF GeminiLine, GeminiParts, GeminiNoise, Line
<1> QED
    BY <1>1, <1>2, <1>3 DEF TranslatorNext

(* A stream has one provider. *)
LEMMA ProviderStays == [Next]_vars => provider' = provider
<1> SUFFICES ASSUME [Next]_vars PROVE provider' = provider
    OBVIOUS
<1>1. ASSUME UNCHANGED translatorVars PROVE provider' = provider
    BY <1>1 DEF translatorVars
<1>2. ASSUME TranslatorNext PROVE provider' = provider
    <2>1. ASSUME CommandCodeLine PROVE provider' = provider
        BY <2>1 DEF CommandCodeLine, CcDelta, CcNoise, CcToolCall, CcInputStart, CcInputDelta,
                    CcInputEnd, CcFinish, CcFinishStep, CcError, Line
    <2>2. ASSUME OpenAiLine PROVE provider' = provider
        BY <2>2 DEF OpenAiLine, OpenAiPayload, OpenAiNoise, OpenAiDone, Line
    <2>3. ASSUME AnthropicLine PROVE provider' = provider
        BY <2>3 DEF AnthropicLine, AnToolStart, AnDelta, AnNoise, AnMessageDelta, AnMessageStop, Line
    <2>4. ASSUME GeminiLine PROVE provider' = provider
        BY <2>4 DEF GeminiLine, GeminiParts, GeminiNoise, Line
    <2>5. ASSUME Eof PROVE provider' = provider
        BY <2>5 DEF Eof
    <2> QED
        BY <1>2, <2>1, <2>2, <2>3, <2>4, <2>5 DEF TranslatorNext
<1> QED
    BY <1>1, <1>2 DEF Next, vars, Translate, Render, ClientReads

(* Every line of the upstream keeps the invariant; rendering and reading do*)
(* not touch it.                                                           *)
LEMMA CommandCodeInductive == CommandCodeInv /\ [Next]_vars => CommandCodeInv'
<1> SUFFICES ASSUME CommandCodeInv, [Next]_vars, provider = "command-code"
             PROVE  AssembledApart' /\ SentApart' /\ FinishKnown'
    BY ProviderStays DEF CommandCodeInv
<1>1. AssembledApart /\ SentApart /\ FinishKnown
    BY DEF CommandCodeInv
<1>2. ASSUME UNCHANGED translatorVars PROVE AssembledApart' /\ SentApart' /\ FinishKnown'
    BY <1>1, <1>2 DEF translatorVars, AssembledApart, SentApart, FinishKnown, Apart, IndicesOf,
                      IndicesIn, Terminals, AtMostOne
<1>3. ASSUME TranslatorNext PROVE AssembledApart' /\ SentApart' /\ FinishKnown'
    <2>1. CommandCodeLine \/ Eof
        BY <1>3, OwnLines
    <2> QED
        BY <1>1, <2>1, PlainLines, ToolCallLine, InputLines, InputEndLine, FinishLines
        DEF CommandCodeLine
<1> QED
    BY <1>2, <1>3 DEF Next, vars, Translate, Render, ClientReads

(* The invariant of Command Code streams. *)
LEMMA CommandCodeInvariant == Spec => []CommandCodeInv
    BY CommandCodeInit, CommandCodeInductive, PTL DEF Spec

(* Whatever the order of starts, deltas, ends, whole calls and repetitions, *)
(* the calls of an answer go out under different indices, by which OpenAI   *)
(* clients tell them apart.                                                 *)
THEOREM CallsHaveOwnIndex == Spec => []IndicesApart
<1>1. CommandCodeInv => IndicesApart
    BY DEF CommandCodeInv, SentApart, Apart, IndicesApart
<1> QED
    BY <1>1, CommandCodeInvariant, PTL

(* However many finish and finish-step events there are, one chunk of the   *)
(* stream is terminal.                                                      *)
THEOREM FinishedOnce == Spec => []OneFinish
<1>1. CommandCodeInv => OneFinish
    BY DEF CommandCodeInv, FinishKnown, AtMostOne, Terminals, OneFinish
<1> QED
    BY <1>1, CommandCodeInvariant, PTL

(* Both, for any number of calls and any order of events.                   *)
THEOREM ChunksStayApart == Spec => []ChunksApart
<1>1. IndicesApart /\ OneFinish => ChunksApart
    BY DEF ChunksApart
<1> QED
    BY <1>1, CallsHaveOwnIndex, FinishedOnce, PTL

(***************************************************************************)
(* Each call once, with its own arguments                                  *)
(***************************************************************************)

(* What a log l says of a call, as in ChatStream. *)
Events == [kind : {"text", "reasoning", "noise", "start", "delta", "end", "call", "finish", "step", "error"},
           id : Calls \union {NoId}, input : BOOLEAN, reason : Reasons \union {NoReason}]
Completes(e, id)      == e.kind \in {"call", "end"} /\ e.id = id
CompletionsIn(l, id)  == {n \in DOMAIN l : l[n].kind \in {"call", "end"} /\ l[n].id = id}
StartsIn(l, id)       == {n \in DOMAIN l : l[n].kind = "start" /\ l[n].id = id}
PieceSet(l, id, n)    == {k \in 1..n : /\ l[k].kind = "delta" /\ l[k].id = id
                                       /\ \E s \in StartsIn(l, id) : s < k}
PiecesIn(l, id, n)    == [k \in 1..Cardinality(PieceSet(l, id, n)) |-> id]
ArgsIn(l, id) ==
    LET n == FirstOf(CompletionsIn(l, id))
    IN  IF l[n].kind = "call" \/ l[n].input THEN <<id>> ELSE PiecesIn(l, id, n - 1)
HasFirst(S) == \E n \in S : \A k \in S : n <= k

(* The places at which the payloads s carry a call, and what they carry.   *)
Carried(s, id, i, m) == i \in DOMAIN s /\ m \in DOMAIN s[i].calls /\ s[i].calls[m].id = id
SameCarried(s, t, id) ==
    \A i, m : /\ Carried(t, id, i, m) <=> Carried(s, id, i, m)
              /\ Carried(s, id, i, m) => t[i].calls[m].args = s[i].calls[m].args
AsSaid(l, s, id) ==
    /\ CompletionsIn(l, id) # {} => \E i, m : Carried(s, id, i, m)
    /\ \A i, m : Carried(s, id, i, m) =>
                    CompletionsIn(l, id) # {} /\ s[i].calls[m].args = ArgsIn(l, id)
    /\ \A i, j, m, n : Carried(s, id, i, m) /\ Carried(s, id, j, n) => i = j /\ m = n

(* A call not completed yet is being assembled if it has started, with the *)
(* pieces given since.                                                     *)
TableSaid(l, parts, id) ==
    CompletionsIn(l, id) = {} =>
        /\ id \in DOMAIN parts <=> StartsIn(l, id) # {}
        /\ id \in DOMAIN parts => parts[id].args = PiecesIn(l, id, Len(l))

CallsKnown(l, seen, parts, s) ==
    /\ l \in Seq(Events) /\ s \in Seq(Chunk)
    /\ \A id \in Calls :
          /\ id \in seen <=> CompletionsIn(l, id) # {}
          /\ CompletionsIn(l, id) # {} => HasFirst(CompletionsIn(l, id))
          /\ AsSaid(l, s, id) /\ TableSaid(l, parts, id)
    /\ NoId \notin seen
CallsInv == provider = "command-code" => CallsKnown(log, seenCalls, toolParts, sent)

(* One more line. *)
LEMMA LogAppend ==
    ASSUME NEW l \in Seq(Events), NEW e \in Events
    PROVE  LET t == Append(l, e) IN
           /\ t \in Seq(Events) /\ Len(l) \in Nat /\ Len(t) = Len(l) + 1
           /\ DOMAIN l = 1..Len(l) /\ DOMAIN t = DOMAIN l \union {Len(l) + 1}
           /\ Len(l) + 1 \notin DOMAIN l
           /\ \A k \in DOMAIN l : t[k] = l[k]
           /\ t[Len(l) + 1] = e
    OBVIOUS

LEMMA LogGrows ==
    ASSUME NEW l \in Seq(Events), NEW e \in Events, NEW id
    PROVE  LET t == Append(l, e) IN
           /\ CompletionsIn(t, id) = IF Completes(e, id) THEN CompletionsIn(l, id) \union {Len(l) + 1}
                                     ELSE CompletionsIn(l, id)
           /\ StartsIn(t, id) = IF e.kind = "start" /\ e.id = id THEN StartsIn(l, id) \union {Len(l) + 1}
                                ELSE StartsIn(l, id)
           /\ \A n \in 0..Len(l) : PieceSet(t, id, n) = PieceSet(l, id, n)
           /\ PieceSet(t, id, Len(l) + 1) =
                 IF e.kind = "delta" /\ e.id = id /\ StartsIn(l, id) # {}
                 THEN PieceSet(l, id, Len(l)) \union {Len(l) + 1} ELSE PieceSet(l, id, Len(l))
<1> DEFINE t == Append(l, e)
<1>1. /\ Len(l) \in Nat /\ DOMAIN l = 1..Len(l) /\ DOMAIN t = DOMAIN l \union {Len(l) + 1}
      /\ Len(l) + 1 \notin DOMAIN l
      /\ \A k \in DOMAIN l : t[k] = l[k]
      /\ t[Len(l) + 1] = e
    BY LogAppend
<1> HIDE DEF t
<1>2. CompletionsIn(t, id) = IF Completes(e, id) THEN CompletionsIn(l, id) \union {Len(l) + 1}
                             ELSE CompletionsIn(l, id)
    BY <1>1 DEF CompletionsIn, Completes
<1>3. StartsIn(t, id) = IF e.kind = "start" /\ e.id = id THEN StartsIn(l, id) \union {Len(l) + 1}
                        ELSE StartsIn(l, id)
    BY <1>1 DEF StartsIn
<1>4. ASSUME NEW k \in 1..Len(l) + 1
      PROVE  (\E s \in StartsIn(t, id) : s < k) <=> (\E s \in StartsIn(l, id) : s < k)
    BY <1>1, <1>3
<1>5. \A s \in StartsIn(l, id) : s < Len(l) + 1
    BY <1>1 DEF StartsIn
<1>6. ASSUME NEW n \in 0..Len(l) PROVE PieceSet(t, id, n) = PieceSet(l, id, n)
    <2>1. \A k \in 1..n : k \in DOMAIN l /\ k \in 1..Len(l) + 1
        BY <1>1
    <2> QED
        BY <1>1, <1>4, <2>1 DEF PieceSet
<1>7. PieceSet(t, id, Len(l) + 1) =
         IF e.kind = "delta" /\ e.id = id /\ StartsIn(l, id) # {}
         THEN PieceSet(l, id, Len(l)) \union {Len(l) + 1} ELSE PieceSet(l, id, Len(l))
    <2>1. \A k : k \in 1..Len(l) + 1 <=> k \in DOMAIN l \/ k = Len(l) + 1
        BY <1>1
    <2>2. \A k \in 1..Len(l) + 1 :
             k \in PieceSet(t, id, Len(l) + 1) <=>
                /\ t[k].kind = "delta" /\ t[k].id = id
                /\ \E s \in StartsIn(l, id) : s < k
        BY <1>4 DEF PieceSet
    <2>3. \A k \in DOMAIN l : k \in PieceSet(t, id, Len(l) + 1) <=> k \in PieceSet(l, id, Len(l))
        BY <1>1, <2>1, <2>2 DEF PieceSet
    <2>4. Len(l) + 1 \in PieceSet(t, id, Len(l) + 1) <=>
             e.kind = "delta" /\ e.id = id /\ StartsIn(l, id) # {}
        BY <1>1, <1>5, <2>1, <2>2
    <2>5. PieceSet(t, id, Len(l) + 1) \subseteq 1..Len(l) + 1 /\ PieceSet(l, id, Len(l)) \subseteq DOMAIN l
        BY <1>1 DEF PieceSet
    <2>6. \A k : k \in PieceSet(t, id, Len(l) + 1) =>
                    k \in PieceSet(l, id, Len(l)) \/ k = Len(l) + 1
        BY <2>1, <2>3, <2>5
    <2>7. \A k : k \in PieceSet(l, id, Len(l)) => k \in PieceSet(t, id, Len(l) + 1)
        BY <2>3, <2>5
    <2>8. Len(l) + 1 \notin PieceSet(l, id, Len(l))
        BY <1>1, <2>5
    <2> QED
        <3> DEFINE A == PieceSet(t, id, Len(l) + 1)
                   B == PieceSet(l, id, Len(l))
                   x == Len(l) + 1
        <3>1. /\ \A k : k \in A => k \in B \/ k = x
              /\ \A k : k \in B => k \in A
              /\ x \in A <=> e.kind = "delta" /\ e.id = id /\ StartsIn(l, id) # {}
              /\ x \notin B
            BY <2>4, <2>6, <2>7, <2>8
        <3> HIDE DEF A, B, x
        <3>2. A = IF e.kind = "delta" /\ e.id = id /\ StartsIn(l, id) # {}
                  THEN B \union {x} ELSE B
            <4>1. A \subseteq B \union {x} /\ B \subseteq A
                BY <3>1
            <4>2. x \in A => A = B \union {x}
                BY <4>1
            <4>3. x \notin A => A \subseteq B
                BY <4>1
            <4>4. A \subseteq B => A = B
                BY <4>1
            <4> QED
                BY <3>1, <4>2, <4>3, <4>4
        <3> QED
            BY <3>2 DEF A, B, x
<1> QED
    BY <1>2, <1>3, <1>6, <1>7 DEF t

LEMMA StartsGrow ==
    ASSUME NEW l \in Seq(Events), NEW e \in Events, NEW id
    PROVE  StartsIn(Append(l, e), id) = IF e.kind = "start" /\ e.id = id
                                        THEN StartsIn(l, id) \union {Len(l) + 1} ELSE StartsIn(l, id)
    BY LogGrows

(* A call's pieces so far, with the next line. *)
LEMMA PieceNumber ==
    ASSUME NEW l \in Seq(Events), NEW id
    PROVE  /\ IsFiniteSet(PieceSet(l, id, Len(l))) /\ Len(l) + 1 \notin PieceSet(l, id, Len(l))
           /\ Cardinality(PieceSet(l, id, Len(l))) \in Nat
<1>1. Len(l) \in Nat
    OBVIOUS
<1>2. IsFiniteSet(1..Len(l))
    BY <1>1, FS_Interval
<1>3. PieceSet(l, id, Len(l)) \subseteq 1..Len(l)
    BY DEF PieceSet
<1> QED
    BY <1>1, <1>2, <1>3, FS_Subset, FS_CardinalityType

LEMMA PiecesGrow ==
    ASSUME NEW l \in Seq(Events), NEW e \in Events, NEW id
    PROVE  LET t == Append(l, e) IN
           PiecesIn(t, id, Len(t)) =
               IF e.kind = "delta" /\ e.id = id /\ StartsIn(l, id) # {}
               THEN Append(PiecesIn(l, id, Len(l)), id) ELSE PiecesIn(l, id, Len(l))
<1> DEFINE t == Append(l, e)
           before == PieceSet(l, id, Len(l))
           c == Cardinality(before)
<1>1. Len(t) = Len(l) + 1
    BY LogAppend
<1>2. PieceSet(t, id, Len(l) + 1) =
         IF e.kind = "delta" /\ e.id = id /\ StartsIn(l, id) # {}
         THEN before \union {Len(l) + 1} ELSE before
    BY LogGrows
<1>3. IsFiniteSet(before) /\ Len(l) + 1 \notin before /\ c \in Nat
    BY PieceNumber
<1>4. Cardinality(before \union {Len(l) + 1}) = c + 1
    BY <1>3, FS_AddElement
<1> HIDE DEF t, before
<1>5. [k \in 1..(c + 1) |-> id] = Append([k \in 1..c |-> id], id)
    BY <1>3
<1>6. PiecesIn(l, id, Len(l)) = [k \in 1..c |-> id]
    BY DEF PiecesIn, before
<1>7. PiecesIn(t, id, Len(t)) = [k \in 1..Cardinality(PieceSet(t, id, Len(l) + 1)) |-> id]
    BY <1>1 DEF PiecesIn
<1> QED
    BY <1>2, <1>4, <1>5, <1>6, <1>7 DEF t

LEMMA NoPieces ==
    ASSUME NEW l \in Seq(Events), NEW id, StartsIn(l, id) = {}
    PROVE  PiecesIn(l, id, Len(l)) = <<>>
<1>1. PieceSet(l, id, Len(l)) = {}
    BY DEF PieceSet
<1>2. [k \in 1..0 |-> id] = <<>>
    OBVIOUS
<1> QED
    BY <1>1, <1>2, FS_EmptySet DEF PiecesIn

(* The first element of a set, and of one with a later element. *)
LEMMA FirstIs ==
    ASSUME NEW S \in SUBSET Nat, NEW n \in S, \A k \in S : n <= k
    PROVE  FirstOf(S) = n
<1>1. FirstOf(S) \in S /\ \A k \in S : FirstOf(S) <= k
    BY DEF FirstOf
<1>2. FirstOf(S) \in Nat /\ n \in Nat /\ FirstOf(S) <= n /\ n <= FirstOf(S)
    BY <1>1
<1> QED
    BY <1>2

(* What was said of a completed call does not change; the first completion *)
(* says it.                                                                *)
LEMMA ArgsStay ==
    ASSUME NEW l \in Seq(Events), NEW e \in Events, NEW id, HasFirst(CompletionsIn(l, id))
    PROVE  LET t == Append(l, e) IN
           /\ CompletionsIn(t, id) # {} /\ HasFirst(CompletionsIn(t, id))
           /\ ArgsIn(t, id) = ArgsIn(l, id)
<1> DEFINE t == Append(l, e)
           S == CompletionsIn(l, id)
           T == CompletionsIn(t, id)
<1>1. PICK n \in S : \A k \in S : n <= k
    BY DEF HasFirst
<1>2. /\ Len(l) \in Nat /\ DOMAIN l = 1..Len(l)
      /\ \A k \in DOMAIN l : t[k] = l[k]
    BY LogAppend
<1>3. S \subseteq 1..Len(l)
    BY <1>2 DEF CompletionsIn
<1>4. T = S \/ T = S \union {Len(l) + 1}
    BY LogGrows
<1>5. \A m \in 0..Len(l) : PieceSet(t, id, m) = PieceSet(l, id, m)
    BY LogGrows
<1> HIDE DEF t, S, T
<1>6. n \in T /\ \A k \in T : n <= k
    <2>1. n \in 1..Len(l)
        BY <1>1, <1>3
    <2>2. n <= Len(l) + 1
        BY <1>2, <2>1
    <2> QED
        BY <1>1, <1>4, <2>2
<1>7. FirstOf(S) = n /\ FirstOf(T) = n
    BY <1>1, <1>2, <1>3, <1>4, <1>6, FirstIs
<1>8. t[n] = l[n] /\ PiecesIn(t, id, n - 1) = PiecesIn(l, id, n - 1)
    <2>1. n \in 1..Len(l) /\ n - 1 \in 0..Len(l)
        BY <1>1, <1>2, <1>3
    <2> QED
        BY <1>2, <1>5, <2>1 DEF PiecesIn
<1>9. ArgsIn(t, id) = ArgsIn(l, id)
    BY <1>7, <1>8 DEF ArgsIn, S, T
<1> QED
    BY <1>6, <1>9 DEF HasFirst, t, T

LEMMA ArgsNew ==
    ASSUME NEW l \in Seq(Events), NEW e \in Events, NEW id,
           CompletionsIn(l, id) = {}, Completes(e, id)
    PROVE  LET t == Append(l, e) IN
           /\ CompletionsIn(t, id) # {} /\ HasFirst(CompletionsIn(t, id))
           /\ ArgsIn(t, id) = IF e.kind = "call" \/ e.input THEN <<id>>
                              ELSE PiecesIn(l, id, Len(l))
<1> DEFINE t == Append(l, e)
           T == CompletionsIn(t, id)
           n == Len(l) + 1
<1>1. Len(l) \in Nat /\ t[n] = e
    BY LogAppend
<1>2. T = {n}
    BY LogGrows
<1>3. PieceSet(t, id, Len(l)) = PieceSet(l, id, Len(l))
    <2>1. Len(l) \in 0..Len(l)
        BY <1>1
    <2> QED
        BY <2>1, LogGrows
<1> HIDE DEF t, T, n
<1>4. n \in Nat /\ n - 1 = Len(l)
    BY <1>1 DEF n
<1>5. HasFirst(T) /\ FirstOf(T) = n
    BY <1>2, <1>4, FirstIs DEF HasFirst
<1>6. PiecesIn(t, id, n - 1) = PiecesIn(l, id, Len(l))
    BY <1>3, <1>4 DEF PiecesIn
<1>7. ArgsIn(t, id) = IF e.kind = "call" \/ e.input THEN <<id>> ELSE PiecesIn(l, id, Len(l))
    BY <1>1, <1>5, <1>6 DEF ArgsIn, T
<1> QED
    BY <1>2, <1>5, <1>7 DEF t, T

(* A payload without calls, and one with another call. *)
LEMMA CarriedPlain ==
    ASSUME NEW s \in Seq(Chunk), NEW c \in Chunk, NEW id, \A m \in DOMAIN c.calls : c.calls[m].id # id
    PROVE  SameCarried(s, Append(s, c), id)
<1> DEFINE t == Append(s, c)
<1>1. /\ DOMAIN t = DOMAIN s \union {Len(s) + 1} /\ Len(s) + 1 \notin DOMAIN s
      /\ \A i \in DOMAIN s : t[i] = s[i]
      /\ t[Len(s) + 1] = c
    BY Appended
<1> HIDE DEF t
<1> SUFFICES SameCarried(s, t, id)
    BY DEF t
<1> QED
    BY <1>1 DEF SameCarried, Carried

LEMMA CallChunkIs ==
    ASSUME NEW i \in Nat, NEW id \in Calls \union {NoId}, NEW args \in Arguments
    PROVE  LET c == CallChunk(i, id, args) IN
           c \in Chunk /\ DOMAIN c.calls = {1} /\ c.calls[1].id = id /\ c.calls[1].args = args
<1> DEFINE p == [index |-> i, id |-> id, name |-> id, args |-> args]
           c == CallChunk(i, id, args)
<1>1. c \in Chunk
    BY CallChunks
<1>2. c.calls = <<p>>
    BY DEF CallChunk, EmptyChunk
<1>3. DOMAIN <<p>> = {1} /\ <<p>>[1] = p /\ p.id = id /\ p.args = args
    OBVIOUS
<1> HIDE DEF c, p
<1>4. DOMAIN c.calls = {1} /\ c.calls[1].id = id /\ c.calls[1].args = args
    BY <1>2, <1>3
<1> QED
    BY <1>1, <1>4 DEF c

(* A line that says nothing new of a call, and one that completes it.      *)
LEMMA SaidStays ==
    ASSUME NEW l \in Seq(Events), NEW e \in Events, NEW id, NEW s, NEW t,
           AsSaid(l, s, id), SameCarried(s, t, id),
           CompletionsIn(l, id) # {} => HasFirst(CompletionsIn(l, id)),
           Completes(e, id) => CompletionsIn(l, id) # {}
    PROVE  AsSaid(Append(l, e), t, id)
<1> DEFINE u == Append(l, e)
<1>1. CASE CompletionsIn(l, id) # {}
    <2>1. CompletionsIn(u, id) # {} /\ ArgsIn(u, id) = ArgsIn(l, id)
        BY <1>1, ArgsStay
    <2> HIDE DEF u
    <2>2. AsSaid(u, t, id)
        BY <1>1, <2>1 DEF AsSaid, SameCarried
    <2> QED
        BY <2>2 DEF u
<1>2. CASE CompletionsIn(l, id) = {}
    <2>1. CompletionsIn(u, id) = {}
        BY <1>2, LogGrows
    <2> HIDE DEF u
    <2>2. AsSaid(u, t, id)
        BY <1>2, <2>1 DEF AsSaid, SameCarried
    <2> QED
        BY <2>2 DEF u
<1> QED
    BY <1>1, <1>2

LEMMA SaidNow ==
    ASSUME NEW l \in Seq(Events), NEW e \in Events, NEW id, NEW s \in Seq(Chunk), NEW c \in Chunk,
           AsSaid(l, s, id), CompletionsIn(l, id) = {}, Completes(e, id),
           DOMAIN c.calls = {1}, c.calls[1].id = id,
           c.calls[1].args = IF e.kind = "call" \/ e.input THEN <<id>> ELSE PiecesIn(l, id, Len(l))
    PROVE  AsSaid(Append(l, e), Append(s, c), id)
<1> DEFINE u == Append(l, e)
           t == Append(s, c)
<1>1. CompletionsIn(u, id) # {} /\ ArgsIn(u, id) = c.calls[1].args
    BY ArgsNew
<1>2. \A i, m : ~Carried(s, id, i, m)
    BY DEF AsSaid
<1>5. /\ DOMAIN t = DOMAIN s \union {Len(s) + 1} /\ Len(s) + 1 \notin DOMAIN s
      /\ \A i \in DOMAIN s : t[i] = s[i]
      /\ t[Len(s) + 1] = c
    BY Appended
<1> HIDE DEF u, t
<1> DEFINE new == Len(s) + 1
<1> HIDE DEF new
<1>6. \A i, m : Carried(t, id, i, m) => i = new /\ m = 1
    BY <1>2, <1>5 DEF Carried, new
<1>7. Carried(t, id, new, 1) /\ t[new].calls[1].args = c.calls[1].args
    BY <1>5 DEF Carried, new
<1>4. /\ CompletionsIn(u, id) # {} /\ \E i, m : Carried(t, id, i, m)
      /\ \A i, m : Carried(t, id, i, m) => t[i].calls[m].args = ArgsIn(u, id)
      /\ \A i, j, m, n : Carried(t, id, i, m) /\ Carried(t, id, j, n) => i = j /\ m = n
    <2>1. \E i, m : Carried(t, id, i, m)
        BY <1>7
    <2>2. \A i, m : Carried(t, id, i, m) => t[i].calls[m].args = ArgsIn(u, id)
        BY <1>1, <1>6, <1>7
    <2>3. \A i, j, m, n : Carried(t, id, i, m) /\ Carried(t, id, j, n) => i = j /\ m = n
        <3> SUFFICES ASSUME NEW i, NEW j, NEW m, NEW n, Carried(t, id, i, m), Carried(t, id, j, n)
                     PROVE  i = j /\ m = n
            OBVIOUS
        <3>1. i = new /\ m = 1
            BY <1>6
        <3>2. j = new /\ n = 1
            BY <1>6
        <3> QED
            BY <3>1, <3>2
    <2> QED
        BY <1>1, <2>1, <2>2, <2>3, Zenon
<1> QED
    BY <1>4, Zenon DEF AsSaid, u, t

(* Lines that are not about calls.                                         *)
LEMMA OtherLine ==
    ASSUME NEW l, NEW seen, NEW parts, NEW s, CallsKnown(l, seen, parts, s),
           NEW e \in Events, e.kind \notin {"call", "end", "start", "delta"},
           NEW t \in Seq(Chunk), \A id \in Calls : SameCarried(s, t, id)
    PROVE  CallsKnown(Append(l, e), seen, parts, t)
<1>1. l \in Seq(Events) /\ NoId \notin seen
    BY DEF CallsKnown
<1>2. Append(l, e) \in Seq(Events)
    BY <1>1, LogAppend
<1>3. ASSUME NEW id \in Calls
      PROVE  /\ id \in seen <=> CompletionsIn(Append(l, e), id) # {}
             /\ CompletionsIn(Append(l, e), id) # {} => HasFirst(CompletionsIn(Append(l, e), id))
             /\ AsSaid(Append(l, e), t, id) /\ TableSaid(Append(l, e), parts, id)
    <2> DEFINE u == Append(l, e)
    <2>1. /\ id \in seen <=> CompletionsIn(l, id) # {}
          /\ CompletionsIn(l, id) # {} => HasFirst(CompletionsIn(l, id))
          /\ AsSaid(l, s, id) /\ TableSaid(l, parts, id)
        BY DEF CallsKnown
    <2>2. ~Completes(e, id)
        BY DEF Completes
    <2>3. CompletionsIn(u, id) = CompletionsIn(l, id) /\ StartsIn(u, id) = StartsIn(l, id)
        BY <1>1, <2>2, LogGrows
    <2>4. PiecesIn(u, id, Len(u)) = PiecesIn(l, id, Len(l))
        BY <1>1, PiecesGrow
    <2>5. AsSaid(u, t, id)
        BY <1>1, <2>1, <2>2, SaidStays
    <2> HIDE DEF u
    <2>6. TableSaid(u, parts, id)
        BY <2>1, <2>3, <2>4 DEF TableSaid
    <2>7. /\ id \in seen <=> CompletionsIn(u, id) # {}
          /\ CompletionsIn(u, id) # {} => HasFirst(CompletionsIn(u, id))
        BY <2>1, <2>3
    <2> QED
        BY <2>5, <2>6, <2>7 DEF u
<1> QED
    BY <1>1, <1>2, <1>3 DEF CallsKnown

(* tool-call, tool-input-end: the call goes out unless it has.             *)
LEMMA CompletingLine ==
    ASSUME NEW l, NEW seen, NEW parts, NEW s, CallsKnown(l, seen, parts, s),
           NEW e \in Events, e.kind \in {"call", "end"}, NEW others,
           \A x \in Calls \ {e.id} : /\ x \in DOMAIN others <=> x \in DOMAIN parts
                                     /\ x \in DOMAIN others => others[x] = parts[x],
           NEW t \in Seq(Chunk), NEW c \in Chunk,
           t = IF e.id # NoId /\ e.id \in seen THEN s ELSE Append(s, c),
           DOMAIN c.calls = {1}, c.calls[1].id = e.id,
           e.id \in Calls /\ e.id \notin seen =>
               c.calls[1].args = IF e.kind = "call" \/ e.input THEN <<e.id>>
                                 ELSE PiecesIn(l, e.id, Len(l))
    PROVE  CallsKnown(Append(l, e), seen \union ({e.id} \ {NoId}), others, t)
<1> DEFINE u == Append(l, e)
           now == seen \union ({e.id} \ {NoId})
<1>1. l \in Seq(Events) /\ s \in Seq(Chunk) /\ NoId \notin seen
    BY DEF CallsKnown
<1>2. u \in Seq(Events)
    BY <1>1, LogAppend
<1>3. ASSUME NEW id \in Calls
      PROVE  /\ id \in now <=> CompletionsIn(u, id) # {}
             /\ CompletionsIn(u, id) # {} => HasFirst(CompletionsIn(u, id))
             /\ AsSaid(u, t, id) /\ TableSaid(u, others, id)
    <2>1. /\ id \in seen <=> CompletionsIn(l, id) # {}
          /\ CompletionsIn(l, id) # {} => HasFirst(CompletionsIn(l, id))
          /\ AsSaid(l, s, id) /\ TableSaid(l, parts, id)
        BY DEF CallsKnown
    <2>2. id # NoId
        BY ChunkAssumption DEF ChunkAssumption
    <2>3. Completes(e, id) <=> e.id = id
        BY DEF Completes
    <2>4. CASE e.id # id
        <3>1. CompletionsIn(u, id) = CompletionsIn(l, id) /\ StartsIn(u, id) = StartsIn(l, id)
            BY <1>1, <2>3, <2>4, LogGrows
        <3>2. PiecesIn(u, id, Len(u)) = PiecesIn(l, id, Len(l))
            BY <1>1, <2>4, PiecesGrow
        <3>3. SameCarried(s, t, id)
            <4>1. CASE t = s
                BY <4>1 DEF SameCarried
            <4>2. CASE t = Append(s, c)
                <5>1. \A m \in DOMAIN c.calls : c.calls[m].id # id
                    BY <2>4
                <5> QED
                    BY <1>1, <4>2, <5>1, CarriedPlain
            <4> QED
                BY <4>1, <4>2
        <3>4. AsSaid(u, t, id)
            BY <1>1, <2>1, <2>3, <2>4, <3>3, SaidStays
        <3> HIDE DEF u
        <3>5. TableSaid(u, others, id)
            <4>1. id \in DOMAIN others <=> id \in DOMAIN parts
                BY <2>4
            <4>2. id \in DOMAIN others => others[id] = parts[id]
                BY <2>4
            <4> QED
                BY <2>1, <3>1, <3>2, <4>1, <4>2 DEF TableSaid
        <3>6. id \in now <=> id \in seen
            BY <2>4
        <3> QED
            BY <2>1, <3>1, <3>4, <3>5, <3>6
    <2>5. CASE e.id = id /\ id \in seen
        <3>1. t = s
            BY <2>2, <2>5
        <3>2. SameCarried(s, t, id)
            BY <3>1 DEF SameCarried
        <3>3. AsSaid(u, t, id)
            BY <1>1, <2>1, <2>5, <3>2, SaidStays
        <3>4. CompletionsIn(u, id) # {} /\ HasFirst(CompletionsIn(u, id))
            BY <1>1, <2>1, <2>5, ArgsStay
        <3> HIDE DEF u
        <3>5. TableSaid(u, others, id)
            BY <3>4 DEF TableSaid
        <3> QED
            BY <2>5, <3>3, <3>4, <3>5
    <2>6. CASE e.id = id /\ id \notin seen
        <3>1. t = Append(s, c)
            BY <2>6
        <3>2. c.calls[1].args = IF e.kind = "call" \/ e.input THEN <<id>>
                                ELSE PiecesIn(l, id, Len(l))
            BY <2>6
        <3>3. CompletionsIn(l, id) = {} /\ Completes(e, id) /\ c.calls[1].id = id
            BY <2>1, <2>3, <2>6
        <3>4. AsSaid(u, Append(s, c), id)
            BY <1>1, <2>1, <3>2, <3>3, SaidNow
        <3>5. CompletionsIn(u, id) # {} /\ HasFirst(CompletionsIn(u, id))
            BY <1>1, <3>3, ArgsNew
        <3> HIDE DEF u
        <3>6. TableSaid(u, others, id)
            BY <3>5 DEF TableSaid
        <3>7. id \in now
            BY <2>2, <2>6
        <3> QED
            BY <3>1, <3>4, <3>5, <3>6, <3>7
    <2> QED
        BY <2>4, <2>5, <2>6
<1>4. NoId \notin now
    BY <1>1
<1> HIDE DEF u, now
<1>5. CallsKnown(u, now, others, t)
    BY <1>2, <1>3, <1>4 DEF CallsKnown
<1> QED
    BY <1>5 DEF u, now

(* tool-input-start, tool-input-delta: nothing goes out, and only the call *)
(* at hand is assembled on.                                                *)
LEMMA AssemblingLine ==
    ASSUME NEW l, NEW seen, NEW parts, NEW s, CallsKnown(l, seen, parts, s),
           NEW e \in Events, e.kind \in {"start", "delta"}, e.id \in Calls, NEW others,
           \A x \in Calls \ {e.id} : /\ x \in DOMAIN others <=> x \in DOMAIN parts
                                     /\ x \in DOMAIN others => others[x] = parts[x],
           e.id \in DOMAIN others <=> e.id \in DOMAIN parts \/ e.kind = "start",
           e.id \in DOMAIN parts =>
               others[e.id].args = IF e.kind = "delta" THEN Append(parts[e.id].args, e.id)
                                   ELSE parts[e.id].args,
           e.kind = "start" /\ e.id \notin DOMAIN parts => others[e.id].args = <<>>
    PROVE  CallsKnown(Append(l, e), seen, others, s)
<1> DEFINE u == Append(l, e)
<1>1. l \in Seq(Events) /\ s \in Seq(Chunk) /\ NoId \notin seen
    BY DEF CallsKnown
<1>2. u \in Seq(Events)
    BY <1>1, LogAppend
<1>3. ASSUME NEW id \in Calls
      PROVE  /\ id \in seen <=> CompletionsIn(u, id) # {}
             /\ CompletionsIn(u, id) # {} => HasFirst(CompletionsIn(u, id))
             /\ AsSaid(u, s, id) /\ TableSaid(u, others, id)
    <2>1. /\ id \in seen <=> CompletionsIn(l, id) # {}
          /\ CompletionsIn(l, id) # {} => HasFirst(CompletionsIn(l, id))
          /\ AsSaid(l, s, id) /\ TableSaid(l, parts, id)
        BY DEF CallsKnown
    <2>2. ~Completes(e, id)
        BY DEF Completes
    <2>9. CompletionsIn(u, id) = CompletionsIn(l, id)
        BY <1>1, <2>2, LogGrows
    <2>10. StartsIn(u, id) = IF e.kind = "start" /\ e.id = id
                            THEN StartsIn(l, id) \union {Len(l) + 1} ELSE StartsIn(l, id)
        BY <1>1, StartsGrow
    <2>3. /\ CompletionsIn(u, id) = CompletionsIn(l, id)
          /\ e.kind = "start" /\ e.id = id => StartsIn(u, id) # {}
          /\ ~(e.kind = "start" /\ e.id = id) => StartsIn(u, id) = StartsIn(l, id)
        BY <2>9, <2>10
    <2>4. PiecesIn(u, id, Len(u)) =
             IF e.kind = "delta" /\ e.id = id /\ StartsIn(l, id) # {}
             THEN Append(PiecesIn(l, id, Len(l)), id) ELSE PiecesIn(l, id, Len(l))
        BY <1>1, PiecesGrow
    <2>5. SameCarried(s, s, id)
        BY DEF SameCarried
    <2>6. AsSaid(u, s, id)
        BY <1>1, <2>1, <2>2, <2>5, SaidStays
    <2>7. StartsIn(l, id) = {} => PiecesIn(l, id, Len(l)) = <<>>
        BY <1>1, NoPieces
    <2> HIDE DEF u
    <2>8. TableSaid(u, others, id)
        <3> SUFFICES ASSUME CompletionsIn(l, id) = {}
                     PROVE  /\ id \in DOMAIN others <=> StartsIn(u, id) # {}
                            /\ id \in DOMAIN others => others[id].args = PiecesIn(u, id, Len(u))
            BY <2>3 DEF TableSaid
        <3>1. /\ id \in DOMAIN parts <=> StartsIn(l, id) # {}
              /\ id \in DOMAIN parts => parts[id].args = PiecesIn(l, id, Len(l))
            BY <2>1 DEF TableSaid
        <3>2. CASE e.id # id
            BY <2>3, <2>4, <3>1, <3>2
        <3>3. CASE e.id = id /\ e.kind = "start"
            BY <2>3, <2>4, <2>7, <3>1, <3>3
        <3>4. CASE e.id = id /\ e.kind = "delta"
            BY <2>3, <2>4, <3>1, <3>4
        <3> QED
            BY <3>2, <3>3, <3>4
    <2> QED
        BY <2>1, <2>3, <2>6, <2>8
<1> HIDE DEF u
<1>4. CallsKnown(u, seen, others, s)
    BY <1>1, <1>2, <1>3 DEF CallsKnown
<1> QED
    BY <1>4 DEF u

(* The events of Command Code lines. *)
LEMMA PlainEvent ==
    ASSUME NEW kind \in {"text", "reasoning", "noise", "error"}
    PROVE  Event(kind) \in Events /\ Event(kind).kind = kind
    BY DEF Event, Events

LEMMA AnEventOfACall ==
    ASSUME NEW kind \in {"start", "delta", "call", "end"}, NEW id \in Calls \union {NoId}
    PROVE  CallEvent(kind, id) \in Events /\ CallEvent(kind, id).kind = kind
           /\ CallEvent(kind, id).id = id
    BY DEF Event, CallEvent, Events

LEMMA EndEvent ==
    ASSUME NEW id \in Calls \union {NoId}, NEW snapshot \in BOOLEAN
    PROVE  LET e == [Event("end") EXCEPT !.id = id, !.input = snapshot]
           IN  e \in Events /\ e.kind = "end" /\ e.id = id /\ e.input = snapshot
    BY DEF Event, Events

LEMMA ReasonEvent ==
    ASSUME NEW kind \in {"finish", "step"}, NEW reason \in Reasons
    PROVE  LET e == [Event(kind) EXCEPT !.reason = reason]
           IN  e \in Events /\ e.kind = kind
    BY DEF Event, Events

LEMMA OneLine ==
    ASSUME log \in Seq(Events), NEW p, NEW e \in Events, Line(p, <<e>>)
    PROVE  log' = Append(log, e)
<1>1. log' = log \o <<e>>
    BY DEF Line
<1> QED
    BY <1>1

CallsNow  == CallsKnown(log, seenCalls, toolParts, sent)
CallsNext == CallsKnown(log', seenCalls', toolParts', sent')

(* What a line of text, noise, a finish or an error adds carries no call.  *)
LEMMA NoCallSent ==
    ASSUME NEW s \in Seq(Chunk), NEW id,
           NEW c \in {TextChunk, ReasoningChunk, ErrorChunk, DoneMarker} \union {FinishChunk(r) : r \in Reasons}
    PROVE  SameCarried(s, Append(s, c), id) /\ Append(s, c) \in Seq(Chunk)
<1>1. c \in Chunk /\ c.calls = <<>>
    BY PlainChunks
<1>2. \A m \in DOMAIN c.calls : c.calls[m].id # id
    BY <1>1
<1> QED
    BY <1>1, <1>2, CarriedPlain

LEMMA OtherLines ==
    ASSUME CallsNow, CcDelta \/ CcNoise \/ CcFinish \/ CcFinishStep \/ CcError
    PROVE  CallsNext
<1>1. log \in Seq(Events) /\ sent \in Seq(Chunk)
    BY DEF CallsNow, CallsKnown
<1>2. UNCHANGED <<seenCalls, toolParts>>
    BY DEF CcDelta, CcNoise, CcFinish, CcFinishStep, CcError, state
<1>3. \E e \in Events : e.kind \notin {"call", "end", "start", "delta"} /\ log' = Append(log, e)
    <2>1. CASE CcDelta
        <3>1. PICK kind \in {"text", "reasoning"} : Line("command-code", <<Event(kind)>>)
            BY <2>1 DEF CcDelta
        <3>2. Event(kind) \in Events /\ Event(kind).kind = kind
            BY PlainEvent
        <3>3. log' = Append(log, Event(kind))
            BY <1>1, <3>1, <3>2, OneLine
        <3> QED
            BY <3>2, <3>3
    <2>2. CASE CcNoise \/ CcError
        <3>1. PICK kind \in {"noise", "error"} : Line("command-code", <<Event(kind)>>)
            BY <2>2 DEF CcNoise, CcError
        <3>2. Event(kind) \in Events /\ Event(kind).kind = kind
            BY PlainEvent
        <3>3. log' = Append(log, Event(kind))
            BY <1>1, <3>1, <3>2, OneLine
        <3> QED
            BY <3>2, <3>3
    <2>3. CASE CcFinish \/ CcFinishStep
        <3>1. PICK kind \in {"finish", "step"}, reason \in Reasons :
                  Line("command-code", <<[Event(kind) EXCEPT !.reason = reason]>>)
            BY <2>3 DEF CcFinish, CcFinishStep
        <3> DEFINE e == [Event(kind) EXCEPT !.reason = reason]
        <3>2. e \in Events /\ e.kind = kind
            BY ReasonEvent
        <3>3. log' = Append(log, e)
            BY <1>1, <3>1, <3>2, OneLine
        <3> HIDE DEF e
        <3> QED
            BY <3>2, <3>3
    <2> QED
        BY <2>1, <2>2, <2>3
<1>4. \/ sent' = sent
      \/ \E c \in {TextChunk, ReasoningChunk} \union {FinishChunk(r) : r \in Reasons} :
             sent' = Append(sent, c)
      \/ sent' = sent \o <<ErrorChunk, DoneMarker>>
    BY DEF CcDelta, CcNoise, CcFinish, CcFinishStep, CcError, FinishOnce, Emit, Skip, EmitAndStop
<1>5. sent' \in Seq(Chunk) /\ \A id \in Calls : SameCarried(sent, sent', id)
    <2>1. CASE sent' = sent
        BY <1>1, <2>1 DEF SameCarried
    <2>2. CASE \E c \in {TextChunk, ReasoningChunk} \union {FinishChunk(r) : r \in Reasons} :
                   sent' = Append(sent, c)
        BY <1>1, <2>2, NoCallSent
    <2>3. CASE sent' = sent \o <<ErrorChunk, DoneMarker>>
        <3> DEFINE s == Append(sent, ErrorChunk)
        <3>1. s \in Seq(Chunk) /\ \A id \in Calls : SameCarried(sent, s, id)
            BY <1>1, NoCallSent
        <3>2. sent' = Append(s, DoneMarker)
            <4>1. ErrorChunk \in Chunk /\ DoneMarker \in Chunk
                BY PlainChunks
            <4> QED
                BY <1>1, <2>3, <4>1
        <3> HIDE DEF s
        <3>3. sent' \in Seq(Chunk) /\ \A id \in Calls : SameCarried(s, sent', id)
            BY <3>1, <3>2, NoCallSent
        <3> QED
            BY <3>1, <3>3 DEF SameCarried
    <2> QED
        BY <1>4, <2>1, <2>2, <2>3
<1>6. PICK e \in Events : e.kind \notin {"call", "end", "start", "delta"} /\ log' = Append(log, e)
    BY <1>3
<1>7. CallsKnown(Append(log, e), seenCalls, toolParts, sent')
    BY <1>5, <1>6, OtherLine DEF CallsNow
<1> QED
    BY <1>2, <1>6, <1>7 DEF CallsNext

(* [DONE] at the end. *)
LEMMA EofCalls ==
    ASSUME CallsNow, Eof PROVE CallsNext
<1>1. log \in Seq(Events) /\ sent \in Seq(Chunk)
    BY DEF CallsNow, CallsKnown
<1>2. UNCHANGED <<log, seenCalls, toolParts>>
    BY DEF Eof, state
<1>3. sent' = sent \/ sent' = Append(sent, DoneMarker)
    BY DEF Eof
<1>4. sent' \in Seq(Chunk) /\ \A id \in Calls : SameCarried(sent, sent', id)
    <2>1. CASE sent' = sent
        BY <1>1, <2>1 DEF SameCarried
    <2>2. CASE sent' = Append(sent, DoneMarker)
        BY <1>1, <2>2, NoCallSent
    <2> QED
        BY <1>3, <2>1, <2>2
<1>5. ASSUME NEW id \in Calls PROVE AsSaid(log, sent', id)
    <2>1. AsSaid(log, sent, id) /\ SameCarried(sent, sent', id)
        BY <1>4 DEF CallsNow, CallsKnown
    <2> QED
        BY <2>1 DEF AsSaid, SameCarried
<1>6. CallsKnown(log, seenCalls, toolParts, sent')
    BY <1>4, <1>5 DEF CallsNow, CallsKnown
<1> QED
    BY <1>2, <1>6 DEF CallsNext

LEMMA ToolCallCalls ==
    ASSUME CallsNow, SentApart, CcToolCall PROVE CallsNext
<1>1. log \in Seq(Events) /\ sent \in Seq(Chunk) /\ toolIndex \in Nat
    BY DEF CallsNow, CallsKnown, SentApart
<1>2. PICK id \in Calls \union {NoId} :
          /\ Line("command-code", <<CallEvent("call", id)>>)
          /\ Remembers(id)
          /\ IF AlreadySeen(id)
             THEN Skip /\ UNCHANGED toolIndex
             ELSE /\ Emit(CallChunk(toolIndex, id, IF id = NoId THEN <<>> ELSE <<id>>))
                  /\ toolIndex' = toolIndex + 1
          /\ UNCHANGED <<toolParts, finishSeen>>
    BY DEF CcToolCall
<1> DEFINE e == CallEvent("call", id)
           args == IF id = NoId THEN <<>> ELSE <<id>>
           c == CallChunk(toolIndex, id, args)
<1>3. e \in Events /\ e.kind = "call" /\ e.id = id
    BY AnEventOfACall
<1>4. log' = Append(log, e)
    BY <1>1, <1>2, <1>3, OneLine
<1>5. args \in Arguments /\ (id \in Calls => args = <<id>>)
    BY ChunkAssumption DEF ChunkAssumption, Arguments
<1>6. sent' = IF AlreadySeen(id) THEN sent ELSE Append(sent, c)
    BY <1>2 DEF Skip, Emit
<1>7. seenCalls' = seenCalls \union ({id} \ {NoId}) /\ toolParts' = toolParts
    BY <1>2 DEF Remembers
<1> HIDE DEF e, args
<1>8. c \in Chunk /\ DOMAIN c.calls = {1} /\ c.calls[1].id = id /\ c.calls[1].args = args
    BY <1>1, <1>5, CallChunkIs
<1> HIDE DEF c
<1>9. sent' = IF e.id # NoId /\ e.id \in seenCalls THEN sent ELSE Append(sent, c)
    BY <1>3, <1>6 DEF AlreadySeen
<1>10. sent' \in Seq(Chunk)
    BY <1>1, <1>6, <1>8
<1>11. CallsKnown(Append(log, e), seenCalls \union ({e.id} \ {NoId}), toolParts, sent')
    <2>1. e.id \in Calls /\ e.id \notin seenCalls =>
              c.calls[1].args = IF e.kind = "call" \/ e.input THEN <<e.id>>
                                ELSE PiecesIn(log, e.id, Len(log))
        BY <1>3, <1>5, <1>8
    <2>2. e.kind \in {"call", "end"} /\ c.calls[1].id = e.id
        BY <1>3, <1>8
    <2> QED
        BY <1>3, <1>8, <1>9, <1>10, <2>1, <2>2, CompletingLine DEF CallsNow
<1> QED
    BY <1>3, <1>4, <1>7, <1>11 DEF CallsNext

LEMMA InputEndCalls ==
    ASSUME CallsNow, SentApart, AssembledApart, CcInputEnd PROVE CallsNext
<1>1. log \in Seq(Events) /\ sent \in Seq(Chunk) /\ toolIndex \in Nat
    BY DEF CallsNow, CallsKnown, SentApart
<1>2. PICK id \in Calls \union {NoId}, snapshot \in BOOLEAN :
          LET started == id \in DOMAIN toolParts
              index   == IF started THEN toolParts[id].index ELSE toolIndex
              args    == IF snapshot THEN (IF id = NoId THEN <<>> ELSE <<id>>)
                         ELSE IF started THEN toolParts[id].args ELSE <<>>
          IN  /\ Line("command-code", <<[Event("end") EXCEPT !.id = id, !.input = snapshot]>>)
              /\ Remembers(id)
              /\ Without(id)
              /\ IF AlreadySeen(id)
                 THEN Skip /\ UNCHANGED toolIndex
                 ELSE /\ Emit(CallChunk(index, id, args))
                      /\ toolIndex' = IF started THEN toolIndex ELSE toolIndex + 1
              /\ UNCHANGED finishSeen
    BY Zenon DEF CcInputEnd
<1> DEFINE e == [Event("end") EXCEPT !.id = id, !.input = snapshot]
           started == id \in DOMAIN toolParts
           index   == IF started THEN toolParts[id].index ELSE toolIndex
           args    == IF snapshot THEN (IF id = NoId THEN <<>> ELSE <<id>>)
                      ELSE IF started THEN toolParts[id].args ELSE <<>>
           c == CallChunk(index, id, args)
<1>3. e \in Events /\ e.kind = "end" /\ e.id = id /\ e.input = snapshot
    BY EndEvent, Zenon
<1>4. log' = Append(log, e)
    BY <1>1, <1>2, <1>3, OneLine
<1>5. args \in Arguments /\ index \in Nat
    BY <1>1 DEF Arguments, AssembledApart
<1>6. sent' = IF AlreadySeen(id) THEN sent ELSE Append(sent, c)
    BY <1>2 DEF Skip, Emit
<1>7. seenCalls' = seenCalls \union ({id} \ {NoId})
    BY <1>2 DEF Remembers
<1>8. /\ DOMAIN toolParts' = DOMAIN toolParts \ {id}
      /\ \A x \in DOMAIN toolParts' : toolParts'[x] = toolParts[x]
    BY <1>2 DEF Without, Restrict
<1>12. id \in Calls /\ id \notin seenCalls =>
           args = IF snapshot THEN <<id>> ELSE PiecesIn(log, id, Len(log))
    <2> SUFFICES ASSUME id \in Calls, id \notin seenCalls
                 PROVE  args = IF snapshot THEN <<id>> ELSE PiecesIn(log, id, Len(log))
        OBVIOUS
    <2>1. id # NoId
        BY ChunkAssumption DEF ChunkAssumption
    <2>2. /\ started <=> StartsIn(log, id) # {}
          /\ started => toolParts[id].args = PiecesIn(log, id, Len(log))
        BY DEF CallsNow, CallsKnown, TableSaid
    <2>3. ~started => PiecesIn(log, id, Len(log)) = <<>>
        BY <1>1, <2>2, NoPieces
    <2> HIDE DEF started
    <2> QED
        BY <2>1, <2>2, <2>3
<1> HIDE DEF e, args, index, started
<1>9. c \in Chunk /\ DOMAIN c.calls = {1} /\ c.calls[1].id = id /\ c.calls[1].args = args
    BY <1>5, CallChunkIs
<1> HIDE DEF c
<1>10. sent' = IF e.id # NoId /\ e.id \in seenCalls THEN sent ELSE Append(sent, c)
    BY <1>3, <1>6 DEF AlreadySeen
<1>11. sent' \in Seq(Chunk)
    BY <1>1, <1>6, <1>9
<1>13. CallsKnown(Append(log, e), seenCalls \union ({e.id} \ {NoId}), toolParts', sent')
    <2>1. e.id \in Calls /\ e.id \notin seenCalls =>
              c.calls[1].args = IF e.kind = "call" \/ e.input THEN <<e.id>>
                                ELSE PiecesIn(log, e.id, Len(log))
        BY <1>3, <1>9, <1>12
    <2>2. e.kind \in {"call", "end"} /\ c.calls[1].id = e.id
        BY <1>3, <1>9
    <2>3. \A x \in Calls \ {e.id} : /\ x \in DOMAIN toolParts' <=> x \in DOMAIN toolParts
                                    /\ x \in DOMAIN toolParts' => toolParts'[x] = toolParts[x]
        BY <1>3, <1>8
    <2> QED
        BY <1>3, <1>9, <1>10, <1>11, <2>1, <2>2, <2>3, CompletingLine DEF CallsNow
<1> QED
    BY <1>3, <1>4, <1>7, <1>13 DEF CallsNext

LEMMA InputStartCalls ==
    ASSUME CallsNow, CcInputStart PROVE CallsNext
<1>1. log \in Seq(Events)
    BY DEF CallsNow, CallsKnown
<1>2. PICK id \in Calls :
          /\ Line("command-code", <<CallEvent("start", id)>>)
          /\ IF id \in DOMAIN toolParts
             THEN UNCHANGED <<toolParts, toolIndex>>
             ELSE /\ toolParts' = [x \in DOMAIN toolParts \union {id} |->
                                     IF x = id THEN [index |-> toolIndex, args |-> <<>>]
                                     ELSE toolParts[x]]
                  /\ toolIndex' = toolIndex + 1
    BY DEF CcInputStart
<1> DEFINE e == CallEvent("start", id)
<1>3. e \in Events /\ e.kind = "start" /\ e.id = id
    BY AnEventOfACall
<1>4. log' = Append(log, e)
    BY <1>1, <1>2, <1>3, OneLine
<1>5. UNCHANGED <<sent, seenCalls>>
    BY DEF CcInputStart, Skip
<1>6. /\ \A x \in Calls \ {id} : /\ x \in DOMAIN toolParts' <=> x \in DOMAIN toolParts
                                 /\ x \in DOMAIN toolParts' => toolParts'[x] = toolParts[x]
      /\ id \in DOMAIN toolParts'
      /\ id \in DOMAIN toolParts => toolParts'[id].args = toolParts[id].args
      /\ id \notin DOMAIN toolParts => toolParts'[id].args = <<>>
    BY <1>2
<1> HIDE DEF e
<1>7. CallsKnown(Append(log, e), seenCalls, toolParts', sent)
    <2>1. e.kind \in {"start", "delta"} /\ e.id \in Calls
        BY <1>3
    <2>2. e.id \in DOMAIN toolParts' <=> e.id \in DOMAIN toolParts \/ e.kind = "start"
        BY <1>3, <1>6
    <2>3. e.id \in DOMAIN toolParts =>
              toolParts'[e.id].args = IF e.kind = "delta" THEN Append(toolParts[e.id].args, e.id)
                                      ELSE toolParts[e.id].args
        BY <1>3, <1>6
    <2> QED
        BY <1>3, <1>6, <2>1, <2>2, <2>3, AssemblingLine DEF CallsNow
<1> QED
    BY <1>4, <1>5, <1>7 DEF CallsNext

LEMMA InputDeltaCalls ==
    ASSUME CallsNow, AssembledApart, CcInputDelta PROVE CallsNext
<1>1. log \in Seq(Events)
    BY DEF CallsNow, CallsKnown
<1>2. PICK id \in Calls :
          /\ Line("command-code", <<CallEvent("delta", id)>>)
          /\ toolParts' = [x \in DOMAIN toolParts |->
                             IF x = id THEN [toolParts[x] EXCEPT !.args = Append(@, id)]
                             ELSE toolParts[x]]
    BY DEF CcInputDelta
<1> DEFINE e == CallEvent("delta", id)
<1>3. e \in Events /\ e.kind = "delta" /\ e.id = id
    BY AnEventOfACall
<1>4. log' = Append(log, e)
    BY <1>1, <1>2, <1>3, OneLine
<1>5. UNCHANGED <<sent, seenCalls>>
    BY DEF CcInputDelta, Skip
<1>6. /\ DOMAIN toolParts' = DOMAIN toolParts
      /\ \A x \in DOMAIN toolParts : x # id => toolParts'[x] = toolParts[x]
      /\ id \in DOMAIN toolParts => toolParts'[id].args = Append(toolParts[id].args, id)
    <2>1. id \in DOMAIN toolParts => toolParts[id] \in [index : Nat, args : Arguments]
        BY DEF AssembledApart
    <2> QED
        BY <1>2, <2>1
<1> HIDE DEF e
<1>7. CallsKnown(Append(log, e), seenCalls, toolParts', sent)
    <2>1. e.kind \in {"start", "delta"} /\ e.id \in Calls
        BY <1>3
    <2>2. e.id \in DOMAIN toolParts' <=> e.id \in DOMAIN toolParts \/ e.kind = "start"
        BY <1>3, <1>6
    <2>3. e.id \in DOMAIN toolParts =>
              toolParts'[e.id].args = IF e.kind = "delta" THEN Append(toolParts[e.id].args, e.id)
                                      ELSE toolParts[e.id].args
        BY <1>3, <1>6
    <2>4. \A x \in Calls \ {e.id} : /\ x \in DOMAIN toolParts' <=> x \in DOMAIN toolParts
                                    /\ x \in DOMAIN toolParts' => toolParts'[x] = toolParts[x]
        BY <1>3, <1>6
    <2>5. e.kind # "start"
        BY <1>3
    <2> QED
        BY <1>3, <2>1, <2>2, <2>3, <2>4, <2>5, AssemblingLine DEF CallsNow
<1> QED
    BY <1>4, <1>5, <1>7 DEF CallsNext

LEMMA CallsInitially == Init => CallsInv
<1> SUFFICES ASSUME Init PROVE CallsNow
    BY DEF CallsInv, CallsNow
<1>1. log = <<>> /\ seenCalls = {} /\ toolParts = << >> /\ sent = <<>>
    BY DEF Init, TranslatorInit
<1>2. DOMAIN <<>> = {}
    OBVIOUS
<1>3. \A id : CompletionsIn(log, id) = {} /\ StartsIn(log, id) = {} /\ \A i, m : ~Carried(sent, id, i, m)
    BY <1>1, <1>2 DEF CompletionsIn, StartsIn, Carried
<1>4. \A id \in Calls : AsSaid(log, sent, id) /\ TableSaid(log, toolParts, id)
    BY <1>1, <1>2, <1>3 DEF AsSaid, TableSaid
<1>5. log \in Seq(Events) /\ sent \in Seq(Chunk)
    BY <1>1
<1> QED
    BY <1>1, <1>3, <1>4, <1>5 DEF CallsNow, CallsKnown

LEMMA CallsPrimed == CallsNow' <=> CallsNext
    BY DEF CallsNow, CallsNext, CallsKnown, AsSaid, TableSaid, Carried, CompletionsIn, StartsIn,
           PiecesIn, PieceSet, ArgsIn, FirstOf, HasFirst

LEMMA CallsInductive == CommandCodeInv /\ CallsInv /\ [Next]_vars => CallsInv'
<1> SUFFICES ASSUME CommandCodeInv, CallsInv, [Next]_vars, provider = "command-code"
             PROVE  CallsNext
    BY ProviderStays, CallsPrimed DEF CallsInv, CallsNow
<1>1. AssembledApart /\ SentApart /\ CallsNow
    BY DEF CommandCodeInv, CallsInv, CallsNow
<1>2. ASSUME UNCHANGED translatorVars PROVE CallsNext
    BY <1>1, <1>2 DEF translatorVars, CallsNow, CallsNext
<1>3. ASSUME TranslatorNext PROVE CallsNext
    <2>1. CommandCodeLine \/ Eof
        BY <1>3, OwnLines
    <2> QED
        BY <1>1, <2>1, OtherLines, EofCalls, ToolCallCalls, InputEndCalls, InputStartCalls,
           InputDeltaCalls DEF CommandCodeLine
<1> QED
    BY <1>2, <1>3 DEF Next, vars, Translate, Render, ClientReads

(* What the invariant says in the words of ChatStream. *)
LEMMA CallsInvSays == CallsInv => CallsAsSaid
<1> SUFFICES ASSUME CallsInv, provider = "command-code" PROVE CallsAsSaid
    BY DEF CallsAsSaid
<1>1. \A id : CompletionsIn(log, id) = Completions(id) /\ StartsIn(log, id) = Starts(id)
    BY DEF CompletionsIn, Completions, StartsIn, Starts
<1>2. \A id, n : PiecesIn(log, id, n) = Pieces(id, n)
    BY <1>1 DEF PiecesIn, PieceSet, Pieces, PiecesUpTo
<1>3. \A id : ArgsIn(log, id) = SaidArgs(id)
    BY <1>1, <1>2 DEF ArgsIn, SaidArgs
<1>4. \A id \in Calls : AsSaid(log, sent, id)
    BY DEF CallsInv, CallsKnown
<1>5. \A id \in CompletedCalls : \E i \in DOMAIN sent : \E m \in DOMAIN sent[i].calls :
          sent[i].calls[m].id = id
    BY <1>1, <1>4 DEF CompletedCalls, AsSaid, Carried
<1>6. ASSUME NEW i \in DOMAIN sent, NEW m \in DOMAIN sent[i].calls, sent[i].calls[m].id \in Calls
      PROVE  LET call == sent[i].calls[m]
             IN  /\ call.id \in CompletedCalls /\ call.args = SaidArgs(call.id)
                 /\ \A j \in DOMAIN sent : \A n \in DOMAIN sent[j].calls :
                       sent[j].calls[n].id = call.id => i = j /\ m = n
    <2> DEFINE id == sent[i].calls[m].id
    <2>1. Carried(sent, id, i, m) /\ AsSaid(log, sent, id)
        BY <1>4, <1>6 DEF Carried
    <2>2. id \in CompletedCalls /\ sent[i].calls[m].args = SaidArgs(id)
        BY <1>1, <1>3, <1>6, <2>1 DEF AsSaid, CompletedCalls
    <2>3. \A j \in DOMAIN sent : \A n \in DOMAIN sent[j].calls :
              sent[j].calls[n].id = id => i = j /\ m = n
        BY <2>1 DEF AsSaid, Carried
    <2> QED
        BY <2>2, <2>3
<1> QED
    BY <1>5, <1>6 DEF CallsAsSaid

(* Whatever starts, deltas, ends, whole calls and repetitions come in what *)
(* order (translate_line of Command Code): a call goes out when it is      *)
(* complete, once, with the arguments given since its first start.         *)
THEOREM CallsGoOutAsSaid == Spec => []CallsAsSaid
<1>1. Spec => []CallsInv
    BY CommandCodeInvariant, CallsInitially, CallsInductive, PTL DEF Spec
<1> QED
    BY <1>1, CallsInvSays, PTL

(***************************************************************************)
(* What an orderly stream sends                                            *)
(***************************************************************************)

AllEvents ==
    {e \in [kind : {"text", "reasoning", "noise", "block", "usage", "start", "delta", "end",
                    "call", "finish", "step", "error"},
            id : Calls \union {NoId}, input : BOOLEAN, reason : Reasons \union {NoReason}] :
        e.kind = "start" => e.id \in Calls}
TerminalIn(l) == \E i \in DOMAIN l : Terminal(l[i])
ErrorIn(l)    == \E i \in DOMAIN l : l[i].kind = "error"
StartIn(l)    == \E i \in DOMAIN l : l[i].kind = "start"

(* Payloads that say nothing more, those that end the answer, and those    *)
(* that name a call.                                                       *)
Plain(c)  == ~c.text /\ ~c.reasoning /\ c.calls = <<>> /\ c.finish = NoReason
Ending(c) == c.finish # NoReason \/ c.done
Naming(c) == \E m \in DOMAIN c.calls : c.calls[m].id # NoId
EndedBy(s, n) == \E i \in DOMAIN s : i <= n /\ Ending(s[i])
NamedBy(s, n) == \E i \in DOMAIN s : i <= n /\ Naming(s[i])

(* The payload c after the first n of s: no [DONE] comes first, nothing    *)
(* after the end, and a fragment without a name only after a named one.    *)
Suits(s, n, c) ==
    /\ Len(c.calls) <= 2
    /\ \A m \in DOMAIN c.calls : /\ c.calls[m].name = c.calls[m].id
                                 /\ c.calls[m].id = NoId => NamedBy(s, n)
    /\ c.choice \/ Plain(c)
    /\ c.done => n > 0 /\ Plain(c)
    /\ EndedBy(s, n) => Plain(c)
OrderlySent(s) == s \in Seq(Chunk) /\ \A i \in DOMAIN s : Suits(s, i - 1, s[i])

(* How the payloads follow from the lines.                                 *)
Told(s, l, p, seen, running) ==
    /\ OrderlySent(s) /\ l \in Seq(AllEvents) /\ running \in BOOLEAN /\ seen \in BOOLEAN
    /\ (\E i \in DOMAIN s : s[i].finish # NoReason) => TerminalIn(l) /\ (p = "command-code" => seen = TRUE)
    /\ (\E i \in DOMAIN s : s[i].done) => ~running
    /\ TerminalIn(l) \/ ErrorIn(l) \/ seen = TRUE => s # <<>>
    /\ StartIn(l) /\ p \in {"openai", "anthropic"} => NamedBy(s, Len(s))

(* A payload that suits those before it. *)
LEMMA OrderlyAppend ==
    ASSUME NEW s, OrderlySent(s), NEW c \in Chunk, Suits(s, Len(s), c)
    PROVE  OrderlySent(Append(s, c))
<1> DEFINE t == Append(s, c)
<1>1. s \in Seq(Chunk)
    BY DEF OrderlySent
<1>2. /\ t \in Seq(Chunk) /\ DOMAIN t = DOMAIN s \union {Len(s) + 1}
      /\ \A i \in DOMAIN s : t[i] = s[i]
      /\ t[Len(s) + 1] = c
    BY <1>1, Appended
<1>3. Len(s) \in Nat /\ DOMAIN s = 1..Len(s)
    BY <1>1
<1> HIDE DEF t
<1>4. ASSUME NEW n \in Int, n <= Len(s)
      PROVE  (EndedBy(t, n) <=> EndedBy(s, n)) /\ (NamedBy(t, n) <=> NamedBy(s, n))
    BY <1>2, <1>3, <1>4 DEF EndedBy, NamedBy
<1>5. ASSUME NEW i \in DOMAIN t PROVE Suits(t, i - 1, t[i])
    <2>1. CASE i \in DOMAIN s
        <3>1. Suits(s, i - 1, s[i]) /\ i - 1 \in Int /\ i - 1 <= Len(s) /\ t[i] = s[i]
            BY <1>2, <1>3, <2>1 DEF OrderlySent
        <3> QED
            BY <1>4, <3>1 DEF Suits
    <2>2. CASE i = Len(s) + 1
        <3>1. i - 1 = Len(s) /\ t[i] = c
            BY <1>2, <1>3, <2>2
        <3> QED
            BY <1>3, <1>4, <3>1 DEF Suits
    <2> QED
        BY <1>2, <2>1, <2>2
<1> QED
    BY <1>2, <1>5 DEF OrderlySent, t

(* What two logs say, joined. *)
LEMMA Joined ==
    ASSUME NEW l \in Seq(AllEvents), NEW says \in Seq(AllEvents)
    PROVE  LET t == l \o says IN
           /\ t \in Seq(AllEvents)
           /\ TerminalIn(t) <=> TerminalIn(l) \/ TerminalIn(says)
           /\ ErrorIn(t) <=> ErrorIn(l) \/ ErrorIn(says)
           /\ StartIn(t) <=> StartIn(l) \/ StartIn(says)
<1> DEFINE t == l \o says
<1>1. /\ t \in Seq(AllEvents) /\ Len(l) \in Nat /\ Len(says) \in Nat
      /\ DOMAIN l = 1..Len(l) /\ DOMAIN says = 1..Len(says) /\ DOMAIN t = 1..(Len(l) + Len(says))
      /\ \A i \in 1..Len(l) : t[i] = l[i]
      /\ \A i \in 1..Len(says) : t[Len(l) + i] = says[i]
    OBVIOUS
<1>2. \A i \in DOMAIN t : (i \in DOMAIN l /\ t[i] = l[i])
                            \/ \E j \in DOMAIN says : t[i] = says[j]
    <2> TAKE i \in DOMAIN t
    <2>1. CASE i <= Len(l)
        BY <1>1, <2>1
    <2>2. CASE i > Len(l)
        <3>1. i - Len(l) \in DOMAIN says /\ Len(l) + (i - Len(l)) = i
            BY <1>1, <2>2
        <3> QED
            BY <1>1, <3>1
    <2> QED
        BY <1>1, <2>1, <2>2
<1>3. \A i \in DOMAIN l : i \in DOMAIN t /\ t[i] = l[i]
    BY <1>1
<1>4. \A i \in DOMAIN says : Len(l) + i \in DOMAIN t /\ t[Len(l) + i] = says[i]
    BY <1>1
<1> HIDE DEF t
<1>5. /\ TerminalIn(t) <=> TerminalIn(l) \/ TerminalIn(says)
      /\ ErrorIn(t) <=> ErrorIn(l) \/ ErrorIn(says)
      /\ StartIn(t) <=> StartIn(l) \/ StartIn(says)
    BY <1>2, <1>3, <1>4 DEF TerminalIn, ErrorIn, StartIn
<1> QED
    BY <1>1, <1>5 DEF t

(* A line that sends nothing. *)
LEMMA ToldSkip ==
    ASSUME NEW s, NEW l, NEW p, NEW seen, Told(s, l, p, seen, TRUE),
           NEW says \in Seq(AllEvents), TerminalIn(says) => seen = TRUE,
           ~ErrorIn(says), StartIn(says) => p \notin {"openai", "anthropic"}
    PROVE  Told(s, l \o says, p, seen, TRUE)
<1>1. l \in Seq(AllEvents)
    BY DEF Told
<1> QED
    BY <1>1, Joined, Zenon DEF Told

(* A line that sends one payload, not [DONE]. *)
LEMMA ToldSends ==
    ASSUME NEW s, NEW l, NEW p, NEW seen, Told(s, l, p, seen, TRUE),
           NEW says \in Seq(AllEvents), NEW c \in Chunk, NEW now \in BOOLEAN, seen = TRUE => now = TRUE,
           ~c.done, Suits(s, Len(s), c),
           c.finish # NoReason => TerminalIn(says) /\ (p = "command-code" => now = TRUE),
           StartIn(says) /\ p \in {"openai", "anthropic"} => Naming(c)
    PROVE  Told(Append(s, c), l \o says, p, now, TRUE)
<1> DEFINE t == Append(s, c)
           m == l \o says
<1>1. s \in Seq(Chunk) /\ l \in Seq(AllEvents)
    BY DEF Told, OrderlySent
<1>2. /\ t \in Seq(Chunk) /\ DOMAIN t = DOMAIN s \union {Len(s) + 1}
      /\ \A i \in DOMAIN s : t[i] = s[i]
      /\ t[Len(s) + 1] = c
    BY <1>1, Appended
<1>3. Len(s) \in Nat /\ DOMAIN s = 1..Len(s) /\ t # <<>> /\ Len(t) = Len(s) + 1
    BY <1>1
<1>4. OrderlySent(t)
    BY OrderlyAppend DEF Told
<1>5. /\ m \in Seq(AllEvents)
      /\ TerminalIn(m) <=> TerminalIn(l) \/ TerminalIn(says)
      /\ StartIn(m) <=> StartIn(l) \/ StartIn(says)
    BY <1>1, Joined
<1> HIDE DEF t, m
<1>6. (\E i \in DOMAIN t : t[i].finish # NoReason) => TerminalIn(m) /\ (p = "command-code" => now = TRUE)
    BY <1>2, <1>5 DEF Told
<1>7. ~\E i \in DOMAIN t : t[i].done
    BY <1>2 DEF Told
<1>8. NamedBy(s, Len(s)) \/ Naming(c) => NamedBy(t, Len(t))
    BY <1>2, <1>3 DEF NamedBy
<1>9. Told(t, m, p, now, TRUE)
    BY <1>3, <1>4, <1>5, <1>6, <1>7, <1>8 DEF Told
<1> QED
    BY <1>9 DEF t, m

(* [DONE] after another payload ends the stream. *)
LEMMA ToldDone ==
    ASSUME NEW s, NEW l, NEW p, NEW seen, NEW running, Told(s, l, p, seen, running),
           NEW now \in BOOLEAN, seen = TRUE => now = TRUE, s # <<>>
    PROVE  Told(Append(s, DoneMarker), l, p, now, FALSE)
<1> DEFINE t == Append(s, DoneMarker)
<1>1. s \in Seq(Chunk)
    BY DEF Told, OrderlySent
<1>2. DoneMarker \in Chunk /\ DoneMarker.done /\ Plain(DoneMarker) /\ DOMAIN DoneMarker.calls = {}
      /\ Len(DoneMarker.calls) = 0
    <2>1. DoneMarker \in Chunk
        BY PlainChunks
    <2>2. DoneMarker.done /\ ~DoneMarker.text /\ ~DoneMarker.reasoning /\ DoneMarker.calls = <<>>
          /\ DoneMarker.finish = NoReason
        BY DEF DoneMarker, EmptyChunk
    <2> QED
        BY <2>1, <2>2 DEF Plain
<1>3. /\ t \in Seq(Chunk) /\ DOMAIN t = DOMAIN s \union {Len(s) + 1}
      /\ \A i \in DOMAIN s : t[i] = s[i]
      /\ t[Len(s) + 1] = DoneMarker
    BY <1>1, <1>2, Appended
<1>4. Len(s) \in Nat /\ Len(s) > 0 /\ DOMAIN s = 1..Len(s) /\ t # <<>> /\ Len(t) = Len(s) + 1
    BY <1>1, <1>2
<1>5. Suits(s, Len(s), DoneMarker)
    BY <1>2, <1>4 DEF Suits
<1>6. OrderlySent(t)
    BY <1>2, <1>5, OrderlyAppend DEF Told
<1> HIDE DEF t
<1>7. (\E i \in DOMAIN t : t[i].finish # NoReason) => TerminalIn(l) /\ (p = "command-code" => now = TRUE)
    BY <1>2, <1>3 DEF Told, Plain
<1>8. NamedBy(s, Len(s)) => NamedBy(t, Len(t))
    BY <1>3, <1>4 DEF NamedBy
<1>9. Told(t, l, p, now, FALSE)
    BY <1>4, <1>6, <1>7, <1>8 DEF Told
<1> QED
    BY <1>9 DEF t

(* Nothing has ended before a line that an orderly upstream still sends.   *)
LEMMA NotEnded ==
    ASSUME NEW s, NEW l, NEW p, NEW seen, Told(s, l, p, seen, TRUE),
           ~TerminalIn(l) \/ (p = "command-code" /\ seen # TRUE)
    PROVE  ~EndedBy(s, Len(s))
    BY DEF Told, EndedBy, Ending

(* A line that says one thing. *)
LEMMA OneSaid ==
    ASSUME NEW e \in AllEvents
    PROVE  /\ <<e>> \in Seq(AllEvents) /\ DOMAIN <<e>> = {1} /\ <<e>>[1] = e
           /\ TerminalIn(<<e>>) <=> Terminal(e)
           /\ ErrorIn(<<e>>) <=> e.kind = "error"
           /\ StartIn(<<e>>) <=> e.kind = "start"
<1> DEFINE t == <<e>>
<1>1. t \in Seq(AllEvents) /\ DOMAIN t = {1} /\ t[1] = e
    OBVIOUS
<1> HIDE DEF t
<1>2. /\ TerminalIn(t) <=> Terminal(e)
      /\ ErrorIn(t) <=> e.kind = "error"
      /\ StartIn(t) <=> e.kind = "start"
    BY <1>1 DEF TerminalIn, ErrorIn, StartIn
<1> QED
    BY <1>1, <1>2 DEF t

(* What the events are. *)
LEMMA BareEvent ==
    ASSUME NEW kind \in {"text", "reasoning", "noise", "block", "usage", "error"}
    PROVE  Event(kind) \in AllEvents /\ Event(kind).kind = kind
    BY DEF Event, AllEvents

LEMMA EventOfACall ==
    ASSUME NEW kind \in {"start", "delta", "call"}, NEW id \in Calls \union {NoId},
           kind = "start" => id \in Calls
    PROVE  LET e == CallEvent(kind, id) IN
           e \in AllEvents /\ e.kind = kind /\ e.id = id
    BY DEF Event, CallEvent, AllEvents

LEMMA EndOfACall ==
    ASSUME NEW id \in Calls \union {NoId}, NEW snapshot \in BOOLEAN
    PROVE  LET e == [Event("end") EXCEPT !.id = id, !.input = snapshot]
           IN  e \in AllEvents /\ e.kind = "end" /\ e.id = id
    BY DEF Event, AllEvents

LEMMA AReason ==
    ASSUME NEW kind \in {"finish", "step"}, NEW reason \in Reasons
    PROVE  LET e == [Event(kind) EXCEPT !.reason = reason]
           IN  e \in AllEvents /\ e.kind = kind /\ e.reason = reason
    BY DEF Event, AllEvents

ToldNow  == Told(sent, log, provider, finishSeen, reading)
ToldNext == Told(sent', log', provider', finishSeen', reading')

(* A line that an orderly upstream sends. *)
LEMMA OrderlyLine ==
    ASSUME orderly, NEW p, NEW e \in AllEvents, Line(p, <<e>>)
    PROVE  /\ reading /\ provider = p /\ provider' = p /\ log' = log \o <<e>>
           /\ Expected(e)
           /\ e.kind \notin {"finish", "step", "noise", "usage"} => ~TerminalIn(log)
           /\ e.kind = "finish" /\ p # "command-code" => ~TerminalIn(log)
<1>1. reading /\ provider = p /\ provider' = p /\ log' = log \o <<e>>
      /\ \A i \in DOMAIN <<e>> : Expected(<<e>>[i])
    BY DEF Line
<1>2. Expected(e)
    BY <1>1, OneSaid
<1>3. TerminalSaid <=> TerminalIn(log)
    BY DEF TerminalSaid, Said, TerminalIn
<1> QED
    BY <1>1, <1>2, <1>3 DEF Expected

LEMMA SkipLine ==
    ASSUME ToldNow, orderly, NEW p, NEW e \in AllEvents, Line(p, <<e>>), Skip,
           finishSeen' = finishSeen, Terminal(e) => finishSeen, e.kind # "error",
           e.kind = "start" => p = "command-code"
    PROVE  ToldNext
<1>1. reading /\ provider = p /\ provider' = p /\ log' = log \o <<e>>
    BY OrderlyLine
<1>2. sent' = sent /\ reading' = reading
    BY DEF Skip
<1>3. reading = TRUE /\ (Terminal(e) => finishSeen = TRUE)
    BY <1>1 DEF ToldNow, Told
<1> QED
    BY <1>1, <1>2, <1>3, OneSaid, ToldSkip, Zenon DEF ToldNow, ToldNext

LEMMA EmitLine ==
    ASSUME ToldNow, orderly, NEW p, NEW e \in AllEvents, Line(p, <<e>>), NEW c \in Chunk, Emit(c),
           ~c.done, Suits(sent, Len(sent), c), finishSeen' \in BOOLEAN, finishSeen => finishSeen',
           c.finish # NoReason => Terminal(e) /\ (p = "command-code" => finishSeen'),
           e.kind = "start" => Naming(c)
    PROVE  ToldNext
<1>1. reading /\ provider = p /\ provider' = p /\ log' = log \o <<e>>
    BY OrderlyLine
<1>2. sent' = Append(sent, c) /\ reading' = reading
    BY DEF Emit
<1>3. reading = TRUE /\ (finishSeen = TRUE => finishSeen' = TRUE)
    BY <1>1 DEF ToldNow, Told
<1>4. Told(sent, log, p, finishSeen, TRUE)
    BY <1>1, <1>3 DEF ToldNow
<1> DEFINE says == <<e>>
<1>5. /\ says \in Seq(AllEvents)
      /\ c.finish # NoReason => TerminalIn(says) /\ (p = "command-code" => finishSeen' = TRUE)
      /\ StartIn(says) /\ p \in {"openai", "anthropic"} => Naming(c)
    BY OneSaid
<1> HIDE DEF says
<1>6. Told(Append(sent, c), log \o says, p, finishSeen', TRUE)
    BY <1>3, <1>4, <1>5, ToldSends
<1> QED
    BY <1>1, <1>2, <1>3, <1>6 DEF ToldNext, says

(* Payloads without a call, and those with one. *)
LEMMA BareChunks ==
    /\ \A c \in {TextChunk, ReasoningChunk, UsageChunk, ErrorChunk} :
          c \in Chunk /\ c.calls = <<>> /\ c.finish = NoReason /\ ~c.done /\ (c.choice \/ Plain(c))
    /\ \A c \in {UsageChunk, ErrorChunk} : Plain(c)
    /\ \A r \in Reasons : LET c == FinishChunk(r) IN
          c \in Chunk /\ c.calls = <<>> /\ c.finish = r /\ ~c.done /\ c.choice
<1>1. <<>> \in Seq(Part)
    OBVIOUS
<1> QED
    BY <1>1 DEF TextChunk, ReasoningChunk, UsageChunk, ErrorChunk, FinishChunk, EmptyChunk, Chunk,
                Plain, NoReason, Reasons

LEMMA SuitsBare ==
    ASSUME NEW s, NEW n, NEW c \in Chunk, c.calls = <<>>, ~c.done, c.choice \/ Plain(c),
           ~EndedBy(s, n) \/ Plain(c)
    PROVE  Suits(s, n, c)
<1>1. DOMAIN c.calls = {} /\ Len(c.calls) = 0
    OBVIOUS
<1> QED
    BY <1>1 DEF Suits

LEMMA ACallChunk ==
    ASSUME NEW i \in Nat, NEW id \in Calls, NEW args \in Arguments
    PROVE  LET c == CallChunk(i, id, args) IN
           /\ c \in Chunk /\ c.finish = NoReason /\ ~c.done /\ Naming(c)
           /\ \A s, n : ~EndedBy(s, n) => Suits(s, n, c)
<1> DEFINE q == [index |-> i, id |-> id, name |-> id, args |-> args]
           c == CallChunk(i, id, args)
<1>1. q \in Part /\ q.id = id /\ q.name = id
    BY DEF Part
<1> HIDE DEF q
<1>2. <<q>> \in Seq(Part) /\ DOMAIN <<q>> = {1} /\ <<q>>[1] = q /\ Len(<<q>>) = 1
    BY <1>1
<1>3. c \in Chunk /\ c.calls = <<q>> /\ c.finish = NoReason /\ ~c.done /\ c.choice
    BY <1>2 DEF CallChunk, EmptyChunk, Chunk, Reasons, NoReason, q
<1> HIDE DEF c
<1>4. id # NoId
    BY ChunkAssumption
<1>5. /\ Naming(c)
      /\ \A s, n : ~EndedBy(s, n) => Suits(s, n, c)
    BY <1>1, <1>2, <1>3, <1>4 DEF Naming, Suits
<1> QED
    BY <1>3, <1>5 DEF c

LEMMA AnArgsChunk ==
    ASSUME NEW i \in Nat, NEW args \in Arguments
    PROVE  LET c == ArgsChunk(i, args) IN
           /\ c \in Chunk /\ c.finish = NoReason /\ ~c.done
           /\ \A s, n : ~EndedBy(s, n) /\ NamedBy(s, n) => Suits(s, n, c)
<1> DEFINE q == [index |-> i, id |-> NoId, name |-> NoId, args |-> args]
           c == ArgsChunk(i, args)
<1>1. q \in Part /\ q.id = NoId /\ q.name = NoId
    BY DEF Part
<1> HIDE DEF q
<1>2. <<q>> \in Seq(Part) /\ DOMAIN <<q>> = {1} /\ <<q>>[1] = q /\ Len(<<q>>) = 1
    BY <1>1
<1>3. c \in Chunk /\ c.calls = <<q>> /\ c.finish = NoReason /\ ~c.done /\ c.choice
    BY <1>2 DEF ArgsChunk, EmptyChunk, Chunk, Reasons, NoReason, q
<1> HIDE DEF c
<1>4. \A s, n : ~EndedBy(s, n) /\ NamedBy(s, n) => Suits(s, n, c)
    BY <1>1, <1>2, <1>3 DEF Suits
<1> QED
    BY <1>3, <1>4 DEF c

(* Text and reasoning, of any provider. *)
LEMMA ContentLine ==
    ASSUME ToldNow, orderly, NEW p, UNCHANGED finishSeen,
           \/ Line(p, <<Event("text")>>) /\ Emit(TextChunk)
           \/ Line(p, <<Event("reasoning")>>) /\ Emit(ReasoningChunk)
    PROVE  ToldNext
<1>1. PICK kind \in {"text", "reasoning"}, c \in {TextChunk, ReasoningChunk} :
          Line(p, <<Event(kind)>>) /\ Emit(c)
    OBVIOUS
<1>2. Event(kind) \in AllEvents /\ Event(kind).kind = kind
    BY BareEvent
<1>3. ~TerminalIn(log)
    BY <1>1, <1>2, OrderlyLine
<1>4. c \in Chunk /\ c.calls = <<>> /\ c.finish = NoReason /\ ~c.done /\ (c.choice \/ Plain(c))
    BY BareChunks
<1>5. reading = TRUE /\ finishSeen' \in BOOLEAN
    BY <1>1 DEF Line, ToldNow, Told
<1>6. ~EndedBy(sent, Len(sent))
    BY <1>3, <1>5, NotEnded DEF ToldNow
<1>7. Suits(sent, Len(sent), c)
    BY <1>4, <1>6, SuitsBare
<1> QED
    BY <1>1, <1>2, <1>4, <1>5, <1>7, EmitLine

LEMMA NoiseLine ==
    ASSUME ToldNow, orderly, NEW p, NEW kind \in {"noise", "block"},
           Line(p, <<Event(kind)>>), Skip, UNCHANGED finishSeen
    PROVE  ToldNext
<1>1. Event(kind) \in AllEvents /\ Event(kind).kind = kind
    BY BareEvent
<1>2. ~Terminal(Event(kind))
    BY <1>1 DEF Terminal
<1> QED
    BY <1>1, <1>2, SkipLine

(* A call that goes out, as a whole or at its beginning. *)
LEMMA CallLine ==
    ASSUME ToldNow, orderly, NEW p, NEW e \in AllEvents, Line(p, <<e>>), UNCHANGED finishSeen,
           e.kind \in {"start", "call", "end"},
           NEW i \in Nat, NEW id \in Calls, NEW args \in Arguments, Emit(CallChunk(i, id, args))
    PROVE  ToldNext
<1> DEFINE c == CallChunk(i, id, args)
<1>1. ~TerminalIn(log)
    BY OrderlyLine
<1>2. reading = TRUE /\ finishSeen' \in BOOLEAN
    BY DEF Line, ToldNow, Told
<1>3. ~EndedBy(sent, Len(sent))
    BY <1>1, <1>2, NotEnded DEF ToldNow
<1>4. c \in Chunk /\ c.finish = NoReason /\ ~c.done /\ Naming(c) /\ Suits(sent, Len(sent), c)
    BY <1>3, ACallChunk
<1>5. Emit(c)
    OBVIOUS
<1> HIDE DEF c
<1> QED
    BY <1>2, <1>4, <1>5, EmitLine

LEMMA FinishLine ==
    ASSUME ToldNow, orderly, NEW p, NEW e \in AllEvents, Line(p, <<e>>), Terminal(e),
           NEW reason \in Reasons, Emit(FinishChunk(reason)),
           finishSeen' \in BOOLEAN, finishSeen => finishSeen',
           ~TerminalIn(log) \/ (p = "command-code" /\ ~finishSeen),
           p = "command-code" => finishSeen'
    PROVE  ToldNext
<1> DEFINE c == FinishChunk(reason)
<1>1. reading = TRUE /\ provider = p
    BY DEF Line, ToldNow, Told
<1>2. ~EndedBy(sent, Len(sent))
    BY <1>1, NotEnded DEF ToldNow, Told
<1>3. c \in Chunk /\ c.calls = <<>> /\ ~c.done /\ c.choice
    BY BareChunks
<1>4. Emit(c)
    OBVIOUS
<1> HIDE DEF c
<1>5. Suits(sent, Len(sent), c)
    BY <1>2, <1>3, SuitsBare
<1>6. e.kind # "start"
    BY DEF Terminal
<1> QED
    BY <1>3, <1>4, <1>5, <1>6, EmitLine

LEMMA OrderlyCcEvents ==
    ASSUME ToldNow, orderly, AssembledApart, SentApart,
           CcDelta \/ CcNoise \/ CcToolCall \/ CcInputStart \/ CcInputDelta \/ CcInputEnd
    PROVE  ToldNext
<1>0. UNCHANGED finishSeen
    BY DEF CcDelta, CcNoise, CcToolCall, CcInputStart, CcInputDelta, CcInputEnd, state
<1>1. CASE CcDelta
    <2>1. \/ Line("command-code", <<Event("text")>>) /\ Emit(TextChunk)
          \/ Line("command-code", <<Event("reasoning")>>) /\ Emit(ReasoningChunk)
        BY <1>1 DEF CcDelta, TextChunk, ReasoningChunk, EmptyChunk
    <2> QED
        BY <1>0, <2>1, ContentLine
<1>2. CASE CcNoise
    BY <1>0, <1>2, NoiseLine DEF CcNoise
<1>3. CASE CcToolCall
    <2>1. PICK id \in Calls \union {NoId} :
              /\ Line("command-code", <<CallEvent("call", id)>>)
              /\ Skip \/ Emit(CallChunk(toolIndex, id, IF id = NoId THEN <<>> ELSE <<id>>))
        BY <1>3 DEF CcToolCall
    <2> DEFINE e == CallEvent("call", id)
    <2>2. e \in AllEvents /\ e.kind = "call" /\ e.id = id
        BY EventOfACall
    <2>3. Line("command-code", <<e>>)
        BY <2>1
    <2> HIDE DEF e
    <2>4. id # NoId /\ ~Terminal(e)
        BY <2>2, <2>3, OrderlyLine DEF Expected, Terminal
    <2>5. CASE Skip
        BY <1>0, <2>2, <2>3, <2>4, <2>5, SkipLine
    <2>6. CASE Emit(CallChunk(toolIndex, id, <<id>>))
        <3>1. <<id>> \in Arguments /\ toolIndex \in Nat
            BY <2>4 DEF Arguments, SentApart
        <3> QED
            BY <1>0, <2>2, <2>3, <2>4, <2>6, <3>1, CallLine
    <2> QED
        BY <2>1, <2>4, <2>5, <2>6
<1>4. CASE CcInputStart \/ CcInputDelta
    <2>1. PICK kind \in {"start", "delta"}, id \in Calls :
              Line("command-code", <<CallEvent(kind, id)>>) /\ Skip
        BY <1>4 DEF CcInputStart, CcInputDelta
    <2> DEFINE e == CallEvent(kind, id)
    <2>2. e \in AllEvents /\ e.kind = kind
        BY EventOfACall
    <2>3. Line("command-code", <<e>>)
        BY <2>1
    <2> HIDE DEF e
    <2>4. ~Terminal(e)
        BY <2>2 DEF Terminal
    <2> QED
        BY <1>0, <2>1, <2>2, <2>3, <2>4, SkipLine
<1>5. CASE CcInputEnd
    <2>1. PICK id \in Calls \union {NoId}, snapshot \in BOOLEAN :
              /\ Line("command-code", <<[Event("end") EXCEPT !.id = id, !.input = snapshot]>>)
              /\ \/ Skip
                 \/ Emit(CallChunk(IF id \in DOMAIN toolParts THEN toolParts[id].index ELSE toolIndex,
                                   id,
                                   IF snapshot THEN (IF id = NoId THEN <<>> ELSE <<id>>)
                                   ELSE IF id \in DOMAIN toolParts THEN toolParts[id].args ELSE <<>>))
        BY <1>5 DEF CcInputEnd
    <2> DEFINE e == [Event("end") EXCEPT !.id = id, !.input = snapshot]
    <2>2. e \in AllEvents /\ e.kind = "end" /\ e.id = id
        BY EndOfACall
    <2>3. Line("command-code", <<e>>)
        BY <2>1
    <2> HIDE DEF e
    <2>4. Current(id) /\ ~Terminal(e)
        BY <2>2, <2>3, OrderlyLine DEF Expected, Terminal
    <2>5. id \in Calls
        <3>1. PICK k \in DOMAIN log : log[k].kind = "start" /\ log[k].id = id
            BY <2>4 DEF Current, StartPlaces
        <3>2. log[k] \in AllEvents
            BY DEF ToldNow, Told
        <3> QED
            BY <3>1, <3>2 DEF AllEvents
    <2>6. CASE Skip
        BY <1>0, <2>2, <2>3, <2>4, <2>6, SkipLine
    <2>7. CASE ~Skip
        <3> DEFINE i == IF id \in DOMAIN toolParts THEN toolParts[id].index ELSE toolIndex
                   args == IF snapshot THEN (IF id = NoId THEN <<>> ELSE <<id>>)
                           ELSE IF id \in DOMAIN toolParts THEN toolParts[id].args ELSE <<>>
        <3>1. Emit(CallChunk(i, id, args))
            BY <2>1, <2>7
        <3>2. i \in Nat /\ args \in Arguments
            <4>1. <<id>> \in Arguments /\ <<>> \in Arguments
                BY <2>5 DEF Arguments
            <4>2. id \in DOMAIN toolParts => toolParts[id].index \in Nat /\ toolParts[id].args \in Arguments
                BY DEF AssembledApart
            <4> QED
                BY <4>1, <4>2 DEF SentApart
        <3> HIDE DEF i, args
        <3> QED
            BY <1>0, <2>2, <2>3, <2>5, <3>1, <3>2, CallLine
    <2> QED
        BY <2>6, <2>7
<1> QED
    BY <1>1, <1>2, <1>3, <1>4, <1>5

LEMMA OrderlyCcEnds ==
    ASSUME ToldNow, orderly, CcFinish \/ CcFinishStep PROVE ToldNext
<1>1. PICK kind \in {"finish", "step"}, reason \in Reasons :
          /\ Line("command-code", <<[Event(kind) EXCEPT !.reason = reason]>>)
          /\ IF kind = "step" /\ reason = "tool_calls" THEN Skip /\ UNCHANGED finishSeen
             ELSE FinishOnce(reason)
    BY DEF CcFinish, CcFinishStep
<1> DEFINE e == [Event(kind) EXCEPT !.reason = reason]
<1>2. e \in AllEvents /\ e.kind = kind /\ e.reason = reason
    BY AReason
<1>3. Line("command-code", <<e>>)
    BY <1>1
<1> HIDE DEF e
<1>4. CASE kind = "step" /\ reason = "tool_calls"
    <2>1. ~Terminal(e)
        BY <1>2, <1>4 DEF Terminal
    <2> QED
        BY <1>1, <1>2, <1>3, <1>4, <2>1, SkipLine
<1>5. CASE ~(kind = "step" /\ reason = "tool_calls")
    <2>1. Terminal(e) /\ FinishOnce(reason)
        BY <1>1, <1>2, <1>5 DEF Terminal
    <2>2. CASE finishSeen
        <3>1. Skip /\ UNCHANGED finishSeen
            BY <2>1, <2>2 DEF FinishOnce
        <3> QED
            BY <1>2, <1>3, <2>2, <3>1, SkipLine
    <2>3. CASE ~finishSeen
        <3>1. Emit(FinishChunk(reason)) /\ finishSeen' = TRUE
            BY <2>1, <2>3 DEF FinishOnce
        <3> QED
            BY <1>2, <1>3, <2>1, <2>3, <3>1, FinishLine
    <2> QED
        BY <2>2, <2>3
<1> QED
    BY <1>4, <1>5

(* The reader's own [DONE] after the last payload. *)
LEMMA Stopping ==
    ASSUME NEW c \in Chunk, sent \in Seq(Chunk), EmitAndStop(c),
           NEW l, NEW p, NEW seen, NEW running, Told(Append(sent, c), l, p, seen, running)
    PROVE  Told(sent', l, p, seen, FALSE) /\ reading' = FALSE
<1>1. sent' = sent \o <<c, DoneMarker>> /\ reading' = FALSE /\ seen \in BOOLEAN
    BY DEF EmitAndStop, Told
<1>2. DoneMarker \in Chunk
    BY PlainChunks
<1> DEFINE s == Append(sent, c)
<1>3. sent' = Append(s, DoneMarker) /\ s # <<>> /\ Told(s, l, p, seen, running)
    BY <1>1, <1>2
<1> HIDE DEF s
<1>4. Told(Append(s, DoneMarker), l, p, seen, FALSE)
    BY <1>1, <1>3, ToldDone
<1> QED
    BY <1>1, <1>3, <1>4

LEMMA ErrorLine ==
    ASSUME ToldNow, orderly, CcError PROVE ToldNext
<1> DEFINE e == Event("error")
           says == <<e>>
<1>1. e \in AllEvents /\ e.kind = "error"
    BY BareEvent
<1>2. Line("command-code", says) /\ EmitAndStop(ErrorChunk) /\ UNCHANGED finishSeen
    BY DEF CcError, state
<1>3. says \in Seq(AllEvents) /\ ~StartIn(says)
    BY <1>1, OneSaid
<1>4. provider = "command-code" /\ provider' = provider /\ log' = log \o says /\ reading = TRUE
    BY <1>2 DEF Line, ToldNow, Told
<1> HIDE DEF e, says
<1>5. ErrorChunk \in Chunk /\ ErrorChunk.calls = <<>> /\ ErrorChunk.finish = NoReason
      /\ ~ErrorChunk.done /\ Plain(ErrorChunk)
    BY BareChunks
<1>6. Suits(sent, Len(sent), ErrorChunk)
    BY <1>5, SuitsBare
<1>7. Told(sent, log, provider, finishSeen, TRUE) /\ finishSeen \in BOOLEAN
    BY <1>4 DEF ToldNow, Told
<1>8. Told(Append(sent, ErrorChunk), log \o says, provider, finishSeen, TRUE)
    BY <1>3, <1>5, <1>6, <1>7, ToldSends
<1>9. sent \in Seq(Chunk)
    BY DEF ToldNow, Told, OrderlySent
<1>10. Told(sent', log \o says, provider, finishSeen, FALSE) /\ reading' = FALSE
    BY <1>2, <1>5, <1>8, <1>9, Stopping
<1> QED
    BY <1>2, <1>4, <1>10 DEF ToldNext

(* The payloads of an OpenAI-compatible upstream. *)
LEMMA PlacesFinite ==
    ASSUME log \in Seq(AllEvents)
    PROVE  /\ \A S \in SUBSET DOMAIN log : Cardinality(S) \in Nat
           /\ StartPlaces \subseteq DOMAIN log
           /\ \A k \in StartPlaces : log[k].id \in Calls
<1>1. IsFiniteSet(DOMAIN log)
    <2>1. DOMAIN log = 1..Len(log) /\ Len(log) \in Nat /\ 1 \in Int
        OBVIOUS
    <2>2. IsFiniteSet(1..Len(log))
        BY <2>1, FS_Interval
    <2> QED
        BY <2>1, <2>2
<1>2. \A S \in SUBSET DOMAIN log : Cardinality(S) \in Nat
    BY <1>1, FS_Subset, FS_CardinalityType
<1>3. \A k \in DOMAIN log : log[k] \in AllEvents
    OBVIOUS
<1> QED
    BY <1>2, <1>3 DEF StartPlaces, AllEvents

LEMMA StartNamed ==
    ASSUME ToldNow, provider \in {"openai", "anthropic"}, StartPlaces # {}
    PROVE  NamedBy(sent, Len(sent))
    BY DEF ToldNow, Told, StartPlaces, StartIn

(* A piece of a call's arguments. *)
LEMMA DeltaLine ==
    ASSUME ToldNow, orderly, NEW p \in {"openai", "anthropic"}, NEW id \in Calls,
           Line(p, <<CallEvent("delta", id)>>),
           NEW i \in Nat, Emit(ArgsChunk(i, <<id>>)), StartPlaces # {}, UNCHANGED finishSeen
    PROVE  ToldNext
<1> DEFINE e == CallEvent("delta", id)
           c == ArgsChunk(i, <<id>>)
<1>1. e \in AllEvents /\ e.kind = "delta"
    BY EventOfACall
<1>2. Line(p, <<e>>) /\ Emit(c)
    OBVIOUS
<1> HIDE DEF e
<1>3. ~TerminalIn(log)
    BY <1>1, <1>2, OrderlyLine
<1>4. reading = TRUE /\ provider = p
    BY <1>2 DEF Line, ToldNow, Told
<1>5. ~EndedBy(sent, Len(sent)) /\ finishSeen' \in BOOLEAN
    BY <1>3, <1>4, NotEnded DEF ToldNow, Told
<1>6. NamedBy(sent, Len(sent))
    BY <1>4, StartNamed
<1>7. <<id>> \in Arguments
    BY DEF Arguments
<1>8. c \in Chunk /\ c.finish = NoReason /\ ~c.done /\ Suits(sent, Len(sent), c)
    BY <1>5, <1>6, <1>7, AnArgsChunk
<1> HIDE DEF c
<1> QED
    BY <1>1, <1>2, <1>5, <1>8, EmitLine

LEMMA OrderlyOpenAi ==
    ASSUME ToldNow, orderly, OpenAiPayload \/ OpenAiNoise PROVE ToldNext
<1>1. UNCHANGED finishSeen /\ finishSeen \in BOOLEAN
    BY DEF OpenAiPayload, OpenAiNoise, state, ToldNow, Told
<1>2. CASE OpenAiNoise
    BY <1>1, <1>2, NoiseLine DEF OpenAiNoise
<1>3. CASE OpenAiPayload
    <2>1. PICK f \in OpenAiFrames : Line("openai", <<f.says>>) /\ Emit(f.chunk)
        BY <1>3 DEF OpenAiPayload
    <2>2. CASE f \in {[says |-> Event("text"), chunk |-> TextChunk],
                      [says |-> Event("reasoning"), chunk |-> ReasoningChunk]}
        BY <1>1, <2>1, <2>2, ContentLine
    <2>3. CASE f \in {[says |-> Event("usage"), chunk |-> UsageChunk],
                      [says |-> Event("error"), chunk |-> ErrorChunk]}
        <3>1. PICK kind \in {"usage", "error"}, c \in {UsageChunk, ErrorChunk} :
                  f.says = Event(kind) /\ f.chunk = c
            BY <2>3
        <3>2. Event(kind) \in AllEvents /\ Event(kind).kind = kind
            BY BareEvent
        <3>3. c \in Chunk /\ c.calls = <<>> /\ c.finish = NoReason /\ ~c.done /\ Plain(c)
            BY BareChunks
        <3>4. Suits(sent, Len(sent), c)
            BY <3>3, SuitsBare
        <3> QED
            BY <1>1, <2>1, <3>1, <3>2, <3>3, <3>4, EmitLine
    <2>4. CASE \E id \in Calls :
                  f = [says |-> CallEvent("start", id),
                       chunk |-> CallChunk(Cardinality(StartPlaces), id, <<>>)]
        <3>1. PICK id \in Calls : /\ f.says = CallEvent("start", id)
                                  /\ f.chunk = CallChunk(Cardinality(StartPlaces), id, <<>>)
            BY <2>4
        <3>2. CallEvent("start", id) \in AllEvents /\ CallEvent("start", id).kind = "start"
            BY EventOfACall
        <3>3. Cardinality(StartPlaces) \in Nat /\ <<>> \in Arguments
            BY PlacesFinite DEF Arguments, ToldNow, Told
        <3> QED
            BY <1>1, <2>1, <3>1, <3>2, <3>3, CallLine
    <2>5. CASE \E k \in StartPlaces :
                  f = [says |-> CallEvent("delta", log[k].id),
                       chunk |-> ArgsChunk(Numbered(k), <<log[k].id>>)]
        <3>1. PICK k \in StartPlaces : /\ f.says = CallEvent("delta", log[k].id)
                                       /\ f.chunk = ArgsChunk(Numbered(k), <<log[k].id>>)
            BY <2>5
        <3>2. log[k].id \in Calls
            BY PlacesFinite DEF ToldNow, Told
        <3>3. Numbered(k) \in Nat
            <4>1. {j \in StartPlaces : j < k} \subseteq DOMAIN log
                BY PlacesFinite DEF ToldNow, Told
            <4> QED
                BY <4>1, PlacesFinite DEF Numbered, ToldNow, Told
        <3> QED
            BY <1>1, <2>1, <3>1, <3>2, <3>3, DeltaLine
    <2>6. CASE \E r \in Reasons :
                  f = [says |-> [Event("finish") EXCEPT !.reason = r], chunk |-> FinishChunk(r)]
        <3>1. PICK r \in Reasons : /\ f.says = [Event("finish") EXCEPT !.reason = r]
                                   /\ f.chunk = FinishChunk(r)
            BY <2>6
        <3> DEFINE e == [Event("finish") EXCEPT !.reason = r]
        <3>2. e \in AllEvents /\ e.kind = "finish"
            BY AReason
        <3>3. Line("openai", <<e>>)
            BY <2>1, <3>1
        <3> HIDE DEF e
        <3>4. ~TerminalIn(log) /\ Terminal(e)
            BY <3>2, <3>3, OrderlyLine DEF Terminal
        <3> QED
            BY <1>1, <2>1, <3>1, <3>2, <3>3, <3>4, FinishLine
    <2> QED
        BY <2>1, <2>2, <2>3, <2>4, <2>5, <2>6 DEF OpenAiFrames
<1> QED
    BY <1>2, <1>3

LEMMA OrderlyOpenAiDone ==
    ASSUME ToldNow, orderly, OpenAiDone PROVE ToldNext
<1>1. Line("openai", <<>>) /\ Ended /\ finishSeen' = TRUE /\ EmitAndStop(DoneMarker)
    BY DEF OpenAiDone
<1>2. log \in Seq(AllEvents) /\ sent \in Seq(Chunk) /\ DoneMarker \in Chunk
    BY PlainChunks DEF ToldNow, Told, OrderlySent
<1>3. provider' = provider /\ log' = log
    <2>1. log \o <<>> = log
        BY <1>2
    <2> QED
        BY <1>1, <2>1 DEF Line
<1>4. sent # <<>> /\ finishSeen \in BOOLEAN
    BY <1>1 DEF Ended, TerminalSaid, ErrorSaid, Said, TerminalIn, ErrorIn, ToldNow, Told
<1>5. Told(Append(sent, DoneMarker), log, provider, TRUE, FALSE)
    BY <1>4, ToldDone DEF ToldNow
<1>6. Told(sent', log, provider, TRUE, FALSE) /\ reading' = FALSE
    BY <1>1, <1>2, <1>5, Stopping
<1> QED
    BY <1>1, <1>3, <1>6 DEF ToldNext

(* The blocks of an Anthropic upstream. *)
LEMMA OrderlyAnthropic ==
    ASSUME ToldNow, orderly, AnToolStart \/ AnDelta \/ AnNoise \/ AnMessageDelta PROVE ToldNext
<1>1. UNCHANGED finishSeen /\ finishSeen \in BOOLEAN
    BY DEF AnToolStart, AnDelta, AnNoise, AnMessageDelta, state, ToldNow, Told
<1>2. \A id : BlockIndex(id) \in Nat
    <2> TAKE id
    <2> DEFINE S == {j \in DOMAIN log : /\ log[j].kind \in {"start", "block"}
                                        /\ \A k \in 1..j : ~(log[k].kind = "start" /\ log[k].id = id)}
    <2>1. S \subseteq DOMAIN log
        OBVIOUS
    <2>2. BlockIndex(id) = Cardinality(S)
        BY DEF BlockIndex
    <2> HIDE DEF S
    <2> QED
        BY <2>1, <2>2, PlacesFinite DEF ToldNow, Told
<1>3. CASE AnToolStart
    <2>1. PICK id \in Calls : /\ Line("anthropic", <<CallEvent("start", id)>>)
                              /\ Emit(CallChunk(BlockIndex(id), id, <<>>))
        BY <1>3 DEF AnToolStart
    <2>2. CallEvent("start", id) \in AllEvents /\ CallEvent("start", id).kind = "start"
        BY EventOfACall
    <2>3. <<>> \in Arguments
        BY DEF Arguments
    <2> QED
        BY <1>1, <1>2, <2>1, <2>2, <2>3, CallLine
<1>4. CASE AnDelta
    <2>1. CASE \E id \in {x \in Calls : Named("start", x)} :
                   /\ Line("anthropic", <<CallEvent("delta", id)>>)
                   /\ Emit(ArgsChunk(BlockIndex(id), <<id>>))
        <3>1. PICK id \in Calls : /\ Named("start", id)
                                  /\ Line("anthropic", <<CallEvent("delta", id)>>)
                                  /\ Emit(ArgsChunk(BlockIndex(id), <<id>>))
            BY <2>1
        <3>2. StartPlaces # {}
            BY <3>1 DEF Named, Said, StartPlaces
        <3> QED
            BY <1>1, <1>2, <3>1, <3>2, DeltaLine
    <2> QED
        BY <1>1, <1>4, <2>1, ContentLine DEF AnDelta
<1>5. CASE AnNoise
    BY <1>1, <1>5, NoiseLine DEF AnNoise
<1>6. CASE AnMessageDelta
    <2>1. PICK r \in Reasons : /\ Line("anthropic", <<[Event("finish") EXCEPT !.reason = r]>>)
                               /\ Emit(FinishChunk(r))
        BY <1>6 DEF AnMessageDelta
    <2> DEFINE e == [Event("finish") EXCEPT !.reason = r]
    <2>2. e \in AllEvents /\ e.kind = "finish"
        BY AReason
    <2>3. Line("anthropic", <<e>>)
        BY <2>1
    <2> HIDE DEF e
    <2>4. ~TerminalIn(log) /\ Terminal(e)
        BY <2>2, <2>3, OrderlyLine DEF Terminal
    <2> QED
        BY <1>1, <2>1, <2>2, <2>3, <2>4, FinishLine
<1> QED
    BY <1>3, <1>4, <1>5, <1>6

LEMMA OrderlyStop ==
    ASSUME ToldNow, orderly, AnMessageStop PROVE ToldNext
<1>1. Line("anthropic", <<>>) /\ TerminalSaid /\ UNCHANGED finishSeen /\ EmitAndStop(DoneMarker)
    BY DEF AnMessageStop, state
<1>2. log \in Seq(AllEvents) /\ sent \in Seq(Chunk) /\ DoneMarker \in Chunk
    BY PlainChunks DEF ToldNow, Told, OrderlySent
<1>3. provider' = provider /\ log' = log
    <2>1. log \o <<>> = log
        BY <1>2
    <2> QED
        BY <1>1, <2>1 DEF Line
<1>4. sent # <<>> /\ finishSeen \in BOOLEAN
    BY <1>1 DEF TerminalSaid, Said, TerminalIn, ToldNow, Told
<1>5. Told(Append(sent, DoneMarker), log, provider, finishSeen, FALSE)
    BY <1>4, ToldDone DEF ToldNow
<1>6. Told(sent', log, provider, finishSeen, FALSE) /\ reading' = FALSE
    BY <1>1, <1>2, <1>5, Stopping
<1> QED
    BY <1>1, <1>3, <1>6 DEF ToldNext

LEMMA OrderlyEof ==
    ASSUME ToldNow, orderly, Eof PROVE ToldNext
<1>1. Ended /\ UNCHANGED <<provider, finishSeen, log>> /\ reading' = FALSE
      /\ (sent' = Append(sent, DoneMarker) \/ sent' = sent)
    BY DEF Eof, state
<1>2. sent # <<>> /\ finishSeen \in BOOLEAN
    BY <1>1 DEF Ended, TerminalSaid, ErrorSaid, Said, TerminalIn, ErrorIn, ToldNow, Told
<1>3. Told(Append(sent, DoneMarker), log, provider, finishSeen, FALSE)
    BY <1>2, ToldDone DEF ToldNow
<1>4. Told(sent, log, provider, finishSeen, FALSE)
    BY DEF ToldNow, Told
<1> QED
    BY <1>1, <1>3, <1>4 DEF ToldNext

(* The lines of a Gemini upstream. *)
LEMMA FewCalls ==
    ASSUME NEW ids \in SomeCalls
    PROVE  ids \in Seq(Calls) /\ Len(ids) \in Nat /\ DOMAIN ids = 1..Len(ids) /\ Len(ids) <= 2
<1>1. CASE ids = <<>>
    BY <1>1
<1>2. CASE \E id \in Calls : ids = <<id>>
    BY <1>2
<1>3. CASE \E p \in Calls \X Calls : ids = <<p[1], p[2]>>
    <2>1. PICK x \in Calls, y \in Calls : ids = <<x, y>>
        BY <1>3
    <2> QED
        BY <2>1
<1> QED
    BY <1>1, <1>2, <1>3 DEF SomeCalls

LEMMA GeminiCalls ==
    ASSUME NEW text \in BOOLEAN, NEW ids \in SomeCalls, NEW reason \in Reasons \union {NoReason}
    PROVE  LET c == GeminiChunk(text, ids, reason) IN
           /\ c \in Chunk /\ c.finish = reason /\ ~c.done
           /\ \A s, n : ~EndedBy(s, n) => Suits(s, n, c)
<1> DEFINE calls == [k \in DOMAIN ids |->
                       [index |-> 0, id |-> ids[k], name |-> ids[k], args |-> <<ids[k]>>]]
           c == GeminiChunk(text, ids, reason)
<1>1. ids \in Seq(Calls) /\ Len(ids) \in Nat /\ DOMAIN ids = 1..Len(ids) /\ Len(ids) <= 2
    BY FewCalls
<1>2. \A k \in DOMAIN ids : ids[k] \in Calls /\ <<ids[k]>> \in Seq(Calls)
    BY <1>1
<1>3. \A k \in DOMAIN ids : calls[k] \in Part /\ calls[k].id = ids[k] /\ calls[k].name = ids[k]
    BY <1>2 DEF Part, Arguments
<1>4. DOMAIN calls = 1..Len(ids)
    BY <1>1
<1> HIDE DEF calls
<1>5. calls \in Seq(Part) /\ Len(calls) = Len(ids)
    <2>1. calls \in [1..Len(ids) -> Part]
        <3>1. calls = [k \in DOMAIN calls |-> calls[k]]
            BY DEF calls
        <3> QED
            BY <1>1, <1>3, <1>4, <3>1
    <2> QED
        BY <1>1, <2>1
<1>6. c \in Chunk /\ c.calls = calls /\ c.finish = reason /\ ~c.done /\ c.choice
    BY <1>5 DEF GeminiChunk, EmptyChunk, Chunk, Reasons, NoReason, calls
<1> HIDE DEF c
<1>7. NoId \notin Calls
    BY ChunkAssumption
<1>8. \A s, n : ~EndedBy(s, n) => Suits(s, n, c)
    BY <1>1, <1>2, <1>3, <1>4, <1>5, <1>6, <1>7 DEF Suits
<1> QED
    BY <1>6, <1>8 DEF c

(* What a line with parts says, and the payload for it. *)
GeminiMakes(says, c, reason) ==
    /\ says \in Seq(AllEvents) /\ says # <<>> /\ Line("gemini", says)
    /\ ~StartIn(says) /\ (reason # NoReason => TerminalIn(says))
    /\ \A i \in DOMAIN says : says[i].kind \in {"text", "call", "finish"}
    /\ c \in Chunk /\ c.finish = reason /\ ~c.done
    /\ \A s, n : ~EndedBy(s, n) => Suits(s, n, c)
    /\ Emit(c) \/ EmitAndStop(c)

LEMMA GeminiLines ==
    ASSUME GeminiParts PROVE \E says, c, reason : GeminiMakes(says, c, reason)
<1>1. PICK text \in BOOLEAN, ids \in SomeCalls, reason \in Reasons \union {NoReason} :
          LET says == (IF text THEN <<Event("text")>> ELSE <<>>)
                        \o [k \in DOMAIN ids |-> CallEvent("call", ids[k])]
                        \o (IF reason = NoReason THEN <<>>
                            ELSE <<[Event("finish") EXCEPT !.reason = reason]>>)
              chunk == GeminiChunk(text, ids, reason)
          IN  /\ says # <<>>
              /\ Line("gemini", says)
              /\ IF reason = NoReason THEN Emit(chunk) ELSE EmitAndStop(chunk)
    BY Zenon DEF GeminiParts
<1> DEFINE first == IF text THEN <<Event("text")>> ELSE <<>>
           calls == [k \in DOMAIN ids |-> CallEvent("call", ids[k])]
           last  == IF reason = NoReason THEN <<>>
                    ELSE <<[Event("finish") EXCEPT !.reason = reason]>>
           says  == (first \o calls) \o last
           c     == GeminiChunk(text, ids, reason)
<1>2. says # <<>> /\ Line("gemini", says)
      /\ IF reason = NoReason THEN Emit(c) ELSE EmitAndStop(c)
    BY <1>1
<1>3. first \in Seq(AllEvents) /\ \A i \in DOMAIN first : first[i].kind = "text"
    <2>1. Event("text") \in AllEvents /\ Event("text").kind = "text"
        BY BareEvent
    <2> HIDE DEF AllEvents
    <2> QED
        BY <2>1
<1>4. calls \in Seq(AllEvents) /\ \A i \in DOMAIN calls : calls[i].kind = "call"
    <2>1. ids \in Seq(Calls) /\ Len(ids) \in Nat /\ DOMAIN ids = 1..Len(ids)
        BY FewCalls
    <2>2. \A k \in DOMAIN ids : CallEvent("call", ids[k]) \in AllEvents
                                /\ CallEvent("call", ids[k]).kind = "call"
        BY <2>1, EventOfACall
    <2>3. calls \in [1..Len(ids) -> AllEvents]
        BY <2>1, <2>2
    <2> QED
        BY <2>1, <2>2, <2>3
<1>5. last \in Seq(AllEvents) /\ (\A i \in DOMAIN last : last[i].kind = "finish")
      /\ (reason # NoReason => TerminalIn(last))
    <2>1. CASE reason = NoReason
        BY <2>1
    <2>2. CASE reason # NoReason
        <3> DEFINE e == [Event("finish") EXCEPT !.reason = reason]
        <3>1. e \in AllEvents /\ e.kind = "finish"
            BY <2>2, AReason
        <3> HIDE DEF e
        <3>2. <<e>> \in Seq(AllEvents) /\ TerminalIn(<<e>>) /\ DOMAIN <<e>> = {1} /\ <<e>>[1] = e
            BY <3>1, OneSaid DEF Terminal
        <3>3. last = <<e>>
            BY <2>2 DEF e
        <3> HIDE DEF last
        <3> QED
            BY <3>1, <3>2, <3>3
    <2> QED
        BY <2>1, <2>2
<1>6. c \in Chunk /\ c.finish = reason /\ ~c.done
      /\ \A s, n : ~EndedBy(s, n) => Suits(s, n, c)
    BY GeminiCalls
<1> HIDE DEF first, calls, last, c
<1>7. first \o calls \in Seq(AllEvents) /\ ~StartIn(first \o calls)
    <2>1. ~StartIn(first) /\ ~StartIn(calls)
        BY <1>3, <1>4 DEF StartIn
    <2> QED
        BY <1>3, <1>4, <2>1, Joined
<1>8. says \in Seq(AllEvents) /\ ~StartIn(says) /\ (reason # NoReason => TerminalIn(says))
    <2>1. ~StartIn(last)
        BY <1>5 DEF StartIn
    <2> QED
        BY <1>5, <1>7, <2>1, Joined
<1>9. \A i \in DOMAIN says : says[i].kind \in {"text", "call", "finish"}
    <2> DEFINE fc == first \o calls
    <2>1. \A i \in DOMAIN fc : fc[i].kind \in {"text", "call", "finish"}
        BY <1>3, <1>4
    <2>2. fc \in Seq(AllEvents)
        BY <1>7
    <2> HIDE DEF fc
    <2>3. \A i \in DOMAIN (fc \o last) : (fc \o last)[i].kind \in {"text", "call", "finish"}
        BY <1>5, <2>1, <2>2
    <2> QED
        BY <2>3 DEF fc
<1> HIDE DEF says
<1>10. GeminiMakes(says, c, reason)
    BY <1>2, <1>6, <1>8, <1>9 DEF GeminiMakes
<1> QED
    BY <1>10

LEMMA OrderlyGemini ==
    ASSUME ToldNow, orderly, GeminiParts \/ GeminiNoise PROVE ToldNext
<1>1. UNCHANGED finishSeen
    BY DEF GeminiParts, GeminiNoise, state
<1>2. CASE GeminiNoise
    BY <1>1, <1>2, NoiseLine DEF GeminiNoise
<1>3. CASE GeminiParts
    <2>1. PICK says, c, reason : GeminiMakes(says, c, reason)
        BY <1>3, GeminiLines
    <2>2. /\ says \in Seq(AllEvents) /\ says # <<>> /\ Line("gemini", says)
          /\ ~StartIn(says) /\ (reason # NoReason => TerminalIn(says))
          /\ \A i \in DOMAIN says : says[i].kind \in {"text", "call", "finish"}
          /\ Emit(c) \/ EmitAndStop(c)
        BY <2>1 DEF GeminiMakes
    <2>3. c \in Chunk /\ c.finish = reason /\ ~c.done
          /\ \A s, n : ~EndedBy(s, n) => Suits(s, n, c)
        BY <2>1 DEF GeminiMakes
    <2>4. reading = TRUE /\ provider = "gemini" /\ provider' = provider /\ log' = log \o says
        BY <2>2 DEF Line, ToldNow, Told
    <2>5. ~TerminalIn(log)
        <3>1. 1 \in DOMAIN says
            BY <2>2
        <3>2. Expected(says[1]) /\ says[1].kind \in {"text", "call", "finish"}
            BY <2>2, <3>1 DEF Line
        <3>3. ~TerminalSaid
            BY <2>4, <3>2 DEF Expected
        <3> QED
            BY <3>3 DEF TerminalSaid, Said, TerminalIn
    <2>6. Told(sent, log, provider, finishSeen, TRUE) /\ sent \in Seq(Chunk) /\ finishSeen \in BOOLEAN
        BY <2>4 DEF ToldNow, Told, OrderlySent
    <2>7. Suits(sent, Len(sent), c)
        BY <2>3, <2>5, <2>6, NotEnded
    <2>8. Told(Append(sent, c), log \o says, provider, finishSeen, TRUE)
        BY <2>2, <2>3, <2>4, <2>6, <2>7, ToldSends
    <2>9. CASE Emit(c)
        <3>1. sent' = Append(sent, c) /\ reading' = TRUE
            BY <2>4, <2>9 DEF Emit
        <3> QED
            BY <1>1, <2>4, <2>8, <3>1 DEF ToldNext
    <2>10. CASE EmitAndStop(c)
        <3>1. Told(sent', log \o says, provider, finishSeen, FALSE) /\ reading' = FALSE
            BY <2>3, <2>6, <2>8, <2>10, Stopping
        <3> QED
            BY <1>1, <2>4, <3>1 DEF ToldNext
    <2> QED
        BY <2>2, <2>9, <2>10
<1> QED
    BY <1>2, <1>3

(* How an orderly stream's payloads follow from its lines, for all four    *)
(* providers.                                                              *)
ToldInv == orderly => ToldNow

LEMMA ToldInitially == Init => ToldInv
<1> SUFFICES ASSUME Init PROVE ToldNow
    BY DEF ToldInv
<1>1. finishSeen = FALSE /\ reading = TRUE /\ log = <<>> /\ sent = <<>>
    BY DEF Init, TranslatorInit
<1>2. DOMAIN <<>> = {} /\ <<>> \in Seq(Chunk) /\ <<>> \in Seq(AllEvents)
    OBVIOUS
<1> QED
    BY <1>1, <1>2 DEF ToldNow, Told, OrderlySent, TerminalIn, ErrorIn, StartIn

LEMMA StreamStays == [Next]_vars => orderly' = orderly /\ frontend' = frontend
<1> SUFFICES ASSUME [Next]_vars PROVE orderly' = orderly /\ frontend' = frontend
    OBVIOUS
<1>1. CASE UNCHANGED vars
    BY <1>1 DEF vars, translatorVars, handlerVars
<1>2. CASE Translate
    <2>1. TranslatorNext /\ frontend' = frontend
        BY <1>2 DEF Translate, handlerVars
    <2>2. ASSUME NEW p, NEW says, Line(p, says) PROVE orderly' = orderly
        BY <2>2 DEF Line
    <2>3. CASE CommandCodeLine
        BY <2>1, <2>2, <2>3 DEF CommandCodeLine, CcDelta, CcNoise, CcToolCall, CcInputStart, CcInputDelta,
                    CcInputEnd, CcFinish, CcFinishStep, CcError
    <2>4. CASE OpenAiLine
        BY <2>1, <2>2, <2>4 DEF OpenAiLine, OpenAiPayload, OpenAiNoise, OpenAiDone
    <2>5. CASE AnthropicLine
        BY <2>1, <2>2, <2>5 DEF AnthropicLine, AnToolStart, AnDelta, AnNoise, AnMessageDelta, AnMessageStop
    <2>6. CASE GeminiLine
        BY <2>1, <2>2, <2>6 DEF GeminiLine, GeminiParts, GeminiNoise
    <2>7. CASE Eof
        BY <2>1, <2>7 DEF Eof
    <2> QED
        BY <2>1, <2>3, <2>4, <2>5, <2>6, <2>7 DEF TranslatorNext
<1>3. CASE Render \/ ClientReads
    BY <1>3 DEF Render, ClientReads, translatorVars
<1> QED
    BY <1>1, <1>2, <1>3 DEF Next

LEMMA ToldInductive == CommandCodeInv /\ ToldInv /\ [Next]_vars => ToldInv'
<1> SUFFICES ASSUME CommandCodeInv, ToldInv, [Next]_vars, orderly PROVE ToldNext
    BY StreamStays DEF ToldInv, ToldNow, ToldNext
<1>1. ToldNow
    BY DEF ToldInv
<1>2. CASE UNCHANGED translatorVars
    BY <1>1, <1>2 DEF translatorVars, ToldNow, ToldNext
<1>3. CASE TranslatorNext
    <2>1. CASE CommandCodeLine
        <3>1. provider = "command-code"
            BY <2>1 DEF CommandCodeLine, CcDelta, CcNoise, CcToolCall, CcInputStart, CcInputDelta,
                        CcInputEnd, CcFinish, CcFinishStep, CcError, Line
        <3>2. AssembledApart /\ SentApart
            BY <3>1 DEF CommandCodeInv
        <3> QED
            BY <1>1, <2>1, <3>2, OrderlyCcEvents, OrderlyCcEnds, ErrorLine DEF CommandCodeLine
    <2>2. CASE OpenAiLine
        BY <1>1, <2>2, OrderlyOpenAi, OrderlyOpenAiDone DEF OpenAiLine
    <2>3. CASE AnthropicLine
        BY <1>1, <2>3, OrderlyAnthropic, OrderlyStop DEF AnthropicLine
    <2>4. CASE GeminiLine
        BY <1>1, <2>4, OrderlyGemini DEF GeminiLine
    <2>5. CASE Eof
        BY <1>1, <2>5, OrderlyEof
    <2> QED
        BY <1>3, <2>1, <2>2, <2>3, <2>4, <2>5 DEF TranslatorNext
<1> QED
    BY <1>2, <1>3 DEF Next, vars, Translate, Render, ClientReads

(***************************************************************************)
(* A client reading frames                                                 *)
(***************************************************************************)

Kinds   == {"none", "message", "text", "thinking", "tool_use", "end_turn", "function_call",
            "response_id", "chunk_id"}
Framing == [f : {"begin", "open", "delta", "close", "loose", "stop", "end"}, index : Int,
            kind : Kinds, id : Calls \union {NoId}, args : Arguments]
Clients == [phase : {"none", "begun", "ended"}, open : Nat \union {NoIndex},
            next : Nat, at : Nat \union {NoIndex}]

(* The step of ChatStream's client, and when FrameStream allows it.        *)
After(c, f) ==
    [phase |-> IF f.f = "begin" THEN "begun" ELSE IF f.f = "end" THEN "ended" ELSE c.phase,
     open  |-> IF f.f = "open" THEN f.index ELSE IF f.f = "close" THEN NoIndex ELSE c.open,
     next  |-> IF f.f = "open" THEN f.index + 1 ELSE c.next,
     at    |-> IF f.f \in {"open", "delta", "close"} THEN f.index ELSE c.at]
Allowed(c, f) ==
    /\ f.f = "begin" <=> c.phase = "none"
    /\ f.f # "begin" => c.phase = "begun"
    /\ f.f = "open" => c.open = NoIndex /\ f.index = c.next
    /\ f.f \in {"delta", "close"} => c.open # NoIndex /\ f.index = c.open
    /\ f.f = "end" => c.open = NoIndex

(* A client c, after n of the frames fs, may read the others and is then d.*)
Reading(fs, n, c, d) ==
    \E run \in [n..Len(fs) -> Clients] :
        /\ run[n] = c /\ run[Len(fs)] = d
        /\ \A k \in n..(Len(fs) - 1) : Allowed(run[k], fs[k + 1]) /\ run[k + 1] = After(run[k], fs[k + 1])

LEMMA AfterType ==
    ASSUME NEW c \in Clients, NEW f \in Framing, Allowed(c, f) PROVE After(c, f) \in Clients
    BY DEF Clients, Framing, After, Allowed, NoIndex

LEMMA ReadingNothing ==
    ASSUME NEW fs \in Seq(Framing), NEW c \in Clients PROVE Reading(fs, Len(fs), c, c)
<1> DEFINE n == Len(fs)
           run == [k \in n..n |-> c]
<1>1. n \in Nat
    OBVIOUS
<1>2. run \in [n..n -> Clients] /\ run[n] = c /\ n..(n - 1) = {}
    BY <1>1
<1> QED
    BY <1>2 DEF Reading

LEMMA ReadingOneMore ==
    ASSUME NEW fs \in Seq(Framing), NEW c, NEW d \in Clients, Reading(fs, 0, c, d),
           NEW f \in Framing, Allowed(d, f)
    PROVE  Reading(Append(fs, f), 0, c, After(d, f)) /\ After(d, f) \in Clients
<1> DEFINE t == Append(fs, f)
           n == Len(fs)
           e == After(d, f)
<1>1. /\ n \in Nat /\ Len(t) = n + 1 /\ t[n + 1] = f
      /\ \A k \in 1..n : t[k] = fs[k]
    OBVIOUS
<1>2. e \in Clients
    BY AfterType
<1>3. PICK run \in [0..n -> Clients] :
        /\ run[0] = c /\ run[n] = d
        /\ \A k \in 0..(n - 1) : Allowed(run[k], fs[k + 1]) /\ run[k + 1] = After(run[k], fs[k + 1])
    BY DEF Reading
<1> DEFINE more == [k \in 0..(n + 1) |-> IF k = n + 1 THEN e ELSE run[k]]
<1>4. more \in [0..(n + 1) -> Clients] /\ more[0] = c /\ more[n + 1] = e
      /\ \A k \in 0..n : more[k] = run[k]
    BY <1>1, <1>2, <1>3
<1> HIDE DEF t, more
<1>5. ASSUME NEW k \in 0..n
      PROVE  Allowed(more[k], t[k + 1]) /\ more[k + 1] = After(more[k], t[k + 1])
    <2>1. CASE k = n
        <3>1. more[k] = d /\ more[k + 1] = After(d, f) /\ t[k + 1] = f
            BY <1>1, <1>3, <1>4, <2>1
        <3> QED
            BY <3>1
    <2>2. CASE k # n
        <3>1. k \in 0..(n - 1) /\ k + 1 \in 1..n /\ k + 1 \in 0..n
            BY <1>1, <2>2
        <3>2. more[k] = run[k] /\ more[k + 1] = run[k + 1] /\ t[k + 1] = fs[k + 1]
            BY <1>1, <1>4, <3>1
        <3>3. Allowed(run[k], fs[k + 1]) /\ run[k + 1] = After(run[k], fs[k + 1])
            BY <1>3, <3>1
        <3> QED
            BY <3>2, <3>3
    <2> QED
        BY <2>1, <2>2
<1>6. Len(t) - 1 = n
    BY <1>1
<1>7. Reading(t, 0, c, e)
    BY <1>1, <1>4, <1>5, <1>6 DEF Reading
<1> QED
    BY <1>2, <1>7 DEF t

(* The frames of one payload after those read.                             *)
LEMMA ReadingJoined ==
    ASSUME NEW fs \in Seq(Framing), NEW out \in Seq(Framing), NEW c, NEW d, Reading(out, 0, c, d)
    PROVE  Reading(fs \o out, Len(fs), c, d)
<1> DEFINE t == fs \o out
           n == Len(fs)
           m == Len(out)
<1>1. /\ n \in Nat /\ m \in Nat /\ Len(t) = n + m
      /\ \A k \in 1..m : t[n + k] = out[k]
    OBVIOUS
<1>2. PICK run \in [0..m -> Clients] :
        /\ run[0] = c /\ run[m] = d
        /\ \A k \in 0..(m - 1) : Allowed(run[k], out[k + 1]) /\ run[k + 1] = After(run[k], out[k + 1])
    BY DEF Reading
<1> DEFINE late == [k \in n..(n + m) |-> run[k - n]]
<1>3. ASSUME NEW k \in n..(n + m) PROVE k - n \in 0..m /\ late[k] = run[k - n]
    BY <1>1
<1>4. late \in [n..(n + m) -> Clients]
    BY <1>2, <1>3
<1>5. late[n] = c /\ late[n + m] = d
    <2>1. n \in n..(n + m) /\ n + m \in n..(n + m) /\ n - n = 0 /\ (n + m) - n = m
        BY <1>1
    <2> QED
        BY <1>2, <1>3, <2>1
<1> HIDE DEF t, late
<1>6. ASSUME NEW k \in n..(n + m - 1)
      PROVE  Allowed(late[k], t[k + 1]) /\ late[k + 1] = After(late[k], t[k + 1])
    <2>1. /\ k - n \in 0..(m - 1) /\ k \in n..(n + m) /\ k + 1 \in n..(n + m)
          /\ (k + 1) - n = (k - n) + 1 /\ (k - n) + 1 \in 1..m /\ n + ((k - n) + 1) = k + 1
        BY <1>1
    <2>2. t[k + 1] = out[(k - n) + 1]
        BY <1>1, <2>1
    <2>3. late[k] = run[k - n] /\ late[k + 1] = run[(k - n) + 1]
        BY <1>3, <2>1
    <2> QED
        BY <1>2, <2>1, <2>2, <2>3
<1>7. Len(t) - 1 = n + m - 1
    BY <1>1
<1>8. Reading(t, n, c, d)
    BY <1>1, <1>4, <1>5, <1>6, <1>7 DEF Reading
<1> QED
    BY <1>8 DEF t

(* One frame of those left.                                                *)
LEMMA ReadingStep ==
    ASSUME NEW fs \in Seq(Framing), NEW n \in Nat, n < Len(fs), NEW c, NEW d, Reading(fs, n, c, d)
    PROVE  c \in Clients /\ Allowed(c, fs[n + 1]) /\ Reading(fs, n + 1, After(c, fs[n + 1]), d)
<1>1. Len(fs) \in Nat /\ n \in n..Len(fs) /\ n \in n..(Len(fs) - 1) /\ n + 1 \in (n + 1)..Len(fs)
    OBVIOUS
<1>2. PICK run \in [n..Len(fs) -> Clients] :
        /\ run[n] = c /\ run[Len(fs)] = d
        /\ \A k \in n..(Len(fs) - 1) : Allowed(run[k], fs[k + 1]) /\ run[k + 1] = After(run[k], fs[k + 1])
    BY DEF Reading
<1> DEFINE rest == [k \in (n + 1)..Len(fs) |-> run[k]]
<1>3. \A k \in (n + 1)..Len(fs) : k \in n..Len(fs)
    BY <1>1
<1>4. rest \in [(n + 1)..Len(fs) -> Clients] /\ \A k \in (n + 1)..Len(fs) : rest[k] = run[k]
    BY <1>2, <1>3
<1> HIDE DEF rest
<1>5. Allowed(c, fs[n + 1]) /\ run[n + 1] = After(c, fs[n + 1]) /\ c \in Clients
    BY <1>1, <1>2
<1>6. rest[n + 1] = After(c, fs[n + 1]) /\ rest[Len(fs)] = d
    BY <1>1, <1>2, <1>4, <1>5
<1>7. ASSUME NEW k \in (n + 1)..(Len(fs) - 1)
      PROVE  Allowed(rest[k], fs[k + 1]) /\ rest[k + 1] = After(rest[k], fs[k + 1])
    <2>1. k \in (n + 1)..Len(fs) /\ k + 1 \in (n + 1)..Len(fs) /\ k \in n..(Len(fs) - 1)
        BY <1>1
    <2> QED
        BY <1>2, <1>4, <2>1
<1> QED
    BY <1>4, <1>5, <1>6, <1>7 DEF Reading

(***************************************************************************)
(* A renderer writing frames                                               *)
(***************************************************************************)

Blocks    == [index : Int, kind : Kinds, id : Calls \union {NoId}, args : Arguments]
Renderers == [started : BOOLEAN, finished : BOOLEAN, block : Blocks, next : Nat,
              seen : SUBSET Calls, pending : {<< >>}, out : Seq(Framing)]

(* In the middle of a message: a client c may read the frames of r and is  *)
(* then in r's open block, waiting for block n; and at the end of one.     *)
Writing(r, c, n) ==
    /\ r \in Renderers /\ r.started /\ ~r.finished
    /\ r.block = NoBlock \/ r.block.index \in Nat
    /\ \E d \in Clients : /\ Reading(r.out, 0, c, d)
                          /\ d.phase = "begun" /\ d.open = r.block.index /\ d.next = n
Over(r, c) ==
    /\ r \in Renderers /\ r.started /\ r.finished /\ r.block = NoBlock
    /\ \E d \in Clients : Reading(r.out, 0, c, d) /\ d.phase = "ended"

LEMMA FrameType ==
    ASSUME NEW f \in {"begin", "open", "delta", "close", "loose", "stop", "end"}, NEW i \in Int,
           NEW kind \in Kinds, NEW id \in Calls \union {NoId}, NEW args \in Arguments
    PROVE  LET g == Frame(f, i, kind, id, args) IN
           g \in Framing /\ g.f = f /\ g.index = i
    BY DEF Frame, Framing

LEMMA NoBlockType == NoBlock \in Blocks /\ NoBlock.index = NoIndex /\ NoIndex \in Int /\ NoIndex \notin Nat
                     /\ NoBlock.kind = "none" /\ <<>> \in Arguments
    BY DEF NoBlock, Blocks, Kinds, NoIndex, Arguments

(* One more frame in the middle of a message. *)
LEMMA WritesOn ==
    ASSUME NEW r, NEW c, NEW n, Writing(r, c, n), NEW f \in Framing, NEW q \in Renderers,
           q.out = Append(r.out, f), q.started, ~q.finished, NEW m,
           \/ f.f \in {"loose", "stop"} /\ q.block = r.block /\ m = n
           \/ f.f = "delta" /\ r.block # NoBlock /\ f.index = r.block.index
                /\ q.block.index = r.block.index /\ m = n
           \/ f.f = "open" /\ r.block = NoBlock /\ f.index = n /\ q.block.index = n /\ m = n + 1
           \/ f.f = "close" /\ r.block # NoBlock /\ f.index = r.block.index /\ q.block = NoBlock /\ m = n
    PROVE  Writing(q, c, m)
<1>1. PICK d \in Clients : Reading(r.out, 0, c, d) /\ d.phase = "begun" /\ d.open = r.block.index
                           /\ d.next = n
    BY DEF Writing
<1>2. r.out \in Seq(Framing) /\ n \in Nat
    BY <1>1 DEF Writing, Renderers, Clients
<1>3. (r.block = NoBlock \/ r.block.index \in Nat) /\ NoBlock.index = NoIndex /\ NoIndex \notin Nat
    BY NoBlockType DEF Writing
<1>4. Allowed(d, f)
    BY <1>1, <1>3 DEF Allowed
<1>5. Reading(q.out, 0, c, After(d, f)) /\ After(d, f) \in Clients
    BY <1>1, <1>2, <1>4, ReadingOneMore
<1>6. After(d, f).phase = "begun" /\ After(d, f).open = q.block.index /\ After(d, f).next = m
    BY <1>1, <1>3 DEF After
<1>7. q.block = NoBlock \/ q.block.index \in Nat
    BY <1>2, <1>3
<1> QED
    BY <1>5, <1>6, <1>7 DEF Writing

(* The last one. *)
LEMMA WritesLast ==
    ASSUME NEW r, NEW c, NEW n, Writing(r, c, n), r.block = NoBlock, NEW f \in Framing, f.f = "end",
           NEW q \in Renderers, q.out = Append(r.out, f), q.started, q.finished, q.block = NoBlock
    PROVE  Over(q, c)
<1>1. PICK d \in Clients : Reading(r.out, 0, c, d) /\ d.phase = "begun" /\ d.open = r.block.index
    BY DEF Writing
<1>2. r.out \in Seq(Framing) /\ NoBlock.index = NoIndex
    BY NoBlockType DEF Writing, Renderers
<1>3. Allowed(d, f)
    BY <1>1, <1>2 DEF Allowed
<1>4. Reading(q.out, 0, c, After(d, f)) /\ After(d, f) \in Clients
    BY <1>1, <1>2, <1>3, ReadingOneMore
<1>5. After(d, f).phase = "ended"
    BY DEF After
<1> QED
    BY <1>4, <1>5 DEF Over

(* What Writing does not look at. *)
LEMMA SameWriting ==
    ASSUME NEW r, NEW c, NEW n, Writing(r, c, n), NEW q \in Renderers, q.out = r.out,
           q.started, ~q.finished, q.block = r.block
    PROVE  Writing(q, c, n)
    BY DEF Writing

(* Send. *)
LEMMA Sent ==
    ASSUME NEW r \in Renderers, NEW f \in Framing
    PROVE  LET q == Send(r, f) IN
           /\ q \in Renderers /\ q.out = Append(r.out, f)
           /\ q.started = r.started /\ q.finished = r.finished /\ q.block = r.block
           /\ q.next = r.next /\ q.seen = r.seen
<1>1. Append(r.out, f) \in Seq(Framing)
    BY DEF Renderers
<1> DEFINE o == Append(r.out, f)
<1> HIDE DEF o
<1>2. LET q == [r EXCEPT !.out = o] IN
      /\ q \in Renderers /\ q.out = o
      /\ q.started = r.started /\ q.finished = r.finished /\ q.block = r.block
      /\ q.next = r.next /\ q.seen = r.seen
    BY <1>1 DEF Renderers, o
<1>3. Send(r, f) = [r EXCEPT !.out = o]
    BY DEF Send, o
<1> QED
    BY <1>2, <1>3 DEF o

(* Close the open block. *)
LEMMA Closes ==
    ASSUME NEW r, NEW c, NEW n, Writing(r, c, n)
    PROVE  LET q == CloseBlock(r) IN
           /\ Writing(q, c, n) /\ q.block = NoBlock /\ q.next = r.next /\ q.seen = r.seen
<1>1. r \in Renderers /\ r.block \in Blocks /\ r.started /\ ~r.finished
    BY DEF Writing, Renderers
<1>2. CASE r.block = NoBlock
    BY <1>2 DEF CloseBlock
<1>3. CASE r.block # NoBlock
    <2> DEFINE f == CloseFrame(r.block)
               s == Send(r, f)
               q == [s EXCEPT !.block = NoBlock]
    <2>1. f \in Framing /\ f.f = "close" /\ f.index = r.block.index
        <3>1. /\ r.block.index \in Int /\ r.block.kind \in Kinds
              /\ r.block.id \in Calls \union {NoId} /\ r.block.args \in Arguments
            BY <1>1 DEF Blocks
        <3> QED
            BY <3>1 DEF CloseFrame, Frame, Framing
    <2> HIDE DEF f
    <2>2. s \in Renderers /\ s.out = Append(r.out, f) /\ s.started = r.started
          /\ s.finished = r.finished /\ s.next = r.next /\ s.seen = r.seen
        BY <1>1, <2>1, Sent
    <2> HIDE DEF s
    <2>3. q \in Renderers /\ q.out = s.out /\ q.started = s.started /\ q.finished = s.finished
          /\ q.next = s.next /\ q.seen = s.seen /\ q.block = NoBlock
        BY <2>2, NoBlockType DEF Renderers
    <2>4. CloseBlock(r) = q
        BY <1>3 DEF CloseBlock, s, f
    <2> HIDE DEF q
    <2>5. Writing(q, c, n)
        BY <1>1, <1>3, <2>1, <2>2, <2>3, WritesOn
    <2> QED
        BY <2>2, <2>3, <2>4, <2>5
<1> QED
    BY <1>2, <1>3

(* Both renderers begin with a frame of their own. *)
LEMMA Begins ==
    ASSUME NEW r \in Renderers, NEW c \in Clients, r.out = <<>>, c.phase = "none", c.open = NoIndex,
           NEW f \in Framing, f.f = "begin", NEW q \in Renderers, q.out = Append(r.out, f),
           q.started, ~q.finished, q.block = NoBlock
    PROVE  Writing(q, c, c.next)
<1> DEFINE d == After(c, f)
<1>1. <<>> \in Seq(Framing) /\ Len(<<>>) = 0
    OBVIOUS
<1>2. Reading(<<>>, 0, c, c)
    BY <1>1, ReadingNothing
<1>3. Allowed(c, f)
    BY DEF Allowed
<1>4. Reading(q.out, 0, c, d) /\ d \in Clients
    BY <1>1, <1>2, <1>3, ReadingOneMore
<1>5. d.phase = "begun" /\ d.open = NoIndex /\ d.next = c.next
    BY DEF After
<1>6. q.block.index = NoIndex
    BY NoBlockType
<1> HIDE DEF d
<1> QED
    BY <1>4, <1>5, <1>6 DEF Writing

(* Send and one field more. *)
LEMMA SentStarting ==
    ASSUME NEW r \in Renderers, NEW f \in Framing
    PROVE  LET q == [Send(r, f) EXCEPT !.started = TRUE] IN
           /\ q \in Renderers /\ q.out = Append(r.out, f) /\ q.started
           /\ q.finished = r.finished /\ q.block = r.block /\ q.next = r.next /\ q.seen = r.seen
<1> DEFINE s == Send(r, f)
           q == [s EXCEPT !.started = TRUE]
<1>1. s \in Renderers /\ s.out = Append(r.out, f) /\ s.finished = r.finished /\ s.block = r.block
      /\ s.next = r.next /\ s.seen = r.seen
    BY Sent
<1> HIDE DEF s
<1>2. q \in Renderers /\ q.out = s.out /\ q.started /\ q.finished = s.finished /\ q.block = s.block
      /\ q.next = s.next /\ q.seen = s.seen
    BY <1>1 DEF Renderers
<1> QED
    BY <1>1, <1>2 DEF s

(* A delta of the open block, and content or a reason outside.             *)
LEMMA SendsDelta ==
    ASSUME NEW r, NEW c, NEW n, Writing(r, c, n), r.block # NoBlock,
           NEW kind \in Kinds, NEW args \in Arguments
    PROVE  LET q == Send(r, DeltaFrame(r.block.index, kind, args)) IN
           Writing(q, c, n) /\ q.block = r.block /\ q.next = r.next /\ q.seen = r.seen
<1> DEFINE f == DeltaFrame(r.block.index, kind, args)
           q == Send(r, f)
<1>1. r \in Renderers /\ r.started /\ ~r.finished /\ r.block.index \in Int
    BY NoBlockType DEF Writing
<1>2. f \in Framing /\ f.f = "delta" /\ f.index = r.block.index
    BY <1>1 DEF DeltaFrame, Frame, Framing
<1> HIDE DEF f
<1>3. q \in Renderers /\ q.out = Append(r.out, f) /\ q.started = r.started
      /\ q.finished = r.finished /\ q.block = r.block /\ q.next = r.next /\ q.seen = r.seen
    BY <1>1, <1>2, Sent
<1> HIDE DEF q
<1>4. Writing(q, c, n)
    BY <1>1, <1>2, <1>3, WritesOn
<1> QED
    BY <1>3, <1>4 DEF q, f

LEMMA SendsLoose ==
    ASSUME NEW r, NEW c, NEW n, Writing(r, c, n), NEW f \in Framing, f.f \in {"loose", "stop"}
    PROVE  LET q == Send(r, f) IN
           Writing(q, c, n) /\ q.block = r.block /\ q.next = r.next /\ q.seen = r.seen
<1> DEFINE q == Send(r, f)
<1>1. r \in Renderers /\ r.started /\ ~r.finished
    BY DEF Writing
<1>2. q \in Renderers /\ q.out = Append(r.out, f) /\ q.started = r.started
      /\ q.finished = r.finished /\ q.block = r.block /\ q.next = r.next /\ q.seen = r.seen
    BY <1>1, Sent
<1> HIDE DEF q
<1>3. Writing(q, c, n)
    BY <1>1, <1>2, WritesOn
<1> QED
    BY <1>2, <1>3 DEF q

LEMMA SendsEnd ==
    ASSUME NEW r, NEW c, NEW n, Writing(r, c, n), r.block = NoBlock, NEW f \in Framing, f.f = "end",
           NEW q, q = [Send(r, f) EXCEPT !.finished = TRUE]
    PROVE  Over(q, c)
<1> DEFINE s == Send(r, f)
<1>1. r \in Renderers /\ r.started
    BY DEF Writing
<1>2. s \in Renderers /\ s.out = Append(r.out, f) /\ s.started = r.started /\ s.block = r.block
    BY <1>1, Sent
<1>3. q = [s EXCEPT !.finished = TRUE]
    OBVIOUS
<1> HIDE DEF s
<1>4. q \in Renderers /\ q.out = s.out /\ q.started = s.started /\ q.block = s.block /\ q.finished
    BY <1>2, <1>3 DEF Renderers
<1> QED
    BY <1>1, <1>2, <1>4, WritesLast

(***************************************************************************)
(* AnthropicStreamRenderer                                                 *)
(***************************************************************************)

Speaking(r, c) == Writing(r, c, r.next)

LEMMA OpensBlock ==
    ASSUME NEW r, NEW c, Speaking(r, c), NEW kind \in Kinds, NEW id \in Calls \union {NoId}
    PROVE  LET q == OpenBlock(r, kind, id) IN Speaking(q, c) /\ q.block # NoBlock
<1> DEFINE s == CloseBlock(r)
           q == OpenBlock(r, kind, id)
<1>1. Writing(s, c, r.next) /\ s.block = NoBlock /\ s.next = r.next
    BY Closes DEF Speaking
<1>2. s \in Renderers /\ s.next \in Nat
    BY <1>1 DEF Writing, Renderers
<1> DEFINE f == OpenFrame(s.next, kind, id)
           t == Send(s, f)
           b == [index |-> s.next, kind |-> kind, id |-> id, args |-> <<>>]
<1>3. /\ f \in Framing /\ f.f = "open" /\ f.index = s.next
      /\ b \in Blocks /\ b.index = s.next /\ b # NoBlock
      /\ s.started /\ ~s.finished
    BY <1>1, <1>2, NoBlockType DEF OpenFrame, Frame, Framing, Blocks, Writing
<1>4. t \in Renderers /\ t.out = Append(s.out, f) /\ t.started = s.started
      /\ t.finished = s.finished /\ t.next = s.next
    BY <1>2, <1>3, Sent
<1>5. q = [t EXCEPT !.next = @ + 1, !.block = b]
    BY DEF OpenBlock
<1> HIDE DEF q, s, t, f, b
<1>6. q \in Renderers /\ q.out = t.out /\ q.started = t.started /\ q.finished = t.finished
      /\ q.next = t.next + 1 /\ q.block = b
    <2>1. t.next + 1 \in Nat
        BY <1>2, <1>4
    <2> QED
        BY <1>3, <1>4, <1>5, <2>1 DEF Renderers
<1>7. Writing(q, c, s.next + 1) /\ q.block # NoBlock
    BY <1>1, <1>3, <1>4, <1>6, WritesOn
<1> QED
    BY <1>4, <1>6, <1>7 DEF Speaking, q

LEMMA SpeaksText ==
    ASSUME NEW r, NEW c, Speaking(r, c), NEW kind \in {"text", "thinking"}
    PROVE  LET q == AnthropicText(r, kind) IN Speaking(q, c) /\ q.block # NoBlock
<1> DEFINE s == IF r.block.kind = kind THEN r ELSE OpenBlock(r, kind, NoId)
<1>1. kind \in Kinds /\ NoBlock.kind # kind /\ <<>> \in Arguments
    BY NoBlockType DEF Kinds
<1>2. Speaking(s, c) /\ s.block # NoBlock
    <2>1. CASE r.block.kind = kind
        BY <1>1, <2>1
    <2>2. CASE r.block.kind # kind
        BY <1>1, <2>2, OpensBlock
    <2> QED
        BY <2>1, <2>2
<1>3. AnthropicText(r, kind) = Send(s, DeltaFrame(s.block.index, kind, <<>>))
    BY DEF AnthropicText
<1> HIDE DEF s
<1> QED
    BY <1>1, <1>2, <1>3, SendsDelta DEF Speaking

(* A fragment without a name has an open block to go to.                   *)
LEMMA SpeaksPart ==
    ASSUME NEW r, NEW c, Speaking(r, c), NEW p \in Part, p.name = p.id,
           p.id = NoId => r.block # NoBlock
    PROVE  LET q == AnthropicPart(r, p) IN Speaking(q, c) /\ q.block # NoBlock
<1> DEFINE s == IF p.name # NoId \/ p.id # NoId THEN OpenBlock(r, "tool_use", p.id) ELSE r
<1>1. "tool_use" \in Kinds /\ p.args \in Arguments /\ p.id \in Calls \union {NoId}
    BY DEF Kinds, Part
<1>2. Speaking(s, c) /\ s.block # NoBlock
    BY <1>1, OpensBlock
<1>3. AnthropicPart(r, p) = IF p.args = <<>> THEN s
                            ELSE Send(s, DeltaFrame(s.block.index, "tool_use", p.args))
    BY <1>2 DEF AnthropicPart
<1> HIDE DEF s
<1> QED
    BY <1>1, <1>2, <1>3, SendsDelta DEF Speaking

LEMMA SpeaksEnd ==
    ASSUME NEW r, NEW c, Speaking(r, c), NEW reason \in {"tool_use", "end_turn"}
    PROVE  Over(AnthropicEnd(r, reason), c)
<1> DEFINE s == CloseBlock(r)
           t == Send(s, StopFrame(reason))
<1>1. Writing(s, c, r.next) /\ s.block = NoBlock
    BY Closes DEF Speaking
<1>2. StopFrame(reason) \in Framing /\ StopFrame(reason).f = "stop"
      /\ EndFrame \in Framing /\ EndFrame.f = "end"
    BY NoBlockType DEF StopFrame, EndFrame, Frame, Framing, Kinds
<1>3. AnthropicEnd(r, reason) = [Send(t, EndFrame) EXCEPT !.finished = TRUE]
    BY DEF AnthropicEnd
<1> HIDE DEF s
<1>4. Writing(t, c, r.next) /\ t.block = NoBlock
    BY <1>1, <1>2, SendsLoose
<1> HIDE DEF t
<1> QED
    BY <1>2, <1>3, <1>4, SendsEnd

(* The calls of a payload, up to two. *)
LEMMA EachAnthropic ==
    ASSUME NEW r, NEW parts \in Seq(Part), Len(parts) <= 2
    PROVE  Each(AnthropicPart, r, parts) =
             IF Len(parts) = 0 THEN r
             ELSE IF Len(parts) = 1 THEN AnthropicPart(r, parts[1])
             ELSE AnthropicPart(AnthropicPart(r, parts[1]), parts[2])
<1> DEFINE n == Len(parts)
           one == AnthropicPart(r, parts[1])
           two == AnthropicPart(one, parts[2])
           Step(g, k) == IF k = 0 THEN r ELSE AnthropicPart(g[k - 1], parts[k])
           w == [k \in 0..n |-> IF k = 0 THEN r ELSE IF k = 1 THEN one ELSE two]
           g == CHOOSE h : h = [k \in 0..n |-> Step(h, k)]
<1>1. n \in Nat /\ n \in 0..n /\ n <= 2
    OBVIOUS
<1>2. ASSUME NEW k \in 0..n PROVE w[k] = Step(w, k)
    <2>1. CASE k = 0
        BY <2>1
    <2>2. CASE k = 1
        <3>1. 0 \in 0..n /\ w[0] = r /\ w[1] = one
            BY <1>1, <2>2
        <3> QED
            BY <2>2, <3>1
    <2>3. CASE k = 2
        <3>1. 1 \in 0..n /\ w[1] = one /\ w[2] = two
            BY <1>1, <2>3
        <3> QED
            BY <2>3, <3>1
    <2> QED
        BY <1>1, <2>1, <2>2, <2>3
<1>3. w = [k \in 0..n |-> Step(w, k)]
    BY <1>2
<1>4. g = [k \in 0..n |-> Step(g, k)]
    <2> HIDE DEF w, Step
    <2> QED
        BY <1>3
<1>5. Each(AnthropicPart, r, parts) = g[n]
    BY DEF Each
<1> HIDE DEF g
<1>6. \A k \in 0..n : g[k] = Step(g, k)
    BY <1>4
<1>7. g[0] = r
    BY <1>1, <1>6
<1>8. n >= 1 => g[1] = one
    <2> SUFFICES ASSUME n >= 1 PROVE g[1] = one
        OBVIOUS
    <2>1. 1 \in 0..n /\ 1 - 1 = 0
        BY <1>1
    <2>2. g[1] = Step(g, 1)
        BY <1>6, <2>1
    <2> QED
        BY <1>7, <2>2
<1>9. n = 2 => g[2] = two
    <2> SUFFICES ASSUME n = 2 PROVE g[2] = two
        OBVIOUS
    <2>1. 2 \in 0..n /\ 2 - 1 = 1
        BY <1>1
    <2>2. g[2] = Step(g, 2)
        BY <1>6, <2>1
    <2> QED
        BY <1>8, <2>2
<1> HIDE DEF n, one, two
<1>10. g[n] = IF n = 0 THEN r ELSE IF n = 1 THEN one ELSE two
    BY <1>1, <1>7, <1>8, <1>9
<1> QED
    BY <1>5, <1>10 DEF n, one, two

LEMMA SpeaksParts ==
    ASSUME NEW r, NEW c, Speaking(r, c), NEW parts \in Seq(Part), Len(parts) <= 2,
           \A m \in DOMAIN parts : /\ parts[m].name = parts[m].id
                                   /\ parts[m].id = NoId => r.block # NoBlock
    PROVE  LET q == Each(AnthropicPart, r, parts) IN
           /\ Speaking(q, c)
           /\ r.block # NoBlock \/ parts # <<>> => q.block # NoBlock
<1> DEFINE one == AnthropicPart(r, parts[1])
           two == AnthropicPart(one, parts[2])
           q == Each(AnthropicPart, r, parts)
<1>1. /\ Len(parts) \in Nat /\ DOMAIN parts = 1..Len(parts)
      /\ \A m \in DOMAIN parts : parts[m] \in Part
      /\ parts = <<>> <=> Len(parts) = 0
    OBVIOUS
<1>2. q = IF Len(parts) = 0 THEN r ELSE IF Len(parts) = 1 THEN one ELSE two
    BY EachAnthropic
<1>3. Len(parts) > 0 => Speaking(one, c) /\ one.block # NoBlock
    BY <1>1, SpeaksPart
<1> HIDE DEF one, q
<1>4. Len(parts) = 2 => Speaking(two, c) /\ two.block # NoBlock
    BY <1>1, <1>3, SpeaksPart
<1> HIDE DEF two
<1> QED
    BY <1>1, <1>2, <1>3, <1>4 DEF q

(* AnthropicStreamRenderer::feed, with a payload that suits. *)
LEMMA BeginsAnthropic ==
    ASSUME NEW r \in Renderers, NEW c \in Clients, r.out = <<>>, ~r.finished,
           \/ r.started /\ Speaking(r, c)
           \/ /\ ~r.started /\ r.block = NoBlock
              /\ c.phase = "none" /\ c.open = NoIndex /\ c.next = r.next
    PROVE  Speaking(Begun(r), c) /\ Begun(r).block = r.block
<1>1. CASE r.started
    BY <1>1 DEF Begun
<1>2. CASE ~r.started
    <2>1. BeginFrame \in Framing /\ BeginFrame.f = "begin"
        BY NoBlockType DEF BeginFrame, Frame, Framing, Kinds
    <2>2. Begun(r) = [Send(r, BeginFrame) EXCEPT !.started = TRUE]
        BY <1>2 DEF Begun
    <2> DEFINE f == BeginFrame
               q == Begun(r)
    <2>3. q \in Renderers /\ q.out = Append(r.out, f) /\ q.started /\ q.finished = r.finished
          /\ q.block = r.block /\ q.next = r.next
        BY <2>1, <2>2, SentStarting
    <2> HIDE DEF f, q
    <2>4. Writing(q, c, c.next)
        BY <1>2, <2>1, <2>3, Begins DEF f
    <2> QED
        BY <1>2, <2>3, <2>4 DEF Speaking, q
<1> QED
    BY <1>1, <1>2

(***************************************************************************)
(* ResponsesStreamRenderer                                                 *)
(***************************************************************************)

LEMMA EachResponses ==
    ASSUME NEW r, NEW parts \in Seq(Part), Len(parts) <= 2
    PROVE  Each(ResponsesPart, r, parts) =
             IF Len(parts) = 0 THEN r
             ELSE IF Len(parts) = 1 THEN ResponsesPart(r, parts[1])
             ELSE ResponsesPart(ResponsesPart(r, parts[1]), parts[2])
<1> DEFINE n == Len(parts)
           one == ResponsesPart(r, parts[1])
           two == ResponsesPart(one, parts[2])
           Step(g, k) == IF k = 0 THEN r ELSE ResponsesPart(g[k - 1], parts[k])
           w == [k \in 0..n |-> IF k = 0 THEN r ELSE IF k = 1 THEN one ELSE two]
           g == CHOOSE h : h = [k \in 0..n |-> Step(h, k)]
<1>1. n \in Nat /\ n \in 0..n /\ n <= 2
    OBVIOUS
<1>2. ASSUME NEW k \in 0..n PROVE w[k] = Step(w, k)
    <2>1. CASE k = 0
        BY <2>1
    <2>2. CASE k = 1
        <3>1. 0 \in 0..n /\ w[0] = r /\ w[1] = one
            BY <1>1, <2>2
        <3> QED
            BY <2>2, <3>1
    <2>3. CASE k = 2
        <3>1. 1 \in 0..n /\ w[1] = one /\ w[2] = two
            BY <1>1, <2>3
        <3> QED
            BY <2>3, <3>1
    <2> QED
        BY <1>1, <2>1, <2>2, <2>3
<1>3. w = [k \in 0..n |-> Step(w, k)]
    BY <1>2
<1>4. g = [k \in 0..n |-> Step(g, k)]
    <2> HIDE DEF w, Step
    <2> QED
        BY <1>3
<1>5. Each(ResponsesPart, r, parts) = g[n]
    BY DEF Each
<1> HIDE DEF g
<1>6. \A k \in 0..n : g[k] = Step(g, k)
    BY <1>4
<1>7. g[0] = r
    BY <1>1, <1>6
<1>8. n >= 1 => g[1] = one
    <2> SUFFICES ASSUME n >= 1 PROVE g[1] = one
        OBVIOUS
    <2>1. 1 \in 0..n /\ 1 - 1 = 0
        BY <1>1
    <2>2. g[1] = Step(g, 1)
        BY <1>6, <2>1
    <2> QED
        BY <1>7, <2>2
<1>9. n = 2 => g[2] = two
    <2> SUFFICES ASSUME n = 2 PROVE g[2] = two
        OBVIOUS
    <2>1. 2 \in 0..n /\ 2 - 1 = 1
        BY <1>1
    <2>2. g[2] = Step(g, 2)
        BY <1>6, <2>1
    <2> QED
        BY <1>8, <2>2
<1> HIDE DEF n, one, two
<1>10. g[n] = IF n = 0 THEN r ELSE IF n = 1 THEN one ELSE two
    BY <1>1, <1>7, <1>8, <1>9
<1> QED
    BY <1>5, <1>10 DEF n, one, two

(* The next item's number: `next` is that of the active call.              *)
NextItem(r)   == IF r.block = NoBlock THEN r.next ELSE r.next + 1
Listing(r, c) == /\ Writing(r, c, NextItem(r))
                 /\ r.block # NoBlock => r.block.index = r.next
                 /\ r.block = NoBlock => r.seen = {}

LEMMA AddsItem ==
    ASSUME NEW r, NEW c, Writing(r, c, NextItem(r)), NEW id \in Calls \union {NoId}
    PROVE  LET q == ItemAdded(r, id) IN
           /\ Writing(q, c, q.next + 1) /\ q.block # NoBlock /\ q.block.index = q.next
<1> DEFINE x == CloseBlock(r)
           s == IF r.block = NoBlock THEN r ELSE [x EXCEPT !.next = @ + 1]
           q == ItemAdded(r, id)
<1>1. Writing(x, c, NextItem(r)) /\ x.block = NoBlock /\ x.next = r.next
    BY Closes
<1>2. r \in Renderers /\ r.next \in Nat /\ x \in Renderers /\ x.started /\ ~x.finished
    BY <1>1 DEF Writing, Renderers
<1> HIDE DEF x
<1>3. Writing(s, c, s.next) /\ s.block = NoBlock
    <2>1. CASE r.block = NoBlock
        BY <2>1 DEF NextItem
    <2>2. CASE r.block # NoBlock
        <3> DEFINE y == [x EXCEPT !.next = @ + 1]
        <3>1. y \in Renderers /\ y.out = x.out /\ y.started = x.started /\ y.finished = x.finished
              /\ y.block = x.block /\ y.next = x.next + 1
            <4>1. x.next + 1 \in Nat
                BY <1>1, <1>2
            <4> QED
                BY <1>2, <4>1 DEF Renderers
        <3>2. s = y
            BY <2>2
        <3> HIDE DEF y, s
        <3>3. Writing(y, c, NextItem(r))
            BY <1>1, <1>2, <3>1, SameWriting
        <3> QED
            BY <1>1, <2>2, <3>1, <3>2, <3>3 DEF NextItem
    <2> QED
        BY <2>1, <2>2
<1>4. s \in Renderers /\ s.next \in Nat /\ s.started /\ ~s.finished
    BY <1>3 DEF Writing, Renderers
<1> DEFINE f == OpenFrame(s.next, "function_call", id)
           t == Send(s, f)
           b == [index |-> s.next, kind |-> "function_call", id |-> id, args |-> <<>>]
<1>5. q = [t EXCEPT !.block = b]
    BY DEF ItemAdded, x
<1> HIDE DEF s
<1>6. /\ f \in Framing /\ f.f = "open" /\ f.index = s.next
      /\ b \in Blocks /\ b.index = s.next /\ b # NoBlock
    BY <1>4, NoBlockType DEF OpenFrame, Frame, Framing, Blocks, Kinds
<1>7. t \in Renderers /\ t.out = Append(s.out, f) /\ t.started = s.started
      /\ t.finished = s.finished /\ t.next = s.next
    BY <1>4, <1>6, Sent
<1> HIDE DEF q, t, f, b
<1>8. q \in Renderers /\ q.out = t.out /\ q.started = t.started /\ q.finished = t.finished
      /\ q.next = t.next /\ q.block = b
    BY <1>5, <1>6, <1>7 DEF Renderers
<1>9. Writing(q, c, s.next + 1)
    BY <1>3, <1>4, <1>6, <1>7, <1>8, WritesOn
<1> QED
    BY <1>6, <1>7, <1>8, <1>9 DEF q

LEMMA ListsPart ==
    ASSUME NEW r, NEW c, Listing(r, c), NEW p \in Part, p.name = p.id,
           p.id = NoId => r.block # NoBlock
    PROVE  LET q == ResponsesPart(r, p) IN Listing(q, c) /\ q.block # NoBlock
<1> DEFINE x == [r EXCEPT !.seen = @ \union ({p.id} \ {NoId})]
           fresh == p.id = NoId \/ p.id \notin r.seen
           s == IF p.name # NoId /\ fresh THEN ItemAdded(x, p.id) ELSE x
           kept == IF s.block = NoBlock THEN s ELSE [s EXCEPT !.block.args = @ \o p.args]
<1>1. r \in Renderers /\ r.seen \subseteq Calls /\ r.started /\ ~r.finished
    BY DEF Listing, Writing, Renderers
<1>2. p.args \in Arguments /\ p.id \in Calls \union {NoId}
    BY DEF Part
<1>3. x \in Renderers /\ x.out = r.out /\ x.started = r.started /\ x.finished = r.finished
      /\ x.block = r.block /\ x.next = r.next
    <2>1. r.seen \union ({p.id} \ {NoId}) \in SUBSET Calls
        BY <1>1, <1>2
    <2> QED
        BY <1>1, <2>1 DEF Renderers
<1> HIDE DEF x
<1>4. NextItem(x) = NextItem(r)
    BY <1>3 DEF NextItem
<1>5. Writing(x, c, NextItem(x))
    BY <1>1, <1>3, <1>4, SameWriting DEF Listing
<1>6. Writing(s, c, s.next + 1) /\ s.block # NoBlock /\ s.block.index = s.next
    <2>1. CASE p.name # NoId /\ fresh
        BY <1>2, <1>5, <2>1, AddsItem
    <2>2. CASE ~(p.name # NoId /\ fresh)
        <3>1. r.block # NoBlock
            BY <2>2 DEF Listing
        <3> QED
            BY <1>3, <1>5, <2>2, <3>1 DEF NextItem, Listing
    <2> QED
        BY <2>1, <2>2
<1>7. ResponsesPart(r, p) = IF p.args = <<>> THEN s
                            ELSE Send(kept, DeltaFrame(s.next, "function_call", p.args))
    BY DEF ResponsesPart, x
<1> HIDE DEF s
<1>8. s \in Renderers /\ s.next \in Nat /\ s.block \in Blocks /\ s.started /\ ~s.finished
    BY <1>6 DEF Writing, Renderers
<1>9. kept \in Renderers /\ kept.out = s.out /\ kept.started = s.started
      /\ kept.finished = s.finished /\ kept.next = s.next /\ kept.block.index = s.block.index
    <2> DEFINE b == [s.block EXCEPT !.args = @ \o p.args]
               k == [s EXCEPT !.block = b]
    <2>1. b \in Blocks /\ b.index = s.block.index
        <3>1. s.block.args \o p.args \in Arguments
            BY <1>2, <1>8 DEF Blocks, Arguments
        <3> QED
            BY <1>8, <3>1 DEF Blocks
    <2>2. kept = k
        BY <1>6, <1>8 DEF Renderers
    <2> HIDE DEF b, kept
    <2>3. k \in Renderers /\ k.out = s.out /\ k.started = s.started
          /\ k.finished = s.finished /\ k.next = s.next /\ k.block = b
        BY <1>8, <2>1 DEF Renderers
    <2> QED
        BY <2>1, <2>2, <2>3
<1> HIDE DEF kept
<1> DEFINE f == DeltaFrame(s.next, "function_call", p.args)
           q == Send(kept, f)
<1>10. f \in Framing /\ f.f = "delta" /\ f.index = s.next
    BY <1>2, <1>8 DEF DeltaFrame, Frame, Framing, Kinds
<1> HIDE DEF f
<1>11. q \in Renderers /\ q.out = Append(s.out, f) /\ q.started /\ ~q.finished
       /\ q.block.index = s.block.index /\ q.next = s.next
    <2>1. q \in Renderers /\ q.out = Append(kept.out, f) /\ q.started = kept.started
          /\ q.finished = kept.finished /\ q.block = kept.block /\ q.next = kept.next
        BY <1>9, <1>10, Sent
    <2> HIDE DEF q
    <2> QED
        BY <1>8, <1>9, <2>1
<1> HIDE DEF q
<1>12. Writing(q, c, s.next + 1) /\ q.block # NoBlock
    <2>1. Writing(q, c, s.next + 1)
        BY <1>6, <1>10, <1>11, WritesOn
    <2> QED
        BY <1>6, <1>8, <1>11, <2>1, NoBlockType
<1>13. ASSUME NEW y \in {s, q} PROVE Listing(y, c) /\ y.block # NoBlock
    BY <1>6, <1>11, <1>12, <1>13 DEF Listing, NextItem
<1> QED
    BY <1>7, <1>13 DEF q, f

LEMMA ListsParts ==
    ASSUME NEW r, NEW c, Listing(r, c), NEW parts \in Seq(Part), Len(parts) <= 2,
           \A m \in DOMAIN parts : /\ parts[m].name = parts[m].id
                                   /\ parts[m].id = NoId => r.block # NoBlock
    PROVE  LET q == Each(ResponsesPart, r, parts) IN
           /\ Listing(q, c)
           /\ r.block # NoBlock \/ parts # <<>> => q.block # NoBlock
<1> DEFINE one == ResponsesPart(r, parts[1])
           two == ResponsesPart(one, parts[2])
           q == Each(ResponsesPart, r, parts)
<1>1. /\ Len(parts) \in Nat /\ DOMAIN parts = 1..Len(parts)
      /\ \A m \in DOMAIN parts : parts[m] \in Part
      /\ parts = <<>> <=> Len(parts) = 0
    OBVIOUS
<1>2. q = IF Len(parts) = 0 THEN r ELSE IF Len(parts) = 1 THEN one ELSE two
    BY EachResponses
<1>3. Len(parts) > 0 => Listing(one, c) /\ one.block # NoBlock
    BY <1>1, ListsPart
<1> HIDE DEF one, q
<1>4. Len(parts) = 2 => Listing(two, c) /\ two.block # NoBlock
    BY <1>1, <1>3, ListsPart
<1> HIDE DEF two
<1> QED
    BY <1>1, <1>2, <1>3, <1>4 DEF q

LEMMA ListsEnd ==
    ASSUME NEW r, NEW c, Listing(r, c) PROVE Over(ResponsesEnd(r), c)
<1> DEFINE s == CloseBlock(r)
           f == [EndFrame EXCEPT !.kind = "chunk_id"]
<1>1. Writing(s, c, NextItem(r)) /\ s.block = NoBlock
    BY Closes DEF Listing
<1>2. f \in Framing /\ f.f = "end"
    BY NoBlockType DEF EndFrame, Frame, Framing, Kinds
<1>3. ResponsesEnd(r) = [Send(s, f) EXCEPT !.finished = TRUE]
    BY DEF ResponsesEnd
<1> HIDE DEF s, f
<1> QED
    BY <1>1, <1>2, <1>3, SendsEnd

LEMMA BeginsResponses ==
    ASSUME NEW r \in Renderers, NEW c \in Clients, r.out = <<>>, ~r.finished,
           \/ r.started /\ Listing(r, c)
           \/ /\ ~r.started /\ r.block = NoBlock /\ r.seen = {}
              /\ c.phase = "none" /\ c.open = NoIndex /\ c.next = r.next,
           NEW begun, begun = IF r.started THEN r
                              ELSE [Send(r, [BeginFrame EXCEPT !.kind = "response_id"]) EXCEPT
                                      !.started = TRUE]
    PROVE  Listing(begun, c) /\ begun.block = r.block
<1>1. CASE r.started
    BY <1>1
<1>2. CASE ~r.started
    <2> DEFINE f == [BeginFrame EXCEPT !.kind = "response_id"]
    <2>1. f \in Framing /\ f.f = "begin"
        BY NoBlockType DEF BeginFrame, Frame, Framing, Kinds
    <2> DEFINE q == [Send(r, f) EXCEPT !.started = TRUE]
    <2>2. q \in Renderers /\ q.out = Append(r.out, f) /\ q.started
          /\ q.finished = r.finished /\ q.block = r.block /\ q.next = r.next
          /\ q.seen = r.seen
        BY <2>1, SentStarting
    <2> HIDE DEF f
    <2>3. begun \in Renderers /\ begun.out = Append(r.out, f) /\ begun.started
          /\ begun.finished = r.finished /\ begun.block = r.block /\ begun.next = r.next
          /\ begun.seen = r.seen
        <3>1. begun = q
            BY <1>2 DEF f
        <3> HIDE DEF q
        <3> QED
            BY <2>2, <3>1
    <2>4. Writing(begun, c, c.next)
        BY <1>2, <2>1, <2>3, Begins
    <2> QED
        BY <1>2, <2>3, <2>4 DEF Listing, NextItem
<1> QED
    BY <1>1, <1>2

(***************************************************************************)
(* Both renderers, payload by payload                                      *)
(***************************************************************************)

(* Where a renderer stands that has been fed n of the payloads s, seen by a*)
(* client c who has read all its frames but r.out.                         *)
InMessage(fe, r, c) == IF fe = "anthropic" THEN Speaking(r, c) ELSE Listing(r, c)
Standing(fe, r, c, s, n) ==
    /\ r \in Renderers /\ c \in Clients
    /\ n > 0 => r.started
    /\ \/ /\ ~r.started /\ ~r.finished /\ r.block = NoBlock /\ r.seen = {} /\ r.out = <<>>
          /\ c.phase = "none" /\ c.open = NoIndex /\ c.next = r.next
       \/ InMessage(fe, r, c)
       \/ Over(r, c)
    /\ r.finished => EndedBy(s, n)
    /\ ~r.finished /\ NamedBy(s, n) => r.block # NoBlock

LEMMA OneFurther ==
    ASSUME NEW s \in Seq(Chunk), NEW n \in Nat, n < Len(s)
    PROVE  /\ EndedBy(s, n + 1) <=> EndedBy(s, n) \/ Ending(s[n + 1])
           /\ NamedBy(s, n + 1) <=> NamedBy(s, n) \/ Naming(s[n + 1])
<1>1. n + 1 \in DOMAIN s /\ DOMAIN s = 1..Len(s) /\ Len(s) \in Nat
    OBVIOUS
<1>2. \A i \in DOMAIN s : i <= n + 1 <=> i <= n \/ i = n + 1
    BY <1>1
<1> QED
    BY <1>1, <1>2 DEF EndedBy, NamedBy

(* A payload that says nothing more. *)
LEMMA PlainParts ==
    ASSUME NEW k \in Chunk, Plain(k)
    PROVE  ~Naming(k) /\ k.calls \in Seq(Part) /\ Len(k.calls) = 0
<1>1. k.calls = <<>> /\ DOMAIN <<>> = {}
    BY DEF Plain
<1> QED
    BY <1>1 DEF Naming

LEMMA NoCallsAnthropic ==
    ASSUME NEW r, NEW parts \in Seq(Part), Len(parts) = 0
    PROVE  Each(AnthropicPart, r, parts) = r
<1>1. Len(parts) <= 2
    OBVIOUS
<1> QED
    BY <1>1, EachAnthropic, Zenon

LEMMA AnthropicFed ==
    ASSUME NEW r, NEW c, NEW s, NEW n \in Nat, Standing("anthropic", r, c, s, n), r.out = <<>>,
           s \in Seq(Chunk), n < Len(s), Suits(s, n, s[n + 1])
    PROVE  Standing("anthropic", AnthropicFeed(r, s[n + 1]), c, s, n + 1)
<1> DEFINE k == s[n + 1]
           q == AnthropicFeed(r, k)
           begun    == Begun(r)
           thinking == IF k.reasoning THEN AnthropicText(begun, "thinking") ELSE begun
           text     == IF k.text THEN AnthropicText(thinking, "text") ELSE thinking
           calls    == Each(AnthropicPart, text, k.calls)
<1>1. k \in Chunk /\ k.calls \in Seq(Part) /\ k.finish \in Reasons \union {NoReason}
    <2>1. n + 1 \in DOMAIN s
        OBVIOUS
    <2>2. k \in Chunk
        BY <2>1
    <2> HIDE DEF k
    <2> QED
        BY <2>2 DEF Chunk
<1>2. q = IF k.done THEN AnthropicDone(r)
          ELSE IF k.finish = NoReason THEN calls ELSE AnthropicEnd(calls, StopReason(k.finish))
    BY DEF AnthropicFeed
<1>3. /\ EndedBy(s, n + 1) <=> EndedBy(s, n) \/ Ending(k)
      /\ NamedBy(s, n + 1) <=> NamedBy(s, n) \/ Naming(k)
    BY OneFurther
<1>4. /\ r \in Renderers /\ c \in Clients /\ n + 1 > 0
      /\ r.finished => EndedBy(s, n)
      /\ ~r.finished /\ NamedBy(s, n) => r.block # NoBlock
    BY DEF Standing
<1>5. Suits(s, n, k)
    OBVIOUS
<1> HIDE DEF k, q
<1> SUFFICES ASSUME TRUE PROVE Standing("anthropic", q, c, s, n + 1)
    BY DEF q, k
<1>6. CASE r.finished
    <2>1. Plain(k) /\ Over(r, c)
        BY <1>4, <1>5, <1>6 DEF Suits, Standing, InMessage, Speaking, Writing
    <2>2. q = r
        <3>1. CASE k.done
            BY <1>2, <1>6, <3>1 DEF AnthropicDone
        <3>2. CASE ~k.done
            <4>1. begun = r
                BY <2>1 DEF Begun, Over
            <4>2. text = r
                BY <2>1, <4>1 DEF Plain
            <4>3. calls = r
                <5>1. Len(k.calls) = 0
                    BY <1>1, <2>1, PlainParts
                <5> HIDE DEF text
                <5> QED
                    BY <1>1, <4>2, <5>1, NoCallsAnthropic
            <4> QED
                BY <1>2, <2>1, <3>2, <4>3 DEF Plain
        <3> QED
            BY <3>1, <3>2
    <2> QED
        BY <1>3, <1>4, <1>6, <2>1, <2>2 DEF Standing, Over
<1>7. CASE ~r.finished /\ k.done
    <2>1. n > 0 /\ Plain(k)
        BY <1>5, <1>7 DEF Suits
    <2>2. Speaking(r, c)
        BY <1>7, <2>1 DEF Standing, InMessage, Over
    <2>3. q = AnthropicEnd(r, "end_turn")
        BY <1>2, <1>7 DEF AnthropicDone
    <2>4. Over(q, c)
        BY <2>2, <2>3, SpeaksEnd
    <2> QED
        BY <1>3, <1>4, <1>7, <2>4 DEF Standing, Over, Ending
<1>8. CASE ~r.finished /\ ~k.done
    <2>1. Speaking(begun, c) /\ begun.block = r.block
        <3>1. Speaking(r, c) => r.started
            BY DEF Speaking, Writing
        <3>2. ~Over(r, c) /\ InMessage("anthropic", r, c) = Speaking(r, c)
            BY <1>8 DEF Over, InMessage
        <3> QED
            BY <1>8, <3>1, <3>2, BeginsAnthropic DEF Standing
    <2> HIDE DEF begun
    <2>2. Speaking(thinking, c) /\ (begun.block # NoBlock => thinking.block # NoBlock)
        BY <2>1, SpeaksText
    <2> HIDE DEF thinking
    <2>3. Speaking(text, c) /\ (thinking.block # NoBlock => text.block # NoBlock)
        BY <2>2, SpeaksText
    <2> HIDE DEF text
    <2>4. \A m \in DOMAIN k.calls : /\ k.calls[m].name = k.calls[m].id
                                    /\ k.calls[m].id = NoId => text.block # NoBlock
        BY <1>4, <1>5, <1>8, <2>1, <2>2, <2>3 DEF Suits
    <2>5. Len(k.calls) <= 2
        BY <1>5 DEF Suits
    <2>6. Speaking(calls, c) /\ (text.block # NoBlock \/ k.calls # <<>> => calls.block # NoBlock)
        BY <1>1, <2>3, <2>4, <2>5, SpeaksParts
    <2> HIDE DEF calls
    <2>7. Naming(k) => k.calls # <<>>
        BY DEF Naming
    <2>8. NamedBy(s, n + 1) => calls.block # NoBlock
        BY <1>3, <1>4, <1>8, <2>1, <2>2, <2>3, <2>6, <2>7
    <2>9. CASE k.finish = NoReason
        <3>1. q = calls /\ Speaking(q, c)
            BY <1>2, <1>8, <2>6, <2>9
        <3>2. q \in Renderers /\ q.started /\ ~q.finished
            BY <3>1 DEF Speaking, Writing
        <3> QED
            BY <1>4, <2>8, <3>1, <3>2 DEF Standing, InMessage
    <2>10. CASE k.finish # NoReason
        <3>1. q = AnthropicEnd(calls, StopReason(k.finish))
            BY <1>2, <1>8, <2>10
        <3>2. StopReason(k.finish) \in {"tool_use", "end_turn"}
            BY DEF StopReason
        <3>3. Over(q, c)
            BY <2>6, <3>1, <3>2, SpeaksEnd
        <3> QED
            BY <1>3, <1>4, <2>10, <3>3 DEF Standing, Over, Ending
    <2> QED
        BY <2>9, <2>10
<1> QED
    BY <1>6, <1>7, <1>8

LEMMA NoCallsResponses ==
    ASSUME NEW r, NEW parts \in Seq(Part), Len(parts) = 0
    PROVE  Each(ResponsesPart, r, parts) = r
<1>1. Len(parts) <= 2
    OBVIOUS
<1> QED
    BY <1>1, EachResponses, Zenon

LEMMA Looses ==
    /\ LooseFrame("thinking", <<>>) \in Framing /\ LooseFrame("thinking", <<>>).f = "loose"
    /\ LooseFrame("text", <<>>) \in Framing /\ LooseFrame("text", <<>>).f = "loose"
    BY NoBlockType DEF LooseFrame, Frame, Framing, Kinds

LEMMA ListsLoose ==
    ASSUME NEW r, NEW c, Listing(r, c), NEW f \in Framing, f.f = "loose"
    PROVE  Listing(Send(r, f), c) /\ Send(r, f).block = r.block
<1> DEFINE q == Send(r, f)
<1>1. Writing(q, c, NextItem(r)) /\ q.block = r.block /\ q.next = r.next /\ q.seen = r.seen
    BY SendsLoose DEF Listing
<1> HIDE DEF q
<1>2. NextItem(q) = NextItem(r)
    BY <1>1 DEF NextItem
<1>3. Listing(q, c) /\ q.block = r.block
    BY <1>1, <1>2 DEF Listing
<1> QED
    BY <1>3 DEF q

LEMMA ResponsesFed ==
    ASSUME NEW r, NEW c, NEW s, NEW n \in Nat, Standing("responses", r, c, s, n), r.out = <<>>,
           s \in Seq(Chunk), n < Len(s), Suits(s, n, s[n + 1])
    PROVE  Standing("responses", ResponsesFeed(r, s[n + 1]), c, s, n + 1)
<1> DEFINE k == s[n + 1]
           q == ResponsesFeed(r, k)
           begun    == IF r.started THEN r
                       ELSE [Send(r, [BeginFrame EXCEPT !.kind = "response_id"]) EXCEPT !.started = TRUE]
           thinking == IF k.reasoning THEN Send(begun, LooseFrame("thinking", <<>>)) ELSE begun
           text     == IF k.text THEN Send(thinking, LooseFrame("text", <<>>)) ELSE thinking
           calls    == Each(ResponsesPart, text, k.calls)
<1>1. k \in Chunk /\ k.calls \in Seq(Part) /\ k.finish \in Reasons \union {NoReason}
    <2>1. n + 1 \in DOMAIN s
        OBVIOUS
    <2>2. k \in Chunk
        BY <2>1
    <2> HIDE DEF k
    <2> QED
        BY <2>2 DEF Chunk
<1>2. q = IF k.done \/ r.finished THEN r
          ELSE IF ~k.choice THEN begun
          ELSE IF k.finish = NoReason THEN calls ELSE ResponsesEnd(calls)
    BY DEF ResponsesFeed
<1>3. /\ EndedBy(s, n + 1) <=> EndedBy(s, n) \/ Ending(k)
      /\ NamedBy(s, n + 1) <=> NamedBy(s, n) \/ Naming(k)
    BY OneFurther
<1>4. /\ r \in Renderers /\ c \in Clients /\ n + 1 > 0
      /\ r.finished => EndedBy(s, n)
      /\ ~r.finished /\ NamedBy(s, n) => r.block # NoBlock
      /\ n > 0 => r.started
    BY DEF Standing
<1>5. Suits(s, n, k)
    OBVIOUS
<1> HIDE DEF k, q
<1> SUFFICES ASSUME TRUE PROVE Standing("responses", q, c, s, n + 1)
    BY DEF q, k
<1>6. CASE r.finished
    <2>1. Plain(k) /\ Over(r, c)
        BY <1>4, <1>5, <1>6 DEF Suits, Standing, InMessage, Listing, Writing
    <2>2. q = r
        BY <1>2, <1>6
    <2> QED
        BY <1>3, <1>4, <1>6, <2>1, <2>2 DEF Standing, Over
<1>7. CASE ~r.finished /\ k.done
    <2>1. n > 0 /\ Plain(k)
        BY <1>5, <1>7 DEF Suits
    <2>2. Listing(r, c)
        BY <1>7, <2>1 DEF Standing, InMessage, Over
    <2>3. q = r /\ r.started
        BY <1>2, <1>4, <1>7, <2>1
    <2>4. ~Naming(k)
        BY <1>1, <2>1, PlainParts
    <2> QED
        BY <1>3, <1>4, <1>7, <2>2, <2>3, <2>4 DEF Standing, InMessage
<1>8. CASE ~r.finished /\ ~k.done
    <2>1. Listing(begun, c) /\ begun.block = r.block
        <3>1. Listing(r, c) => r.started
            BY DEF Listing, Writing
        <3>2. ~Over(r, c) /\ InMessage("responses", r, c) = Listing(r, c)
            BY <1>8 DEF Over, InMessage
        <3>3. \/ r.started /\ Listing(r, c)
              \/ /\ ~r.started /\ r.block = NoBlock /\ r.seen = {}
                 /\ c.phase = "none" /\ c.open = NoIndex /\ c.next = r.next
            BY <3>1, <3>2 DEF Standing
        <3> QED
            BY <1>4, <1>8, <3>3, BeginsResponses
    <2> HIDE DEF begun
    <2>2. Listing(thinking, c) /\ thinking.block = begun.block
        BY <2>1, ListsLoose, Looses
    <2> HIDE DEF thinking
    <2>3. Listing(text, c) /\ text.block = thinking.block
        BY <2>2, ListsLoose, Looses
    <2> HIDE DEF text
    <2>4. \A m \in DOMAIN k.calls : /\ k.calls[m].name = k.calls[m].id
                                    /\ k.calls[m].id = NoId => text.block # NoBlock
        BY <1>4, <1>5, <1>8, <2>1, <2>2, <2>3 DEF Suits
    <2>5. Len(k.calls) <= 2
        BY <1>5 DEF Suits
    <2>6. Listing(calls, c) /\ (text.block # NoBlock \/ k.calls # <<>> => calls.block # NoBlock)
        BY <1>1, <2>3, <2>4, <2>5, ListsParts
    <2> HIDE DEF calls
    <2>7. Naming(k) => k.calls # <<>>
        BY DEF Naming
    <2>8. NamedBy(s, n + 1) => calls.block # NoBlock
        BY <1>3, <1>4, <1>8, <2>1, <2>2, <2>3, <2>6, <2>7
    <2>9. CASE ~k.choice
        <3>1. q = begun /\ ~Naming(k)
            BY <1>1, <1>2, <1>5, <1>8, <2>9, PlainParts DEF Suits
        <3>2. q \in Renderers /\ q.started /\ ~q.finished
            BY <2>1, <3>1 DEF Listing, Writing
        <3> QED
            BY <1>3, <1>4, <1>8, <2>1, <3>1, <3>2 DEF Standing, InMessage
    <2>10. CASE k.choice /\ k.finish = NoReason
        <3>1. q = calls /\ Listing(q, c)
            BY <1>2, <1>8, <2>6, <2>10
        <3>2. q \in Renderers /\ q.started /\ ~q.finished
            BY <3>1 DEF Listing, Writing
        <3> QED
            BY <1>4, <2>8, <3>1, <3>2 DEF Standing, InMessage
    <2>11. CASE k.choice /\ k.finish # NoReason
        <3>1. q = ResponsesEnd(calls)
            BY <1>2, <1>8, <2>11
        <3>2. Over(q, c)
            BY <2>6, <3>1, ListsEnd
        <3> QED
            BY <1>3, <1>4, <2>11, <3>2 DEF Standing, Over, Ending
    <2> QED
        BY <2>9, <2>10, <2>11
<1> QED
    BY <1>6, <1>7, <1>8

(***************************************************************************)
(* The client and the renderer of one answer                               *)
(***************************************************************************)

(* The frames of a payload, written to the client.                         *)
LEMMA Handover ==
    ASSUME NEW fe, NEW q, NEW c, NEW s, NEW n \in Nat, n > 0, Standing(fe, q, c, s, n),
           NEW r, r = [q EXCEPT !.out = <<>>]
    PROVE  /\ q.out \in Seq(Framing) /\ r.out = <<>>
           /\ \E d \in Clients : Reading(q.out, 0, c, d) /\ Standing(fe, r, d, s, n)
<1>1. q \in Renderers /\ q.started /\ (InMessage(fe, q, c) \/ Over(q, c))
    BY DEF Standing
<1>2. /\ r \in Renderers /\ r.out = <<>> /\ r.started = q.started /\ r.finished = q.finished
      /\ r.block = q.block /\ r.next = q.next /\ r.seen = q.seen
    <2>1. <<>> \in Seq(Framing)
        OBVIOUS
    <2> QED
        BY <1>1, <2>1 DEF Renderers
<1>3. \A d \in Clients : Reading(r.out, 0, d, d)
    <2>1. <<>> \in Seq(Framing) /\ Len(<<>>) = 0
        OBVIOUS
    <2> QED
        BY <1>2, <2>1, ReadingNothing
<1>4. ASSUME NEW m, Writing(q, c, m)
      PROVE  \E d \in Clients : Reading(q.out, 0, c, d) /\ Writing(r, d, m)
    <2>1. PICK d \in Clients : Reading(q.out, 0, c, d) /\ d.phase = "begun"
                               /\ d.open = q.block.index /\ d.next = m
        BY <1>4 DEF Writing
    <2>2. Writing(r, d, m)
        BY <1>2, <1>3, <1>4, <2>1 DEF Writing
    <2> QED
        BY <2>1, <2>2
<1>5. CASE InMessage(fe, q, c)
    <2>1. CASE fe = "anthropic"
        <3>1. PICK d \in Clients : Reading(q.out, 0, c, d) /\ Writing(r, d, q.next)
            BY <1>4, <1>5, <2>1 DEF InMessage, Speaking
        <3>2. InMessage(fe, r, d)
            BY <1>2, <2>1, <3>1 DEF InMessage, Speaking
        <3>3. Standing(fe, r, d, s, n)
            BY <1>1, <1>2, <3>1, <3>2 DEF Standing
        <3> QED
            BY <1>1, <1>2, <3>1, <3>3 DEF Renderers
    <2>2. CASE fe # "anthropic"
        <3>1. PICK d \in Clients : Reading(q.out, 0, c, d) /\ Writing(r, d, NextItem(q))
            BY <1>4, <1>5, <2>2 DEF InMessage, Listing
        <3>2. InMessage(fe, r, d)
            BY <1>2, <1>5, <2>2, <3>1 DEF InMessage, Listing, NextItem
        <3>3. Standing(fe, r, d, s, n)
            BY <1>1, <1>2, <3>1, <3>2 DEF Standing
        <3> QED
            BY <1>1, <1>2, <3>1, <3>3 DEF Renderers
    <2> QED
        BY <2>1, <2>2
<1>6. CASE Over(q, c)
    <2>1. PICK d \in Clients : Reading(q.out, 0, c, d) /\ d.phase = "ended"
        BY <1>6 DEF Over
    <2>2. Over(r, d)
        BY <1>2, <1>3, <1>6, <2>1 DEF Over
    <2>3. Standing(fe, r, d, s, n)
        BY <1>1, <1>2, <2>1, <2>2 DEF Standing
    <2> QED
        BY <1>1, <1>2, <2>1, <2>3 DEF Renderers
<1> QED
    BY <1>1, <1>5, <1>6

(* The renderer stands where its client will when it has read the frames.  *)
FramedInv ==
    IsFramed =>
        /\ fed \in 0..Len(sent) /\ read \in 0..Len(frames) /\ frames \in Seq(Framing)
        /\ renderer.out = <<>>
        /\ \E d \in Clients : /\ Reading(frames, read, client, d)
                              /\ Standing(frontend, renderer, d, sent, fed)

LEMMA FramedInitially == Init => FramedInv
<1> SUFFICES ASSUME Init PROVE FramedInv
    OBVIOUS
<1>1. /\ sent = <<>> /\ fed = 0 /\ frames = <<>> /\ read = 0 /\ renderer = NewRenderer
      /\ client = [phase |-> "none", open |-> NoIndex, next |-> 0, at |-> NoIndex]
    BY DEF Init, TranslatorInit
<1>2. <<>> \in Seq(Framing) /\ Len(<<>>) = 0
    OBVIOUS
<1>3. client \in Clients
    BY <1>1, NoBlockType DEF Clients
<1>4. Reading(frames, read, client, client)
    BY <1>1, <1>2, <1>3, ReadingNothing
<1>5. renderer \in Renderers
    BY <1>1, <1>2, NoBlockType DEF Renderers, NewRenderer
<1>6. Standing(frontend, renderer, client, sent, fed)
    <2>1. ~NamedBy(sent, fed)
        BY <1>1 DEF NamedBy
    <2> QED
        BY <1>1, <1>3, <1>5, <2>1 DEF Standing, NewRenderer
<1>7. renderer.out = <<>> /\ fed \in 0..Len(sent) /\ read \in 0..Len(frames)
    BY <1>1, <1>2 DEF NewRenderer
<1> QED
    BY <1>1, <1>2, <1>3, <1>4, <1>6, <1>7 DEF FramedInv

(* Payloads are only added. *)
Longer(s, t) == Len(s) <= Len(t) /\ \A i \in 1..Len(s) : t[i] = s[i]

LEMMA MoreSent ==
    ASSUME NEW S, NEW s \in Seq(S), NEW c, NEW d
    PROVE  Longer(s, s) /\ Longer(s, Append(s, c)) /\ Longer(s, s \o <<c, d>>)
<1> DEFINE T == S \union {c, d}
<1>1. s \in Seq(T) /\ c \in T /\ d \in T
    <2>1. S \subseteq T
        OBVIOUS
    <2>2. Len(s) \in Nat /\ s = [i \in 1..Len(s) |-> s[i]] /\ \A i \in 1..Len(s) : s[i] \in S
        OBVIOUS
    <2> HIDE DEF T
    <2>3. s \in [1..Len(s) -> T]
        BY <2>1, <2>2
    <2>4. s \in Seq(T)
        BY <2>2, <2>3
    <2> QED
        BY <2>4 DEF T
<1> HIDE DEF T
<1>2. <<c, d>> \in Seq(T) /\ Len(<<c, d>>) = 2
    BY <1>1
<1> DEFINE u == <<c, d>>
<1> HIDE DEF u
<1>3. Longer(s, s \o u)
    <2>1. u \in Seq(T) /\ Len(u) = 2
        BY <1>2 DEF u
    <2> QED
        BY <1>1, <2>1 DEF Longer
<1>4. Longer(s, s) /\ Longer(s, Append(s, c))
    BY <1>1 DEF Longer
<1> QED
    BY <1>3, <1>4 DEF u

LEMMA SentLonger ==
    ASSUME sent \in Seq(Chunk), TranslatorNext PROVE Longer(sent, sent')
<1>1. ASSUME NEW c, Emit(c) PROVE Longer(sent, sent')
    BY <1>1, MoreSent DEF Emit
<1>2. ASSUME NEW c, EmitAndStop(c) PROVE Longer(sent, sent')
    BY <1>2, MoreSent DEF EmitAndStop
<1>3. CASE Skip
    BY <1>3, MoreSent DEF Skip
<1>4. CASE CommandCodeLine
    <2>1. ASSUME NEW reason, FinishOnce(reason) PROVE Longer(sent, sent')
        BY <1>1, <1>3, <2>1 DEF FinishOnce
    <2> QED
        BY <1>1, <1>2, <1>3, <1>4, <2>1
        DEF CommandCodeLine, CcDelta, CcNoise, CcToolCall, CcInputStart, CcInputDelta,
            CcInputEnd, CcFinish, CcFinishStep, CcError
<1>5. CASE OpenAiLine
    BY <1>1, <1>2, <1>3, <1>5 DEF OpenAiLine, OpenAiPayload, OpenAiNoise, OpenAiDone
<1>6. CASE AnthropicLine
    BY <1>1, <1>2, <1>3, <1>6
    DEF AnthropicLine, AnToolStart, AnDelta, AnNoise, AnMessageDelta, AnMessageStop
<1>7. CASE GeminiLine
    BY <1>1, <1>2, <1>3, <1>7 DEF GeminiLine, GeminiParts, GeminiNoise
<1>8. CASE Eof
    BY <1>8, MoreSent DEF Eof
<1> QED
    BY <1>4, <1>5, <1>6, <1>7, <1>8 DEF TranslatorNext

LEMMA StandsOn ==
    ASSUME NEW fe, NEW r, NEW c, NEW s \in Seq(Chunk), NEW t \in Seq(Chunk), Longer(s, t),
           NEW n \in 0..Len(s), Standing(fe, r, c, s, n)
    PROVE  Standing(fe, r, c, t, n)
<1>1. \A i \in Nat : i <= n => (i \in DOMAIN s <=> i \in DOMAIN t) /\ (i \in DOMAIN s => t[i] = s[i])
    BY DEF Longer
<1>2. \A i \in DOMAIN s \union DOMAIN t : i \in Nat
    OBVIOUS
<1>3. (EndedBy(s, n) <=> EndedBy(t, n)) /\ (NamedBy(s, n) <=> NamedBy(t, n))
    BY <1>1, <1>2 DEF EndedBy, NamedBy
<1> QED
    BY <1>3 DEF Standing

LEMMA RendersFramed ==
    ASSUME FramedInv, ToldInv, Render, IsFramed PROVE FramedInv'
<1>1. /\ fed \in 0..Len(sent) /\ read \in 0..Len(frames) /\ frames \in Seq(Framing)
      /\ renderer.out = <<>> /\ frontend \in {"anthropic", "responses"} /\ orderly
    BY DEF FramedInv, IsFramed
<1>2. PICK d \in Clients : /\ Reading(frames, read, client, d)
                           /\ Standing(frontend, renderer, d, sent, fed)
    BY DEF FramedInv
<1>3. /\ fed < Len(sent) /\ read = Len(frames) /\ fed' = fed + 1 /\ sent' = sent
      /\ frontend' = frontend /\ read' = read /\ client' = client /\ orderly' = orderly
    BY DEF Render, translatorVars
<1>4. OrderlySent(sent) /\ sent \in Seq(Chunk)
    BY <1>1 DEF ToldInv, ToldNow, Told, OrderlySent
<1>5. fed \in Nat /\ fed + 1 \in DOMAIN sent /\ Len(sent) \in Nat
    BY <1>1, <1>3, <1>4
<1>6. Suits(sent, fed, sent[fed + 1])
    <2>1. (fed + 1) - 1 = fed
        BY <1>5
    <2> QED
        BY <1>4, <1>5, <2>1 DEF OrderlySent
<1>7. client = d
    <2>1. Len(frames) \in Nat /\ read \in read..Len(frames)
        BY <1>1, <1>3
    <2> QED
        BY <1>2, <1>3, <2>1 DEF Reading
<1> DEFINE q == Feed(frontend, renderer, sent[fed + 1])
<1>8. frames' = frames \o q.out /\ renderer' = [q EXCEPT !.out = <<>>]
    BY DEF Render
<1>9. Standing(frontend, q, client, sent, fed + 1)
    <2>1. CASE frontend = "anthropic"
        <3>1. q = AnthropicFeed(renderer, sent[fed + 1])
            BY <2>1 DEF Feed
        <3> HIDE DEF q
        <3> QED
            BY <1>1, <1>2, <1>3, <1>4, <1>5, <1>6, <1>7, <2>1, <3>1, AnthropicFed
    <2>2. CASE frontend = "responses"
        <3>1. q = ResponsesFeed(renderer, sent[fed + 1])
            BY <2>2 DEF Feed
        <3> HIDE DEF q
        <3> QED
            BY <1>1, <1>2, <1>3, <1>4, <1>5, <1>6, <1>7, <2>2, <3>1, ResponsesFed
    <2> QED
        BY <1>1, <2>1, <2>2
<1> HIDE DEF q
<1>10. /\ q.out \in Seq(Framing) /\ renderer'.out = <<>>
       /\ \E e \in Clients : /\ Reading(q.out, 0, client, e)
                             /\ Standing(frontend, renderer', e, sent, fed + 1)
    BY <1>5, <1>8, <1>9, Handover
<1>11. PICK e \in Clients : /\ Reading(q.out, 0, client, e)
                            /\ Standing(frontend, renderer', e, sent, fed + 1)
    BY <1>10
<1>12. frames' \in Seq(Framing) /\ read' \in 0..Len(frames')
    <2>1. q.out \in Seq(Framing)
        BY <1>10
    <2> DEFINE o == q.out
    <2> HIDE DEF o
    <2>2. o \in Seq(Framing) /\ frames' = frames \o o
        BY <1>8, <2>1 DEF o
    <2> QED
        BY <1>1, <1>3, <2>2
<1>13. Reading(frames', read', client', e)
    BY <1>1, <1>3, <1>8, <1>10, <1>11, ReadingJoined
<1>14. Standing(frontend', renderer', e, sent', fed') /\ fed' \in 0..Len(sent')
    BY <1>3, <1>5, <1>11
<1> QED
    BY <1>10, <1>11, <1>12, <1>13, <1>14 DEF FramedInv

LEMMA ReadsFramed ==
    ASSUME FramedInv, ClientReads, IsFramed
    PROVE  /\ FramedInv'
           /\ read < Len(frames) /\ frames[read + 1] \in Framing
           /\ read' = read + 1
           /\ client \in Clients /\ Allowed(client, frames[read + 1])
           /\ client' = After(client, frames[read + 1])
<1>1. /\ fed \in 0..Len(sent) /\ read \in 0..Len(frames) /\ frames \in Seq(Framing)
      /\ renderer.out = <<>>
    BY DEF FramedInv
<1>2. PICK d \in Clients : /\ Reading(frames, read, client, d)
                           /\ Standing(frontend, renderer, d, sent, fed)
    BY DEF FramedInv
<1>3. /\ read < Len(frames) /\ read' = read + 1 /\ fed' = fed /\ sent' = sent
      /\ frontend' = frontend /\ frames' = frames /\ renderer' = renderer
    BY DEF ClientReads, translatorVars
<1> DEFINE f == frames[read + 1]
<1>4. client' = After(client, f)
    BY DEF ClientReads, After
<1>5. read \in Nat /\ read + 1 \in DOMAIN frames /\ Len(frames) \in Nat
    BY <1>1, <1>3
<1>6. f \in Framing
    BY <1>1, <1>5
<1> HIDE DEF f
<1>7. client \in Clients /\ Allowed(client, f) /\ Reading(frames, read + 1, After(client, f), d)
    BY <1>1, <1>2, <1>3, <1>5, ReadingStep DEF f
<1>8. Reading(frames', read', client', d) /\ Standing(frontend', renderer', d, sent', fed')
    BY <1>2, <1>3, <1>4, <1>7
<1>9. /\ fed' \in 0..Len(sent') /\ read' \in 0..Len(frames') /\ frames' \in Seq(Framing)
      /\ renderer'.out = <<>>
    BY <1>1, <1>3, <1>5
<1>10. FramedInv'
    BY <1>8, <1>9 DEF FramedInv
<1> QED
    BY <1>3, <1>4, <1>6, <1>7, <1>10 DEF f

LEMMA FramedInductive ==
    FramedInv /\ ToldInv /\ ToldInv' /\ [Next]_vars => FramedInv'
<1> SUFFICES ASSUME FramedInv, ToldInv, ToldInv', [Next]_vars, IsFramed' PROVE FramedInv'
    BY DEF FramedInv
<1>1. IsFramed
    BY StreamStays DEF IsFramed
<1>2. CASE UNCHANGED vars
    BY <1>2 DEF vars, translatorVars, handlerVars, FramedInv, IsFramed
<1>3. CASE Translate
    <2>1. /\ fed \in 0..Len(sent) /\ read \in 0..Len(frames) /\ frames \in Seq(Framing)
          /\ renderer.out = <<>>
        BY <1>1 DEF FramedInv
    <2>2. PICK d \in Clients : /\ Reading(frames, read, client, d)
                               /\ Standing(frontend, renderer, d, sent, fed)
        BY <1>1 DEF FramedInv
    <2>3. /\ TranslatorNext /\ fed' = fed /\ read' = read /\ frames' = frames
          /\ renderer' = renderer /\ client' = client /\ frontend' = frontend
        BY <1>3 DEF Translate, handlerVars
    <2>4. sent \in Seq(Chunk)
        BY <1>1 DEF ToldInv, ToldNow, Told, OrderlySent, IsFramed
    <2>5. sent' \in Seq(Chunk)
        BY DEF ToldInv, ToldNow, Told, OrderlySent, IsFramed
    <2>6. Longer(sent, sent')
        BY <2>3, <2>4, SentLonger
    <2>7. Standing(frontend, renderer, d, sent', fed)
        BY <2>1, <2>2, <2>4, <2>5, <2>6, StandsOn
    <2>8. fed \in 0..Len(sent')
        BY <2>1, <2>4, <2>5, <2>6 DEF Longer
    <2> QED
        BY <2>1, <2>2, <2>3, <2>7, <2>8 DEF FramedInv
<1>4. CASE Render
    BY <1>1, <1>4, RendersFramed
<1>5. CASE ClientReads
    BY <1>1, <1>5, ReadsFramed
<1> QED
    BY <1>2, <1>3, <1>4, <1>5 DEF Next

LEMMA FramedStep == FramedInv /\ [Next]_vars => [FS!Next]_(FS!vars)
<1> SUFFICES ASSUME FramedInv, [Next]_vars PROVE [FS!Next]_(FS!vars)
    OBVIOUS
<1>1. IsFramed' <=> IsFramed
    BY StreamStays DEF IsFramed
<1>2. CASE ~IsFramed
    BY <1>1, <1>2 DEF FS!vars
<1>3. CASE IsFramed /\ ~ClientReads
    <2>1. client' = client /\ read' = read
        BY <1>3 DEF Next, vars, handlerVars, Translate, Render
    <2> QED
        BY <1>1, <2>1 DEF FS!vars
<1>4. CASE IsFramed /\ ClientReads
    <2> DEFINE f == frames[read + 1]
    <2>1. /\ f \in Framing /\ read' = read + 1
          /\ client \in Clients /\ Allowed(client, f) /\ client' = After(client, f)
        BY <1>4, ReadsFramed
    <2> HIDE DEF f
    <2>2. f.f \in {"begin", "open", "delta", "close", "loose", "stop", "end"}
        BY <2>1 DEF Framing
    <2>3. /\ client'.phase = IF f.f = "begin" THEN "begun" ELSE IF f.f = "end" THEN "ended"
                             ELSE client.phase
          /\ client'.open = IF f.f = "open" THEN f.index ELSE IF f.f = "close" THEN NoIndex
                            ELSE client.open
          /\ client'.next = IF f.f = "open" THEN f.index + 1 ELSE client.next
          /\ client'.at = IF f.f \in {"open", "delta", "close"} THEN f.index ELSE client.at
        BY <2>1 DEF After
    <2>4. CASE f.f = "begin"
        BY <1>1, <1>4, <2>1, <2>3, <2>4 DEF Allowed, FS!Next, FS!Begin
    <2>5. CASE f.f = "open"
        BY <1>1, <1>4, <2>1, <2>3, <2>5 DEF Allowed, FS!Next, FS!Open
    <2>6. CASE f.f = "delta"
        BY <1>1, <1>4, <2>1, <2>3, <2>6 DEF Allowed, FS!Next, FS!Delta
    <2>7. CASE f.f = "close"
        BY <1>1, <1>4, <2>1, <2>3, <2>7 DEF Allowed, FS!Next, FS!Close
    <2>8. CASE f.f \in {"loose", "stop"}
        BY <1>1, <1>4, <2>1, <2>3, <2>8 DEF Allowed, FS!Next, FS!Loose
    <2>9. CASE f.f = "end"
        BY <1>1, <1>4, <2>1, <2>3, <2>9 DEF Allowed, FS!Next, FS!End
    <2> QED
        BY <2>2, <2>4, <2>5, <2>6, <2>7, <2>8, <2>9
<1> QED
    BY <1>2, <1>3, <1>4

LEMMA FramedInvariant == Spec => []FramedInv
<1>1. Init => CommandCodeInv /\ ToldInv /\ FramedInv
    BY CommandCodeInit, ToldInitially, FramedInitially
<1>2. CommandCodeInv /\ ToldInv /\ FramedInv /\ [Next]_vars
        => (CommandCodeInv /\ ToldInv /\ FramedInv)'
    <2>1. ASSUME CommandCodeInv, ToldInv, FramedInv, [Next]_vars
          PROVE  CommandCodeInv' /\ ToldInv' /\ FramedInv'
        <3>1. CommandCodeInv' /\ ToldInv'
            BY <2>1, CommandCodeInductive, ToldInductive
        <3> QED
            BY <2>1, <3>1, FramedInductive
    <2> QED
        BY <2>1
<1> QED
    BY <1>1, <1>2, PTL DEF Spec

(* Whatever an orderly upstream of any of the four providers streams, with *)
(* any number of calls and lines, an Anthropic or Responses client reads a *)
(* message that begins once, whose blocks open, fill and close one at a    *)
(* time and are numbered without gaps, and that ends at most once, after   *)
(* its last block: the frames implement FrameStream                        *)
(* (AnthropicStreamRenderer and ResponsesStreamRenderer::feed).            *)
THEOREM FramesKeepTheDialect == Spec => Framed
<1>1. Init => FS!Init
    BY DEF Init, TranslatorInit, FS!Init
<1>2. Spec => []FramedInv
    BY FramedInvariant
<1> QED
    BY <1>1, <1>2, FramedStep, PTL DEF Spec, Framed, FS!Spec

(***************************************************************************)
(* Types, whatever comes in any order                                      *)
(***************************************************************************)

CallTable == [index : Nat, args : Arguments]
StreamTyped ==
    /\ provider \in Providers /\ orderly \in BOOLEAN /\ reading \in BOOLEAN
    /\ log \in Seq(AllEvents) /\ sent \in Seq(Chunk)
StateTyped ==
    /\ finishSeen \in BOOLEAN /\ toolIndex \in Nat /\ seenCalls \subseteq Calls
    /\ DOMAIN toolParts \subseteq Calls
    /\ \A id \in DOMAIN toolParts : toolParts[id] \in CallTable

LEMMA TypedLine ==
    ASSUME log \in Seq(AllEvents), NEW p, NEW says \in Seq(AllEvents), Line(p, says)
    PROVE  log' \in Seq(AllEvents) /\ provider' = provider /\ orderly' = orderly
    BY DEF Line

LEMMA TypedSending ==
    ASSUME sent \in Seq(Chunk), reading \in BOOLEAN, NEW c \in Chunk,
           Skip \/ Emit(c) \/ EmitAndStop(c)
    PROVE  sent' \in Seq(Chunk) /\ reading' \in BOOLEAN
<1>1. DoneMarker \in Chunk
    BY PlainChunks
<1>2. <<c, DoneMarker>> \in Seq(Chunk)
    BY <1>1
<1> DEFINE u == <<c, DoneMarker>>
<1> HIDE DEF u
<1>3. sent \o u \in Seq(Chunk)
    BY <1>2 DEF u
<1>4. CASE Skip \/ Emit(c)
    BY <1>4 DEF Skip, Emit
<1>5. CASE EmitAndStop(c)
    BY <1>3, <1>5 DEF EmitAndStop, u
<1> QED
    BY <1>4, <1>5

(* A line that says e, and what goes out for it.                           *)
LEMMA TypedStep ==
    ASSUME StreamTyped, NEW p, NEW e \in AllEvents, Line(p, <<e>>), NEW c \in Chunk,
           Skip \/ Emit(c) \/ EmitAndStop(c)
    PROVE  StreamTyped'
<1>1. <<e>> \in Seq(AllEvents)
    BY OneSaid
<1>2. log' \in Seq(AllEvents) /\ provider' = provider /\ orderly' = orderly
    BY <1>1, TypedLine DEF StreamTyped
<1>3. sent' \in Seq(Chunk) /\ reading' \in BOOLEAN
    BY TypedSending DEF StreamTyped
<1> QED
    BY <1>2, <1>3 DEF StreamTyped

LEMMA TypedOpenAi ==
    ASSUME StreamTyped, OpenAiLine PROVE StreamTyped'
<1>1. CASE OpenAiPayload
    <2>1. PICK f \in OpenAiFrames : Line("openai", <<f.says>>) /\ Emit(f.chunk)
        BY <1>1 DEF OpenAiPayload
    <2>2. f.says \in AllEvents /\ f.chunk \in Chunk
        <3>1. CASE f \in {[says |-> Event("text"), chunk |-> TextChunk],
                          [says |-> Event("reasoning"), chunk |-> ReasoningChunk],
                          [says |-> Event("usage"), chunk |-> UsageChunk],
                          [says |-> Event("error"), chunk |-> ErrorChunk]}
            BY <3>1, BareEvent, BareChunks
        <3>2. CASE \E id \in Calls : f = [says |-> CallEvent("start", id),
                                          chunk |-> CallChunk(Cardinality(StartPlaces), id, <<>>)]
            <4>1. PICK id \in Calls : f = [says |-> CallEvent("start", id),
                                           chunk |-> CallChunk(Cardinality(StartPlaces), id, <<>>)]
                BY <3>2
            <4>2. Cardinality(StartPlaces) \in Nat /\ <<>> \in Arguments
                BY PlacesFinite DEF Arguments, StreamTyped
            <4>3. CallEvent("start", id) \in AllEvents
                BY EventOfACall
            <4> QED
                BY <4>1, <4>2, <4>3, CallChunks
        <3>3. CASE \E k \in StartPlaces :
                      f = [says |-> CallEvent("delta", log[k].id),
                           chunk |-> ArgsChunk(Numbered(k), <<log[k].id>>)]
            <4>1. PICK k \in StartPlaces :
                      f = [says |-> CallEvent("delta", log[k].id),
                           chunk |-> ArgsChunk(Numbered(k), <<log[k].id>>)]
                BY <3>3
            <4>2. log[k].id \in Calls /\ Numbered(k) \in Nat
                <5>1. {j \in StartPlaces : j < k} \in SUBSET DOMAIN log
                    BY PlacesFinite DEF StreamTyped
                <5> QED
                    BY <5>1, PlacesFinite DEF Numbered, StreamTyped
            <4> DEFINE id == log[k].id
            <4> HIDE DEF id
            <4>3. CallEvent("delta", id) \in AllEvents /\ <<id>> \in Arguments
                BY <4>2, EventOfACall DEF id, Arguments
            <4> QED
                BY <4>1, <4>2, <4>3, AnArgsChunk DEF id
        <3>4. CASE \E r \in Reasons : f = [says |-> [Event("finish") EXCEPT !.reason = r],
                                           chunk |-> FinishChunk(r)]
            <4>1. PICK r \in Reasons : f = [says |-> [Event("finish") EXCEPT !.reason = r],
                                            chunk |-> FinishChunk(r)]
                BY <3>4
            <4> DEFINE e == [Event("finish") EXCEPT !.reason = r]
            <4>2. e \in AllEvents
                BY AReason
            <4> HIDE DEF e
            <4>3. f = [says |-> e, chunk |-> FinishChunk(r)]
                BY <4>1 DEF e
            <4> QED
                BY <4>2, <4>3, BareChunks
        <3> QED
            BY <3>1, <3>2, <3>3, <3>4 DEF OpenAiFrames
    <2> QED
        BY <2>1, <2>2, TypedStep
<1>2. CASE OpenAiNoise
    <2>1. Event("noise") \in AllEvents /\ TextChunk \in Chunk
        BY BareEvent, BareChunks
    <2> QED
        BY <1>2, <2>1, TypedStep DEF OpenAiNoise
<1>3. CASE OpenAiDone
    <2>1. Line("openai", <<>>) /\ EmitAndStop(DoneMarker) /\ DoneMarker \in Chunk
          /\ <<>> \in Seq(AllEvents)
        BY <1>3, PlainChunks DEF OpenAiDone
    <2> QED
        BY <2>1, TypedLine, TypedSending DEF StreamTyped
<1> QED
    BY <1>1, <1>2, <1>3 DEF OpenAiLine

LEMMA TypedAnthropic ==
    ASSUME StreamTyped, AnthropicLine PROVE StreamTyped'
<1>1. \A id : BlockIndex(id) \in Nat
    <2> TAKE id
    <2> DEFINE S == {j \in DOMAIN log : /\ log[j].kind \in {"start", "block"}
                                        /\ \A k \in 1..j : ~(log[k].kind = "start" /\ log[k].id = id)}
    <2>1. S \subseteq DOMAIN log
        OBVIOUS
    <2>2. BlockIndex(id) = Cardinality(S)
        BY DEF BlockIndex
    <2> HIDE DEF S
    <2> QED
        BY <2>1, <2>2, PlacesFinite DEF StreamTyped
<1>2. CASE AnToolStart
    <2>1. PICK id \in Calls : /\ Line("anthropic", <<CallEvent("start", id)>>)
                              /\ Emit(CallChunk(BlockIndex(id), id, <<>>))
        BY <1>2 DEF AnToolStart
    <2>2. CallEvent("start", id) \in AllEvents /\ <<>> \in Arguments
        BY EventOfACall DEF Arguments
    <2>3. CallChunk(BlockIndex(id), id, <<>>) \in Chunk
        BY <1>1, <2>2, CallChunks
    <2> QED
        BY <2>1, <2>2, <2>3, TypedStep
<1>3. CASE AnDelta
    <2>1. CASE \E id \in Calls : /\ Line("anthropic", <<CallEvent("delta", id)>>)
                                 /\ Emit(ArgsChunk(BlockIndex(id), <<id>>))
        <3>1. PICK id \in Calls : /\ Line("anthropic", <<CallEvent("delta", id)>>)
                                  /\ Emit(ArgsChunk(BlockIndex(id), <<id>>))
            BY <2>1
        <3>2. CallEvent("delta", id) \in AllEvents /\ <<id>> \in Arguments
            BY EventOfACall DEF Arguments
        <3>3. ArgsChunk(BlockIndex(id), <<id>>) \in Chunk
            BY <1>1, <3>2, AnArgsChunk
        <3> QED
            BY <3>1, <3>2, <3>3, TypedStep
    <2>2. CASE \/ Line("anthropic", <<Event("text")>>) /\ Emit(TextChunk)
               \/ Line("anthropic", <<Event("reasoning")>>) /\ Emit(ReasoningChunk)
        <3>1. Event("text") \in AllEvents /\ Event("reasoning") \in AllEvents
              /\ TextChunk \in Chunk /\ ReasoningChunk \in Chunk
            BY BareEvent, BareChunks
        <3> QED
            BY <2>2, <3>1, TypedStep
    <2> QED
        BY <1>3, <2>1, <2>2 DEF AnDelta
<1>4. CASE AnNoise
    <2>1. PICK kind \in {"noise", "block"} : Line("anthropic", <<Event(kind)>>) /\ Skip
        BY <1>4 DEF AnNoise
    <2>2. Event(kind) \in AllEvents /\ TextChunk \in Chunk
        BY BareEvent, BareChunks
    <2> QED
        BY <2>1, <2>2, TypedStep
<1>5. CASE AnMessageDelta
    <2>1. PICK r \in Reasons : /\ Line("anthropic", <<[Event("finish") EXCEPT !.reason = r]>>)
                               /\ Emit(FinishChunk(r))
        BY <1>5 DEF AnMessageDelta
    <2> DEFINE e == [Event("finish") EXCEPT !.reason = r]
    <2>2. e \in AllEvents /\ FinishChunk(r) \in Chunk
        BY AReason, BareChunks
    <2>3. Line("anthropic", <<e>>)
        BY <2>1
    <2> HIDE DEF e
    <2> QED
        BY <2>1, <2>2, <2>3, TypedStep
<1>6. CASE AnMessageStop
    <2>1. Line("anthropic", <<>>) /\ EmitAndStop(DoneMarker) /\ DoneMarker \in Chunk
          /\ <<>> \in Seq(AllEvents)
        BY <1>6, PlainChunks DEF AnMessageStop
    <2> QED
        BY <2>1, TypedLine, TypedSending DEF StreamTyped
<1> QED
    BY <1>2, <1>3, <1>4, <1>5, <1>6 DEF AnthropicLine

LEMMA TypedGemini ==
    ASSUME StreamTyped, GeminiLine PROVE StreamTyped'
<1>1. CASE GeminiParts
    <2>1. PICK says, c, reason : GeminiMakes(says, c, reason)
        BY <1>1, GeminiLines
    <2>2. says \in Seq(AllEvents) /\ Line("gemini", says) /\ c \in Chunk /\ (Emit(c) \/ EmitAndStop(c))
        BY <2>1 DEF GeminiMakes
    <2> QED
        BY <2>2, TypedLine, TypedSending DEF StreamTyped
<1>2. CASE GeminiNoise
    <2>1. Event("noise") \in AllEvents /\ TextChunk \in Chunk
        BY BareEvent, BareChunks
    <2> QED
        BY <1>2, <2>1, TypedStep DEF GeminiNoise
<1> QED
    BY <1>1, <1>2 DEF GeminiLine

LEMMA TypedCommandCode ==
    ASSUME StreamTyped, StateTyped, CommandCodeLine PROVE StreamTyped' /\ StateTyped'
<1> DEFINE Ok(e, c) == /\ e \in AllEvents /\ c \in Chunk /\ Line("command-code", <<e>>)
                       /\ Skip \/ Emit(c) \/ EmitAndStop(c)
<1>1. ASSUME NEW e, NEW c, Ok(e, c) PROVE StreamTyped'
    BY <1>1, TypedStep
<1> HIDE DEF Ok
<1>2. TextChunk \in Chunk /\ ReasoningChunk \in Chunk /\ ErrorChunk \in Chunk
      /\ \A r \in Reasons : FinishChunk(r) \in Chunk
    BY BareChunks
<1>3. \A id \in Calls \union {NoId} : Remembers(id) => seenCalls' \subseteq Calls
    BY DEF Remembers, StateTyped
<1>4. CASE CcDelta
    <2>1. PICK c \in {TextChunk, ReasoningChunk} :
            Line("command-code", <<Event(IF c.text THEN "text" ELSE "reasoning")>>) /\ Emit(c)
        BY <1>4 DEF CcDelta
    <2>2. \E kind \in {"text", "reasoning"} : Ok(Event(kind), c)
        <3>1. Event("text") \in AllEvents /\ Event("reasoning") \in AllEvents
            BY BareEvent
        <3> QED
            BY <1>2, <2>1, <3>1 DEF Ok
    <2> QED
        BY <1>1, <1>4, <2>2 DEF CcDelta, state, StateTyped
<1>5. CASE CcNoise
    <2>1. Ok(Event("noise"), TextChunk)
        BY <1>2, <1>5, BareEvent DEF CcNoise, Ok
    <2> QED
        BY <1>1, <1>5, <2>1 DEF CcNoise, state, StateTyped
<1>6. CASE CcToolCall
    <2>1. PICK id \in Calls \union {NoId} :
            /\ Line("command-code", <<CallEvent("call", id)>>) /\ Remembers(id)
            /\ IF AlreadySeen(id) THEN Skip /\ UNCHANGED toolIndex
               ELSE /\ Emit(CallChunk(toolIndex, id, IF id = NoId THEN <<>> ELSE <<id>>))
                    /\ toolIndex' = toolIndex + 1
        BY <1>6 DEF CcToolCall
    <2> DEFINE args == IF id = NoId THEN <<>> ELSE <<id>>
    <2>2. args \in Arguments
        BY DEF Arguments
    <2> HIDE DEF args
    <2>3. CallChunk(toolIndex, id, args) \in Chunk
        BY <2>2, CallChunks DEF StateTyped
    <2>4. CallEvent("call", id) \in AllEvents
        BY EventOfACall
    <2>5. Ok(CallEvent("call", id), CallChunk(toolIndex, id, args))
        BY <2>1, <2>3, <2>4 DEF Ok, args
    <2>6. toolIndex' \in Nat /\ seenCalls' \subseteq Calls
        BY <1>3, <2>1 DEF StateTyped
    <2> QED
        BY <1>1, <1>6, <2>5, <2>6 DEF CcToolCall, StateTyped
<1>7. CASE CcInputStart
    <2>1. PICK id \in Calls :
            /\ Line("command-code", <<CallEvent("start", id)>>) /\ Skip
            /\ IF id \in DOMAIN toolParts THEN UNCHANGED <<toolParts, toolIndex>>
               ELSE /\ toolParts' = [x \in DOMAIN toolParts \union {id} |->
                                       IF x = id THEN [index |-> toolIndex, args |-> <<>>]
                                       ELSE toolParts[x]]
                    /\ toolIndex' = toolIndex + 1
        BY <1>7 DEF CcInputStart
    <2>2. Ok(CallEvent("start", id), TextChunk)
        BY <1>2, <2>1, EventOfACall DEF Ok
    <2>3. [index |-> toolIndex, args |-> <<>>] \in CallTable
        BY DEF StateTyped, CallTable, Arguments
    <2>4. /\ toolIndex' \in Nat /\ DOMAIN toolParts' \subseteq Calls
          /\ \A x \in DOMAIN toolParts' : toolParts'[x] \in CallTable
        BY <2>1, <2>3 DEF StateTyped
    <2> QED
        BY <1>1, <1>7, <2>2, <2>4 DEF CcInputStart, StateTyped
<1>8. CASE CcInputDelta
    <2>1. PICK id \in Calls :
            /\ Line("command-code", <<CallEvent("delta", id)>>) /\ Skip
            /\ toolParts' = [x \in DOMAIN toolParts |->
                               IF x = id THEN [toolParts[x] EXCEPT !.args = Append(@, id)]
                               ELSE toolParts[x]]
        BY <1>8 DEF CcInputDelta
    <2>2. Ok(CallEvent("delta", id), TextChunk)
        BY <1>2, <2>1, EventOfACall DEF Ok
    <2>3. \A x \in DOMAIN toolParts : [toolParts[x] EXCEPT !.args = Append(@, id)] \in CallTable
        <3> TAKE x \in DOMAIN toolParts
        <3>1. toolParts[x] \in CallTable
            BY DEF StateTyped
        <3> QED
            BY <3>1 DEF CallTable, Arguments
    <2>4. /\ DOMAIN toolParts' = DOMAIN toolParts
          /\ \A x \in DOMAIN toolParts' : toolParts'[x] \in CallTable
        BY <2>1, <2>3 DEF StateTyped
    <2> QED
        BY <1>1, <1>8, <2>2, <2>4 DEF CcInputDelta, StateTyped
<1>9. CASE CcInputEnd
    <2>1. PICK id \in Calls \union {NoId}, snapshot \in BOOLEAN :
            LET started == id \in DOMAIN toolParts
                index   == IF started THEN toolParts[id].index ELSE toolIndex
                args    == IF snapshot THEN (IF id = NoId THEN <<>> ELSE <<id>>)
                           ELSE IF started THEN toolParts[id].args ELSE <<>>
            IN  /\ Line("command-code", <<[Event("end") EXCEPT !.id = id, !.input = snapshot]>>)
                /\ Remembers(id) /\ Without(id)
                /\ IF AlreadySeen(id) THEN Skip /\ UNCHANGED toolIndex
                   ELSE /\ Emit(CallChunk(index, id, args))
                        /\ toolIndex' = IF started THEN toolIndex ELSE toolIndex + 1
        BY <1>9 DEF CcInputEnd
    <2> DEFINE started == id \in DOMAIN toolParts
               index   == IF started THEN toolParts[id].index ELSE toolIndex
               args    == IF snapshot THEN (IF id = NoId THEN <<>> ELSE <<id>>)
                          ELSE IF started THEN toolParts[id].args ELSE <<>>
               e       == [Event("end") EXCEPT !.id = id, !.input = snapshot]
    <2>2. args \in Arguments /\ index \in Nat /\ e \in AllEvents
        <3>1. started => toolParts[id] \in CallTable
            BY DEF StateTyped
        <3>2. index \in Nat
            BY <3>1 DEF StateTyped, CallTable
        <3>3. args \in Arguments
            BY <3>1 DEF CallTable, Arguments
        <3>4. e \in AllEvents
            BY EndOfACall
        <3> QED
            BY <3>2, <3>3, <3>4
    <2>3. /\ Line("command-code", <<e>>) /\ Remembers(id) /\ Without(id)
          /\ Skip \/ Emit(CallChunk(index, id, args))
          /\ toolIndex' \in {toolIndex, toolIndex + 1}
        BY <2>1
    <2> HIDE DEF started, index, args, e
    <2>4. CallChunk(index, id, args) \in Chunk
        BY <2>2, CallChunks
    <2>5. Ok(e, CallChunk(index, id, args))
        BY <2>2, <2>3, <2>4 DEF Ok
    <2>6. toolIndex' \in Nat /\ seenCalls' \subseteq Calls
        BY <1>3, <2>3 DEF StateTyped
    <2>7. /\ DOMAIN toolParts' \subseteq Calls
          /\ \A x \in DOMAIN toolParts' : toolParts'[x] \in CallTable
        BY <2>3 DEF Without, Restrict, StateTyped
    <2> QED
        BY <1>1, <1>9, <2>5, <2>6, <2>7 DEF CcInputEnd, StateTyped
<1>10. CASE CcFinish \/ CcFinishStep
    <2>1. PICK kind \in {"finish", "step"}, r \in Reasons :
            /\ Line("command-code", <<[Event(kind) EXCEPT !.reason = r]>>)
            /\ (Skip /\ UNCHANGED finishSeen) \/ FinishOnce(r)
        BY <1>10 DEF CcFinish, CcFinishStep
    <2> DEFINE e == [Event(kind) EXCEPT !.reason = r]
    <2>2. e \in AllEvents
        BY AReason
    <2>3. Line("command-code", <<e>>)
        BY <2>1
    <2> HIDE DEF e
    <2>4. Ok(e, FinishChunk(r))
        BY <1>2, <2>1, <2>2, <2>3 DEF Ok, FinishOnce
    <2>5. finishSeen' \in BOOLEAN
        BY <2>1 DEF FinishOnce, StateTyped
    <2> QED
        BY <1>1, <1>10, <2>4, <2>5 DEF CcFinish, CcFinishStep, StateTyped
<1>11. CASE CcError
    <2>1. Ok(Event("error"), ErrorChunk)
        BY <1>2, <1>11, BareEvent DEF CcError, Ok
    <2> QED
        BY <1>1, <1>11, <2>1 DEF CcError, state, StateTyped
<1> QED
    BY <1>4, <1>5, <1>6, <1>7, <1>8, <1>9, <1>10, <1>11 DEF CommandCodeLine

LEMMA TranslatorTyped ==
    ASSUME StreamTyped, StateTyped, TranslatorNext PROVE StreamTyped' /\ StateTyped'
<1>1. CASE CommandCodeLine
    BY <1>1, TypedCommandCode
<1>2. CASE OpenAiLine
    <2>1. StateTyped'
        BY <1>2 DEF OpenAiLine, OpenAiPayload, OpenAiNoise, OpenAiDone, state, StateTyped
    <2> QED
        BY <1>2, <2>1, TypedOpenAi
<1>3. CASE AnthropicLine
    <2>1. UNCHANGED state
        BY <1>3 DEF AnthropicLine, AnToolStart, AnDelta, AnNoise, AnMessageDelta, AnMessageStop
    <2> QED
        BY <1>3, <2>1, TypedAnthropic DEF state, StateTyped
<1>4. CASE GeminiLine
    <2>1. UNCHANGED state
        BY <1>4 DEF GeminiLine, GeminiParts, GeminiNoise
    <2> QED
        BY <1>4, <2>1, TypedGemini DEF state, StateTyped
<1>5. CASE Eof
    <2>1. DoneMarker \in Chunk
        BY PlainChunks
    <2>2. sent' \in {sent, Append(sent, DoneMarker)} /\ reading' = FALSE
          /\ UNCHANGED <<provider, orderly, state, log>>
        BY <1>5 DEF Eof
    <2>3. sent' \in Seq(Chunk)
        BY <2>1, <2>2 DEF StreamTyped
    <2> QED
        BY <2>2, <2>3 DEF state, StreamTyped, StateTyped
<1> QED
    BY <1>1, <1>2, <1>3, <1>4, <1>5 DEF TranslatorNext

(* Frames that neither open nor close anything, and renderers that write   *)
(* only such.                                                              *)
LooseOf(s, F) == s \in Seq(F) /\ \A f \in F : f.f \notin {"begin", "open", "delta", "close"}
Loosely(s)    == \E F : LooseOf(s, F)
Collects(r) ==
    /\ \E P, O : r \in [started : BOOLEAN, finished : BOOLEAN, block : {NoBlock}, next : {0},
                        seen : {{}}, pending : P, out : O]
    /\ Loosely(r.out) /\ IsFiniteSet(DOMAIN r.pending)

LEMMA LooserSeq ==
    ASSUME NEW S, NEW T, S \subseteq T, NEW s \in Seq(S) PROVE s \in Seq(T)
<1>1. Len(s) \in Nat /\ s = [i \in 1..Len(s) |-> s[i]] /\ \A i \in 1..Len(s) : s[i] \in S
    OBVIOUS
<1>2. s \in [1..Len(s) -> T]
    BY <1>1
<1> QED
    BY <1>1, <1>2

LEMMA LooselyOne ==
    ASSUME NEW f, f.f \notin {"begin", "open", "delta", "close"} PROVE Loosely(<<f>>)
<1>1. LooseOf(<<f>>, {f})
    BY DEF LooseOf
<1> QED
    BY <1>1 DEF Loosely

LEMMA LooselyNone == Loosely(<<>>)
<1>1. LooseOf(<<>>, {})
    BY DEF LooseOf
<1> QED
    BY <1>1 DEF Loosely

LEMMA LooselyJoined ==
    ASSUME NEW s, NEW t, Loosely(s), Loosely(t) PROVE Loosely(s \o t)
<1>1. PICK F : LooseOf(s, F)
    BY DEF Loosely
<1>2. PICK G : LooseOf(t, G)
    BY DEF Loosely
<1> DEFINE H == F \union G
<1>3. F \subseteq H /\ G \subseteq H /\ \A f \in H : f.f \notin {"begin", "open", "delta", "close"}
    BY <1>1, <1>2 DEF LooseOf
<1> HIDE DEF H
<1>4. s \in Seq(H) /\ t \in Seq(H)
    BY <1>1, <1>2, <1>3, LooserSeq DEF LooseOf
<1>5. LooseOf(s \o t, H)
    BY <1>3, <1>4 DEF LooseOf
<1> QED
    BY <1>5 DEF Loosely

LEMMA CollectsOut ==
    ASSUME NEW r, Collects(r), NEW o, Loosely(o)
    PROVE  LET q == [r EXCEPT !.out = o] IN
           Collects(q) /\ q.out = o
<1> DEFINE q == [r EXCEPT !.out = o]
<1>1. PICK P, O : r \in [started : BOOLEAN, finished : BOOLEAN, block : {NoBlock}, next : {0},
                         seen : {{}}, pending : P, out : O]
    BY DEF Collects
<1>2. q \in [started : BOOLEAN, finished : BOOLEAN, block : {NoBlock}, next : {0},
             seen : {{}}, pending : P, out : {o}]
    BY <1>1
<1>3. q.out = o /\ q.pending = r.pending
    BY <1>1
<1> HIDE DEF q
<1>4. \E Q, R : q \in [started : BOOLEAN, finished : BOOLEAN, block : {NoBlock}, next : {0},
                        seen : {{}}, pending : Q, out : R]
    <2> WITNESS P, {o}
    <2> QED
        BY <1>2
<1>5. Collects(q)
    BY <1>3, <1>4 DEF Collects
<1> QED
    BY <1>3, <1>5 DEF q

LEMMA CollectsOther ==
    ASSUME NEW r, Collects(r), NEW p, IsFiniteSet(DOMAIN p), NEW o, Loosely(o)
    PROVE  /\ Collects([r EXCEPT !.out = o, !.pending = p, !.finished = TRUE])
           /\ Collects([r EXCEPT !.pending = p])
           /\ Collects([r EXCEPT !.finished = TRUE])
<1>1. PICK P, O : r \in [started : BOOLEAN, finished : BOOLEAN, block : {NoBlock}, next : {0},
                         seen : {{}}, pending : P, out : O]
    BY DEF Collects
<1>2. Loosely(r.out) /\ IsFiniteSet(DOMAIN r.pending)
    BY DEF Collects
<1> DEFINE Q == {p, r.pending}
           R == {o, r.out}
           Rec == [started : BOOLEAN, finished : BOOLEAN, block : {NoBlock}, next : {0},
                   seen : {{}}, pending : Q, out : R]
<1>3. ASSUME NEW q \in Rec PROVE Collects(q)
    <2>1. Loosely(q.out) /\ IsFiniteSet(DOMAIN q.pending)
        BY <1>2
    <2>2. \E QQ, RR : q \in [started : BOOLEAN, finished : BOOLEAN, block : {NoBlock}, next : {0},
                             seen : {{}}, pending : QQ, out : RR]
        <3> WITNESS Q, R
        <3> QED
            OBVIOUS
    <2> QED
        BY <2>1, <2>2 DEF Collects
<1>4. r \in Rec
    BY <1>1
<1>5. /\ [r EXCEPT !.out = o, !.pending = p, !.finished = TRUE] \in Rec
      /\ [r EXCEPT !.pending = p] \in Rec
      /\ [r EXCEPT !.finished = TRUE] \in Rec
    BY <1>4
<1> HIDE DEF Rec
<1> QED
    BY <1>3, <1>5

(* Send of a frame that is not of a block. *)
LEMMA CollectsFrame ==
    ASSUME NEW r, Collects(r), NEW f, f.f \notin {"begin", "open", "delta", "close"}
    PROVE  Collects(Send(r, f))
<1> DEFINE o == Append(r.out, f)
<1>1. Loosely(o)
    <2>1. PICK F : LooseOf(r.out, F)
        BY DEF Collects, Loosely
    <2> DEFINE G == F \union {f}
    <2>2. F \subseteq G /\ f \in G /\ \A x \in G : x.f \notin {"begin", "open", "delta", "close"}
        BY <2>1 DEF LooseOf
    <2> HIDE DEF G
    <2>3. r.out \in Seq(G)
        BY <2>1, <2>2, LooserSeq DEF LooseOf
    <2>4. LooseOf(o, G)
        BY <2>2, <2>3 DEF LooseOf
    <2> HIDE DEF o
    <2> QED
        BY <2>4 DEF Loosely
<1>2. Send(r, f) = [r EXCEPT !.out = o]
    BY DEF Send
<1> HIDE DEF o
<1> QED
    BY <1>1, <1>2, CollectsOut

LEMMA LooselyListed ==
    ASSUME NEW n \in Nat, NEW p, p = [k \in 1..n |-> p[k]],
           \A k \in 1..n : p[k].f \notin {"begin", "open", "delta", "close"}
    PROVE  Loosely(p)
<1> DEFINE F == {p[k] : k \in 1..n}
<1>1. \A f \in F : f.f \notin {"begin", "open", "delta", "close"}
    OBVIOUS
<1>2. \A k \in 1..n : p[k] \in F
    OBVIOUS
<1> HIDE DEF F
<1>3. p \in [1..n -> F]
    BY <1>2
<1>4. p \in Seq(F)
    BY <1>3
<1> QED
    BY <1>1, <1>4 DEF Loosely, LooseOf

LEMMA OtherFrames ==
    ASSUME NEW i, NEW kind, NEW id, NEW args
    PROVE  /\ LooseFrame(kind, args).f = "loose" /\ EndFrame.f = "end" /\ StopFrame(kind).f = "stop"
           /\ Frame("part", i, kind, id, args).f = "part"
           /\ Frame("whole", i, kind, id, args).f = "whole"
    BY DEF LooseFrame, EndFrame, StopFrame, Frame

LEMMA CollectsText ==
    ASSUME NEW r, Collects(r), NEW b
    PROVE  Collects(IF b THEN Send(r, LooseFrame("text", <<>>)) ELSE r)
<1> DEFINE f == LooseFrame("text", <<>>)
<1>1. f.f \notin {"begin", "open", "delta", "close"}
    BY OtherFrames
<1> HIDE DEF f
<1>2. Collects(Send(r, f))
    BY <1>1, CollectsFrame
<1> QED
    BY <1>2 DEF f

LEMMA OllamaFed ==
    ASSUME NEW r, Collects(r), NEW c PROVE Collects(OllamaFeed(r, c))
<1> DEFINE text == IF c.text THEN Send(r, LooseFrame("text", <<>>)) ELSE r
<1>1. Collects(text)
    BY CollectsText
<1>2. OllamaFeed(r, c) \in {r, text, [Send(text, EndFrame) EXCEPT !.finished = TRUE]}
    BY DEF OllamaFeed
<1> HIDE DEF text
<1>3. Collects(Send(text, EndFrame))
    BY <1>1, CollectsFrame, OtherFrames
<1> DEFINE s == Send(text, EndFrame)
<1> HIDE DEF s
<1>4. Collects([s EXCEPT !.finished = TRUE])
    <2>1. IsFiniteSet(DOMAIN << >>)
        BY FS_EmptySet
    <2> QED
        BY <1>3, <2>1, LooselyNone, CollectsOther DEF s
<1> QED
    BY <1>1, <1>2, <1>4 DEF s

LEMMA GeminiCollects ==
    ASSUME NEW r, Collects(r), NEW p PROVE Collects(GeminiPart(r, p))
<1> DEFINE old == IF p.index \in DOMAIN r.pending THEN r.pending[p.index]
                  ELSE [names |-> <<>>, args |-> <<>>]
           new == [names |-> IF p.name = NoId THEN old.names ELSE Append(old.names, p.name),
                   args  |-> old.args \o p.args]
           more == [i \in DOMAIN r.pending \union {p.index} |->
                      IF i = p.index THEN new ELSE r.pending[i]]
<1>1. GeminiPart(r, p) = [r EXCEPT !.pending = more]
    BY DEF GeminiPart
<1> HIDE DEF new
<1>2. DOMAIN more = DOMAIN r.pending \union {p.index}
    OBVIOUS
<1> HIDE DEF more
<1>3. IsFiniteSet(DOMAIN more)
    BY <1>2, FS_AddElement DEF Collects
<1>4. Collects([r EXCEPT !.pending = more])
    BY <1>3, LooselyNone, CollectsOther
<1> QED
    BY <1>1, <1>4

LEMMA GeminiFlushes ==
    ASSUME NEW r, Collects(r) PROVE Collects(GeminiFlush(r))
<1> DEFINE indices == DOMAIN r.pending
           n == Cardinality(indices)
           Nth(k) == CHOOSE i \in indices : Cardinality({j \in indices : j < i}) = k - 1
           parts == [k \in 1..n |-> CallFrame(Nth(k), r.pending[Nth(k)])]
           o == (r.out \o parts) \o <<EndFrame>>
<1>1. n \in Nat
    BY FS_CardinalityType DEF Collects
<1>2. GeminiFlush(r) = [r EXCEPT !.out = o, !.pending = << >>, !.finished = TRUE]
    BY DEF GeminiFlush
<1>3. \A k \in 1..n : parts[k] = CallFrame(Nth(k), r.pending[Nth(k)])
    OBVIOUS
<1>4. parts = [k \in 1..n |-> parts[k]]
    OBVIOUS
<1> HIDE DEF n, Nth, parts
<1>5. \A i, p : CallFrame(i, p).f = "whole"
    BY DEF CallFrame, Frame
<1>6. Loosely(parts)
    BY <1>1, <1>3, <1>4, <1>5, LooselyListed
<1>7. Loosely(o)
    <2>1. Loosely(<<EndFrame>>)
        BY OtherFrames, LooselyOne
    <2>2. Loosely(r.out)
        BY DEF Collects
    <2> DEFINE t == r.out \o parts
    <2>3. Loosely(t)
        BY <1>6, <2>2, LooselyJoined
    <2> HIDE DEF t
    <2>4. Loosely(t \o <<EndFrame>>)
        BY <2>1, <2>3, LooselyJoined
    <2> QED
        BY <2>4 DEF t
<1> HIDE DEF o
<1>8. IsFiniteSet(DOMAIN << >>)
    BY FS_EmptySet
<1>9. Collects([r EXCEPT !.out = o, !.pending = << >>, !.finished = TRUE])
    BY <1>7, <1>8, CollectsOther
<1> QED
    BY <1>2, <1>9

LEMMA EachGemini ==
    ASSUME NEW r, NEW parts \in Seq(Part), Len(parts) <= 2
    PROVE  Each(GeminiPart, r, parts) =
             IF Len(parts) = 0 THEN r
             ELSE IF Len(parts) = 1 THEN GeminiPart(r, parts[1])
             ELSE GeminiPart(GeminiPart(r, parts[1]), parts[2])
<1> DEFINE n == Len(parts)
           one == GeminiPart(r, parts[1])
           two == GeminiPart(one, parts[2])
           Step(g, k) == IF k = 0 THEN r ELSE GeminiPart(g[k - 1], parts[k])
           w == [k \in 0..n |-> IF k = 0 THEN r ELSE IF k = 1 THEN one ELSE two]
           g == CHOOSE h : h = [k \in 0..n |-> Step(h, k)]
<1>1. n \in Nat /\ n \in 0..n /\ n <= 2
    OBVIOUS
<1>2. ASSUME NEW k \in 0..n PROVE w[k] = Step(w, k)
    <2>1. CASE k = 0
        BY <2>1
    <2>2. CASE k = 1
        <3>1. 0 \in 0..n /\ w[0] = r /\ w[1] = one
            BY <1>1, <2>2
        <3> QED
            BY <2>2, <3>1
    <2>3. CASE k = 2
        <3>1. 1 \in 0..n /\ w[1] = one /\ w[2] = two
            BY <1>1, <2>3
        <3> QED
            BY <2>3, <3>1
    <2> QED
        BY <1>1, <2>1, <2>2, <2>3
<1>3. w = [k \in 0..n |-> Step(w, k)]
    BY <1>2
<1>4. g = [k \in 0..n |-> Step(g, k)]
    <2> HIDE DEF w, Step
    <2> QED
        BY <1>3
<1>5. Each(GeminiPart, r, parts) = g[n]
    BY DEF Each
<1> HIDE DEF g
<1>6. \A k \in 0..n : g[k] = Step(g, k)
    BY <1>4
<1>7. g[0] = r
    BY <1>1, <1>6
<1>8. n >= 1 => g[1] = one
    <2> SUFFICES ASSUME n >= 1 PROVE g[1] = one
        OBVIOUS
    <2>1. 1 \in 0..n /\ 1 - 1 = 0
        BY <1>1
    <2>2. g[1] = Step(g, 1)
        BY <1>6, <2>1
    <2> QED
        BY <1>7, <2>2
<1>9. n = 2 => g[2] = two
    <2> SUFFICES ASSUME n = 2 PROVE g[2] = two
        OBVIOUS
    <2>1. 2 \in 0..n /\ 2 - 1 = 1
        BY <1>1
    <2>2. g[2] = Step(g, 2)
        BY <1>6, <2>1
    <2> QED
        BY <1>8, <2>2
<1> HIDE DEF n, one, two
<1>10. g[n] = IF n = 0 THEN r ELSE IF n = 1 THEN one ELSE two
    BY <1>1, <1>7, <1>8, <1>9
<1> QED
    BY <1>5, <1>10 DEF n, one, two

LEMMA GeminiFed ==
    ASSUME NEW r, Collects(r), NEW c \in Chunk, Len(c.calls) <= 2 PROVE Collects(GeminiFeed(r, c))
<1> DEFINE text  == IF c.text THEN Send(r, LooseFrame("text", <<>>)) ELSE r
           calls == Each(GeminiPart, text, c.calls)
           one   == GeminiPart(text, c.calls[1])
           two   == GeminiPart(one, c.calls[2])
<1>1. GeminiFeed(r, c) \in {r, calls, GeminiFlush(calls)}
    BY DEF GeminiFeed
<1>2. c.calls \in Seq(Part)
    BY DEF Chunk
<1>3. Collects(text)
    BY CollectsText
<1> HIDE DEF text
<1>4. calls = IF Len(c.calls) = 0 THEN text ELSE IF Len(c.calls) = 1 THEN one ELSE two
    BY <1>2, EachGemini
<1>5. Collects(one)
    BY <1>3, GeminiCollects
<1> HIDE DEF one, calls
<1>6. Collects(two)
    BY <1>5, GeminiCollects
<1> HIDE DEF two
<1>7. Collects(calls)
    BY <1>3, <1>4, <1>5, <1>6
<1>8. Collects(GeminiFlush(calls))
    BY <1>7, GeminiFlushes
<1> QED
    BY <1>1, <1>7, <1>8

LEMMA OpenAiFed ==
    ASSUME NEW r, Collects(r), NEW c \in Chunk PROVE Collects(OpenAiFeed(r, c))
<1> DEFINE m1 == IF c.reasoning THEN <<LooseFrame("thinking", <<>>)>> ELSE <<>>
           m2 == IF c.text THEN <<LooseFrame("text", <<>>)>> ELSE <<>>
           parts == [k \in DOMAIN c.calls |->
                       Frame("part", c.calls[k].index, "function", c.calls[k].id, c.calls[k].args)]
           e1 == IF c.finish = NoReason THEN <<>> ELSE <<StopFrame(c.finish)>>
           e2 == IF c.done THEN <<EndFrame>> ELSE <<>>
           o == ((r.out \o (m1 \o m2)) \o parts) \o (e1 \o e2)
<1>1. OpenAiFeed(r, c) = [r EXCEPT !.out = o]
    BY DEF OpenAiFeed
<1>2. \A kind \in {"thinking", "text"} : Loosely(<<LooseFrame(kind, <<>>)>>)
    BY OtherFrames, LooselyOne
<1>3. Loosely(<<StopFrame(c.finish)>>) /\ Loosely(<<EndFrame>>)
    BY OtherFrames, LooselyOne
<1>4. Loosely(m1) /\ Loosely(m2) /\ Loosely(e1) /\ Loosely(e2)
    BY <1>2, <1>3, LooselyNone
<1>5. Loosely(parts)
    <2>1. c.calls \in Seq(Part)
        BY DEF Chunk
    <2>2. Len(c.calls) \in Nat /\ DOMAIN c.calls = 1..Len(c.calls)
        BY <2>1
    <2>3. /\ \A k \in 1..Len(c.calls) : parts[k].f = "part"
          /\ parts = [k \in 1..Len(c.calls) |-> parts[k]]
        BY <2>2 DEF Frame
    <2> HIDE DEF parts
    <2> QED
        BY <2>2, <2>3, LooselyListed
<1>6. Loosely(r.out)
    BY DEF Collects
<1> HIDE DEF m1, m2, parts, e1, e2
<1>7. Loosely(o)
    <2>1. Loosely(m1 \o m2) /\ Loosely(e1 \o e2)
        BY <1>4, LooselyJoined
    <2> DEFINE m == m1 \o m2
               e == e1 \o e2
               a == r.out \o m
               b == a \o parts
    <2>2. Loosely(m) /\ Loosely(e) /\ o = b \o e
        BY <2>1
    <2> HIDE DEF m, e, o
    <2>3. Loosely(a)
        BY <1>6, <2>2, LooselyJoined
    <2> HIDE DEF a
    <2>4. Loosely(b)
        BY <1>5, <2>3, LooselyJoined
    <2> HIDE DEF b
    <2>5. Loosely(b \o e)
        BY <2>2, <2>4, LooselyJoined
    <2> QED
        BY <2>2, <2>5
<1> HIDE DEF o
<1> QED
    BY <1>1, <1>7, CollectsOut

(* What the clients of the other dialects have read leaves them between    *)
(* the blocks.                                                             *)
LooseInv ==
    ~IsFramed =>
        /\ fed \in 0..Len(sent) /\ read \in 0..Len(frames) /\ Loosely(frames)
        /\ renderer.out = <<>> /\ Collects(renderer)
        /\ client \in Clients /\ client.open = NoIndex /\ client.at = NoIndex

StreamInv ==
    /\ StreamTyped /\ StateTyped
    /\ frontend \in Frontends /\ (frontend # "openai" => orderly)

LEMMA StreamInitially == Init => StreamInv /\ LooseInv
<1> SUFFICES ASSUME Init PROVE StreamInv /\ LooseInv
    OBVIOUS
<1>1. /\ sent = <<>> /\ fed = 0 /\ frames = <<>> /\ read = 0 /\ renderer = NewRenderer /\ log = <<>>
      /\ client = [phase |-> "none", open |-> NoIndex, next |-> 0, at |-> NoIndex]
      /\ provider \in Providers /\ orderly \in BOOLEAN /\ reading = TRUE
      /\ toolIndex = 0 /\ toolParts = << >> /\ seenCalls = {} /\ finishSeen = FALSE
      /\ frontend \in Frontends /\ (frontend # "openai" => orderly)
    BY DEF Init, TranslatorInit
<1>2. <<>> \in Seq(Chunk) /\ <<>> \in Seq(AllEvents) /\ Len(<<>>) = 0 /\ DOMAIN << >> = {}
    OBVIOUS
<1>3. StreamInv
    BY <1>1, <1>2 DEF StreamInv, StreamTyped, StateTyped
<1>4. client \in Clients /\ client.open = NoIndex /\ client.at = NoIndex
    BY <1>1 DEF Clients
<1>5. Collects(NewRenderer)
    <2>1. NewRenderer \in [started : BOOLEAN, finished : BOOLEAN, block : {NoBlock}, next : {0},
                           seen : {{}}, pending : {<< >>}, out : {<<>>}]
        BY DEF NewRenderer
    <2>2. \E P, O : NewRenderer \in [started : BOOLEAN, finished : BOOLEAN, block : {NoBlock},
                                     next : {0}, seen : {{}}, pending : P, out : O]
        BY <2>1
    <2>3. NewRenderer.out = <<>> /\ NewRenderer.pending = << >>
        BY DEF NewRenderer
    <2>4. IsFiniteSet(DOMAIN << >>)
        BY FS_EmptySet
    <2> QED
        BY <2>2, <2>3, <2>4, LooselyNone DEF Collects
<1>6. renderer.out = <<>>
    BY <1>1 DEF NewRenderer
<1>7. LooseInv
    BY <1>1, <1>2, <1>4, <1>5, <1>6, LooselyNone DEF LooseInv
<1> QED
    BY <1>3, <1>7

LEMMA StreamInductive == StreamInv /\ [Next]_vars => StreamInv'
<1> SUFFICES ASSUME StreamInv, [Next]_vars PROVE StreamInv'
    OBVIOUS
<1>1. orderly' = orderly /\ frontend' = frontend
    BY StreamStays
<1>2. CASE TranslatorNext
    BY <1>1, <1>2, TranslatorTyped DEF StreamInv
<1>3. CASE UNCHANGED translatorVars
    BY <1>1, <1>3 DEF StreamInv, StreamTyped, StateTyped, translatorVars
<1> QED
    BY <1>2, <1>3 DEF Next, Translate, Render, ClientReads, vars

LEMMA RendersLoosely ==
    ASSUME StreamInv, ToldInv, LooseInv, Render, ~IsFramed PROVE LooseInv'
<1>1. /\ fed \in 0..Len(sent) /\ read \in 0..Len(frames) /\ Loosely(frames)
      /\ renderer.out = <<>> /\ Collects(renderer)
      /\ client \in Clients /\ client.open = NoIndex /\ client.at = NoIndex
    BY DEF LooseInv
<1>2. /\ fed < Len(sent) /\ read = Len(frames) /\ fed' = fed + 1 /\ sent' = sent
      /\ read' = read /\ client' = client
    BY DEF Render, translatorVars
<1> DEFINE c == sent[fed + 1]
           q == Feed(frontend, renderer, c)
<1>3. frames' = frames \o q.out /\ renderer' = [q EXCEPT !.out = <<>>]
    BY DEF Render
<1>4. fed \in Nat /\ fed + 1 \in DOMAIN sent /\ Len(sent) \in Nat /\ sent \in Seq(Chunk)
    BY <1>1, <1>2 DEF StreamInv, StreamTyped
<1>5. c \in Chunk
    BY <1>4
<1>6. frontend \in {"openai", "gemini", "ollama"} /\ (frontend # "openai" => orderly)
    BY StreamAssumption DEF StreamInv, IsFramed, FrontendNames
<1>7. orderly => Len(c.calls) <= 2
    BY <1>4 DEF ToldInv, ToldNow, Told, OrderlySent, Suits
<1> HIDE DEF c
<1>8. Collects(q)
    <2>1. CASE frontend = "openai"
        BY <1>1, <1>5, <2>1, OpenAiFed DEF Feed
    <2>2. CASE frontend = "gemini"
        BY <1>1, <1>5, <1>6, <1>7, <2>2, GeminiFed DEF Feed
    <2>3. CASE frontend = "ollama"
        BY <1>1, <2>3, OllamaFed DEF Feed
    <2> QED
        BY <1>6, <2>1, <2>2, <2>3
<1> HIDE DEF q
<1>9. Loosely(frames') /\ renderer'.out = <<>> /\ Collects(renderer')
    BY <1>1, <1>3, <1>8, LooselyJoined, LooselyNone, CollectsOut DEF Collects
<1>10. read' \in 0..Len(frames')
    <2>1. PICK F : frames' \in Seq(F)
        BY <1>9 DEF Loosely, LooseOf
    <2>2. PICK G : frames \in Seq(G)
        BY <1>1 DEF Loosely, LooseOf
    <2>3. PICK H : q.out \in Seq(H)
        BY <1>8 DEF Collects, Loosely, LooseOf
    <2>4. Len(frames') = Len(frames) + Len(q.out) /\ Len(frames) \in Nat /\ Len(q.out) \in Nat
        <3> DEFINE o == q.out
                   K == G \union H
        <3>1. G \subseteq K /\ H \subseteq K
            OBVIOUS
        <3> HIDE DEF o, K
        <3>2. frames \in Seq(K) /\ o \in Seq(K)
            BY <2>2, <2>3, <3>1, LooserSeq DEF o
        <3>3. Len(frames \o o) = Len(frames) + Len(o) /\ Len(frames) \in Nat /\ Len(o) \in Nat
            BY <3>2
        <3> QED
            BY <1>3, <3>3 DEF o
    <2> QED
        BY <1>2, <2>4
<1>11. fed' \in 0..Len(sent')
    BY <1>2, <1>4
<1> QED
    BY <1>1, <1>2, <1>9, <1>10, <1>11 DEF LooseInv

LEMMA ReadsLoosely ==
    ASSUME LooseInv, ClientReads, ~IsFramed PROVE LooseInv'
<1>1. /\ fed \in 0..Len(sent) /\ read \in 0..Len(frames) /\ Loosely(frames)
      /\ renderer.out = <<>> /\ Collects(renderer)
      /\ client \in Clients /\ client.open = NoIndex /\ client.at = NoIndex
    BY DEF LooseInv
<1>2. /\ read < Len(frames) /\ read' = read + 1 /\ fed' = fed /\ sent' = sent
      /\ frames' = frames /\ renderer' = renderer
    BY DEF ClientReads, translatorVars
<1> DEFINE f == frames[read + 1]
<1>3. f.f \notin {"begin", "open", "delta", "close"} /\ Len(frames) \in Nat
    <2>1. PICK F : LooseOf(frames, F)
        BY <1>1 DEF Loosely
    <2>2. frames \in Seq(F)
        BY <2>1 DEF LooseOf
    <2>3. read + 1 \in DOMAIN frames /\ Len(frames) \in Nat
        BY <1>1, <1>2, <2>2
    <2>4. f \in F
        BY <2>2, <2>3
    <2> QED
        BY <2>1, <2>3, <2>4 DEF LooseOf
<1>4. client' = After(client, f)
    BY DEF ClientReads, After
<1> HIDE DEF f
<1>5. client' \in Clients /\ client'.open = NoIndex /\ client'.at = NoIndex
    BY <1>1, <1>3, <1>4 DEF After, Clients
<1>6. read' \in 0..Len(frames')
    BY <1>1, <1>2, <1>3
<1> QED
    BY <1>1, <1>2, <1>5, <1>6 DEF LooseInv

LEMMA LooseInductive == StreamInv /\ StreamInv' /\ ToldInv /\ LooseInv /\ [Next]_vars => LooseInv'
<1> SUFFICES ASSUME StreamInv, StreamInv', ToldInv, LooseInv, [Next]_vars, ~IsFramed' PROVE LooseInv'
    BY DEF LooseInv
<1>1. ~IsFramed
    BY StreamStays DEF IsFramed
<1>2. CASE UNCHANGED vars
    BY <1>1, <1>2 DEF vars, translatorVars, handlerVars, LooseInv
<1>3. CASE Translate
    <2>1. /\ TranslatorNext /\ fed' = fed /\ read' = read /\ frames' = frames
          /\ renderer' = renderer /\ client' = client
        BY <1>3 DEF Translate, handlerVars
    <2>2. sent \in Seq(Chunk) /\ sent' \in Seq(Chunk)
        BY DEF StreamInv, StreamTyped
    <2>3. Longer(sent, sent')
        BY <2>1, <2>2, SentLonger
    <2>4. fed' \in 0..Len(sent')
        BY <1>1, <2>1, <2>2, <2>3 DEF LooseInv, Longer
    <2> QED
        BY <1>1, <2>1, <2>4 DEF LooseInv
<1>4. CASE Render
    BY <1>1, <1>4, RendersLoosely
<1>5. CASE ClientReads
    BY <1>1, <1>5, ReadsLoosely
<1> QED
    BY <1>2, <1>3, <1>4, <1>5 DEF Next

LEMMA StreamTypes == StreamInv /\ FramedInv /\ LooseInv => TypeOK
<1> SUFFICES ASSUME StreamInv, FramedInv, LooseInv PROVE TypeOK
    OBVIOUS
<1>1. fed \in 0..Len(sent) /\ read \in 0..Len(frames) /\ client \in Clients
    <2>1. CASE IsFramed
        <3>1. /\ fed \in 0..Len(sent) /\ read \in 0..Len(frames) /\ frames \in Seq(Framing)
              /\ \E d \in Clients : Reading(frames, read, client, d)
            BY <2>1 DEF FramedInv
        <3>2. read \in read..Len(frames)
            BY <3>1
        <3> QED
            BY <3>1, <3>2 DEF Reading
    <2>2. CASE ~IsFramed
        BY <2>2 DEF LooseInv
    <2> QED
        BY <2>1, <2>2
<1>2. \A i \in DOMAIN sent : sent[i] \in Chunk
    BY DEF StreamInv, StreamTyped
<1> QED
    BY <1>1, <1>2 DEF TypeOK, StreamInv, StreamTyped, StateTyped, CallTable, Clients

(* Every variable of a stream keeps its type, for every provider and       *)
(* dialect, any number of calls, and lines in any order (translate_line,   *)
(* feed, and what a client counts).                                        *)
THEOREM StreamTypeCorrect == Spec => []TypeOK
<1> DEFINE I == CommandCodeInv /\ ToldInv /\ FramedInv /\ StreamInv /\ LooseInv
<1>1. Init => I
    BY CommandCodeInit, ToldInitially, FramedInitially, StreamInitially
<1>2. I /\ [Next]_vars => I'
    <2> SUFFICES ASSUME I, [Next]_vars PROVE I'
        OBVIOUS
    <2>1. CommandCodeInv' /\ ToldInv' /\ StreamInv'
        BY CommandCodeInductive, ToldInductive, StreamInductive
    <2> QED
        BY <2>1, FramedInductive, LooseInductive
<1>3. I => TypeOK
    BY StreamTypes
<1> QED
    BY <1>1, <1>2, <1>3, PTL DEF Spec
=============================================================================
