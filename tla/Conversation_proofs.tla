-------------------------- MODULE Conversation_proofs --------------------------
(***************************************************************************)
(* What the upstreams get of a conversation, for every set of functions    *)
(* and conversations of any length with any number of copies.              *)
(*                                                                         *)
(* ConversationInv says of each turn what its writer can write; from it    *)
(* every message a dialect writes has a form its conversion can read, what *)
(* is read has the internal form, and so has the stored conversation.      *)
(* What deduplicate_tool_calls leaves of messages in the internal form has *)
(* no call id twice and no two results for one call, by an induction over  *)
(* its second pass, from the last message down.                            *)
(***************************************************************************)
EXTENDS Conversation, AccountVault_proofs, FiniteSetTheorems

(***************************************************************************)
(* Recursion                                                               *)
(***************************************************************************)

(* f starts with a and goes on with step, up to n.                         *)
Iterates(f, a, step, n) == f[0] = a /\ \A i \in 1..n : f[i] = step[i][f[i - 1]]

(* There is such a function.                                               *)
LEMMA RecursionExists ==
    ASSUME NEW A, NEW a \in A, NEW step \in [Nat -> [A -> A]], NEW n \in Nat
    PROVE  \E f \in [0..n -> A] : Iterates(f, a, step, n)
<1> DEFINE P == {m \in Nat : \E f \in [0..m -> A] : Iterates(f, a, step, m)}
<1>1. 0 \in P
    <2>1. [i \in 0..0 |-> a] \in [0..0 -> A]
        OBVIOUS
    <2>2. Iterates([i \in 0..0 |-> a], a, step, 0)
        BY DEF Iterates
    <2> QED
        BY <2>1, <2>2
<1>2. \A m \in P : m + 1 \in P
    <2> SUFFICES ASSUME NEW m \in P PROVE m + 1 \in P
        OBVIOUS
    <2>0. PICK f \in [0..m -> A] : Iterates(f, a, step, m)
        OBVIOUS
    <2> DEFINE next == step[m + 1][f[m]]
               g == [i \in 0..(m + 1) |-> IF i = m + 1 THEN next ELSE f[i]]
    <2>1. next \in A /\ m \in Nat
        OBVIOUS
    <2>2. next = step[m + 1][f[m]]
        OBVIOUS
    <2> HIDE DEF next, P
    <2>3. g \in [0..(m + 1) -> A]
        BY <2>1
    <2>4. g[m + 1] = next /\ \A i \in 0..m : g[i] = f[i]
        BY <2>1
    <2> HIDE DEF g
    <2>5. g[0] = a
        BY <2>0, <2>1, <2>4 DEF Iterates
    <2>6. ASSUME NEW i \in 1..(m + 1) PROVE g[i] = step[i][g[i - 1]]
        <3>1. i - 1 \in 0..m /\ g[i - 1] = f[i - 1]
            BY <2>1, <2>4
        <3>2. CASE i = m + 1
            BY <3>1, <3>2, <2>1, <2>2, <2>4
        <3>3. CASE i # m + 1
            <4>1. i \in 1..m /\ g[i] = f[i]
                BY <3>3, <2>1, <2>4
            <4> QED
                BY <4>1, <3>1, <2>0 DEF Iterates
        <3> QED
            BY <3>2, <3>3
    <2>7. Iterates(g, a, step, m + 1)
        BY <2>5, <2>6 DEF Iterates
    <2> QED
        BY <2>1, <2>3, <2>7 DEF P
<1>3. P = Nat
    <2>1. P \in SUBSET Nat
        OBVIOUS
    <2> HIDE DEF P
    <2> QED
        BY <1>1, <1>2, <2>1, NatByInduction
<1> QED
    BY <1>3

(* Pieces put together are a sequence of what the pieces consist of.       *)
LEMMA FlattenType ==
    ASSUME NEW T, NEW ss \in Seq(Seq(T))
    PROVE  FlattenSeq(ss) \in Seq(T)
<1> DEFINE n == Len(ss)
           flatten == CHOOSE f : f = [i \in 1..n |-> IF i = 1 THEN ss[i] ELSE f[i - 1] \o ss[i]]
<1>1. CASE n = 0
    <2>1. ss = << >>
        BY <1>1
    <2>2. FlattenSeq(ss) = ss
        BY <1>1, <2>1 DEF FlattenSeq
    <2>3. << >> \in Seq(T)
        OBVIOUS
    <2> QED
        BY <2>1, <2>2, <2>3, Zenon
<1>2. CASE n # 0
    <2>1. n \in Nat /\ \A i \in 1..n : ss[i] \in Seq(T)
        OBVIOUS
    <2>2. FlattenSeq(ss) = flatten[n]
        BY <1>2, Zenon DEF FlattenSeq
    <2>3. << >> \in Seq(T)
        OBVIOUS
    <2> HIDE DEF n, flatten
    <2> DEFINE step == [i \in Nat |-> [s \in Seq(T) |-> IF i \in 1..n THEN s \o ss[i] ELSE s]]
    <2>4. step \in [Nat -> [Seq(T) -> Seq(T)]]
        <3> SUFFICES ASSUME NEW m \in Nat, NEW s \in Seq(T)
                     PROVE  (IF m \in 1..n THEN s \o ss[m] ELSE s) \in Seq(T)
            OBVIOUS
        <3> QED
            BY <2>1
    <2>5. \A i \in 1..n : \A s \in Seq(T) : step[i][s] = s \o ss[i]
        BY <2>1
    <2> HIDE DEF step
    <2>6. PICK f \in [0..n -> Seq(T)] : Iterates(f, << >>, step, n)
        BY <2>1, <2>3, <2>4, RecursionExists
    <2> DEFINE g == [i \in 1..n |-> f[i]]
    <2>0. \A i \in 1..n : g[i] = f[i]
        OBVIOUS
    <2>7. \A i \in 1..n : g[i] = IF i = 1 THEN ss[i] ELSE g[i - 1] \o ss[i]
        <3> SUFFICES ASSUME NEW i \in 1..n
                     PROVE  g[i] = IF i = 1 THEN ss[i] ELSE g[i - 1] \o ss[i]
            OBVIOUS
        <3>0. i - 1 \in 0..n
            BY <2>1
        <3>1. f[i - 1] \in Seq(T)
            BY <3>0
        <3>4. f[i] = f[i - 1] \o ss[i]
            BY <3>1, <2>5, <2>6 DEF Iterates
        <3>2. CASE i = 1
            <4>3. i - 1 = 0
                BY <3>2
            <4>1. f[i] = << >> \o ss[i] /\ ss[i] \in Seq(T)
                BY <3>4, <4>3, <2>1, <2>6 DEF Iterates
            <4>2. \A s \in Seq(T) : << >> \o s = s
                OBVIOUS
            <4> QED
                BY <4>1, <4>2, <3>2
        <3>3. CASE i # 1
            <4>1. i - 1 \in 1..n /\ g[i - 1] = f[i - 1] /\ g[i] = f[i]
                BY <3>3, <2>1
            <4> QED
                BY <4>1, <3>3, <3>4
        <3> QED
            BY <3>2, <3>3
    <2>8. g = [i \in 1..n |-> IF i = 1 THEN ss[i] ELSE g[i - 1] \o ss[i]]
        <3>1. g = [i \in 1..n |-> g[i]]
            OBVIOUS
        <3> HIDE DEF g
        <3> QED
            BY <2>7, <3>1, Zenon
    <2> HIDE DEF g
    <2>9. flatten = [i \in 1..n |-> IF i = 1 THEN ss[i] ELSE flatten[i - 1] \o ss[i]]
        BY <2>8, Zenon DEF flatten
    <2>10. \A i \in 1..n : flatten[i] = IF i = 1 THEN ss[i] ELSE flatten[i - 1] \o ss[i]
        BY <2>9, Zenon
    <2> DEFINE P == {m \in Nat : m + 1 \in 1..n => flatten[m + 1] \in Seq(T)}
    <2>11. 0 \in P
        <3>1. 1 \in 1..n => flatten[1] = ss[1]
            BY <2>10
        <3>2. 0 + 1 = 1
            OBVIOUS
        <3> QED
            BY <2>1, <3>1, <3>2
    <2>12. \A m \in P : m + 1 \in P
        <3> SUFFICES ASSUME NEW m \in Nat, m + 1 \in 1..n => flatten[m + 1] \in Seq(T),
                            m + 2 \in 1..n
                     PROVE  flatten[m + 2] \in Seq(T)
            OBVIOUS
        <3>1. m + 1 \in 1..n /\ m + 2 # 1 /\ (m + 2) - 1 = m + 1
            BY <2>1
        <3>2. flatten[m + 2] = flatten[m + 1] \o ss[m + 2]
            BY <3>1, <2>10
        <3> QED
            BY <3>1, <3>2, <2>1
    <2>13. P = Nat
        <3>1. P \in SUBSET Nat
            OBVIOUS
        <3> HIDE DEF P
        <3> QED
            BY <2>11, <2>12, <3>1, NatByInduction
    <2>14. n - 1 \in Nat /\ (n - 1) + 1 = n /\ n \in 1..n
        BY <1>2, <2>1 DEF n
    <2> QED
        BY <2>2, <2>13, <2>14
<1> QED
    BY <1>1, <1>2

(* An operator that makes sequences of T out of the elements of s makes    *)
(* one of s: LAMBDA or name, it is given as a function.                    *)
LEMMA PiecesType ==
    ASSUME NEW T, NEW S, NEW s \in Seq(S), NEW f, f = [k \in DOMAIN s |-> f[k]],
           \A k \in DOMAIN s : f[k] \in Seq(T)
    PROVE  FlattenSeq(f) \in Seq(T)
<1>1. DOMAIN s = 1..Len(s) /\ Len(s) \in Nat
    OBVIOUS
<1>2. f \in Seq(Seq(T))
    BY <1>1
<1> QED
    BY <1>2, FlattenType

(***************************************************************************)
(* deduplicate_tool_calls                                                  *)
(***************************************************************************)

(* What is kept: each message at an index of its own, out of those of S.   *)
LEMMA KeepFacts ==
    ASSUME NEW M, NEW ms \in Seq(M), NEW S
    PROVE  /\ Keep(ms, S) \in Seq(M)
           /\ \E at : /\ Distinct(at) /\ DOMAIN at = DOMAIN Keep(ms, S)
                      /\ \A k \in DOMAIN at : /\ at[k] \in S /\ at[k] \in DOMAIN ms
                                              /\ Keep(ms, S)[k] = ms[at[k]]
<1> DEFINE indices == [i \in DOMAIN ms |-> i]
           at == Filter(indices, S)
<1>1. indices \in Seq(DOMAIN ms) /\ Distinct(indices)
    BY DEF Distinct
<1>2. Keep(ms, S) = [k \in DOMAIN at |-> ms[at[k]]]
    BY DEF Keep
<1>3. ToSet(indices) \subseteq DOMAIN ms
    BY DEF ToSet
<1> HIDE DEF indices
<1>4. at \in Seq(DOMAIN ms) /\ Distinct(at) /\ ToSet(at) \subseteq S
    BY <1>1, FilterType, FilterDistinct, FilterRange
<1> HIDE DEF at
<1>5. \A k \in DOMAIN at : at[k] \in S /\ at[k] \in DOMAIN ms
    BY <1>4 DEF ToSet
<1>6. DOMAIN at = 1..Len(at) /\ Len(at) \in Nat
    BY <1>4
<1>7. Keep(ms, S) \in Seq(M)
    BY <1>2, <1>5, <1>6
<1> QED
    BY <1>2, <1>4, <1>5, <1>7

(* Ids that differ among what is kept. *)
LEMMA KeepDiffers ==
    ASSUME NEW M, NEW ms \in Seq(M), NEW S,
           \A p, q \in S \intersect DOMAIN ms :
           \A k \in DOMAIN ms[p].calls, l \in DOMAIN ms[q].calls :
               ms[p].calls[k].id = ms[q].calls[l].id => p = q /\ k = l
    PROVE  CallIdsDiffer(Keep(ms, S))
<1> DEFINE kept == Keep(ms, S)
<1>1. PICK at : /\ Distinct(at) /\ DOMAIN at = DOMAIN kept
                /\ \A k \in DOMAIN at : at[k] \in S /\ at[k] \in DOMAIN ms /\ kept[k] = ms[at[k]]
    BY KeepFacts
<1> HIDE DEF kept
<1>2. ASSUME NEW i \in DOMAIN kept, NEW j \in DOMAIN kept,
             NEW k \in DOMAIN kept[i].calls, NEW l \in DOMAIN kept[j].calls,
             kept[i].calls[k].id = kept[j].calls[l].id
      PROVE  i = j /\ k = l
    <2>1. /\ at[i] \in S \intersect DOMAIN ms /\ at[j] \in S \intersect DOMAIN ms
          /\ kept[i] = ms[at[i]] /\ kept[j] = ms[at[j]]
        BY <1>1
    <2>2. at[i] = at[j] /\ k = l
        BY <2>1, <1>2
    <2> QED
        BY <2>2, <1>1 DEF Distinct
<1>3. CallIdsDiffer(kept)
    BY <1>2 DEF CallIdsDiffer
<1> QED
    BY <1>3 DEF kept

(* Where all is to be kept, nothing changes. *)
LEMMA KeepAll ==
    ASSUME NEW M, NEW ms \in Seq(M), NEW S, DOMAIN ms \subseteq S
    PROVE  Keep(ms, S) = ms
<1> DEFINE D == DOMAIN ms
           Q == {s \in Seq(D) : Filter(s, S) = s}
<1>1. << >> \in Q
    BY FilterEmpty
<1>2. \A s \in Q : \A x \in D : Append(s, x) \in Q
    BY FilterAppend
<1>3. Q = Seq(D)
    <2>1. Q \in SUBSET Seq(D)
        OBVIOUS
    <2> HIDE DEF Q, D
    <2> QED
        BY <1>1, <1>2, <2>1, SeqByInduction
<1> DEFINE indices == [i \in DOMAIN ms |-> i]
<1>4. indices \in Seq(D)
    OBVIOUS
<1>5. Filter(indices, S) = indices
    BY <1>3, <1>4
<1>6. Keep(ms, S) = [k \in DOMAIN indices |-> ms[indices[k]]]
    BY <1>5 DEF Keep
<1>7. ms = [k \in DOMAIN ms |-> ms[k]]
    OBVIOUS
<1> QED
    BY <1>6, <1>7

(* A message in the internal form, with a call only from the model, and an *)
(* id with every result.                                                   *)
SentForm == {m \in InternalForm : /\ m.role = "tool" => m.answers # NoAnswer
                                  /\ m.calls # << >> => m.role = "assistant"}

LEMMA CallsOfMessage ==
    ASSUME NEW ms \in Seq(SentForm), NEW i \in DOMAIN ms
    PROVE  /\ DOMAIN ms[i].calls = 1..Len(ms[i].calls) /\ Len(ms[i].calls) \in Nat
           /\ DOMAIN ms[i].calls # {} => HasCalls(ms[i])
           /\ ms[i].role = "tool" => ms[i].answers # NoAnswer
<1>1. ms[i] \in SentForm
    OBVIOUS
<1>2. \A m \in SentForm :
         /\ DOMAIN m.calls = 1..Len(m.calls) /\ Len(m.calls) \in Nat
         /\ DOMAIN m.calls # {} => m.calls # << >>
    BY DEF SentForm, InternalForm
<1> QED
    BY <1>1, <1>2 DEF SentForm, HasCalls

(* Of messages without repeated calls no two calls have the same id.       *)
LEMMA UnrepeatedDiffer ==
    ASSUME NEW ms \in Seq(SentForm), NEW S,
           \A i \in S \intersect DOMAIN ms : RepeatedCalls(ms, i) = {}
    PROVE  CallIdsDiffer(Keep(ms, S))
<1>1. DOMAIN ms \subseteq Nat /\ \A p \in DOMAIN ms : \A j \in 1..p : j \in DOMAIN ms
    OBVIOUS
<1>2. ASSUME NEW p \in S \intersect DOMAIN ms, NEW q \in S \intersect DOMAIN ms,
             NEW k \in DOMAIN ms[p].calls, NEW l \in DOMAIN ms[q].calls,
             ms[p].calls[k].id = ms[q].calls[l].id,
             p < q \/ (p = q /\ k < l)
      PROVE  FALSE
    <2>1. HasCalls(ms[p]) /\ HasCalls(ms[q])
        BY CallsOfMessage
    <2>2. p \in 1..q /\ (p < q \/ k < l)
        BY <1>1, <1>2
    <2>3. l \in RepeatedCalls(ms, q)
        BY <2>1, <2>2, <1>2 DEF RepeatedCalls
    <2> QED
        BY <2>3
<1>3. ASSUME NEW p \in S \intersect DOMAIN ms, NEW q \in S \intersect DOMAIN ms,
             NEW k \in DOMAIN ms[p].calls, NEW l \in DOMAIN ms[q].calls,
             ms[p].calls[k].id = ms[q].calls[l].id
      PROVE  p = q /\ k = l
    <2>1. p \in Nat /\ q \in Nat /\ k \in Nat /\ l \in Nat
        <3>1. /\ DOMAIN ms[p].calls = 1..Len(ms[p].calls)
              /\ DOMAIN ms[q].calls = 1..Len(ms[q].calls)
            BY CallsOfMessage
        <3> QED
            BY <1>1, <3>1
    <2>2. ~(p < q) /\ ~(q < p)
        BY <1>2, <1>3
    <2>3. p = q
        BY <2>1, <2>2
    <2>4. ~(k < l) /\ ~(l < k)
        BY <1>2, <1>3, <2>3
    <2> QED
        BY <2>1, <2>3, <2>4
<1> QED
    BY <1>3, KeepDiffers

(* The second pass keeps messages without repeated calls only: the first   *)
(* removal at an index takes the message it was noted for.  If there are   *)
(* no others, it keeps all.                                                *)
LEMMA RepeatedGo ==
    ASSUME NEW ms \in Seq(SentForm)
    PROVE  \E S : /\ WithoutRepeatedCalls(ms) = Keep(ms, S)
                  /\ \A i \in S \intersect DOMAIN ms : RepeatedCalls(ms, i) = {}
                  /\ (\A i \in DOMAIN ms : RepeatedCalls(ms, i) = {}) => DOMAIN ms \subseteq S
<1> DEFINE n == Len(ms)
           First(S, count) == {j \in S : /\ Cardinality({l \in S : l <= j}) <= count
                                         /\ \A l \in S : l <= j => HasCalls(ms[l])}
           Rest(d, K) ==
               (K \union {n + 1 - d})
                 \ First(K \union {n + 1 - d}, Cardinality(RepeatedCalls(ms, n + 1 - d)))
           kept == CHOOSE f : f = [d \in 0..n |-> IF d = 0 THEN {} ELSE Rest(d, f[d - 1])]
           step == [d \in Nat |-> [K \in SUBSET Int |-> Rest(d, K)]]
<1>1. WithoutRepeatedCalls(ms) = Keep(ms, kept[n])
    BY Zenon DEF WithoutRepeatedCalls
<1>2. n \in Nat /\ DOMAIN ms = 1..n
    OBVIOUS
<1> HIDE DEF n
<1>3. step \in [Nat -> [SUBSET Int -> SUBSET Int]]
    <2> SUFFICES ASSUME NEW d \in Nat, NEW K \in SUBSET Int PROVE Rest(d, K) \in SUBSET Int
        BY Zenon
    <2>1. n + 1 - d \in Int
        BY <1>2
    <2> QED
        BY <2>1
<1>4. \A d \in 1..n : \A K \in SUBSET Int : step[d][K] = Rest(d, K)
    <2> SUFFICES ASSUME NEW d \in Nat, NEW K \in SUBSET Int PROVE step[d][K] = Rest(d, K)
        OBVIOUS
    <2> HIDE DEF Rest
    <2> QED
        OBVIOUS
<1> HIDE DEF step
<1>5. PICK f \in [0..n -> SUBSET Int] : Iterates(f, {}, step, n)
    BY <1>2, <1>3, RecursionExists
<1>6. \A d \in 0..n : f[d] = IF d = 0 THEN {} ELSE Rest(d, f[d - 1])
    <2> SUFFICES ASSUME NEW d \in 0..n, d # 0 PROVE f[d] = Rest(d, f[d - 1])
        BY <1>5 DEF Iterates
    <2>1. d \in 1..n /\ d - 1 \in 0..n
        BY <1>2
    <2>2. f[d - 1] \in SUBSET Int /\ f[d] = step[d][f[d - 1]]
        BY <1>5, <2>1 DEF Iterates
    <2> HIDE DEF Rest
    <2> QED
        BY <1>4, <2>1, <2>2
<1> HIDE DEF Rest
<1>7. f = [d \in 0..n |-> IF d = 0 THEN {} ELSE Rest(d, f[d - 1])]
    <2>1. f = [d \in 0..n |-> f[d]]
        BY <1>5
    <2> QED
        BY <1>6, <2>1, Zenon
<1>8. kept = [d \in 0..n |-> IF d = 0 THEN {} ELSE Rest(d, kept[d - 1])]
    BY <1>7, Zenon
<1> HIDE DEF kept
<1>9. \A d \in 0..n : kept[d] = IF d = 0 THEN {} ELSE Rest(d, kept[d - 1])
    BY <1>8, Zenon
<1> DEFINE Clean(d) == \A i \in kept[d] : /\ i \in (n + 1 - d)..n
                                          /\ RepeatedCalls(ms, i) = {}
           Whole(d) == (\A i \in DOMAIN ms : RepeatedCalls(ms, i) = {})
                          => (n + 1 - d)..n \subseteq kept[d]
           P == {d \in Nat : d <= n => Clean(d) /\ Whole(d)}
<1>10. 0 \in P
    BY <1>2, <1>9
<1>11. \A d \in P : d + 1 \in P
    <2> SUFFICES ASSUME NEW d \in Nat, d + 1 <= n, Clean(d), Whole(d)
                 PROVE  Clean(d + 1) /\ Whole(d + 1)
        BY <1>2
    <2> DEFINE i == n + 1 - (d + 1)
               all == kept[d] \union {i}
    <2>1. i \in 1..n /\ i \in Int /\ d + 1 \in 1..n /\ (d + 1) - 1 = d
        BY <1>2
    <2>2. kept[d + 1] = all \ First(all, Cardinality(RepeatedCalls(ms, i)))
        <3>1. kept[d + 1] = Rest(d + 1, kept[d])
            BY <1>2, <1>9, <2>1
        <3> QED
            BY <3>1, Zenon DEF Rest
    <2>3. \A j \in kept[d] : j \in (i + 1)..n /\ RepeatedCalls(ms, j) = {}
        BY <1>2
    <2>7. (\A j \in DOMAIN ms : RepeatedCalls(ms, j) = {}) => (i + 1)..n \subseteq kept[d]
        BY <1>2
    <2> HIDE DEF i, Clean, Whole
    <2>4. i \in kept[d + 1] => RepeatedCalls(ms, i) = {}
        <3> SUFFICES ASSUME RepeatedCalls(ms, i) # {}
                     PROVE  i \in First(all, Cardinality(RepeatedCalls(ms, i)))
            BY <2>2
        <3>1. {l \in all : l <= i} = {i}
            BY <2>1, <2>3
        <3>2. Cardinality({i}) = 1
            BY FS_Singleton
        <3>3. HasCalls(ms[i])
            BY DEF RepeatedCalls
        <3>4. Cardinality(RepeatedCalls(ms, i)) >= 1
            <4>1. RepeatedCalls(ms, i) \subseteq 1..Len(ms[i].calls) /\ Len(ms[i].calls) \in Nat
                BY <1>2, <2>1, CallsOfMessage DEF RepeatedCalls
            <4>2. IsFiniteSet(RepeatedCalls(ms, i))
                <5>1. \A m \in Nat : IsFiniteSet(1..m)
                    BY FS_Interval
                <5> QED
                    BY <4>1, <5>1, FS_Subset
            <4> QED
                BY <4>2, FS_EmptySet, FS_CardinalityType
        <3>5. \A l \in all : l <= i => l = i
            BY <3>1
        <3> HIDE DEF all
        <3>6. i \in all
            BY DEF all
        <3>7. Cardinality({l \in all : l <= i}) <= Cardinality(RepeatedCalls(ms, i))
            BY <3>1, <3>2, <3>4, Zenon
        <3> QED
            BY <3>3, <3>5, <3>6, <3>7
    <2>5. \A j \in kept[d + 1] : j \in kept[d] \/ j = i
        BY <2>2
    <2>6. \A j \in kept[d + 1] : j \in (n + 1 - (d + 1))..n /\ RepeatedCalls(ms, j) = {}
        BY <1>2, <2>1, <2>3, <2>4, <2>5 DEF i
    <2>8. ASSUME \A j \in DOMAIN ms : RepeatedCalls(ms, j) = {}, NEW j \in i..n
          PROVE  j \in kept[d + 1]
        <3>1. j \in all
            BY <2>1, <2>7, <2>8, <1>2
        <3>2. Cardinality(RepeatedCalls(ms, i)) = 0
            BY <1>2, <2>1, <2>8, FS_EmptySet
        <3> DEFINE upto == {l \in all : l <= j}
        <3>3. upto \subseteq i..n /\ j \in upto
            BY <1>2, <2>1, <2>3, <3>1
        <3> HIDE DEF upto
        <3>4. IsFiniteSet(upto)
            <4>1. IsFiniteSet(i..n)
                BY <1>2, <2>1, FS_Interval
            <4> QED
                BY <3>3, <4>1, FS_Subset
        <3>5. Cardinality(upto) # 0 /\ Cardinality(upto) \in Nat
            BY <3>3, <3>4, FS_EmptySet, FS_CardinalityType
        <3>6. ~(Cardinality(upto) <= Cardinality(RepeatedCalls(ms, i)))
            BY <3>2, <3>5
        <3> HIDE DEF all
        <3>7. j \notin First(all, Cardinality(RepeatedCalls(ms, i)))
            BY <3>6 DEF upto
        <3> QED
            BY <2>2, <3>1, <3>7
    <2>9. Whole(d + 1)
        BY <2>8 DEF Whole, i
    <2> QED
        BY <2>6, <2>9 DEF Clean
<1>12. P = Nat
    <2>1. P \in SUBSET Nat
        OBVIOUS
    <2> HIDE DEF P
    <2> QED
        BY <1>10, <1>11, <2>1, NatByInduction
<1>13. Clean(n) /\ Whole(n)
    <2> HIDE DEF Clean, Whole
    <2> QED
        BY <1>2, <1>12
<1>14. (\A i \in DOMAIN ms : RepeatedCalls(ms, i) = {}) => DOMAIN ms \subseteq kept[n]
    BY <1>2, <1>13
<1> QED
    BY <1>1, <1>13, <1>14

(* What deduplicate_tool_calls leaves: messages of the form it got, no two *)
(* of them with a call of the same id or a result for the same call.       *)
LEMMA DeduplicatedDiffer ==
    ASSUME NEW ms \in Seq(SentForm)
    PROVE  /\ DeduplicateToolCalls(ms) \in Seq(SentForm)
           /\ CallIdsDiffer(DeduplicateToolCalls(ms))
           /\ AnswersDiffer(DeduplicateToolCalls(ms))
<1>1. PICK S : /\ WithoutRepeatedCalls(ms) = Keep(ms, S)
               /\ \A i \in S \intersect DOMAIN ms : RepeatedCalls(ms, i) = {}
    BY RepeatedGo
<1> DEFINE us == Keep(ms, S)
<1>2. us \in Seq(SentForm) /\ CallIdsDiffer(us)
    BY <1>1, KeepFacts, UnrepeatedDiffer
<1>3. DeduplicateToolCalls(ms) = WithoutRepeatedAnswers(us)
    BY <1>1 DEF DeduplicateToolCalls
<1> HIDE DEF us
<1> DEFINE Again(i) == us[i].role = "tool" /\ us[i].answers # NoAnswer
                       /\ \E j \in 1..(i - 1) : /\ us[j].role = "tool"
                                                /\ us[j].answers = us[i].answers
           T == {i \in DOMAIN us : ~Again(i)}
           sent == Keep(us, T)
<1>4. WithoutRepeatedAnswers(us) = sent
    BY DEF WithoutRepeatedAnswers
<1>5. sent \in Seq(SentForm)
    BY <1>2, KeepFacts
<1>6. CallIdsDiffer(sent)
    BY <1>2, KeepDiffers DEF CallIdsDiffer
<1>7. AnswersDiffer(sent)
    <2>1. PICK at : /\ Distinct(at) /\ DOMAIN at = DOMAIN sent
                    /\ \A k \in DOMAIN at : at[k] \in T /\ at[k] \in DOMAIN us /\ sent[k] = us[at[k]]
        <3> HIDE DEF T
        <3> QED
            BY <1>2, KeepFacts
    <2>2. \A p, q \in T : us[p].role = "tool" /\ us[q].role = "tool"
                          /\ us[p].answers = us[q].answers => ~(p < q)
        <3> SUFFICES ASSUME NEW p \in T, NEW q \in T, us[p].role = "tool", us[q].role = "tool",
                            us[p].answers = us[q].answers, p < q
                     PROVE  FALSE
            OBVIOUS
        <3>1. p \in 1..(q - 1)
            BY <1>2
        <3>2. us[q].answers # NoAnswer
            BY <1>2, CallsOfMessage
        <3> QED
            BY <3>1, <3>2
    <2>3. T \subseteq Nat
        BY <1>2
    <2> HIDE DEF T, sent
    <2> SUFFICES ASSUME NEW i \in DOMAIN sent, NEW j \in DOMAIN sent,
                        sent[i].role = "tool", sent[j].role = "tool",
                        sent[i].answers = sent[j].answers
                 PROVE  i = j
        BY DEF AnswersDiffer
    <2>4. at[i] \in T /\ at[j] \in T /\ sent[i] = us[at[i]] /\ sent[j] = us[at[j]]
        BY <2>1
    <2>5. ~(at[i] < at[j]) /\ ~(at[j] < at[i])
        BY <2>2, <2>4
    <2>7. at[i] \in Nat /\ at[j] \in Nat
        BY <2>3, <2>4
    <2>6. at[i] = at[j]
        BY <2>5, <2>7
    <2> QED
        BY <2>1, <2>6 DEF Distinct
<1> QED
    BY <1>3, <1>4, <1>5, <1>6, <1>7

(* It leaves messages alone that repeat nothing.                           *)
LEMMA DifferentStay ==
    ASSUME NEW ms \in Seq(SentForm), CallIdsDiffer(ms), AnswersDiffer(ms)
    PROVE  DeduplicateToolCalls(ms) = ms
<1>1. DOMAIN ms = 1..Len(ms) /\ Len(ms) \in Nat
    OBVIOUS
<1>2. ASSUME NEW i \in DOMAIN ms, NEW k \in RepeatedCalls(ms, i) PROVE FALSE
    <2>1. PICK j \in 1..i : \E l \in DOMAIN ms[j].calls :
             (j < i \/ l < k) /\ ms[j].calls[l].id = ms[i].calls[k].id
        BY DEF RepeatedCalls
    <2>2. j \in DOMAIN ms /\ k \in DOMAIN ms[i].calls
        BY <1>1 DEF RepeatedCalls
    <2>3. PICK l \in DOMAIN ms[j].calls :
             (j < i \/ l < k) /\ ms[j].calls[l].id = ms[i].calls[k].id
        BY <2>1
    <2>4. j = i /\ l = k
        BY <2>2, <2>3 DEF CallIdsDiffer
    <2>5. k \in Nat /\ i \in Nat
        BY <1>1, <2>2, CallsOfMessage
    <2> QED
        BY <2>3, <2>4, <2>5
<1>3. WithoutRepeatedCalls(ms) = ms
    <2>1. PICK S : WithoutRepeatedCalls(ms) = Keep(ms, S) /\ DOMAIN ms \subseteq S
        BY <1>2, RepeatedGo
    <2> QED
        BY <2>1, KeepAll
<1> DEFINE Again(i) == ms[i].role = "tool" /\ ms[i].answers # NoAnswer
                       /\ \E j \in 1..(i - 1) : /\ ms[j].role = "tool"
                                                /\ ms[j].answers = ms[i].answers
           T == {i \in DOMAIN ms : ~Again(i)}
<1>4. WithoutRepeatedAnswers(ms) = Keep(ms, T)
    BY DEF WithoutRepeatedAnswers
<1>5. ASSUME NEW i \in DOMAIN ms, Again(i) PROVE FALSE
    <2>1. PICK j \in 1..(i - 1) : ms[j].role = "tool" /\ ms[j].answers = ms[i].answers
        BY <1>5
    <2>2. j \in DOMAIN ms /\ j # i
        BY <1>1
    <2> QED
        BY <1>5, <2>1, <2>2 DEF AnswersDiffer
<1>6. DOMAIN ms \subseteq T
    BY <1>5
<1>7. WithoutRepeatedAnswers(ms) = ms
    <2> HIDE DEF T
    <2> QED
        BY <1>4, <1>6, KeepAll
<1> QED
    BY <1>3, <1>7 DEF DeduplicateToolCalls

(***************************************************************************)
(* A dialect is read into the internal form                                *)
(***************************************************************************)

CallType  == [id : CallIds, name : Names, mark : Nat]
BlockType == {b \in [kind : {"text", "call", "result"}, mark : Nat,
                     id : CallIds \union {NoAnswer}, name : Names \union {NoName}] :
                 b.kind # "text" => b.id \in CallIds /\ b.name \in Names}

(* What a client writes in the dialect d: calls by the model, results in a *)
(* tool message, if the dialect has such messages, and items that are not  *)
(* empty.                                                                  *)
ClientMessages(d) ==
    {m \in [role : Roles \union {"model"}, blocks : Seq(BlockType)] :
        /\ m.role = "model" => d = "gemini"
        /\ m.role = "tool" => d # "anthropic"
        /\ m.role = "tool" \/ d = "responses" => m.blocks # << >>
        /\ \A k \in DOMAIN m.blocks :
              /\ m.blocks[k].kind = "call" => m.role = (IF d = "gemini" THEN "model" ELSE "assistant")
              /\ m.role = "tool" => m.blocks[k].kind = "result"}

(* An id that a result answers is one. *)
LEMMA AnswersAreSome == NoAnswer \notin AnswerIds
<1>1. NoAnswer.call = FALSE /\ NoAnswer.of = NoName
    BY DEF NoAnswer, Bare
<1>2. \A id \in CallIds : id.call = TRUE
    BY DEF CallIds
<1>3. \A name \in Names : Bare(name).of = name
    BY DEF Bare
<1> QED
    BY <1>1, <1>2, <1>3, NamesAssumption DEF AnswerIds

LEMMA ResultForm ==
    ASSUME NEW b \in BlockType, NEW id \in AnswerIds
    PROVE  ResultOf(b, id) \in SentForm
<1>1. b.mark \in Nat
    BY DEF BlockType
<1>2. << b.mark >> \in Seq(Nat) /\ << >> \in Seq(CallType)
    BY <1>1
<1>3. ResultOf(b, id) = [role |-> "tool", texts |-> << b.mark >>, calls |-> << >>, answers |-> id]
    BY DEF ResultOf, Message
<1>4. ResultOf(b, id) \in InternalForm
    BY <1>2, <1>3 DEF InternalForm, Roles, CallType
<1> QED
    BY <1>3, <1>4, AnswersAreSome DEF SentForm

LEMMA PlainForm ==
    ASSUME NEW role \in Roles \ {"tool"}, NEW texts \in Seq(Nat), NEW calls \in Seq(CallType),
           calls # << >> => role = "assistant"
    PROVE  Message(role, texts, calls, NoAnswer) \in SentForm
<1>1. Message(role, texts, calls, NoAnswer) \in InternalForm
    BY DEF InternalForm, Message, CallType
<1> QED
    BY <1>1 DEF SentForm, Message

(* Blocks of a kind, their marks, and the calls they make. *)
LEMMA OfKind ==
    ASSUME NEW m, m.blocks \in Seq(BlockType), NEW kind
    PROVE  /\ Of(m, kind) \in Seq(BlockType)
           /\ \A k \in DOMAIN Of(m, kind) : Of(m, kind)[k].kind = kind
           /\ Of(m, kind) # << >> => \E k \in DOMAIN m.blocks : m.blocks[k].kind = kind
<1> DEFINE T == {b \in ToSet(m.blocks) : b.kind = kind}
<1>1. Of(m, kind) = Filter(m.blocks, T)
    BY DEF Of
<1>2. Of(m, kind) \in Seq(BlockType)
    BY <1>1, FilterType
<1>3. ToSet(Of(m, kind)) = T
    BY <1>1, FilterRange
<1>4. \A k \in DOMAIN Of(m, kind) : Of(m, kind)[k] \in T
    BY <1>3 DEF ToSet
<1>5. Of(m, kind) # << >> => 1 \in DOMAIN Of(m, kind)
    BY <1>2
<1>6. Of(m, kind) # << >> => T # {}
    BY <1>4, <1>5
<1>7. T # {} => \E k \in DOMAIN m.blocks : m.blocks[k].kind = kind
    BY DEF ToSet
<1> QED
    BY <1>2, <1>4, <1>6, <1>7

LEMMA MarksType ==
    ASSUME NEW blocks \in Seq(BlockType)
    PROVE  Marks(blocks) \in Seq(Nat)
<1>1. \A k \in DOMAIN blocks : blocks[k] \in BlockType
    OBVIOUS
<1>2. \A k \in DOMAIN blocks : blocks[k].mark \in Nat
    BY <1>1 DEF BlockType
<1> QED
    BY <1>2 DEF Marks

LEMMA CallsType ==
    ASSUME NEW blocks \in Seq(BlockType), \A k \in DOMAIN blocks : blocks[k].kind = "call"
    PROVE  Calls(blocks) \in Seq(CallType) /\ (Calls(blocks) # << >> => blocks # << >>)
<1>1. \A k \in DOMAIN blocks : blocks[k] \in BlockType
    OBVIOUS
<1>2. \A k \in DOMAIN blocks :
         [id |-> blocks[k].id, name |-> blocks[k].name, mark |-> blocks[k].mark] \in CallType
    BY <1>1 DEF BlockType, CallType
<1>3. DOMAIN blocks = 1..Len(blocks) /\ Len(blocks) \in Nat
    OBVIOUS
<1>4. Calls(blocks) \in Seq(CallType)
    BY <1>2, <1>3 DEF Calls
<1>5. blocks = << >> => Calls(blocks) = << >>
    BY DEF Calls
<1> QED
    BY <1>4, <1>5

LEMMA OpenAiForm ==
    ASSUME NEW d \in {"openai", "ollama"}, NEW m \in ClientMessages(d)
    PROVE  OpenAiToChat(m) \in Seq(SentForm)
<1>1. m.blocks \in Seq(BlockType) /\ m.role \in Roles
    BY DEF ClientMessages
<1>2. CASE m.role = "tool"
    <2>1. m.blocks[1] \in BlockType /\ m.blocks[1].kind = "result"
        <3>1. m.blocks # << >> /\ \A k \in DOMAIN m.blocks : m.blocks[k].kind = "result"
            BY <1>2 DEF ClientMessages
        <3>2. 1 \in DOMAIN m.blocks
            BY <1>1, <3>1
        <3> QED
            BY <1>1, <3>1, <3>2
    <2>2. m.blocks[1].id \in AnswerIds
        BY <2>1 DEF BlockType, AnswerIds
    <2>3. ResultOf(m.blocks[1], m.blocks[1].id) \in SentForm
        BY <2>1, <2>2, ResultForm
    <2> QED
        BY <1>2, <2>3 DEF OpenAiToChat
<1>3. CASE m.role # "tool"
    <2>1. /\ Of(m, "text") \in Seq(BlockType) /\ Of(m, "call") \in Seq(BlockType)
          /\ \A k \in DOMAIN Of(m, "call") : Of(m, "call")[k].kind = "call"
          /\ Of(m, "call") # << >> => \E k \in DOMAIN m.blocks : m.blocks[k].kind = "call"
        BY <1>1, OfKind
    <2>2. Of(m, "call") # << >> => m.role = "assistant"
        BY <2>1 DEF ClientMessages
    <2>3. /\ Marks(Of(m, "text")) \in Seq(Nat) /\ Calls(Of(m, "call")) \in Seq(CallType)
          /\ Calls(Of(m, "call")) # << >> => m.role = "assistant"
        BY <2>1, <2>2, MarksType, CallsType
    <2>4. Message(m.role, Marks(Of(m, "text")), Calls(Of(m, "call")), NoAnswer) \in SentForm
        BY <1>1, <1>3, <2>3, PlainForm
    <2> QED
        BY <1>3, <2>4 DEF OpenAiToChat
<1> QED
    BY <1>2, <1>3

LEMMA AnthropicForm ==
    ASSUME NEW m \in ClientMessages("anthropic")
    PROVE  AnthropicToChat(m) \in Seq(SentForm)
<1>1. m.blocks \in Seq(BlockType) /\ m.role \in Roles /\ m.role # "tool"
    BY DEF ClientMessages
<1>2. \A kind : Of(m, kind) \in Seq(BlockType)
                /\ \A k \in DOMAIN Of(m, kind) : Of(m, kind)[k].kind = kind
    BY <1>1, OfKind
<1>3. CASE m.role = "user" /\ Of(m, "result") # << >>
    <2> DEFINE bs == Of(m, "result")
               f == [k \in DOMAIN bs |-> << ResultOf(bs[k], bs[k].id) >>]
    <2>1. bs \in Seq(BlockType) /\ \A k \in DOMAIN bs : bs[k] \in BlockType /\ bs[k].kind = "result"
        BY <1>2
    <2>2. AnthropicToChat(m) = FlattenSeq(f)
        BY <1>3 DEF AnthropicToChat, ConcatMap
    <2> HIDE DEF bs
    <2>3. \A k \in DOMAIN bs : bs[k].id \in AnswerIds
        BY <2>1 DEF BlockType, AnswerIds
    <2>4. \A k \in DOMAIN bs : ResultOf(bs[k], bs[k].id) \in SentForm
        BY <2>1, <2>3, ResultForm
    <2>5. \A k \in DOMAIN bs : f[k] \in Seq(SentForm)
        BY <2>4
    <2>6. f = [k \in DOMAIN bs |-> f[k]]
        OBVIOUS
    <2> HIDE DEF f
    <2> QED
        BY <2>1, <2>2, <2>5, <2>6, PiecesType
<1>4. CASE ~(m.role = "user" /\ Of(m, "result") # << >>)
    <2> DEFINE calls == IF m.role = "assistant" THEN Calls(Of(m, "call")) ELSE << >>
    <2>1. Marks(Of(m, "text")) \in Seq(Nat) /\ Calls(Of(m, "call")) \in Seq(CallType)
        BY <1>2, MarksType, CallsType
    <2>2. calls \in Seq(CallType) /\ (calls # << >> => m.role = "assistant")
        BY <2>1
    <2>3. AnthropicToChat(m) = << Message(m.role, Marks(Of(m, "text")), calls, NoAnswer) >>
        BY <1>4 DEF AnthropicToChat
    <2> HIDE DEF calls
    <2>4. Message(m.role, Marks(Of(m, "text")), calls, NoAnswer) \in SentForm
        BY <1>1, <2>1, <2>2, PlainForm
    <2> QED
        BY <2>3, <2>4
<1> QED
    BY <1>3, <1>4

LEMMA ResponsesForm ==
    ASSUME NEW m \in ClientMessages("responses")
    PROVE  ResponsesToChat(m) \in Seq(SentForm)
<1> DEFINE b == m.blocks[1]
<1>1. b \in BlockType /\ 1 \in DOMAIN m.blocks
    <2>1. m.blocks \in Seq(BlockType) /\ m.blocks # << >>
        BY DEF ClientMessages
    <2> QED
        BY <2>1
<1>2. m.role \in Roles /\ (m.role = "tool" => b.kind = "result")
    BY <1>1 DEF ClientMessages
<1>3. << >> \in Seq(CallType) /\ << >> \in Seq(Nat)
    OBVIOUS
<1>4. ResponsesToChat(m) =
         CASE b.kind = "text"   -> << Message(m.role, << b.mark >>, << >>, NoAnswer) >>
           [] b.kind = "call"   -> << Message("assistant", << >>, Calls(<< b >>), NoAnswer) >>
           [] b.kind = "result" -> << ResultOf(b, b.id) >>
    BY DEF ResponsesToChat
<1> HIDE DEF b
<1>5. b.kind \in {"text", "call", "result"} /\ b.mark \in Nat
    BY <1>1 DEF BlockType
<1>6. CASE b.kind = "text"
    <2>1. Message(m.role, << b.mark >>, << >>, NoAnswer) \in SentForm
        <3>1. << b.mark >> \in Seq(Nat) /\ m.role \in Roles \ {"tool"}
            BY <1>2, <1>5, <1>6
        <3> QED
            BY <1>3, <3>1, PlainForm
    <2> QED
        BY <1>4, <1>6, <2>1
<1>7. CASE b.kind = "call"
    <2>1. << b >> \in Seq(BlockType) /\ \A k \in DOMAIN << b >> : << b >>[k].kind = "call"
        BY <1>1, <1>7
    <2>2. Calls(<< b >>) \in Seq(CallType)
        BY <2>1, CallsType
    <2>3. "assistant" \in Roles \ {"tool"}
        BY DEF Roles
    <2>4. Message("assistant", << >>, Calls(<< b >>), NoAnswer) \in SentForm
        BY <1>3, <2>2, <2>3, PlainForm
    <2> QED
        BY <1>4, <1>7, <2>4
<1>8. CASE b.kind = "result"
    <2>1. b.id \in AnswerIds
        BY <1>1, <1>8 DEF BlockType, AnswerIds
    <2>2. ResultOf(b, b.id) \in SentForm
        BY <1>1, <2>1, ResultForm
    <2> QED
        BY <1>4, <1>8, <2>2
<1> QED
    BY <1>5, <1>6, <1>7, <1>8

LEMMA GeminiForm ==
    ASSUME NEW m \in ClientMessages("gemini")
    PROVE  GeminiToChat(m) \in Seq(SentForm)
<1> DEFINE role  == GeminiRole(m.role)
           calls == Of(m, "call")
           one(b) == IF b.kind = "result" THEN << ResultOf(b, Bare(b.name)) >>
                     ELSE << Message("user", << b.mark >>, << >>, NoAnswer) >>
<1>1. m.blocks \in Seq(BlockType)
    BY DEF ClientMessages
<1>2. << >> \in Seq(CallType) /\ << >> \in Seq(Nat) /\ "user" \in Roles \ {"tool"}
    BY DEF Roles
<1>3. role \in Roles \ {"tool"}
    BY DEF GeminiRole, Roles
<1>4. CASE role = "user" /\ Of(m, "result") # << >>
    <2> DEFINE f == [k \in DOMAIN m.blocks |-> one(m.blocks[k])]
    <2>1. GeminiToChat(m) = FlattenSeq(f)
        BY <1>4 DEF GeminiToChat, ConcatMap
    <2>2. ASSUME NEW b \in BlockType PROVE one(b) \in Seq(SentForm)
        <3>1. CASE b.kind = "result"
            <4>1. Bare(b.name) \in AnswerIds
                BY <3>1 DEF BlockType, AnswerIds
            <4>2. ResultOf(b, Bare(b.name)) \in SentForm
                BY <4>1, ResultForm
            <4> QED
                BY <3>1, <4>2
        <3>2. CASE b.kind # "result"
            <4>1. << b.mark >> \in Seq(Nat)
                BY DEF BlockType
            <4>2. Message("user", << b.mark >>, << >>, NoAnswer) \in SentForm
                BY <1>2, <4>1, PlainForm
            <4> QED
                BY <3>2, <4>2
        <3> QED
            BY <3>1, <3>2
    <2> HIDE DEF one
    <2>3. \A k \in DOMAIN m.blocks : f[k] \in Seq(SentForm)
        BY <1>1, <2>2
    <2>4. f = [k \in DOMAIN m.blocks |-> f[k]]
        OBVIOUS
    <2> HIDE DEF f
    <2> QED
        BY <1>1, <2>1, <2>3, <2>4, PiecesType
<1>5. CASE ~(role = "user" /\ Of(m, "result") # << >>)
    <2> DEFINE texts == IF calls = << >> THEN Marks(Of(m, "text")) ELSE << >>
               made == [k \in DOMAIN calls |-> [id |-> CallOf(calls[k].name), name |-> calls[k].name,
                                                mark |-> calls[k].mark]]
    <2>1. GeminiToChat(m) = << Message(role, texts, made, NoAnswer) >>
        BY <1>5, Zenon DEF GeminiToChat
    <2>2. /\ Of(m, "text") \in Seq(BlockType) /\ calls \in Seq(BlockType)
          /\ \A k \in DOMAIN calls : calls[k].kind = "call"
          /\ calls # << >> => \E k \in DOMAIN m.blocks : m.blocks[k].kind = "call"
        BY <1>1, OfKind
    <2>3. calls # << >> => role = "assistant"
        BY <2>2 DEF ClientMessages, GeminiRole
    <2>4. texts \in Seq(Nat)
        BY <1>2, <2>2, MarksType
    <2> HIDE DEF texts, role, calls
    <2>5. \A k \in DOMAIN calls : calls[k].name \in Names /\ calls[k].mark \in Nat
        <3>1. \A k \in DOMAIN calls : calls[k] \in BlockType
            BY <2>2
        <3> QED
            BY <2>2, <3>1 DEF BlockType
    <2>6. \A name \in Names : CallOf(name) \in CallIds
        BY DEF CallOf, CallIds
    <2>7. \A k \in DOMAIN calls :
             [id |-> CallOf(calls[k].name), name |-> calls[k].name, mark |-> calls[k].mark] \in CallType
        BY <2>5, <2>6 DEF CallType
    <2>8. DOMAIN calls = 1..Len(calls) /\ Len(calls) \in Nat
        BY <2>2
    <2>9. made \in Seq(CallType) /\ (calls = << >> => made = << >>)
        BY <2>7, <2>8
    <2> HIDE DEF made
    <2>10. Message(role, texts, made, NoAnswer) \in SentForm
        BY <1>3, <2>3, <2>4, <2>9, PlainForm
    <2> QED
        BY <2>1, <2>10
<1> QED
    BY <1>4, <1>5

(* The conversion of each dialect gives the internal form. *)
LEMMA ToChatForm ==
    ASSUME NEW d \in Dialects, NEW ms \in Seq(ClientMessages(d))
    PROVE  ToChat(d, ms) \in Seq(SentForm)
<1>1. \A k \in DOMAIN ms : ms[k] \in ClientMessages(d)
    OBVIOUS
<1>2. CASE d \in {"openai", "ollama"}
    <2> DEFINE f == [k \in DOMAIN ms |-> OpenAiToChat(ms[k])]
    <2>1. ToChat(d, ms) = FlattenSeq(f)
        BY <1>2 DEF ToChat, ConcatMap
    <2>2. \A k \in DOMAIN ms : f[k] \in Seq(SentForm)
        BY <1>1, <1>2, OpenAiForm
    <2>3. f = [k \in DOMAIN ms |-> f[k]]
        OBVIOUS
    <2> HIDE DEF f
    <2> QED
        BY <2>1, <2>2, <2>3, PiecesType
<1>3. CASE d = "anthropic"
    <2> DEFINE f == [k \in DOMAIN ms |-> AnthropicToChat(ms[k])]
    <2>1. ToChat(d, ms) = FlattenSeq(f)
        BY <1>3 DEF ToChat, ConcatMap
    <2>2. \A k \in DOMAIN ms : f[k] \in Seq(SentForm)
        BY <1>1, <1>3, AnthropicForm
    <2>3. f = [k \in DOMAIN ms |-> f[k]]
        OBVIOUS
    <2> HIDE DEF f
    <2> QED
        BY <2>1, <2>2, <2>3, PiecesType
<1>4. CASE d = "responses"
    <2> DEFINE f == [k \in DOMAIN ms |-> ResponsesToChat(ms[k])]
    <2>1. ToChat(d, ms) = FlattenSeq(f)
        BY <1>4 DEF ToChat, ConcatMap
    <2>2. \A k \in DOMAIN ms : f[k] \in Seq(SentForm)
        BY <1>1, <1>4, ResponsesForm
    <2>3. f = [k \in DOMAIN ms |-> f[k]]
        OBVIOUS
    <2> HIDE DEF f
    <2> QED
        BY <2>1, <2>2, <2>3, PiecesType
<1>5. CASE d = "gemini"
    <2> DEFINE f == [k \in DOMAIN ms |-> GeminiToChat(ms[k])]
    <2>1. ToChat(d, ms) = FlattenSeq(f)
        BY <1>5 DEF ToChat, ConcatMap
    <2>2. \A k \in DOMAIN ms : f[k] \in Seq(SentForm)
        BY <1>1, <1>5, GeminiForm
    <2>3. f = [k \in DOMAIN ms |-> f[k]]
        OBVIOUS
    <2> HIDE DEF f
    <2> QED
        BY <2>1, <2>2, <2>3, PiecesType
<1> QED
    BY <1>2, <1>3, <1>4, <1>5 DEF Dialects

(***************************************************************************)
(* The client writes what its dialect has a form for                       *)
(***************************************************************************)

(* The model's turns and the tools' have calls, and a text stands beside   *)
(* results where the dialect has a place for it.                           *)
TurnForm(d) == {t \in TurnType : /\ t.calls # << >> => t.who \in {"model", "tools"}
                                 /\ t.who = "tools" /\ t.text => d \in {"anthropic", "gemini"}}

LEMMA BlocksForm ==
    ASSUME dialect \in Dialects, NEW t \in TurnForm(dialect)
    PROVE  /\ Blocks(t) \in Seq(BlockType)
           /\ \A k \in DOMAIN Blocks(t) :
                 /\ Blocks(t)[k].kind = "call" => t.who = "model"
                 /\ RoleOf(t.who) = "tool" => Blocks(t)[k].kind = "result"
<1> DEFINE said == IF t.text THEN << TextBlock(t.mark) >> ELSE << >>
           kind == IF t.who = "tools" THEN "result" ELSE "call"
           acts == [k \in DOMAIN t.calls |-> Block(kind, t.mark, t.calls[k].id, t.calls[k].name)]
           Fits == {b \in BlockType : /\ b.kind = "call" => t.who = "model"
                                      /\ RoleOf(t.who) = "tool" => b.kind = "result"}
<1>1. t \in TurnType
    BY DEF TurnForm
<1>2. /\ t.mark \in Nat /\ t.text \in BOOLEAN /\ t.calls \in Seq([id : CallIds, name : Names])
      /\ t.who \in {"system", "user", "model", "tools"}
    BY <1>1 DEF TurnType
<1>3. RoleOf(t.who) = "tool" => t.who = "tools" /\ dialect \notin {"anthropic", "gemini"}
    BY <1>2 DEF RoleOf
<1>4. said \in Seq(Fits)
    <2>1. CASE t.text
        <3>1. RoleOf(t.who) # "tool"
            BY <1>3, <2>1 DEF TurnForm
        <3>2. TextBlock(t.mark) \in BlockType /\ TextBlock(t.mark).kind = "text"
            BY <1>2 DEF TextBlock, Block, BlockType
        <3>3. TextBlock(t.mark) \in Fits
            BY <3>1, <3>2
        <3> HIDE DEF Fits
        <3> QED
            BY <2>1, <3>3
    <2>2. CASE ~t.text
        BY <2>2
    <2> QED
        BY <2>1, <2>2
<1>5. acts \in Seq(Fits)
    <2>1. ASSUME NEW k \in DOMAIN t.calls PROVE acts[k] \in Fits
        <3>0. t.calls[k] \in [id : CallIds, name : Names] /\ t.calls # << >>
            <4>1. \A C : \A s \in Seq(C) : \A i \in DOMAIN s : s[i] \in C /\ s # << >>
                OBVIOUS
            <4> QED
                BY <1>2, <4>1
        <3>1. t.calls[k].id \in CallIds /\ t.calls[k].name \in Names
            BY <3>0
        <3>2. t.who = "model" \/ t.who = "tools"
            BY <3>0 DEF TurnForm
        <3>3. Block(kind, t.mark, t.calls[k].id, t.calls[k].name) \in BlockType
            BY <1>2, <3>1 DEF Block, BlockType
        <3>4. Block(kind, t.mark, t.calls[k].id, t.calls[k].name).kind = kind
            BY DEF Block
        <3> QED
            BY <1>3, <3>2, <3>3, <3>4
    <2>2. DOMAIN t.calls = 1..Len(t.calls) /\ Len(t.calls) \in Nat
        BY <1>2
    <2>3. DOMAIN acts = DOMAIN t.calls
        OBVIOUS
    <2>4. acts = [k \in DOMAIN t.calls |-> acts[k]]
        OBVIOUS
    <2> HIDE DEF acts, Fits
    <2> QED
        BY <2>1, <2>2, <2>4
<1>6. Blocks(t) = IF t.who = "tools" THEN acts \o said ELSE said \o acts
    BY DEF Blocks
<1> HIDE DEF said, acts, kind, Fits
<1>7. Blocks(t) \in Seq(Fits)
    BY <1>4, <1>5, <1>6
<1>8. \A k \in DOMAIN Blocks(t) : Blocks(t)[k] \in Fits
    BY <1>7
<1>9. Fits \subseteq BlockType
    BY DEF Fits
<1>10. Blocks(t) \in Seq(BlockType)
    BY <1>7, <1>9
<1> QED
    BY <1>8, <1>10 DEF Fits

LEMMA WrittenForm ==
    ASSUME dialect \in Dialects, NEW t \in TurnForm(dialect)
    PROVE  Written(t) \in Seq(ClientMessages(dialect))
<1> DEFINE role == RoleOf(t.who)
           bs   == Blocks(t)
           each == dialect = "responses" \/ (t.who = "tools" /\ dialect \in {"openai", "ollama"})
<1>1. /\ bs \in Seq(BlockType)
      /\ \A k \in DOMAIN bs : /\ bs[k].kind = "call" => t.who = "model"
                              /\ role = "tool" => bs[k].kind = "result"
    BY BlocksForm
<1>2. t.who \in {"system", "user", "model", "tools"}
    BY DEF TurnForm, TurnType
<1>3. /\ role \in Roles \union {"model"} /\ (role = "model" => dialect = "gemini")
      /\ t.who = "model" => role = (IF dialect = "gemini" THEN "model" ELSE "assistant")
      /\ role = "tool" => t.who = "tools" /\ dialect \notin {"anthropic", "gemini"}
    BY <1>2 DEF RoleOf, Roles
<1>4. Written(t) = IF each THEN [k \in DOMAIN bs |-> Says(role, << bs[k] >>)] ELSE << Says(role, bs) >>
    BY DEF Written
<1> HIDE DEF role, bs
<1>5. CASE each
    <2>1. ASSUME NEW k \in DOMAIN bs PROVE Says(role, << bs[k] >>) \in ClientMessages(dialect)
        <3>1. bs[k] \in BlockType
            BY <1>1
        <3>2. << bs[k] >> \in Seq(BlockType) /\ << bs[k] >> # << >>
              /\ \A i \in DOMAIN << bs[k] >> : << bs[k] >>[i] = bs[k]
            BY <3>1
        <3> DEFINE one == << bs[k] >>
        <3> HIDE DEF one
        <3>3. one \in Seq(BlockType) /\ one # << >> /\ \A i \in DOMAIN one : one[i] = bs[k]
            BY <3>2 DEF one
        <3>4. Says(role, one) \in ClientMessages(dialect)
            BY <1>1, <1>3, <3>3 DEF Says, ClientMessages
        <3> QED
            BY <3>4 DEF one
    <2>2. DOMAIN bs = 1..Len(bs) /\ Len(bs) \in Nat
        BY <1>1
    <2> QED
        BY <1>4, <1>5, <2>1, <2>2
<1>6. CASE ~each
    <2>1. dialect # "responses" /\ role # "tool"
        BY <1>3, <1>6 DEF Dialects
    <2>2. Says(role, bs) \in ClientMessages(dialect)
        BY <1>1, <1>3, <2>1 DEF Says, ClientMessages
    <2> QED
        BY <1>4, <1>6, <2>2
<1> QED
    BY <1>5, <1>6

(* The inductive invariant: what is said of each turn and each message.    *)
ConversationInv ==
    /\ dialect \in Dialects /\ upstream \in Upstreams /\ chained \in BOOLEAN
    /\ history \in Seq(TurnForm(dialect))
    /\ stored \in Seq(SentForm)
    /\ unsent \in 1..(Len(history) + 1)

LEMMA MessagesForm ==
    ASSUME ConversationInv
    PROVE  Messages \in Seq(SentForm)
<1> DEFINE new == ToChat(dialect, ConcatMap(Written, New))
<1>1. New \in Seq(TurnForm(dialect))
    <2> DEFINE fresh == SubSeq(history, unsent, Len(history))
    <2>1. fresh \in Seq(TurnForm(dialect))
        BY DEF ConversationInv
    <2>2. ASSUME unsent > 1 PROVE << history[1] >> \o fresh \in Seq(TurnForm(dialect))
        <3>1. history[1] \in TurnForm(dialect)
            BY <2>2 DEF ConversationInv
        <3> HIDE DEF fresh
        <3> QED
            BY <2>1, <3>1
    <2>3. New = IF ~chained THEN history
                ELSE IF unsent > 1 /\ history[1].who = "system" THEN << history[1] >> \o fresh
                ELSE fresh
        BY DEF New
    <2> HIDE DEF fresh
    <2> QED
        BY <2>1, <2>2, <2>3 DEF ConversationInv
<1>2. ConcatMap(Written, New) \in Seq(ClientMessages(dialect))
    <2> DEFINE f == [k \in DOMAIN New |-> Written(New[k])]
    <2>1. \A k \in DOMAIN New : f[k] \in Seq(ClientMessages(dialect))
        <3>1. \A k \in DOMAIN New : New[k] \in TurnForm(dialect)
            BY <1>1
        <3> QED
            BY <3>1, WrittenForm DEF ConversationInv
    <2>2. f = [k \in DOMAIN New |-> f[k]]
        OBVIOUS
    <2>3. ConcatMap(Written, New) = FlattenSeq(f)
        BY DEF ConcatMap
    <2> HIDE DEF f
    <2> QED
        BY <1>1, <2>1, <2>2, <2>3, PiecesType
<1>3. new \in Seq(SentForm)
    BY <1>2, ToChatForm DEF ConversationInv
<1>4. Messages = IF chained THEN Chain(stored, new) ELSE new
    BY DEF Messages
<1> HIDE DEF new
<1>5. new # << >> => Tail(new) \in Seq(SentForm)
    BY <1>3
<1>6. Chain(stored, new) = stored \o new \/ (new # << >> /\ Chain(stored, new) = stored \o Tail(new))
    BY DEF Chain
<1>7. Chain(stored, new) \in Seq(SentForm)
    <2>1. stored \in Seq(SentForm)
        BY DEF ConversationInv
    <2>2. \A more \in Seq(SentForm) : stored \o more \in Seq(SentForm)
        BY <2>1
    <2> QED
        BY <1>3, <1>5, <1>6, <2>2
<1> QED
    BY <1>3, <1>4, <1>7

(***************************************************************************)
(* The steps                                                               *)
(***************************************************************************)

LEMMA ConversationInit == Init => ConversationInv
<1> SUFFICES ASSUME Init PROVE ConversationInv
    OBVIOUS
<1>1. dialect \in Dialects /\ upstream \in Upstreams /\ chained \in BOOLEAN
    BY DEF Init
<1>2. stored = << >> /\ unsent = 1
    BY DEF Init
<1> DEFINE t == [who |-> "system", mark |-> 1, text |-> TRUE, calls |-> << >>, copy |-> FALSE]
<1>3. t \in TurnForm(dialect)
    <2>1. << >> \in Seq([id : CallIds, name : Names])
        OBVIOUS
    <2> QED
        BY <2>1 DEF TurnForm, TurnType
<1>4. history = << t >> \/ history = << >>
    BY DEF Init
<1> HIDE DEF t
<1>5. history \in Seq(TurnForm(dialect)) /\ Len(history) \in Nat
    <2>1. << t >> \in Seq(TurnForm(dialect)) /\ << >> \in Seq(TurnForm(dialect))
        BY <1>3
    <2>2. history \in Seq(TurnForm(dialect))
        BY <1>4, <2>1
    <2> QED
        BY <2>2
<1> QED
    BY <1>1, <1>2, <1>5 DEF ConversationInv

(* A turn added to the history leaves room for the first one not sent.     *)
LEMMA TurnAdded ==
    ASSUME ConversationInv, NEW t \in TurnForm(dialect), dialect' = dialect,
           upstream' = upstream, chained' = chained, history' = Append(history, t),
           stored' \in Seq(SentForm), unsent' \in {unsent, Len(history) + 2}
    PROVE  ConversationInv'
<1>1. Append(history, t) \in Seq(TurnForm(dialect)) /\ Len(Append(history, t)) = Len(history) + 1
    BY AppendFacts DEF ConversationInv
<1>2. Len(history) \in Nat
    BY DEF ConversationInv
<1>3. unsent' \in 1..(Len(history') + 1)
    BY <1>1, <1>2 DEF ConversationInv
<1> QED
    BY <1>1, <1>3 DEF ConversationInv

LEMMA TurnMade ==
    ASSUME ConversationInv, NEW who \in {"user", "model", "tools"}, NEW text \in BOOLEAN,
           NEW calls \in Seq([id : CallIds, name : Names]),
           calls # << >> => who \in {"model", "tools"},
           who = "tools" /\ text => dialect \in {"anthropic", "gemini"}
    PROVE  Turn(who, text, calls) \in TurnForm(dialect)
<1>1. Len(history) + 1 \in Nat
    BY DEF ConversationInv
<1> QED
    BY <1>1 DEF Turn, TurnForm, TurnType

LEMMA SayKeeps == ASSUME ConversationInv, Say PROVE ConversationInv'
<1>1. << >> \in Seq([id : CallIds, name : Names])
    OBVIOUS
<1>2. Turn("user", TRUE, << >>) \in TurnForm(dialect)
    BY <1>1, TurnMade
<1> QED
    BY <1>2, TurnAdded DEF Say, ConversationInv

LEMMA AnswerKeeps ==
    ASSUME ConversationInv, NEW text \in BOOLEAN, NEW names \in CallLists, Answer(text, names)
    PROVE  ConversationInv'
<1> DEFINE mark   == Len(history) + 1
           idOf(k) == IF upstream = "gemini" THEN CallOf(names[k]) ELSE MadeUp(mark * 10 + k)
           calls  == [k \in DOMAIN names |-> [id |-> idOf(k), name |-> names[k]]]
<1>1. PICK n \in Nat : names \in [1..n -> Names]
    BY ConversationAssumption DEF CallLists
<1>2. calls \in Seq([id : CallIds, name : Names])
    <2>1. Len(history) \in Nat
        BY DEF ConversationInv
    <2>2. ASSUME NEW k \in 1..n PROVE idOf(k) \in CallIds
        <3>1. CallOf(names[k]) \in CallIds
            BY <1>1 DEF CallOf, CallIds
        <3>2. mark * 10 + k \in Nat
            BY <1>1, <2>1
        <3> HIDE DEF mark
        <3>3. MadeUp(mark * 10 + k) \in CallIds
            BY <3>2 DEF MadeUp, CallIds
        <3> QED
            BY <3>1, <3>3
    <2> HIDE DEF idOf
    <2> QED
        BY <1>1, <2>2
<1>3. Turn("model", text, calls) \in TurnForm(dialect)
    <2> HIDE DEF calls
    <2> QED
        BY <1>2, TurnMade
<1>4. history' = Append(history, Turn("model", text, calls))
    BY DEF Answer
<1>5. /\ dialect' = dialect /\ upstream' = upstream /\ chained' = chained
      /\ stored' \in {stored, Messages} /\ unsent' \in {unsent, Len(history) + 2}
    BY DEF Answer
<1>6. stored' \in Seq(SentForm)
    BY <1>5, MessagesForm DEF ConversationInv
<1> HIDE DEF calls
<1> QED
    BY <1>3, <1>4, <1>5, <1>6, TurnAdded

LEMMA RunToolsKeeps ==
    ASSUME ConversationInv, NEW extra \in BOOLEAN, RunTools(extra) PROVE ConversationInv'
<1>1. Turns \in Seq(TurnForm(dialect))
    BY FilterType DEF Turns, ConversationInv
<1>2. Turns # << >>
    BY DEF RunTools, LastIs
<1>3. Last(Turns) \in TurnForm(dialect)
    BY <1>1, <1>2 DEF Last
<1>4. Last(Turns).calls \in Seq([id : CallIds, name : Names])
    BY <1>3 DEF TurnForm, TurnType
<1>5. Turn("tools", extra, Last(Turns).calls) \in TurnForm(dialect)
    BY <1>4, TurnMade DEF RunTools
<1> QED
    BY <1>5, TurnAdded DEF RunTools, ConversationInv

LEMMA AccumulateKeeps ==
    ASSUME ConversationInv, NEW i \in DOMAIN history, Accumulate(i) PROVE ConversationInv'
<1> DEFINE said == history[i].text /\ history[i].who = "model" /\ dialect # "responses"
           t    == [history[i] EXCEPT !.copy = TRUE, !.text = said]
<1>1. history[i] \in TurnForm(dialect)
    BY DEF ConversationInv
<1>2. said \in BOOLEAN /\ (said => history[i].who = "model")
    OBVIOUS
<1>3. history' = Append(history, t)
    BY DEF Accumulate
<1> HIDE DEF said
<1>4. \A u \in TurnForm(dialect) : (said => u.who = "model") =>
         [u EXCEPT !.copy = TRUE, !.text = said] \in TurnForm(dialect)
    BY <1>2 DEF TurnForm, TurnType
<1>5. t \in TurnForm(dialect)
    BY <1>1, <1>2, <1>4
<1> HIDE DEF t
<1> QED
    BY <1>3, <1>5, TurnAdded DEF Accumulate, ConversationInv

LEMMA ConversationInductive == ConversationInv /\ [Next]_vars => ConversationInv'
<1> SUFFICES ASSUME ConversationInv, [Next]_vars PROVE ConversationInv'
    OBVIOUS
<1>1. CASE Say
    BY <1>1, SayKeeps
<1>2. ASSUME NEW text \in BOOLEAN, NEW names \in CallLists, Answer(text, names)
      PROVE  ConversationInv'
    BY <1>2, AnswerKeeps
<1>3. ASSUME NEW extra \in BOOLEAN, RunTools(extra) PROVE ConversationInv'
    BY <1>3, RunToolsKeeps
<1>4. ASSUME NEW i \in DOMAIN history, Accumulate(i) PROVE ConversationInv'
    BY <1>4, AccumulateKeeps
<1>5. CASE UNCHANGED vars
    BY <1>5 DEF vars, ConversationInv
<1> QED
    BY <1>1, <1>2, <1>3, <1>4, <1>5 DEF Next

LEMMA ConversationInvariant == Spec => []ConversationInv
BY ConversationInit, ConversationInductive, PTL DEF Spec

(***************************************************************************)
(* Theorems                                                                *)
(***************************************************************************)

(* Turns, the stored conversation and what is sent have their types: every *)
(* dialect is read into the internal form, whatever the conversation.      *)
THEOREM ConversationTypeCorrect == Spec => []TypeOK
<1>1. ConversationInv => TypeOK
    <2> SUFFICES ASSUME ConversationInv PROVE TypeOK
        OBVIOUS
    <2>1. TurnForm(dialect) \subseteq TurnType /\ SentForm \subseteq InternalForm
        BY DEF TurnForm, SentForm
    <2>2. Sent \in Seq(SentForm)
        BY MessagesForm, DeduplicatedDiffer DEF Sent
    <2>3. history \in Seq(TurnType) /\ stored \in Seq(InternalForm) /\ Sent \in Seq(InternalForm)
        BY <2>1, <2>2 DEF ConversationInv
    <2> QED
        BY <2>3 DEF ConversationInv, TypeOK
<1> QED
    BY <1>1, ConversationInvariant, PTL

(* No request that is sent, at any time, carries a call id twice or two    *)
(* results for one call (deduplicate_tool_calls), however many copies the  *)
(* client has accumulated and whatever a chained conversation brings in.   *)
THEOREM RequestsCarryIdsOnce == Spec => []IdsUnique
<1>1. ConversationInv => IdsUnique
    BY MessagesForm, DeduplicatedDiffer DEF IdsUnique, Sent
<1> QED
    BY <1>1, ConversationInvariant, PTL

(* A request that repeats nothing is sent as it is.                        *)
THEOREM CleanRequestsAreKept ==
    Spec => [](CallIdsDiffer(Messages) /\ AnswersDiffer(Messages) => Sent = Messages)
<1>1. ConversationInv => (CallIdsDiffer(Messages) /\ AnswersDiffer(Messages) => Sent = Messages)
    BY MessagesForm, DifferentStay DEF Sent
<1> QED
    BY <1>1, ConversationInvariant, PTL
=============================================================================
