-------------------------- MODULE AccountVault_proofs --------------------------
(***************************************************************************)
(* What the vault operations compute, for every set of accounts and every  *)
(* vault: each one takes a well-formed vault to a well-formed vault, and   *)
(* changes what it is to change.                                           *)
(*                                                                         *)
(* They rest on facts about sequences, which other proofs use too: an      *)
(* induction principle for sequences, got from the well-foundedness of <   *)
(* on Nat, and what Filter (Filtering.tla) does to an appended element, to *)
(* the range of a sequence and to its repetitions.                         *)
(***************************************************************************)
EXTENDS AccountVault, Integers, SequenceTheorems, WellFoundedInduction, TLAPS

(***************************************************************************)
(* Induction                                                               *)
(***************************************************************************)

(* Induction on the natural numbers, for sets. *)
LEMMA NatByInduction ==
    ASSUME NEW P \in SUBSET Nat, 0 \in P, \A n \in P : n + 1 \in P
    PROVE  P = Nat
<1> DEFINE Bad == Nat \ P
<1> SUFFICES ASSUME Bad # {} PROVE FALSE
    OBVIOUS
<1>1. PICK m \in Bad : \A k \in Bad : <<k, m>> \notin OpToRel(<, Nat)
    <2>1. Bad \subseteq Nat
        OBVIOUS
    <2> HIDE DEF Bad
    <2> QED
        BY <2>1, NatLessThanWellFounded, WFMin
<1>2. m \in Nat /\ m # 0 /\ m - 1 \in Nat
    OBVIOUS
<1>3. <<m - 1, m>> \in OpToRel(<, Nat)
    BY <1>2 DEF OpToRel
<1>4. m - 1 \in P
    BY <1>1, <1>2, <1>3
<1>5. (m - 1) + 1 = m
    BY <1>2
<1> QED
    BY <1>4, <1>5

(* What SMT knows of Append, for leaves that need it at a term of their    *)
(* own.                                                                    *)
LEMMA AppendFacts ==
    ASSUME NEW S, NEW s \in Seq(S), NEW x \in S
    PROVE  /\ Append(s, x) \in Seq(S) /\ Len(Append(s, x)) = Len(s) + 1
           /\ DOMAIN Append(s, x) = 1..(Len(s) + 1) /\ DOMAIN s = 1..Len(s) /\ Len(s) \in Nat
           /\ Append(s, x)[Len(s) + 1] = x
           /\ \A i \in 1..Len(s) : Append(s, x)[i] = s[i]
    OBVIOUS

(* Induction on sequences: a set with the empty one, closed under Append. *)
LEMMA SeqByInduction ==
    ASSUME NEW S, NEW Q \in SUBSET Seq(S), << >> \in Q,
           \A s \in Q : \A x \in S : Append(s, x) \in Q
    PROVE  Q = Seq(S)
<1> DEFINE P == {n \in Nat : \A s \in Seq(S) : Len(s) = n => s \in Q}
<1>1. 0 \in P
    <2> SUFFICES ASSUME NEW s \in Seq(S), Len(s) = 0 PROVE s \in Q
        OBVIOUS
    <2>1. s = << >>
        OBVIOUS
    <2> QED
        BY <2>1
<1>2. \A n \in P : n + 1 \in P
    <2>1. ASSUME NEW n \in Nat, \A s \in Seq(S) : Len(s) = n => s \in Q,
                 NEW s \in Seq(S), Len(s) = n + 1
          PROVE  s \in Q
        <3> DEFINE front == SubSeq(s, 1, n)
        <3>1. front \in Seq(S) /\ Len(front) = n /\ \A i \in 1..n : front[i] = s[i]
            BY <2>1
        <3>2. s[n + 1] \in S
            BY <2>1
        <3> HIDE DEF front
        <3>3. s = Append(front, s[n + 1])
            <4> DEFINE t == Append(front, s[n + 1])
            <4>1. t \in Seq(S) /\ Len(t) = n + 1 /\ \A i \in 1..(n + 1) : t[i] = s[i]
                <5>1. Len(front) = n /\ s[Len(front) + 1] = s[n + 1]
                    BY <3>1
                <5>2. \A e \in S :
                         /\ Append(front, e) \in Seq(S) /\ Len(Append(front, e)) = Len(front) + 1
                         /\ Append(front, e)[Len(front) + 1] = e
                         /\ \A i \in 1..Len(front) : Append(front, e)[i] = front[i]
                    BY <3>1, AppendFacts
                <5>4. /\ t \in Seq(S) /\ Len(t) = Len(front) + 1 /\ t[Len(front) + 1] = s[n + 1]
                      /\ \A i \in 1..Len(front) : t[i] = front[i]
                    BY <3>2, <5>2
                <5> HIDE DEF t
                <5>3. \A i \in 1..(n + 1) : i \in 1..n \/ i = n + 1
                    OBVIOUS
                <5> QED
                    BY <5>1, <5>3, <5>4, <3>1
            <4> HIDE DEF t
            <4>2. s = t
                BY <2>1, <4>1, SeqEqual
            <4> QED
                BY <4>2 DEF t
        <3>4. front \in Q
            BY <2>1, <3>1
        <3> QED
            BY <3>2, <3>3, <3>4
    <2> SUFFICES ASSUME NEW n \in P PROVE n + 1 \in P
        OBVIOUS
    <2>2. n \in Nat /\ n + 1 \in Nat /\ \A s \in Seq(S) : Len(s) = n => s \in Q
        OBVIOUS
    <2>3. \A s \in Seq(S) : Len(s) = n + 1 => s \in Q
        BY <2>1, <2>2
    <2> QED
        BY <2>2, <2>3
<1>3. P = Nat
    <2>1. P \in SUBSET Nat
        OBVIOUS
    <2> HIDE DEF P
    <2> QED
        BY <1>1, <1>2, <2>1, NatByInduction
<1>4. \A s \in Seq(S) : Len(s) \in P => s \in Q
    OBVIOUS
<1> HIDE DEF P
<1> QED
    BY <1>3, <1>4

(***************************************************************************)
(* Filter                                                                  *)
(***************************************************************************)

(* f filters the prefixes of s up to n. *)
Recurrence(f, s, T, n) ==
    /\ f[0] = << >>
    /\ \A i \in 1..n : f[i] = IF s[i] \in T THEN Append(f[i - 1], s[i]) ELSE f[i - 1]

(* There is a function that filters every prefix of s. *)
LEMMA PrefixesExist ==
    ASSUME NEW S, NEW s \in Seq(S), NEW T
    PROVE  \E f \in [0..Len(s) -> Seq(S)] : Recurrence(f, s, T, Len(s))
<1> DEFINE P == {n \in Nat : n <= Len(s) => \E f \in [0..n -> Seq(S)] : Recurrence(f, s, T, n)}
<1>1. 0 \in P
    <2>1. [i \in 0..0 |-> << >>] \in [0..0 -> Seq(S)]
        OBVIOUS
    <2>2. Recurrence([i \in 0..0 |-> << >>], s, T, 0)
        BY DEF Recurrence
    <2> QED
        BY <2>1, <2>2
<1>2. \A n \in P : n + 1 \in P
    <2> SUFFICES ASSUME NEW n \in P, n + 1 <= Len(s)
                 PROVE  \E g \in [0..(n + 1) -> Seq(S)] : Recurrence(g, s, T, n + 1)
        OBVIOUS
    <2>1. PICK f \in [0..n -> Seq(S)] : Recurrence(f, s, T, n)
        OBVIOUS
    <2> DEFINE next == IF s[n + 1] \in T THEN Append(f[n], s[n + 1]) ELSE f[n]
               g == [i \in 0..(n + 1) |-> IF i = n + 1 THEN next ELSE f[i]]
    <2>2. next \in Seq(S)
        <3>1. f[n] \in Seq(S) /\ s[n + 1] \in S
            OBVIOUS
        <3> QED
            BY <3>1
    <2> HIDE DEF next
    <2>3. g \in [0..(n + 1) -> Seq(S)]
        BY <2>2
    <2>4. g[n + 1] = next /\ \A i \in 0..n : g[i] = f[i]
        OBVIOUS
    <2> HIDE DEF g
    <2>5. g[0] = << >>
        <3>1. 0 \in 0..n
            OBVIOUS
        <3> QED
            BY <2>1, <2>4, <3>1 DEF Recurrence
    <2>6. \A i \in 1..(n + 1) : g[i] = IF s[i] \in T THEN Append(g[i - 1], s[i]) ELSE g[i - 1]
        <3> SUFFICES ASSUME NEW i \in 1..(n + 1)
                     PROVE  g[i] = IF s[i] \in T THEN Append(g[i - 1], s[i]) ELSE g[i - 1]
            OBVIOUS
        <3>1. i - 1 \in 0..n /\ g[i - 1] = f[i - 1]
            BY <2>4
        <3>2. CASE i = n + 1
            BY <3>1, <3>2, <2>4 DEF next
        <3>3. CASE i # n + 1
            <4>1. i \in 1..n /\ g[i] = f[i]
                BY <3>3, <2>4
            <4> QED
                BY <4>1, <3>1, <2>1 DEF Recurrence
        <3> QED
            BY <3>2, <3>3
    <2> QED
        BY <2>3, <2>5, <2>6 DEF Recurrence
<1>3. P = Nat
    <2>1. P \in SUBSET Nat
        OBVIOUS
    <2> HIDE DEF P
    <2> QED
        BY <1>1, <1>2, <2>1, NatByInduction
<1>4. Len(s) \in Nat
    OBVIOUS
<1> QED
    BY <1>3, <1>4

(* s under T and r under U look the same up to n. *)
SameUpTo(s, T, r, U, n) == \A i \in 1..n : s[i] = r[i] /\ (s[i] \in T <=> r[i] \in U)

(* Two such functions agree as long as the sequences do. *)
LEMMA PrefixesAgree ==
    ASSUME NEW n \in Nat, NEW s, NEW r, NEW T, NEW U, NEW f, NEW g,
           Recurrence(f, s, T, n), Recurrence(g, r, U, n),
           SameUpTo(s, T, r, U, n)
    PROVE  \A i \in 0..n : f[i] = g[i]
<1> DEFINE P == {i \in Nat : i <= n => f[i] = g[i]}
<1>1. 0 \in P
    BY DEF Recurrence
<1>2. \A i \in P : i + 1 \in P
    <2> SUFFICES ASSUME NEW i \in P, i + 1 <= n PROVE f[i + 1] = g[i + 1]
        OBVIOUS
    <2>1. i + 1 \in 1..n /\ (i + 1) - 1 = i /\ f[i] = g[i]
        OBVIOUS
    <2> HIDE DEF P
    <2> QED
        BY <2>1, Zenon DEF Recurrence, SameUpTo
<1>3. P = Nat
    <2>1. P \in SUBSET Nat
        OBVIOUS
    <2> HIDE DEF P
    <2> QED
        BY <1>1, <1>2, <2>1, NatByInduction
<1> QED
    BY <1>3

(* Filter is the last value of one. *)
LEMMA FilterUnfolds ==
    ASSUME NEW S, NEW s \in Seq(S), NEW T
    PROVE  \E f \in [0..Len(s) -> Seq(S)] :
              Recurrence(f, s, T, Len(s)) /\ Filter(s, T) = f[Len(s)]
<1> DEFINE kept == CHOOSE f : f = [n \in 0..Len(s) |->
                        IF n = 0 THEN << >>
                        ELSE IF s[n] \in T THEN Append(f[n - 1], s[n]) ELSE f[n - 1]]
<1>1. PICK f \in [0..Len(s) -> Seq(S)] : Recurrence(f, s, T, Len(s))
    BY PrefixesExist
<1>2. f = [n \in 0..Len(s) |->
              IF n = 0 THEN << >>
              ELSE IF s[n] \in T THEN Append(f[n - 1], s[n]) ELSE f[n - 1]]
    <2>1. \A n \in 0..Len(s) :
             f[n] = IF n = 0 THEN << >>
                    ELSE IF s[n] \in T THEN Append(f[n - 1], s[n]) ELSE f[n - 1]
        <3>1. \A n \in 0..Len(s) : n = 0 \/ (n # 0 /\ n \in 1..Len(s))
            OBVIOUS
        <3> QED
            BY <1>1, <3>1 DEF Recurrence
    <2> QED
        BY <2>1
<1>3. kept = [n \in 0..Len(s) |->
                 IF n = 0 THEN << >>
                 ELSE IF s[n] \in T THEN Append(kept[n - 1], s[n]) ELSE kept[n - 1]]
    BY <1>2, Zenon
<1>4. Filter(s, T) = kept[Len(s)]
    BY DEF Filter
<1> HIDE DEF kept
<1>5. Recurrence(kept, s, T, Len(s))
    <2>1. Len(s) \in Nat
        OBVIOUS
    <2>2. \A n \in 0..Len(s) :
             kept[n] = IF n = 0 THEN << >>
                       ELSE IF s[n] \in T THEN Append(kept[n - 1], s[n]) ELSE kept[n - 1]
        BY <1>3, Zenon
    <2>3. kept[0] = << >>
        BY <2>1, <2>2
    <2>4. \A n \in 1..Len(s) : n \in 0..Len(s) /\ n # 0
        BY <2>1
    <2> QED
        BY <2>2, <2>3, <2>4 DEF Recurrence
<1>6. \A i \in 0..Len(s) : kept[i] = f[i]
    BY <1>1, <1>5, PrefixesAgree DEF SameUpTo
<1> QED
    BY <1>1, <1>4, <1>6

(* Nothing of nothing. *)
LEMMA FilterEmpty == ASSUME NEW T PROVE Filter(<< >>, T) = << >>
<1>1. << >> \in Seq({})
    OBVIOUS
<1>2. \E f \in [0..Len(<< >>) -> Seq({})] :
         Recurrence(f, << >>, T, Len(<< >>)) /\ Filter(<< >>, T) = f[Len(<< >>)]
    BY <1>1, FilterUnfolds
<1>3. Len(<< >>) = 0
    OBVIOUS
<1> QED
    BY <1>2, <1>3 DEF Recurrence

(* An appended element is kept or not, whatever comes before it. *)
LEMMA FilterAppend ==
    ASSUME NEW S, NEW s \in Seq(S), NEW x \in S, NEW T
    PROVE  Filter(Append(s, x), T) =
              IF x \in T THEN Append(Filter(s, T), x) ELSE Filter(s, T)
<1> SUFFICES ASSUME NEW n \in Nat, n = Len(s), NEW r \in Seq(S), r = Append(s, x)
             PROVE  Filter(r, T) = IF x \in T THEN Append(Filter(s, T), x) ELSE Filter(s, T)
    BY AppendFacts
<1>1. Len(r) = n + 1 /\ r[n + 1] = x /\ \A i \in 1..n : s[i] = r[i] /\ (s[i] \in T <=> r[i] \in T)
    BY AppendFacts
<1>2. PICK f \in [0..Len(s) -> Seq(S)] : Recurrence(f, s, T, n) /\ Filter(s, T) = f[n]
    BY FilterUnfolds
<1>3. PICK g \in [0..Len(r) -> Seq(S)] :
         Recurrence(g, r, T, Len(r)) /\ Filter(r, T) = g[Len(r)]
    BY FilterUnfolds
<1>4. Recurrence(g, r, T, n)
    BY <1>1, <1>3 DEF Recurrence
<1>5. f[n] = g[n]
    <2>1. \A i \in 0..n : f[i] = g[i]
        <3>1. SameUpTo(s, T, r, T, n)
            BY <1>1 DEF SameUpTo
        <3> QED
            BY <1>2, <1>4, <3>1, PrefixesAgree
    <2> QED
        BY <2>1
<1>6. g[n + 1] = IF r[n + 1] \in T THEN Append(g[n], r[n + 1]) ELSE g[n]
    <2>1. n + 1 \in 1..Len(r) /\ (n + 1) - 1 = n
        BY <1>1
    <2> QED
        BY <1>3, <2>1, Zenon DEF Recurrence
<1> QED
    BY <1>1, <1>2, <1>3, <1>5, <1>6

(* What is kept is a sequence of the same elements. *)
LEMMA FilterType ==
    ASSUME NEW S, NEW s \in Seq(S), NEW T
    PROVE  Filter(s, T) \in Seq(S)
<1>1. PICK f \in [0..Len(s) -> Seq(S)] : Filter(s, T) = f[Len(s)]
    BY FilterUnfolds
<1>2. Len(s) \in 0..Len(s)
    OBVIOUS
<1> QED
    BY <1>1, <1>2

(***************************************************************************)
(* Ranges and repetitions                                                  *)
(***************************************************************************)

(* An appended element is the only new one. *)
LEMMA RangeAppend ==
    ASSUME NEW S, NEW s \in Seq(S), NEW x \in S
    PROVE  ToSet(Append(s, x)) = ToSet(s) \union {x}
<1> DEFINE r == Append(s, x)
<1>1. /\ DOMAIN s = 1..Len(s) /\ DOMAIN r = 1..(Len(s) + 1) /\ Len(s) \in Nat
      /\ r[Len(s) + 1] = x /\ \A i \in 1..Len(s) : r[i] = s[i]
    OBVIOUS
<1> HIDE DEF r
<1>2. ToSet(r) \subseteq ToSet(s) \union {x}
    BY <1>1 DEF ToSet
<1>3. ToSet(s) \union {x} \subseteq ToSet(r)
    BY <1>1 DEF ToSet
<1> QED
    BY <1>2, <1>3 DEF r

(* Exactly the elements of T are kept. *)
LEMMA FilterRange ==
    ASSUME NEW S, NEW s \in Seq(S), NEW T
    PROVE  ToSet(Filter(s, T)) = ToSet(s) \intersect T
<1> DEFINE Q == {r \in Seq(S) : ToSet(Filter(r, T)) = ToSet(r) \intersect T}
<1>1. << >> \in Q
    BY FilterEmpty DEF ToSet
<1>2. \A r \in Q : \A x \in S : Append(r, x) \in Q
    <2> SUFFICES ASSUME NEW r \in Seq(S), ToSet(Filter(r, T)) = ToSet(r) \intersect T, NEW x \in S
                 PROVE  ToSet(Filter(Append(r, x), T)) = ToSet(Append(r, x)) \intersect T
        OBVIOUS
    <2>1. ToSet(Append(r, x)) = ToSet(r) \union {x}
        BY RangeAppend
    <2>2. Filter(Append(r, x), T) = IF x \in T THEN Append(Filter(r, T), x) ELSE Filter(r, T)
        BY FilterAppend
    <2>3. ToSet(Append(Filter(r, T), x)) = ToSet(Filter(r, T)) \union {x}
        BY FilterType, RangeAppend
    <2> QED
        BY <2>1, <2>2, <2>3
<1>3. Q = Seq(S)
    <2>1. Q \in SUBSET Seq(S)
        OBVIOUS
    <2> HIDE DEF Q
    <2> QED
        BY <1>1, <1>2, <2>1, SeqByInduction
<1> QED
    BY <1>3

Distinct(s) == \A i, j \in DOMAIN s : s[i] = s[j] => i = j

(* Appending an element that is not there yet repeats nothing. *)
LEMMA DistinctAppend ==
    ASSUME NEW S, NEW s \in Seq(S), NEW x \in S
    PROVE  Distinct(Append(s, x)) <=> Distinct(s) /\ x \notin ToSet(s)
<1> DEFINE r == Append(s, x)
<1>1. /\ DOMAIN s = 1..Len(s) /\ DOMAIN r = 1..(Len(s) + 1) /\ Len(s) \in Nat
      /\ r[Len(s) + 1] = x /\ \A i \in 1..Len(s) : r[i] = s[i]
    OBVIOUS
<1> HIDE DEF r
<1>2. ASSUME Distinct(r) PROVE Distinct(s) /\ x \notin ToSet(s)
    <2>1. Distinct(s)
        BY <1>1, <1>2 DEF Distinct
    <2>2. ASSUME NEW i \in 1..Len(s), s[i] = x PROVE FALSE
        BY <1>1, <1>2, <2>2 DEF Distinct
    <2> QED
        BY <1>1, <2>1, <2>2 DEF ToSet
<1>3. ASSUME Distinct(s), x \notin ToSet(s) PROVE Distinct(r)
    <2> SUFFICES ASSUME NEW i \in 1..(Len(s) + 1), NEW j \in 1..(Len(s) + 1), r[i] = r[j]
                 PROVE  i = j
        BY <1>1 DEF Distinct
    <2>1. CASE i \in 1..Len(s) /\ j \in 1..Len(s)
        BY <1>1, <1>3, <2>1 DEF Distinct
    <2>2. CASE i \notin 1..Len(s) /\ j \notin 1..Len(s)
        BY <1>1, <2>2
    <2>3. CASE i \notin 1..Len(s) <=> j \in 1..Len(s)
        BY <1>1, <1>3, <2>3 DEF ToSet
    <2> QED
        BY <2>1, <2>2, <2>3
<1> QED
    BY <1>2, <1>3 DEF r

(* Filtering repeats nothing. *)
LEMMA FilterDistinct ==
    ASSUME NEW S, NEW s \in Seq(S), NEW T, Distinct(s)
    PROVE  Distinct(Filter(s, T))
<1> DEFINE Q == {r \in Seq(S) : Distinct(r) => Distinct(Filter(r, T))}
<1>1. << >> \in Q
    BY FilterEmpty
<1>2. \A r \in Q : \A x \in S : Append(r, x) \in Q
    <2> SUFFICES ASSUME NEW r \in Seq(S), Distinct(r) => Distinct(Filter(r, T)), NEW x \in S,
                        Distinct(Append(r, x))
                 PROVE  Distinct(Filter(Append(r, x), T))
        OBVIOUS
    <2>1. Distinct(r) /\ x \notin ToSet(r)
        BY DistinctAppend
    <2>2. Filter(r, T) \in Seq(S) /\ x \notin ToSet(Filter(r, T))
        BY <2>1, FilterType, FilterRange
    <2>3. Distinct(Append(Filter(r, T), x))
        BY <2>1, <2>2, DistinctAppend
    <2> QED
        BY <2>1, <2>3, FilterAppend
<1>3. Q = Seq(S)
    <2>1. Q \in SUBSET Seq(S)
        OBVIOUS
    <2> HIDE DEF Q
    <2> QED
        BY <1>1, <1>2, <2>1, SeqByInduction
<1> QED
    BY <1>3

(* Two tests that agree on the elements keep the same ones. *)
LEMMA FilterSame ==
    ASSUME NEW S, NEW s \in Seq(S), NEW T, NEW U, ToSet(s) \intersect T = ToSet(s) \intersect U
    PROVE  Filter(s, T) = Filter(s, U)
<1>1. PICK f \in [0..Len(s) -> Seq(S)] : Recurrence(f, s, T, Len(s)) /\ Filter(s, T) = f[Len(s)]
    BY FilterUnfolds
<1>2. PICK g \in [0..Len(s) -> Seq(S)] : Recurrence(g, s, U, Len(s)) /\ Filter(s, U) = g[Len(s)]
    BY FilterUnfolds
<1>3. \A i \in 1..Len(s) : s[i] \in ToSet(s)
    BY DEF ToSet
<1>4. \A i \in 1..Len(s) : s[i] = s[i] /\ (s[i] \in T <=> s[i] \in U)
    BY <1>3
<1>5. Len(s) \in Nat
    OBVIOUS
<1>6. \A i \in 0..Len(s) : f[i] = g[i]
    BY <1>1, <1>2, <1>4, <1>5, PrefixesAgree DEF SameUpTo
<1> QED
    BY <1>1, <1>2, <1>5, <1>6

(***************************************************************************)
(* The operations of the vault                                             *)
(***************************************************************************)

(* The fields of a vault, and well-formedness without SequencesExt. *)
LEMMA VaultFields ==
    ASSUME NEW v \in Vaults
    PROVE  /\ v.accounts \in Seq(Accounts)
           /\ v.active \in Accounts \union {NoAccount} /\ v.auto \in BOOLEAN
           /\ Ids(v) \subseteq Accounts
           /\ WellFormed(v) <=> /\ Distinct(v.accounts)
                                /\ v.active # NoAccount => v.active \in Ids(v)
                                /\ v.accounts # << >> => v.active # NoAccount
<1>1. v.accounts \in Seq(Accounts) /\ v.active \in Accounts \union {NoAccount} /\ v.auto \in BOOLEAN
    BY DEF Vaults
<1>2. Ids(v) \subseteq Accounts
    BY <1>1 DEF Ids, ToSet
<1> QED
    BY <1>1, <1>2 DEF WellFormed, Distinct

(* The vault of an empty or absent file. *)
LEMMA EmptyIsVault == EmptyVault \in Vaults /\ WellFormed(EmptyVault)
<1>1. EmptyVault \in Vaults
    BY DEF EmptyVault, Vaults
<1>2. EmptyVault.accounts = << >> /\ EmptyVault.active = NoAccount
    BY DEF EmptyVault
<1> QED
    BY <1>1, <1>2 DEF WellFormed

(* set_active and the toggle of auto_rotate. *)
LEMMA FieldEditKeeps ==
    ASSUME NEW v \in Vaults, WellFormed(v)
    PROVE  /\ \A id \in Ids(v) : SetActive(v, id) \in Vaults /\ WellFormed(SetActive(v, id))
           /\ \A b \in BOOLEAN : [v EXCEPT !.auto = b] \in Vaults /\ WellFormed([v EXCEPT !.auto = b])
<1>1. ASSUME NEW id \in Ids(v) PROVE SetActive(v, id) \in Vaults /\ WellFormed(SetActive(v, id))
    <2> DEFINE w == SetActive(v, id)
    <2>1. w \in Vaults /\ w.accounts = v.accounts /\ w.active = id
        BY VaultFields DEF SetActive, Vaults
    <2>2. id \in Accounts /\ id # NoAccount
        BY VaultFields, VaultAssumption
    <2> HIDE DEF w
    <2>3. WellFormed(w)
        BY <2>1, <2>2, VaultFields DEF Ids
    <2> QED
        BY <2>1, <2>3 DEF w
<1>2. ASSUME NEW b \in BOOLEAN
      PROVE  [v EXCEPT !.auto = b] \in Vaults /\ WellFormed([v EXCEPT !.auto = b])
    <2> DEFINE w == [v EXCEPT !.auto = b]
    <2>1. w \in Vaults /\ w.accounts = v.accounts /\ w.active = v.active
        BY DEF Vaults
    <2> HIDE DEF w
    <2>2. WellFormed(w)
        BY <2>1, VaultFields DEF Ids
    <2> QED
        BY <2>1, <2>2 DEF w
<1> QED
    BY <1>1, <1>2

(* AccountVault::add: a well-formed vault stays one. *)
LEMMA AddKeeps ==
    ASSUME NEW v \in Vaults, WellFormed(v), NEW id \in Accounts, CanAdd(v, id)
    PROVE  AddAccount(v, id) \in Vaults /\ WellFormed(AddAccount(v, id))
<1> DEFINE w == AddAccount(v, id)
<1>1. /\ w \in Vaults /\ w.accounts = Append(v.accounts, id)
      /\ w.active = IF v.accounts = << >> /\ v.active = NoAccount THEN id ELSE v.active
    <2>1. Append(v.accounts, id) \in Seq(Accounts)
        BY VaultFields
    <2>2. w = [v EXCEPT !.accounts = Append(v.accounts, id),
                        !.active   = IF v.accounts = << >> /\ v.active = NoAccount THEN id ELSE v.active]
        BY DEF AddAccount
    <2> HIDE DEF w
    <2> DEFINE longer == Append(v.accounts, id)
               active == IF v.accounts = << >> /\ v.active = NoAccount THEN id ELSE v.active
    <2>3. longer \in Seq(Accounts) /\ active \in Accounts \union {NoAccount}
        BY <2>1, VaultFields
    <2>4. w = [v EXCEPT !.accounts = longer, !.active = active]
        BY <2>2
    <2> HIDE DEF longer, active
    <2>5. w \in Vaults /\ w.accounts = longer /\ w.active = active
        BY <2>3, <2>4 DEF Vaults
    <2> QED
        BY <2>5 DEF longer, active
<1>2. Distinct(w.accounts) /\ Ids(w) = Ids(v) \union {id}
    BY <1>1, VaultFields, DistinctAppend, RangeAppend DEF Ids, CanAdd
<1>3. id # NoAccount
    BY VaultAssumption
<1>4. v.accounts = << >> => v.active = NoAccount
    BY VaultFields DEF Ids, ToSet
<1> HIDE DEF w
<1>5. WellFormed(w)
    BY <1>1, <1>2, <1>3, <1>4, VaultFields
<1> QED
    BY <1>1, <1>5 DEF w

(* AccountVault::remove: exactly the named accounts are gone; the active   *)
(* one, if it was among them, is one of those left.                        *)
LEMMA RemoveKeeps ==
    ASSUME NEW v \in Vaults, WellFormed(v), NEW ids
    PROVE  /\ RemoveAccounts(v, ids) \in Vaults /\ WellFormed(RemoveAccounts(v, ids))
           /\ Ids(RemoveAccounts(v, ids)) = Ids(v) \ ids
<1> DEFINE w    == RemoveAccounts(v, ids)
           left == Filter(v.accounts, Ids(v) \ ids)
<1>1. left \in Seq(Accounts) /\ Distinct(left) /\ ToSet(left) = Ids(v) \ ids
    <2>1. ToSet(v.accounts) \intersect (Ids(v) \ ids) = Ids(v) \ ids
        BY DEF Ids
    <2> QED
        BY <2>1, VaultFields, FilterType, FilterDistinct, FilterRange
<1>2. left # << >> => left[1] \in ToSet(left)
    <2>1. left # << >> => 1 \in DOMAIN left
        BY <1>1
    <2> HIDE DEF left
    <2> QED
        BY <2>1 DEF ToSet
<1>3. \A x \in Ids(v) : x # NoAccount
    BY VaultFields, VaultAssumption
<1>4. w = [v EXCEPT !.accounts = left,
                    !.active   = IF v.active \notin ids THEN v.active
                                 ELSE IF left = << >> THEN NoAccount ELSE left[1]]
    BY DEF RemoveAccounts
<1> HIDE DEF left, w
<1>5. /\ w \in Vaults /\ w.accounts = left
      /\ w.active = IF v.active \notin ids THEN v.active
                    ELSE IF left = << >> THEN NoAccount ELSE left[1]
    <2>1. left # << >> => left[1] \in Accounts
        BY <1>1, <1>2, VaultFields
    <2> QED
        BY <1>1, <1>4, <2>1, VaultFields DEF Vaults
<1>6. Ids(w) = Ids(v) \ ids
    BY <1>1, <1>5 DEF Ids
<1>7. left # << >> => v.active # NoAccount
    <2>1. left # << >> => Ids(v) # {}
        BY <1>1, <1>2
    <2>2. v.accounts = << >> => Ids(v) = {}
        BY DEF Ids, ToSet
    <2> QED
        BY <2>1, <2>2, VaultFields
<1>8. WellFormed(w)
    BY <1>1, <1>2, <1>3, <1>5, <1>6, <1>7, VaultFields
<1> QED
    BY <1>5, <1>6, <1>8 DEF w

(* rotate_next moves the pointer, and to another account.                  *)
LEMMA RotateKeeps ==
    ASSUME NEW v \in Vaults, WellFormed(v), CanRotate(v)
    PROVE  /\ RotateNext(v) \in Vaults /\ WellFormed(RotateNext(v))
           /\ RotateNext(v).accounts = v.accounts /\ RotateNext(v).auto = v.auto
           /\ ActiveAccount(RotateNext(v)) # ActiveAccount(v)
<1> DEFINE n == Len(v.accounts)
           w == RotateNext(v)
           First(i) == v.accounts[i] = v.active /\ \A j \in 1..(i - 1) : v.accounts[j] # v.active
           pos == IF v.active \in Ids(v) THEN CHOOSE i \in 1..n : First(i) ELSE 1
<1>1. n \in Nat /\ n > 1 /\ DOMAIN v.accounts = 1..n /\ v.accounts \in Seq(Accounts)
    BY VaultFields DEF CanRotate
<1>2. v.active \in Ids(v) /\ v.active # NoAccount
    BY <1>1, VaultFields
<1>3. PICK i \in 1..n : v.accounts[i] = v.active
    BY <1>1, <1>2 DEF Ids, ToSet
<1>4. \A j \in 1..n : v.accounts[j] = v.active => j = i
    BY <1>1, <1>3, VaultFields DEF Distinct
<1>5. pos \in 1..n /\ v.accounts[pos] = v.active
    <2>1. First(i)
        BY <1>1, <1>3, <1>4
    <2>2. \E k \in 1..n : First(k)
        BY <2>1
    <2> QED
        BY <1>2, <2>2
<1>6. w = [v EXCEPT !.active = v.accounts[(pos % n) + 1]]
    BY DEF RotateNext
<1> HIDE DEF pos, w
<1>7. (pos % n) + 1 \in 1..n /\ (pos % n) + 1 # pos
    <2>1. \A m \in Nat : m > 1 => \A k \in 1..m : (k % m) + 1 \in 1..m /\ (k % m) + 1 # k
        OBVIOUS
    <2> HIDE DEF n
    <2> QED
        BY <1>1, <1>5, <2>1
<1> DEFINE next == v.accounts[(pos % n) + 1]
<1>8. next \in Ids(v) /\ next \in Accounts /\ next # v.active
    BY <1>1, <1>4, <1>5, <1>7 DEF Ids, ToSet
<1> HIDE DEF next
<1>9. /\ w \in Vaults /\ w.accounts = v.accounts /\ w.auto = v.auto /\ w.active = next
    BY <1>6, <1>8 DEF Vaults, next
<1>10. next # NoAccount
    BY <1>8, VaultAssumption
<1>11. WellFormed(w)
    BY <1>8, <1>9, <1>10, VaultFields DEF Ids
<1>12. ActiveAccount(w) = next /\ ActiveAccount(v) = v.active
    BY <1>2, <1>8, <1>9 DEF ActiveAccount, Ids
<1> QED
    BY <1>8, <1>9, <1>11, <1>12 DEF w
=============================================================================
