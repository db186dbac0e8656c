------------------------------ MODULE Filtering ------------------------------
(***************************************************************************)
(* Selecting by membership, as `retain` and `filter` do.  SelectSeq of the *)
(* standard library takes an operator and is recursive; Filter takes a set *)
(* and is a recursive function over the prefixes, so that what it computes *)
(* can be proved for every sequence (AccountVault_proofs).                 *)
(***************************************************************************)
EXTENDS Naturals, Sequences

(* The elements of s that are in T, in their order. *)
Filter(s, T) ==
    LET kept[n \in 0..Len(s)] ==
            IF n = 0 THEN << >>
            ELSE IF s[n] \in T THEN Append(kept[n - 1], s[n]) ELSE kept[n - 1]
    IN  kept[Len(s)]
=============================================================================
