------------------------- MODULE MCCredentialRotation -------------------------
(* Small instances of CredentialRotation for TLC.                          *)
EXTENDS CredentialRotation

CONSTANTS a, b, c, p, q

OneRequest  == {p}
TwoRequests == {p, q}
TwoAccounts   == {a, b}
ThreeAccounts == {a, b, c}

(* Two accounts, the first active, auto-rotate on. *)
VaultAB == [accounts |-> <<a, b>>, active |-> a, auto |-> TRUE]
VaultABC == [accounts |-> <<a, b, c>>, active |-> a, auto |-> TRUE]
=============================================================================
