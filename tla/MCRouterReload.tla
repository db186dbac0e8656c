---------------------------- MODULE MCRouterReload ----------------------------
(* Small instances of RouterReload for TLC.                                *)
EXTENDS RouterReload

CONSTANTS r1, r2

OneRequest  == {r1}
TwoRequests == {r1, r2}
=============================================================================
