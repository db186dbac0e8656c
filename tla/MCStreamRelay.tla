---------------------------- MODULE MCStreamRelay ----------------------------
(* Small instances of StreamRelay for TLC.                                 *)
EXTENDS StreamRelay

CONSTANTS r1, r2

TwoRequests == {r1, r2}
OneRequest == {r1}
=============================================================================
