--------------------------- MODULE MCConversation ---------------------------
(* Small instances of Conversation for TLC.                                *)
EXTENDS Conversation, TLC

CONSTANTS f, g

TwoNames     == {f, g}
NameSymmetry == Permutations(TwoNames)
=============================================================================
