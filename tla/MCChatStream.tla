---------------------------- MODULE MCChatStream ----------------------------
(* Small instances of ChatStream for TLC.                                  *)
EXTENDS ChatStream, TLC

CONSTANTS a, b

TwoCalls == {a, b}
EveryProvider == ProviderNames
EveryFrontend == FrontendNames
CallSymmetry  == Permutations(TwoCalls)
=============================================================================
