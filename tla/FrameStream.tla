----------------------------- MODULE FrameStream -----------------------------
(***************************************************************************)
(* What a client of a framed dialect (Anthropic, Responses) may rely on: a *)
(* message begins, its blocks open and close one at a time and are         *)
(* numbered from zero, deltas belong to the open block, the message ends   *)
(* once, and nothing follows.  Content without blocks comes in between.    *)
(***************************************************************************)
EXTENDS Naturals

CONSTANT NoIndex       \* no block

VARIABLES
    phase,     \* of the message: "none", "begun", "ended"
    open,      \* the open block
    next,      \* the number of the next block
    at,        \* the block of the last open, delta or close
    count      \* frames read

vars == <<phase, open, next, at, count>>

Init == phase = "none" /\ open = NoIndex /\ next = 0 /\ at = NoIndex /\ count = 0

Begin ==
    /\ phase = "none" /\ phase' = "begun"
    /\ UNCHANGED <<open, next, at>>

Open ==
    /\ phase = "begun" /\ open = NoIndex
    /\ open' = next /\ at' = next /\ next' = next + 1
    /\ UNCHANGED phase

Delta ==
    /\ phase = "begun" /\ open # NoIndex
    /\ at' = open
    /\ UNCHANGED <<phase, open, next>>

Close ==
    /\ phase = "begun" /\ open # NoIndex
    /\ open' = NoIndex /\ at' = open
    /\ UNCHANGED <<phase, next>>

(* Content or a reason outside the blocks.                                 *)
Loose == phase = "begun" /\ UNCHANGED <<phase, open, next, at>>

End ==
    /\ phase = "begun" /\ open = NoIndex
    /\ phase' = "ended"
    /\ UNCHANGED <<open, next, at>>

Next == (Begin \/ Open \/ Delta \/ Close \/ Loose \/ End) /\ count' = count + 1

Spec == Init /\ [][Next]_vars
=============================================================================
