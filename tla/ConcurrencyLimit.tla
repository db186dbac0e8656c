-------------------------- MODULE ConcurrencyLimit --------------------------
(***************************************************************************)
(* What the proxy promises about its load on the upstream: of all the      *)
(* requests it serves, at most Limit are in an exchange with the upstream  *)
(* at any moment, and each exchange ends.  A Limit of 0 means "no limit",  *)
(* as max_concurrent = 0 does in the configuration.                        *)
(***************************************************************************)
EXTENDS Naturals, FiniteSets

CONSTANTS Requests, Limit

VARIABLE active       \* the requests in an exchange with the upstream

LimitInit == active = {}

Enter(r) ==
    /\ r \notin active
    /\ Limit > 0 => Cardinality(active) < Limit
    /\ active' = active \union {r}

Leave(r) ==
    /\ r \in active
    /\ active' = active \ {r}

LimitNext == \E r \in Requests : Enter(r) \/ Leave(r)

LimitSafety == LimitInit /\ [][LimitNext]_active

LimitSpec == LimitSafety /\ \A r \in Requests : WF_active(Leave(r))
=============================================================================
