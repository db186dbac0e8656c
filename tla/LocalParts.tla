------------------------------ MODULE LocalParts ------------------------------
(***************************************************************************)
(* The parts of cmdcode that share no state with one another: the account  *)
(* file and the logins, `connect` and the provider router, the taste files *)
(* and the MCP server, the log file, `setup`, the admission of requests    *)
(* and, each of which it takes as one step, the rate limiter and the store *)
(* of Responses conversations.  Each has processes of its own, so nothing  *)
(* is lost by taking one at a time: a behaviour is a behaviour of one      *)
(* scene, the others stay where they begin.                                *)
(***************************************************************************)
EXTENDS AccountFile, ProviderConnect, TasteFiles, LogRotation, HarnessSetup, Admission,
        RateLimiter, SessionStore

VARIABLE scene   \* the part this behaviour is about

vars == <<scene, accountVars, providerVars, tasteVars, logVars, setupVars, admissionVars,
          limiterVars, storeVars>>

Scenes == {"accounts", "providers", "taste", "log", "setup", "admission", "limiter",
           "sessions"}

Init ==
    /\ scene \in Scenes
    /\ AccountInit /\ ProviderInit /\ TasteInit /\ LogInit /\ SetupInit
    /\ AdmissionInit /\ LimiterInit /\ StoreInit
    /\ scene # "setup" => opencode = Absent
    /\ scene # "admission" => policy = [gate |-> FALSE, limit |-> FALSE, allowlist |-> FALSE]

Next ==
    /\ UNCHANGED scene
    /\ \/ /\ scene = "accounts" /\ AccountNext
          /\ UNCHANGED <<providerVars, tasteVars, logVars, setupVars,
                         admissionVars, limiterVars, storeVars>>
       \/ /\ scene = "providers" /\ ProviderNext
          /\ UNCHANGED <<accountVars, tasteVars, logVars, setupVars,
                         admissionVars, limiterVars, storeVars>>
       \/ /\ scene = "taste" /\ TasteNext
          /\ UNCHANGED <<accountVars, providerVars, logVars, setupVars,
                         admissionVars, limiterVars, storeVars>>
       \/ /\ scene = "log" /\ LogNext
          /\ UNCHANGED <<accountVars, providerVars, tasteVars, setupVars,
                         admissionVars, limiterVars, storeVars>>
       \/ /\ scene = "setup" /\ SetupNext
          /\ UNCHANGED <<accountVars, providerVars, tasteVars, logVars,
                         admissionVars, limiterVars, storeVars>>
       \/ /\ scene = "admission" /\ AdmissionNext
          /\ UNCHANGED <<accountVars, providerVars, tasteVars, logVars,
                         setupVars, limiterVars, storeVars>>
       \/ /\ scene = "limiter" /\ LimiterNext
          /\ UNCHANGED <<accountVars, providerVars, tasteVars, logVars,
                         setupVars, admissionVars, storeVars>>
       \/ /\ scene = "sessions" /\ StoreNext
          /\ UNCHANGED <<accountVars, providerVars, tasteVars, logVars,
                         setupVars, admissionVars, limiterVars>>

Spec == Init /\ [][Next]_vars

(* Type of every part. *)
TypeOK ==
    /\ scene \in Scenes
    /\ AccountTypeOK /\ ProviderTypeOK /\ TasteTypeOK /\ LogTypeOK /\ SetupTypeOK
    /\ AdmissionTypeOK /\ LimiterTypeOK /\ StoreTypeOK
=============================================================================
