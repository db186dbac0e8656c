-------------------------- MODULE CredentialRotation --------------------------
(***************************************************************************)
(* Which credential a request carries upstream.                            *)
(*                                                                         *)
(* The proxy's requests share one AuthManager: a cached credential with a  *)
(* time to live in front of accounts.json.  A request refreshes the cache  *)
(* on its way (taste_enabled, then build_headers: get_auth_method and      *)
(* get_config), is sent, and when the upstream rejects the credential      *)
(* rotates the vault's active account or drops the cache, rebuilds its     *)
(* headers and is sent once more.  The cmdcode command line edits the same *)
(* file from another process, with the user's prompt between its load and  *)
(* its save.  Every step below runs between two awaits, two lock           *)
(* operations or two accesses to the file; nothing locks the file.         *)
(*                                                                         *)
(* Not part of this module: that store.save is not atomic against another  *)
(* saver (it is one step here), the content of config.json, and retries    *)
(* that do not touch the credential (StreamRelay).                         *)
(***************************************************************************)
EXTENDS AccountVault, FiniteSets

CONSTANTS
    Requests,      \* request slots of the proxy; a slot is reused
    InitialVault,  \* accounts.json at the start
    Legacy,        \* auth.json: a credential, NoMethod (no key in it) or NoFile
    LegacyKey,     \* the credential auth.json may hold
    NoMethod, NoFile,
    MaxEdits,      \* bound: edits the command line saves
    MaxFaults      \* bound: file accesses of the proxy that fail

ASSUME RotationAssumption ==
    /\ InitialVault \in Vaults /\ WellFormed(InitialVault)
    /\ Legacy \in {LegacyKey, NoMethod, NoFile}
    /\ Accounts \intersect {NoAccount, LegacyKey, NoMethod, NoFile} = {}
    /\ LegacyKey # NoMethod
    /\ MaxEdits \in Nat /\ MaxFaults \in Nat

(* What there is to be sent. *)
Credentials == Accounts \union ({LegacyKey} \intersect {Legacy})

VARIABLES
    vault,     \* accounts.json
    cache,     \* AuthManager.state
    req,       \* the requests in the proxy
    cli,       \* the cmdcode process: its loaded vault, at its prompt
    refused,   \* credentials the upstream rejects (revoked, out of credit)
    edits, faults

vars == <<vault, cache, req, cli, refused, edits, faults>>

NoCache == [method |-> NoMethod, present |-> FALSE, fresh |-> FALSE]
Cached(m) == [method |-> m, present |-> TRUE, fresh |-> TRUE]

NewRequest == [pc |-> "idle", why |-> "taste", loaded |-> NoMethod, key |-> NoMethod,
               first |-> NoMethod, mem |-> EmptyVault, rotated |-> FALSE]

Init ==
    /\ vault = InitialVault
    /\ cache = NoCache
    /\ req = [r \in Requests |-> NewRequest]
    /\ cli = [pc |-> "idle", mem |-> EmptyVault]
    /\ refused \in SUBSET Credentials
    /\ edits = 0
    /\ faults = 0

Set(r, v) == req' = [req EXCEPT ![r] = v]
Goto(r, l) == Set(r, [req[r] EXCEPT !.pc = l])
At(r, l) == req[r].pc = l
Fault == faults < MaxFaults /\ faults' = faults + 1
NoFault == faults' = faults

(***************************************************************************)
(* Reading the credential                                                  *)
(***************************************************************************)

(* Faulty variant: the time to live is ignored. *)
UsableForever == cache.present

Usable == cache.present /\ cache.fresh

(* The step after a cache check, or after the refresh it asked for.        *)
After(why) == CASE why = "taste"  -> "auth"
                [] why = "auth"   -> "method"
                [] why = "config" -> "send"

Start(r) ==
    /\ At(r, "idle")
    /\ Set(r, [NewRequest EXCEPT !.pc = "taste"])
    /\ UNCHANGED <<vault, cache, cli, refused, edits, faults>>

(* needs_refresh, under the read lock, in get_config and get_auth_method.  *)
CheckCache(r) == \E why \in {"taste", "auth", "config"} :
    /\ At(r, why)
    /\ Set(r, [req[r] EXCEPT !.pc = IF Usable THEN After(why) ELSE "load", !.why = why])
    /\ UNCHANGED <<vault, cache, cli, refused, edits, faults>>

(* load_credentials: the vault's active account, else auth.json, also when *)
(* the vault cannot be read.  The value is held across read_config's await.*)
FromVault   == ActiveAccount(vault)
FromLegacy(r) ==
    IF Legacy # NoFile
    THEN Set(r, [req[r] EXCEPT !.pc = "store", !.loaded = Legacy])
    ELSE Goto(r, IF req[r].why = "auth" THEN "noCredential" ELSE After(req[r].why))

(* Faulty variant: whatever `active` says is taken for the credential. *)
LoadUnchecked(r) ==
    /\ At(r, "load")
    /\ NoFault
    /\ Set(r, [req[r] EXCEPT !.pc = "store", !.loaded = FromVault])
    /\ UNCHANGED <<vault, cache, cli, refused, edits>>

LoadCredentials(r) ==
    /\ At(r, "load")
    /\ \/ /\ NoFault
          /\ IF FromVault # NoAccount
             THEN Set(r, [req[r] EXCEPT !.pc = "store", !.loaded = FromVault])
             ELSE FromLegacy(r)
       \/ Fault /\ FromLegacy(r)
    /\ UNCHANGED <<vault, cache, cli, refused, edits>>

(* The end of refresh: whatever was loaded replaces the cache.             *)
StoreCache(r) ==
    /\ At(r, "store")
    /\ cache' = Cached(req[r].loaded)
    /\ Set(r, [req[r] EXCEPT !.pc = After(req[r].why), !.loaded = NoMethod])
    /\ UNCHANGED <<vault, cli, refused, edits, faults>>

(* The second read lock of get_auth_method: c.method, or NoAuthConfigured. *)
ReadMethod(r) ==
    /\ At(r, "method")
    /\ IF cache.present /\ cache.method # NoMethod
       THEN Set(r, [req[r] EXCEPT !.pc = "config", !.key = cache.method])
       ELSE Goto(r, "noAuth")
    /\ UNCHANGED <<vault, cache, cli, refused, edits, faults>>

(***************************************************************************)
(* Sending, and what a rejection does                                      *)
(***************************************************************************)

Accepted(r) ==
    /\ At(r, "send") /\ req[r].key \notin refused
    /\ Set(r, NewRequest)
    /\ UNCHANGED <<vault, cache, cli, refused, edits, faults>>

(* Faulty variant: auth_retried is never set. *)
RejectedForever(r) ==
    /\ At(r, "send") /\ req[r].key \in refused
    /\ Goto(r, "rejected")
    /\ UNCHANGED <<vault, cache, cli, refused, edits, faults>>

(* should_rotate: once per call (`auth_retried`) ...                       *)
Rejected(r) ==
    /\ At(r, "send") /\ req[r].key \in refused
    /\ Set(r, IF req[r].first = NoMethod
              THEN [req[r] EXCEPT !.pc = "rejected", !.first = req[r].key]
              ELSE [req[r] EXCEPT !.pc = "gaveUp"])
    /\ UNCHANGED <<vault, cache, cli, refused, edits, faults>>

(* ... on_auth_rejected: auto_rotate_enabled loads the vault; an error is  *)
(* "off".                                                                  *)
CheckAutoRotate(r) ==
    /\ At(r, "rejected")
    /\ \/ NoFault /\ Goto(r, IF vault.auto THEN "rotate" ELSE "drop")
       \/ Fault /\ Goto(r, "drop")
    /\ UNCHANGED <<vault, cache, cli, refused, edits>>

(* rotate_to_next: load, rotate in memory ...                              *)
LoadAndRotate(r) ==
    /\ At(r, "rotate")
    /\ \/ /\ NoFault
          /\ IF CanRotate(vault)
             THEN Set(r, [req[r] EXCEPT !.pc = "save", !.mem = RotateNext(vault)])
             ELSE Goto(r, "dropAgain")
       \/ Fault /\ Goto(r, "dropAgain")
    /\ UNCHANGED <<vault, cache, cli, refused, edits>>

(* ... save; a failure is swallowed by on_auth_rejected (.ok().flatten()). *)
SaveRotation(r) ==
    /\ At(r, "save")
    /\ \/ /\ NoFault
          /\ vault' = req[r].mem
          /\ Set(r, [req[r] EXCEPT !.pc = "drop", !.rotated = TRUE, !.mem = EmptyVault])
       \/ /\ Fault
          /\ vault' = vault
          /\ Set(r, [req[r] EXCEPT !.pc = "dropAgain", !.mem = EmptyVault])
    /\ UNCHANGED <<cache, cli, refused, edits>>

(* Faulty variants: the cache survives the rotation, and the headers are   *)
(* rebuilt without the refresh that a dropped cache needs.                 *)
DropNothing(r) ==
    /\ At(r, "drop") \/ At(r, "dropAgain")
    /\ Goto(r, "auth")
    /\ UNCHANGED <<vault, cache, cli, refused, edits, faults>>

DropWithoutRefresh(r) ==
    /\ At(r, "drop") \/ At(r, "dropAgain")
    /\ cache' = NoCache
    /\ Goto(r, "method")
    /\ UNCHANGED <<vault, cli, refused, edits, faults>>

(* invalidate_cache, in on_auth_rejected; when it rotated nothing,         *)
(* forward_request invalidates again.  Then the headers are built anew.    *)
DropCache(r) ==
    /\ At(r, "drop") \/ At(r, "dropAgain")
    /\ cache' = NoCache
    /\ Goto(r, IF At(r, "drop") /\ ~req[r].rotated THEN "dropAgain" ELSE "auth")
    /\ UNCHANGED <<vault, cli, refused, edits, faults>>

(* The caller is told: no credential, or the upstream's rejection.         *)
ReportFailure(r) ==
    /\ At(r, "noCredential") \/ At(r, "noAuth") \/ At(r, "gaveUp")
    /\ Set(r, NewRequest)
    /\ UNCHANGED <<vault, cache, cli, refused, edits, faults>>

RequestStep(r) ==
    \/ CheckCache(r) \/ LoadCredentials(r) \/ StoreCache(r) \/ ReadMethod(r)
    \/ Accepted(r) \/ Rejected(r) \/ CheckAutoRotate(r) \/ LoadAndRotate(r)
    \/ SaveRotation(r) \/ DropCache(r) \/ ReportFailure(r)

(* The cached entry outlives cache_ttl.                                    *)
Expire ==
    /\ Usable
    /\ cache' = [cache EXCEPT !.fresh = FALSE]
    /\ UNCHANGED <<vault, req, cli, refused, edits, faults>>

(***************************************************************************)
(* The command line: load, prompt, save                                    *)
(***************************************************************************)

CliLoad ==
    /\ cli.pc = "idle" /\ edits < MaxEdits
    /\ cli' = [pc |-> "prompt", mem |-> vault]
    /\ UNCHANGED <<vault, cache, req, refused, edits, faults>>

CliSave(v) ==
    /\ cli.pc = "prompt"
    /\ vault' = v
    /\ cli' = [pc |-> "idle", mem |-> EmptyVault]
    /\ edits' = edits + 1
    /\ UNCHANGED <<cache, req, refused, faults>>

UseAccount == \E id \in Ids(cli.mem) : CliSave(SetActive(cli.mem, id))
Logout     == \E ids \in SUBSET Ids(cli.mem) \ {{}} : CliSave(RemoveAccounts(cli.mem, ids))
ToggleAutoRotate == \E b \in BOOLEAN : CliSave([cli.mem EXCEPT !.auto = b])
AddAccountCmd == \E id \in Accounts : CanAdd(cli.mem, id) /\ CliSave(AddAccount(cli.mem, id))

(* The prompt is left, the account already known, or the save fails.       *)
CliAbort ==
    /\ cli.pc = "prompt"
    /\ cli' = [pc |-> "idle", mem |-> EmptyVault]
    /\ edits' = edits + 1
    /\ UNCHANGED <<vault, cache, req, refused, faults>>

Cli == CliLoad \/ UseAccount \/ Logout \/ ToggleAutoRotate \/ AddAccountCmd \/ CliAbort

Next == (\E r \in Requests : Start(r) \/ RequestStep(r)) \/ Expire \/ Cli

(* Requests in the proxy go on (the upstream answers or times out), time   *)
(* passes; nobody owes a new request, and the user owes nothing.           *)
Fairness == WF_vars(Expire) /\ \A r \in Requests : WF_vars(RequestStep(r))

Spec == Init /\ [][Next]_vars /\ Fairness

(***************************************************************************)
(* Properties                                                              *)
(***************************************************************************)

Points == {"idle", "taste", "auth", "config", "load", "store", "method", "send", "rejected",
           "rotate", "save", "drop", "dropAgain", "noCredential", "noAuth", "gaveUp"}
Methods == Credentials \union {NoMethod}

(* Type invariant. *)
TypeOK ==
    /\ vault \in Vaults
    /\ cache \in [method : Methods, present : BOOLEAN, fresh : BOOLEAN]
    /\ \A r \in Requests :
          /\ req[r].pc \in Points /\ req[r].why \in {"taste", "auth", "config"}
          /\ {req[r].loaded, req[r].key, req[r].first} \subseteq Methods
          /\ req[r].mem \in Vaults /\ req[r].rotated \in BOOLEAN
    /\ cli.pc \in {"idle", "prompt"} /\ cli.mem \in Vaults
    /\ refused \subseteq Credentials
    /\ edits \in 0..MaxEdits /\ faults \in 0..MaxFaults

(* However loads and saves of the proxy's requests and of the command line *)
(* interleave, accounts.json keeps unique ids, its active pointer names a  *)
(* stored account, and a vault with accounts has an active one.            *)
VaultWellFormed == WellFormed(vault)

(* The same with the types: every copy of the vault in memory, too, is one.*)
VaultConsistent == TypeOK /\ VaultWellFormed

(* As long as only the proxy has written accounts.json, ...                *)
Unedited == edits = 0

(* ... an account in the cache is the one it calls active, except while a  *)
(* rotation has saved and not yet dropped the cache (rotate_to_next:       *)
(* "drops any cached credential so the next request uses the new account"). *)
Rotating == \E r \in Requests : At(r, "drop") /\ req[r].rotated
CacheCoherent ==
    Unedited /\ cache.method \in Accounts /\ ~Rotating => cache.method = ActiveAccount(vault)

(* "the proxy rotates to the next account and retries the request": the    *)
(* retry after a rotation does not carry the account just rejected (unless *)
(* the user has chosen it meanwhile).                                      *)
RetryUsesAnother ==
    \A r \in Requests :
        Unedited /\ At(r, "send") /\ req[r].rotated /\ req[r].first \in Accounts => req[r].key # req[r].first

(* get_auth_method answers NoAuthConfigured only when the credential       *)
(* source really holds no key, not because the cache was dropped between   *)
(* its refresh and its second read.                                        *)
NoSpuriousNoAuth == \A r \in Requests : At(r, "noAuth") => Legacy = NoMethod

(* A request carries the right credential: the active account, after a     *)
(* rotation another one, and one at all if there is one.                   *)
RightCredential == CacheCoherent /\ RetryUsesAnother /\ NoSpuriousNoAuth

(* A rotation moves the active pointer and nothing else, if no edit came   *)
(* between its load and its save (which would be lost).                    *)
RotationMovesOnlyPointer ==
    [][Unedited /\ (\E r \in Requests : SaveRotation(r)) =>
          vault'.accounts = vault.accounts /\ vault'.auto = vault.auto]_vars

(* A request that entered the credential path leaves it: at most one       *)
(* rotation and one resend per call.                                       *)
RequestEnds == \A r \in Requests : ~At(r, "idle") ~> At(r, "idle")

(* "switching accounts takes effect within seconds without a restart": if  *)
(* from some time on an account stays active, then from some time on it is *)
(* the only one that requests carry.                                       *)
SwitchTakesEffect ==
    \A a \in Accounts :
        <>[](ActiveAccount(vault) = a) =>
            <>[](\A r \in Requests : At(r, "send") => req[r].key = a)

(* Auto-rotation ends, also after edits: while requests keep coming one at *)
(* a time, and some account is not rejected, the active account is in the  *)
(* end one that is not.                                                    *)
RotationSettles ==
    (\A r \in Requests : []<>~At(r, "idle")) /\ [](vault.auto /\ ~(Ids(vault) \subseteq refused))
        => <>[](ActiveAccount(vault) \notin refused)
=============================================================================
