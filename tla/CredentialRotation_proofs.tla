----------------------- MODULE CredentialRotation_proofs -----------------------
(***************************************************************************)
(* What account rotation and the account commands keep, for every set of   *)
(* accounts, every first vault and any number of requests of the proxy.    *)
(*                                                                         *)
(* VaultInv: every copy of the vault, the file's and those in the memory   *)
(* of a request or of the command line, is well formed, so that it does    *)
(* not matter whose copy is saved over whose.  PointerOnly: until an edit  *)
(* is saved, a rotation about to be saved differs from the file in the     *)
(* active pointer only.  RightInv, with one request at a time: how the     *)
(* credential in the cache, the one a request carries and the one it was   *)
(* rejected with relate to the active account of the file.                 *)
(***************************************************************************)
EXTENDS CredentialRotation, AccountVault_proofs

(***************************************************************************)
(* The vault, under every interleaving                                     *)
(***************************************************************************)

RequestRecord == [pc : Points, why : {"taste", "auth", "config"}, loaded : Methods, key : Methods,
                  first : Methods, mem : Vaults, rotated : BOOLEAN]
CliRecord == [pc : {"idle", "prompt"}, mem : Vaults]

(* The types, records with all their fields. *)
Typed ==
    /\ vault \in Vaults
    /\ cache \in [method : Methods, present : BOOLEAN, fresh : BOOLEAN]
    /\ req \in [Requests -> RequestRecord]
    /\ cli \in CliRecord
    /\ refused \subseteq Credentials
    /\ edits \in 0..MaxEdits /\ faults \in 0..MaxFaults

(* Every copy of the vault is well formed. *)
CopiesWellFormed ==
    /\ WellFormed(vault) /\ WellFormed(cli.mem)
    /\ \A r \in Requests : WellFormed(req[r].mem)

(* The command line is at its prompt with an edit to spare. *)
EditToSpare == cli.pc = "prompt" => edits < MaxEdits

VaultInv == Typed /\ CopiesWellFormed /\ EditToSpare

(* The invariant says more than the property. *)
LEMMA VaultInvImplies == VaultInv => VaultConsistent
<1> SUFFICES ASSUME VaultInv PROVE TypeOK /\ VaultWellFormed
    BY DEF VaultConsistent
<1>1. \A r \in Requests : req[r] \in RequestRecord
    BY DEF VaultInv, Typed
<1>2. \A r \in Requests :
         /\ req[r].pc \in Points /\ req[r].why \in {"taste", "auth", "config"}
         /\ {req[r].loaded, req[r].key, req[r].first} \subseteq Methods
         /\ req[r].mem \in Vaults /\ req[r].rotated \in BOOLEAN
    BY <1>1 DEF RequestRecord
<1> QED
    BY <1>2 DEF VaultInv, Typed, CopiesWellFormed, TypeOK, VaultWellFormed, CliRecord

(* The record of a request: its fields, and a well formed copy.            *)
Good(v) == v \in RequestRecord /\ WellFormed(v.mem)

(* A request that begins has no vault in memory yet but an empty one. *)
LEMMA NewRequestGood == /\ Good(NewRequest) /\ NewRequest \in RequestRecord /\ WellFormed(NewRequest.mem)
                        /\ \A l \in Points : Good([NewRequest EXCEPT !.pc = l])
    BY EmptyIsVault DEF NewRequest, RequestRecord, Points, Methods, Good

(* The first vault is well formed by assumption, the copies are empty. *)
LEMMA VaultInit == Init => VaultInv
<1> SUFFICES ASSUME Init PROVE VaultInv
    OBVIOUS
<1>1. NoCache \in [method : Methods, present : BOOLEAN, fresh : BOOLEAN]
    BY DEF NoCache, Methods
<1>2. Typed
    BY <1>1, NewRequestGood, EmptyIsVault, RotationAssumption DEF Init, Typed, CliRecord
<1>3. CopiesWellFormed
    BY NewRequestGood, EmptyIsVault, RotationAssumption DEF Init, CopiesWellFormed
<1> QED
    BY <1>2, <1>3 DEF Init, VaultInv, EditToSpare

(* A step of a request that leaves the file and the command line alone.    *)
LEMMA RequestKeepsVault ==
    ASSUME VaultInv, NEW r \in Requests, NEW v, Good(v), Set(r, v),
           vault' = vault \/ (vault' \in Vaults /\ WellFormed(vault')),
           cache' \in [method : Methods, present : BOOLEAN, fresh : BOOLEAN],
           UNCHANGED <<cli, refused, edits>>, faults' \in 0..MaxFaults
    PROVE  VaultInv'
<1>1. req' = [req EXCEPT ![r] = v]
    BY DEF Set
<1>2. Typed'
    BY <1>1 DEF VaultInv, Typed, Good
<1>3. CopiesWellFormed'
    BY <1>1 DEF VaultInv, Typed, CopiesWellFormed, Good
<1> QED
    BY <1>2, <1>3 DEF VaultInv, EditToSpare

(* The bound on faults. *)
LEMMA FaultCounted == ASSUME VaultInv, Fault \/ NoFault \/ UNCHANGED faults PROVE faults' \in 0..MaxFaults
    BY RotationAssumption DEF VaultInv, Typed, Fault, NoFault

(* The legacy key, if there is one, is a method. *)
LEMMA LegacyTyped == Legacy # NoFile => Legacy \in Methods
    BY RotationAssumption DEF Methods, Credentials

(* What the steps of a request make of its record.                         *)
LEMMA RequestsGood ==
    ASSUME VaultInv, NEW r \in Requests
    PROVE  /\ Good(req[r]) /\ req[r] \in RequestRecord
           /\ req[r].why \in {"taste", "auth", "config"}
           /\ {req[r].loaded, req[r].key, req[r].first} \subseteq Methods
           /\ req[r].mem \in Vaults /\ WellFormed(req[r].mem)
<1>1. req[r] \in RequestRecord
    BY DEF VaultInv, Typed
<1>2. WellFormed(req[r].mem)
    BY DEF VaultInv, CopiesWellFormed
<1> QED
    BY <1>1, <1>2 DEF RequestRecord, Good

(* The fields a step writes take a good request to a good one. *)
LEMMA UpdatesGood ==
    ASSUME NEW v, Good(v), NEW l \in Points
    PROVE  /\ Good([v EXCEPT !.pc = l])
           /\ \A m \in Methods : /\ Good([v EXCEPT !.pc = l, !.loaded = m])
                                 /\ Good([v EXCEPT !.pc = l, !.key = m])
                                 /\ Good([v EXCEPT !.pc = l, !.first = m])
           /\ \A why \in {"taste", "auth", "config"} : Good([v EXCEPT !.pc = l, !.why = why])
           /\ \A w \in Vaults : WellFormed(w) =>
                 /\ Good([v EXCEPT !.pc = l, !.mem = w])
                 /\ Good([v EXCEPT !.pc = l, !.rotated = TRUE, !.mem = w])
    BY DEF RequestRecord, Good

(* Where ReportFailure goes on is a point of the request. *)
LEMMA AfterIsPoint == \A why \in {"taste", "auth", "config"} : After(why) \in Points
    BY DEF After, Points

(* The cache and the file are read. *)
LEMMA ReadStepsKeep ==
    ASSUME VaultInv, NEW r \in Requests, Start(r) \/ CheckCache(r) \/ LoadCredentials(r)
    PROVE  VaultInv'
<1> DEFINE Done == \E v : Good(v) /\ Set(r, v)
<1>1. /\ UNCHANGED <<vault, cache, cli, refused, edits>>
      /\ Fault \/ NoFault \/ UNCHANGED faults
      /\ cache \in [method : Methods, present : BOOLEAN, fresh : BOOLEAN]
    BY DEF Start, CheckCache, LoadCredentials, VaultInv, Typed
<1>2. Good(req[r]) /\ req[r].why \in {"taste", "auth", "config"}
    BY RequestsGood
<1>3. ASSUME Start(r) PROVE Done
    BY <1>3, NewRequestGood DEF Start, Points
<1>4. ASSUME CheckCache(r) PROVE Done
    <2>1. PICK why \in {"taste", "auth", "config"} :
             Set(r, [req[r] EXCEPT !.pc = IF Usable THEN After(why) ELSE "load", !.why = why])
        BY <1>4 DEF CheckCache
    <2>2. (IF Usable THEN After(why) ELSE "load") \in Points
        BY AfterIsPoint DEF Points
    <2>3. Good([req[r] EXCEPT !.pc = IF Usable THEN After(why) ELSE "load", !.why = why])
        BY <1>2, <2>2, UpdatesGood
    <2> QED
        BY <2>1, <2>3
<1>5. ASSUME LoadCredentials(r) PROVE Done
    <2>1. ASSUME NEW m \in Methods, Set(r, [req[r] EXCEPT !.pc = "store", !.loaded = m]) PROVE Done
        <3>1. Good([req[r] EXCEPT !.pc = "store", !.loaded = m])
            BY <1>2, UpdatesGood DEF Points
        <3> QED
            BY <2>1, <3>1
    <2>2. FromVault # NoAccount => FromVault \in Methods
        BY VaultFields DEF FromVault, ActiveAccount, VaultInv, Typed, Methods, Credentials
    <2>3. ASSUME FromLegacy(r), Legacy = NoFile PROVE Done
        <3> DEFINE l == IF req[r].why = "auth" THEN "noCredential" ELSE After(req[r].why)
        <3>1. l \in Points
            BY <1>2, AfterIsPoint DEF Points
        <3>2. Set(r, [req[r] EXCEPT !.pc = l])
            BY <2>3 DEF FromLegacy, Goto
        <3> HIDE DEF l
        <3>3. Good([req[r] EXCEPT !.pc = l])
            BY <1>2, <3>1, UpdatesGood
        <3> QED
            BY <3>2, <3>3
    <2>4. ASSUME FromLegacy(r), Legacy # NoFile PROVE Done
        BY <2>1, <2>4, LegacyTyped DEF FromLegacy
    <2> QED
        BY <1>5, <2>1, <2>2, <2>3, <2>4 DEF LoadCredentials
<1>6. PICK v : Good(v) /\ Set(r, v)
    BY <1>3, <1>4, <1>5
<1>7. faults' \in 0..MaxFaults
    BY <1>1, FaultCounted
<1>8. vault' = vault /\ cache' \in [method : Methods, present : BOOLEAN, fresh : BOOLEAN]
    BY <1>1
<1> QED
    BY <1>1, <1>6, <1>7, <1>8, RequestKeepsVault

(* The cache is filled or dropped and the request sent. *)
LEMMA SendStepsKeep ==
    ASSUME VaultInv, NEW r \in Requests,
           \/ StoreCache(r) \/ ReadMethod(r) \/ Accepted(r) \/ Rejected(r) \/ DropCache(r)
           \/ ReportFailure(r)
    PROVE  VaultInv'
<1> DEFINE Done == /\ cache' \in [method : Methods, present : BOOLEAN, fresh : BOOLEAN]
                   /\ \E v : Good(v) /\ Set(r, v)
<1>1. /\ Good(req[r]) /\ req[r].why \in {"taste", "auth", "config"}
      /\ req[r].loaded \in Methods /\ req[r].key \in Methods
      /\ cache \in [method : Methods, present : BOOLEAN, fresh : BOOLEAN]
    BY RequestsGood DEF VaultInv, Typed
<1>2. UNCHANGED <<vault, cli, refused, edits, faults>>
    BY DEF StoreCache, ReadMethod, Accepted, Rejected, DropCache, ReportFailure
<1>3. ASSUME StoreCache(r) PROVE Done
    <2>1. After(req[r].why) \in Points /\ NoMethod \in Methods
        BY <1>1, AfterIsPoint DEF Methods
    <2>2. Good([req[r] EXCEPT !.pc = After(req[r].why), !.loaded = NoMethod])
        BY <1>1, <2>1, UpdatesGood
    <2>3. cache' \in [method : Methods, present : BOOLEAN, fresh : BOOLEAN]
        BY <1>1, <1>3 DEF StoreCache, Cached
    <2> QED
        BY <1>3, <2>2, <2>3 DEF StoreCache
<1>4. ASSUME ReadMethod(r) PROVE Done
    <2>1. cache.method \in Methods
        BY <1>1
    <2>2. Good([req[r] EXCEPT !.pc = "config", !.key = cache.method])
          /\ Good([req[r] EXCEPT !.pc = "noAuth"])
        BY <1>1, <2>1, UpdatesGood DEF Points
    <2> QED
        BY <1>1, <1>4, <2>2 DEF ReadMethod, Goto
<1>5. ASSUME Accepted(r) \/ ReportFailure(r) PROVE Done
    BY <1>1, <1>5, NewRequestGood DEF Accepted, ReportFailure
<1>6. ASSUME Rejected(r) PROVE Done
    <2>1. Good([req[r] EXCEPT !.pc = "rejected", !.first = req[r].key])
          /\ Good([req[r] EXCEPT !.pc = "gaveUp"])
        BY <1>1, UpdatesGood DEF Points
    <2> QED
        BY <1>1, <1>6, <2>1 DEF Rejected
<1>7. ASSUME DropCache(r) PROVE Done
    <2>1. cache' \in [method : Methods, present : BOOLEAN, fresh : BOOLEAN]
        BY <1>7 DEF DropCache, NoCache, Methods
    <2>2. Good([req[r] EXCEPT !.pc = "dropAgain"]) /\ Good([req[r] EXCEPT !.pc = "auth"])
        BY <1>1, UpdatesGood DEF Points
    <2> QED
        BY <1>7, <2>1, <2>2 DEF DropCache, Goto
<1>8. Done
    BY <1>3, <1>4, <1>5, <1>6, <1>7
<1> QED
    BY <1>2, <1>8, RequestKeepsVault, FaultCounted

(* A rotation loads, moves the pointer and saves. *)
LEMMA RotationStepsKeep ==
    ASSUME VaultInv, NEW r \in Requests, CheckAutoRotate(r) \/ LoadAndRotate(r) \/ SaveRotation(r)
    PROVE  VaultInv'
<1> DEFINE Done == /\ vault' = vault \/ (vault' \in Vaults /\ WellFormed(vault'))
                   /\ \E v : Good(v) /\ Set(r, v)
<1>1. /\ UNCHANGED <<cache, cli, refused, edits>>
      /\ Fault \/ NoFault
      /\ cache \in [method : Methods, present : BOOLEAN, fresh : BOOLEAN]
    BY DEF CheckAutoRotate, LoadAndRotate, SaveRotation, VaultInv, Typed
<1>2. Good(req[r]) /\ req[r].mem \in Vaults /\ WellFormed(req[r].mem)
    BY RequestsGood
<1>3. \A l \in Points : Good([req[r] EXCEPT !.pc = l])
    BY <1>2, UpdatesGood
<1>4. ASSUME CheckAutoRotate(r) PROVE Done
    BY <1>3, <1>4 DEF CheckAutoRotate, Goto, Points
<1>5. ASSUME LoadAndRotate(r) PROVE Done
    <2>1. CanRotate(vault) => Good([req[r] EXCEPT !.pc = "save", !.mem = RotateNext(vault)])
        BY <1>2, UpdatesGood, RotateKeeps DEF VaultInv, Typed, CopiesWellFormed, Points
    <2> QED
        BY <1>3, <1>5, <2>1 DEF LoadAndRotate, Goto, Points
<1>6. ASSUME SaveRotation(r) PROVE Done
    <2>1. Good([req[r] EXCEPT !.pc = "drop", !.rotated = TRUE, !.mem = EmptyVault])
          /\ Good([req[r] EXCEPT !.pc = "dropAgain", !.mem = EmptyVault])
        BY <1>2, UpdatesGood, EmptyIsVault DEF Points
    <2> QED
        BY <1>2, <1>6, <2>1 DEF SaveRotation
<1>7. Done
    BY <1>4, <1>5, <1>6
<1>8. PICK v : Good(v) /\ Set(r, v)
    BY <1>7
<1>9. faults' \in 0..MaxFaults
    BY <1>1, FaultCounted
<1>10. cache' \in [method : Methods, present : BOOLEAN, fresh : BOOLEAN]
    BY <1>1
<1> QED
    BY <1>1, <1>7, <1>8, <1>9, <1>10, RequestKeepsVault

(* The cache entry grows old. *)
LEMMA ExpireKeeps == ASSUME VaultInv, Expire PROVE VaultInv'
<1>1. cache' \in [method : Methods, present : BOOLEAN, fresh : BOOLEAN]
    BY DEF Expire, VaultInv, Typed
<1> QED
    BY <1>1 DEF Expire, VaultInv, Typed, CopiesWellFormed, EditToSpare

(* What the command line saves is a well formed vault. *)
LEMMA CliKeeps == ASSUME VaultInv, Cli PROVE VaultInv'
<1>1. cli \in CliRecord /\ cli.mem \in Vaults /\ WellFormed(cli.mem) /\ edits \in Nat
    BY DEF VaultInv, Typed, CopiesWellFormed, CliRecord
<1>2. UNCHANGED <<cache, req, refused, faults>>
    BY DEF Cli, CliLoad, UseAccount, Logout, ToggleAutoRotate, AddAccountCmd, CliAbort, CliSave
<1>3. ASSUME CliLoad PROVE VaultInv'
    <2>1. cli' \in CliRecord /\ cli'.mem = vault /\ edits < MaxEdits
        BY <1>3 DEF CliLoad, CliRecord, VaultInv, Typed
    <2>2. UNCHANGED <<vault, edits>>
        BY <1>3 DEF CliLoad
    <2> QED
        BY <1>2, <2>1, <2>2 DEF VaultInv, Typed, CopiesWellFormed, EditToSpare
<1>4. ASSUME cli.pc = "prompt", cli' = [pc |-> "idle", mem |-> EmptyVault], edits' = edits + 1,
             vault' \in Vaults, WellFormed(vault')
      PROVE  VaultInv'
    <2>1. cli' \in CliRecord /\ cli'.mem = EmptyVault /\ cli'.pc = "idle"
        BY <1>4, EmptyIsVault DEF CliRecord
    <2>2. edits' \in 0..MaxEdits
        BY <1>1, <1>4, RotationAssumption DEF VaultInv, EditToSpare
    <2> QED
        BY <1>2, <1>4, <2>1, <2>2, EmptyIsVault DEF VaultInv, Typed, CopiesWellFormed, EditToSpare
<1>5. ASSUME NEW v \in Vaults, WellFormed(v), CliSave(v) PROVE VaultInv'
    BY <1>4, <1>5 DEF CliSave
<1>6. ASSUME CliAbort PROVE VaultInv'
    BY <1>4, <1>6 DEF CliAbort, VaultInv, Typed, CopiesWellFormed
<1>7. ASSUME UseAccount \/ ToggleAutoRotate PROVE VaultInv'
    BY <1>1, <1>5, <1>7, FieldEditKeeps DEF UseAccount, ToggleAutoRotate
<1>8. ASSUME Logout PROVE VaultInv'
    BY <1>1, <1>5, <1>8, RemoveKeeps DEF Logout
<1>9. ASSUME AddAccountCmd PROVE VaultInv'
    BY <1>1, <1>5, <1>9, AddKeeps DEF AddAccountCmd
<1> QED
    BY <1>3, <1>6, <1>7, <1>8, <1>9 DEF Cli

(* Every action keeps every copy of the vault well formed. *)
LEMMA VaultInductive == VaultInv /\ [Next]_vars => VaultInv'
<1> SUFFICES ASSUME VaultInv, [Next]_vars PROVE VaultInv'
    OBVIOUS
<1>1. ASSUME UNCHANGED vars PROVE VaultInv'
    BY <1>1 DEF vars, VaultInv, Typed, CopiesWellFormed, EditToSpare
<1>2. ASSUME NEW r \in Requests, Start(r) \/ RequestStep(r) PROVE VaultInv'
    BY <1>2, ReadStepsKeep, SendStepsKeep, RotationStepsKeep DEF RequestStep
<1> QED
    BY <1>1, <1>2, ExpireKeeps, CliKeeps DEF Next

(* Every copy of the vault is well formed. *)
LEMMA VaultInvariant == Spec => []VaultInv
    BY VaultInit, VaultInductive, PTL DEF Spec

(* However the loads and saves of any number of requests and of the        *)
(* command line interleave, accounts.json stays well formed: unique ids,   *)
(* and an active pointer that names one of them if there is any.           *)
THEOREM VaultStaysConsistent == Spec => []VaultConsistent
    BY VaultInvariant, VaultInvImplies, PTL
(***************************************************************************)
(* What a rotation moves                                                   *)
(***************************************************************************)

(* Until an edit is saved, what a rotation is about to save differs from   *)
(* the file in the active pointer only.                                    *)
PointerOnly ==
    \A r \in Requests : At(r, "save") /\ Unedited =>
        req[r].mem.accounts = vault.accounts /\ req[r].mem.auto = vault.auto

(* A step of a request that does not come to save leaves PointerOnly.      *)
LEMMA OtherStepsKeepPointer ==
    ASSUME VaultInv, PointerOnly, NEW r \in Requests, NEW v, v.pc # "save", Set(r, v),
           UNCHANGED edits, vault'.accounts = vault.accounts /\ vault'.auto = vault.auto
    PROVE  PointerOnly'
    BY DEF PointerOnly, Set, At, Unedited, VaultInv, Typed

(* A rotation in progress differs from the file in the pointer only, until *)
(* an edit is saved under it.                                              *)
LEMMA PointerInductive == VaultInv /\ PointerOnly /\ [Next]_vars => PointerOnly'
<1> SUFFICES ASSUME VaultInv, PointerOnly, [Next]_vars PROVE PointerOnly'
    OBVIOUS
<1>1. ASSUME UNCHANGED vars PROVE PointerOnly'
    BY <1>1 DEF vars, PointerOnly, At, Unedited
<1>2. ASSUME Expire PROVE PointerOnly'
    BY <1>2 DEF Expire, PointerOnly, At, Unedited
<1>3. ASSUME Cli PROVE PointerOnly'
    <2>1. \/ UNCHANGED <<vault, req, edits>>
          \/ edits' = edits + 1
        BY <1>3 DEF Cli, CliLoad, UseAccount, Logout, ToggleAutoRotate, AddAccountCmd, CliAbort, CliSave
    <2>2. edits' = edits + 1 => ~Unedited'
        BY DEF Unedited, VaultInv, Typed
    <2> QED
        BY <2>1, <2>2 DEF PointerOnly, At, Unedited
<1>4. ASSUME NEW r \in Requests, Start(r) \/ RequestStep(r) PROVE PointerOnly'
    <2>1. /\ req[r] \in RequestRecord /\ req[r].why \in {"taste", "auth", "config"}
          /\ WellFormed(vault) /\ vault \in Vaults
        BY RequestsGood DEF VaultInv, Typed, CopiesWellFormed
    <2>2. After(req[r].why) # "save"
        BY <2>1 DEF After
    <2>3. ASSUME UNCHANGED <<vault, edits>>, \E v : v.pc # "save" /\ Set(r, v) PROVE PointerOnly'
        BY <2>3, OtherStepsKeepPointer
    <2>4. CASE Start(r) \/ Accepted(r) \/ ReportFailure(r)
        <3>1. NewRequest.pc # "save" /\ [NewRequest EXCEPT !.pc = "taste"].pc # "save"
            BY DEF NewRequest
        <3> QED
            BY <2>3, <2>4, <3>1 DEF Start, Accepted, ReportFailure
    <2>5. CASE CheckCache(r)
        <3>1. \A why \in {"taste", "auth", "config"} : After(why) # "save"
            BY DEF After
        <3> QED
            BY <2>1, <2>3, <2>5, <3>1 DEF CheckCache, RequestRecord
    <2>6. CASE LoadCredentials(r)
        BY <2>1, <2>2, <2>3, <2>6 DEF LoadCredentials, FromLegacy, Goto, RequestRecord
    <2>7. CASE StoreCache(r) \/ ReadMethod(r) \/ Rejected(r)
        BY <2>1, <2>2, <2>3, <2>7 DEF StoreCache, ReadMethod, Rejected, Goto, RequestRecord
    <2>8. CASE CheckAutoRotate(r) \/ DropCache(r)
        BY <2>1, <2>3, <2>8 DEF CheckAutoRotate, DropCache, Goto, RequestRecord
    <2>9. CASE LoadAndRotate(r)
        <3>1. CASE Set(r, [req[r] EXCEPT !.pc = "save", !.mem = RotateNext(vault)]) /\ CanRotate(vault)
            <4>1. RotateNext(vault).accounts = vault.accounts /\ RotateNext(vault).auto = vault.auto
                BY <2>1, <3>1, RotateKeeps
            <4>2. req' = [req EXCEPT ![r] = [req[r] EXCEPT !.pc = "save", !.mem = RotateNext(vault)]]
                BY <3>1 DEF Set
            <4> QED
                BY <2>1, <2>9, <4>1, <4>2
                   DEF LoadAndRotate, PointerOnly, At, Unedited, VaultInv, Typed, RequestRecord
        <3>2. CASE Goto(r, "dropAgain")
            BY <2>1, <2>3, <2>9, <3>2 DEF LoadAndRotate, Goto, RequestRecord
        <3> QED
            BY <2>9, <3>1, <3>2 DEF LoadAndRotate
    <2>10. CASE SaveRotation(r)
        <3>1. PICK v : v.pc # "save" /\ Set(r, v)
            BY <2>1, <2>10 DEF SaveRotation, RequestRecord
        <3>2. Unedited => vault'.accounts = vault.accounts /\ vault'.auto = vault.auto
            BY <2>10 DEF SaveRotation, PointerOnly
        <3>3. UNCHANGED edits
            BY <2>10 DEF SaveRotation
        <3>4. CASE Unedited
            BY <3>1, <3>2, <3>3, <3>4, OtherStepsKeepPointer
        <3>5. CASE ~Unedited
            BY <3>3, <3>5 DEF PointerOnly, Unedited
        <3> QED
            BY <3>4, <3>5
    <2> QED
        BY <1>4, <2>4, <2>5, <2>6, <2>7, <2>8, <2>9, <2>10 DEF RequestStep
<1> QED
    BY <1>1, <1>2, <1>3, <1>4 DEF Next

(* No rotation is in progress at the start. *)
LEMMA PointerInit == Init => PointerOnly
    BY DEF Init, PointerOnly, At, NewRequest

(* A rotation that no edit overtook moves the active pointer and nothing   *)
(* else, however many requests rotate at once.                             *)
THEOREM RotationKeepsAccounts == Spec => RotationMovesOnlyPointer
<1>1. PointerOnly =>
         [Unedited /\ (\E r \in Requests : SaveRotation(r)) =>
             vault'.accounts = vault.accounts /\ vault'.auto = vault.auto]_vars
    BY DEF PointerOnly, SaveRotation
<1> QED
    BY <1>1, VaultInvariant, PointerInit, PointerInductive, PTL DEF Spec, RotationMovesOnlyPointer
(***************************************************************************)
(* The credential of a request, when requests come one at a time           *)
(***************************************************************************)

OneAtATime == \A r, s \in Requests : r = s

(* An account that, with no edit yet, is not the active one. *)
Stale(m) == Unedited /\ m \in Accounts /\ m # ActiveAccount(vault)

Held(m) == m # NoMethod \/ Legacy = NoMethod

(* A credential is missing only if auth.json holds none. *)
SourceHeld ==
    /\ cache.present => Held(cache.method)
    /\ \A r \in Requests : /\ At(r, "store") => Held(req[r].loaded)
                           /\ At(r, "method") => cache.present
                           /\ At(r, "noAuth") => Legacy = NoMethod

(* What is cached, or about to be, is current, up to a saved rotation. *)
CacheCurrent ==
    /\ ~Rotating => ~Stale(cache.method)
    /\ \A r \in Requests : At(r, "store") => ~Stale(req[r].loaded)

(* Until it rotates, a request carries the active account, and the one it  *)
(* was rejected with is the active one.                                    *)
KeyCurrent == \A r \in Requests : ~req[r].rotated => ~Stale(req[r].key) /\ ~Stale(req[r].first)

(* A request is rejected once before it rotates, and does not rotate twice. *)
OneRotation ==
    \A r \in Requests :
        /\ req[r].rotated => req[r].first # NoMethod
        /\ req[r].pc \in {"rejected", "rotate", "save"} => req[r].first # NoMethod /\ ~req[r].rotated

(* What is about to be saved is the next rotation of the file. *)
RotationNext ==
    \A r \in Requests : At(r, "save") /\ Unedited => CanRotate(vault) /\ req[r].mem = RotateNext(vault)

(* After its rotation, the account a request was rejected with is no       *)
(* longer active, and not the one its rebuilt headers carry.               *)
Rebuilt(r) == req[r].pc \in {"config", "send"} \/ (req[r].pc \in {"load", "store"} /\ req[r].why = "config")
ResendOther ==
    \A r \in Requests : Unedited /\ req[r].rotated /\ req[r].first \in Accounts =>
        /\ req[r].first # ActiveAccount(vault)
        /\ Rebuilt(r) => req[r].key # req[r].first

RightInv == SourceHeld /\ CacheCurrent /\ KeyCurrent /\ OneRotation /\ RotationNext /\ ResendOther

(* The invariant says more than the property. *)
LEMMA RightInvImplies == RightInv => RightCredential
    BY DEF RightInv, RightCredential, CacheCoherent, RetryUsesAnother, NoSpuriousNoAuth,
           SourceHeld, CacheCurrent, ResendOther, Rebuilt, Stale, At

(* Nothing is cached and no request under way at the start. *)
LEMMA RightInit == Init => RightInv
<1> SUFFICES ASSUME Init PROVE RightInv
    OBVIOUS
<1>1. NoMethod \notin Accounts /\ ~cache.present /\ cache.method = NoMethod
    BY RotationAssumption DEF Init, NoCache
<1>2. \A r \in Requests : /\ req[r].pc = "idle" /\ ~req[r].rotated
                          /\ req[r].key = NoMethod /\ req[r].first = NoMethod
    BY DEF Init, NewRequest
<1> QED
    BY <1>1, <1>2 DEF RightInv, SourceHeld, CacheCurrent, KeyCurrent, OneRotation, RotationNext,
                      ResendOther, Rebuilt, Stale, At

(* One request's step: the next state holds its new record and no other.   *)
LEMMA OnlyRecord ==
    ASSUME OneAtATime, VaultInv, NEW r \in Requests, NEW v, Set(r, v)
    PROVE  \A s \in Requests : s = r /\ req'[s] = v
    BY DEF OneAtATime, Set, VaultInv, Typed

(* Steps that leave the file and the edits alone: what is left to show of  *)
(* the new record and of the cache.                                        *)
LEMMA RightKept ==
    ASSUME OneAtATime, VaultInv, NEW r \in Requests, NEW v, Set(r, v), UNCHANGED <<vault, edits>>,
           cache'.present => Held(cache'.method),
           v.pc = "store" => Held(v.loaded) /\ ~Stale(v.loaded),
           v.pc = "method" => cache'.present,
           v.pc = "noAuth" => Legacy = NoMethod,
           Stale(cache'.method) => v.pc = "drop" /\ v.rotated,
           ~v.rotated => ~Stale(v.key) /\ ~Stale(v.first),
           v.rotated => v.first # NoMethod,
           v.pc \in {"rejected", "rotate", "save"} => v.first # NoMethod /\ ~v.rotated,
           v.pc = "save" /\ Unedited => CanRotate(vault) /\ v.mem = RotateNext(vault),
           Unedited /\ v.rotated /\ v.first \in Accounts =>
              /\ v.first # ActiveAccount(vault)
              /\ v.pc \in {"config", "send"} \/ (v.pc \in {"load", "store"} /\ v.why = "config")
                    => v.key # v.first
    PROVE  RightInv'
<1>1. \A s \in Requests : s = r /\ req'[s] = v
    BY OnlyRecord
<1>2. SourceHeld'
    BY <1>1 DEF SourceHeld, At, Held
<1>3. CacheCurrent'
    BY <1>1 DEF CacheCurrent, At, Stale, Unedited, Rotating
<1>4. KeyCurrent'
    BY <1>1 DEF KeyCurrent, Stale, Unedited
<1>5. OneRotation'
    BY <1>1 DEF OneRotation
<1>6. RotationNext'
    BY <1>1 DEF RotationNext, At, Unedited
<1>7. ResendOther'
    BY <1>1 DEF ResendOther, Rebuilt, Unedited
<1> QED
    BY <1>2, <1>3, <1>4, <1>5, <1>6, <1>7 DEF RightInv
(* What RightInv says of the record of one request and of the cache.       *)
LEMMA RightNow ==
    ASSUME OneAtATime, VaultInv, RightInv, NEW r \in Requests
    PROVE  /\ req[r] \in RequestRecord
           /\ cache.present => Held(cache.method)
           /\ At(r, "store") => Held(req[r].loaded) /\ ~Stale(req[r].loaded)
           /\ At(r, "method") => cache.present
           /\ At(r, "noAuth") => Legacy = NoMethod
           /\ Stale(cache.method) => At(r, "drop") /\ req[r].rotated
           /\ ~req[r].rotated => ~Stale(req[r].key) /\ ~Stale(req[r].first)
           /\ req[r].rotated => req[r].first # NoMethod
           /\ req[r].pc \in {"rejected", "rotate", "save"} => req[r].first # NoMethod /\ ~req[r].rotated
           /\ At(r, "save") /\ Unedited => CanRotate(vault) /\ req[r].mem = RotateNext(vault)
           /\ Unedited /\ req[r].rotated /\ req[r].first \in Accounts =>
                 /\ req[r].first # ActiveAccount(vault)
                 /\ Rebuilt(r) => req[r].key # req[r].first
<1>1. \A s \in Requests : s = r
    BY DEF OneAtATime
<1>2. req[r] \in RequestRecord
    BY RequestsGood
<1> QED
    BY <1>1, <1>2 DEF RightInv, SourceHeld, CacheCurrent, KeyCurrent, OneRotation, RotationNext, ResendOther, Rotating

(* Only credentials of the vault become stale. *)
LEMMA NotHeldNotStale == ~Stale(NoMethod) /\ ~Stale(LegacyKey)
    BY RotationAssumption DEF Stale

(* A request gets its credential, from the cache or from the file. *)
LEMMA RightRead ==
    ASSUME OneAtATime, VaultInv, RightInv, NEW r \in Requests,
           Start(r) \/ CheckCache(r) \/ LoadCredentials(r) \/ StoreCache(r) \/ ReadMethod(r)
    PROVE  RightInv'
<1>1. CASE Start(r)
    <2> DEFINE v == [NewRequest EXCEPT !.pc = "taste"]
    <2>1. v.pc = "taste" /\ ~v.rotated /\ v.key = NoMethod /\ v.first = NoMethod
        BY DEF NewRequest
    <2>2. Set(r, v) /\ UNCHANGED <<vault, cache, edits>> /\ ~At(r, "drop")
        BY <1>1 DEF Start, At
    <2> HIDE DEF v
    <2> QED
        BY <2>1, <2>2, RightNow, RightKept, NotHeldNotStale
<1>2. CASE CheckCache(r)
    <2>1. PICK why \in {"taste", "auth", "config"} :
             /\ At(r, why)
             /\ Set(r, [req[r] EXCEPT !.pc = IF Usable THEN After(why) ELSE "load", !.why = why])
             /\ UNCHANGED <<vault, cache, edits>>
        BY <1>2 DEF CheckCache
    <2> DEFINE l == IF Usable THEN After(why) ELSE "load"
               v == [req[r] EXCEPT !.pc = l, !.why = why]
    <2>2. Set(r, v)
        BY <2>1
    <2>3. /\ l \in {"load", "auth", "method", "send"}
          /\ l = "method" => cache.present
          /\ l = "send" => why = "config"
        BY DEF After, Usable
    <2> HIDE DEF l
    <2>4. /\ v.pc = l /\ v.why = why /\ v.key = req[r].key /\ v.first = req[r].first
          /\ v.rotated = req[r].rotated
        BY RightNow DEF RequestRecord
    <2> HIDE DEF v
    <2>5. (v.pc \in {"config", "send"} \/ (v.pc \in {"load", "store"} /\ v.why = "config")) => Rebuilt(r)
        BY <2>1, <2>3, <2>4 DEF Rebuilt, At
    <2>6. ~At(r, "drop")
        BY <2>1 DEF At
    <2> QED
        BY <2>1, <2>2, <2>3, <2>4, <2>5, <2>6, RightNow, RightKept
<1>3. CASE LoadCredentials(r)
    <2>1. UNCHANGED <<vault, cache, edits>> /\ At(r, "load")
        BY <1>3 DEF LoadCredentials
    <2>2. ASSUME NEW m, Held(m), ~Stale(m), Set(r, [req[r] EXCEPT !.pc = "store", !.loaded = m])
          PROVE  RightInv'
        <3> DEFINE v == [req[r] EXCEPT !.pc = "store", !.loaded = m]
        <3>1. /\ v.pc = "store" /\ v.loaded = m /\ v.why = req[r].why /\ v.key = req[r].key
              /\ v.first = req[r].first /\ v.rotated = req[r].rotated
            BY RightNow DEF RequestRecord
        <3>2. Set(r, v)
            BY <2>2
        <3> HIDE DEF v
        <3>3. v.why = "config" => Rebuilt(r)
            BY <2>1, <3>1 DEF Rebuilt, At
        <3>4. ~At(r, "drop")
            BY <2>1 DEF At
        <3> QED
            BY <2>1, <2>2, <3>1, <3>2, <3>3, <3>4, RightNow, RightKept
    <2>3. ASSUME FromVault # NoAccount PROVE Held(FromVault) /\ ~Stale(FromVault)
        <3>1. FromVault \in Accounts
            BY <2>3, VaultFields DEF FromVault, ActiveAccount, VaultInv, Typed
        <3> QED
            BY <3>1, RotationAssumption DEF Held, Stale, FromVault
    <2>4. Legacy # NoFile => Held(Legacy) /\ ~Stale(Legacy)
        BY RotationAssumption DEF Held, Stale
    <2>5. ASSUME Legacy = NoFile, FromLegacy(r) PROVE RightInv'
        <3> DEFINE l == IF req[r].why = "auth" THEN "noCredential" ELSE After(req[r].why)
                   v == [req[r] EXCEPT !.pc = l]
        <3>1. Set(r, v)
            BY <2>5 DEF FromLegacy, Goto
        <3>2. l \in {"noCredential", "auth", "send"} /\ (l = "send" => req[r].why = "config")
            BY RightNow DEF After, RequestRecord
        <3> HIDE DEF l
        <3>3. /\ v.pc = l /\ v.why = req[r].why /\ v.key = req[r].key
              /\ v.first = req[r].first /\ v.rotated = req[r].rotated
            BY RightNow DEF RequestRecord
        <3> HIDE DEF v
        <3>4. v.pc = "send" => Rebuilt(r)
            BY <2>1, <3>2, <3>3 DEF Rebuilt, At
        <3>5. ~At(r, "drop")
            BY <2>1 DEF At
        <3> QED
            BY <2>1, <3>1, <3>2, <3>3, <3>4, <3>5, RightNow, RightKept
    <2> QED
        BY <1>3, <2>2, <2>3, <2>4, <2>5 DEF LoadCredentials, FromLegacy
<1>4. CASE StoreCache(r)
    <2> DEFINE v == [req[r] EXCEPT !.pc = After(req[r].why), !.loaded = NoMethod]
    <2>1. /\ Set(r, v) /\ UNCHANGED <<vault, edits>> /\ At(r, "store")
          /\ cache'.method = req[r].loaded /\ cache'.present
        BY <1>4 DEF StoreCache, Cached
    <2>2. /\ v.pc \in {"auth", "method", "send"} /\ (v.pc = "send" => req[r].why = "config")
          /\ v.why = req[r].why /\ v.key = req[r].key
          /\ v.first = req[r].first /\ v.rotated = req[r].rotated
        BY RightNow DEF RequestRecord, After
    <2> HIDE DEF v
    <2>3. v.pc = "send" => Rebuilt(r)
        BY <2>1, <2>2 DEF Rebuilt, At
    <2> QED
        BY <2>1, <2>2, <2>3, RightNow, RightKept
<1>5. CASE ReadMethod(r)
    <2>1. UNCHANGED <<vault, cache, edits>> /\ At(r, "method") /\ ~At(r, "drop")
        BY <1>5 DEF ReadMethod, At
    <2>2. CASE cache.present /\ cache.method # NoMethod
        <3> DEFINE v == [req[r] EXCEPT !.pc = "config", !.key = cache.method]
        <3>1. Set(r, v)
            BY <1>5, <2>2 DEF ReadMethod
        <3>2. /\ v.pc = "config" /\ v.key = cache.method
              /\ v.first = req[r].first /\ v.rotated = req[r].rotated
            BY RightNow DEF RequestRecord
        <3> HIDE DEF v
        <3>3. ~Stale(cache.method)
            BY <2>1, RightNow
        <3>4. Unedited /\ v.rotated /\ v.first \in Accounts => v.key # v.first
            BY <3>2, <3>3, RightNow DEF Stale
        <3> QED
            BY <2>1, <3>1, <3>2, <3>3, <3>4, RightNow, RightKept
    <2>3. CASE ~(cache.present /\ cache.method # NoMethod)
        <3> DEFINE v == [req[r] EXCEPT !.pc = "noAuth"]
        <3>1. Set(r, v)
            BY <1>5, <2>3 DEF ReadMethod, Goto
        <3>2. /\ v.pc = "noAuth" /\ v.key = req[r].key
              /\ v.first = req[r].first /\ v.rotated = req[r].rotated
            BY RightNow DEF RequestRecord
        <3> HIDE DEF v
        <3>3. Legacy = NoMethod
            BY <2>1, <2>3, RightNow DEF Held
        <3> QED
            BY <2>1, <3>1, <3>2, <3>3, RightNow, RightKept
    <2> QED
        BY <2>2, <2>3
<1> QED
    BY <1>1, <1>2, <1>3, <1>4, <1>5
(* A request is accepted, or rejected and perhaps followed by a rotation. *)
LEMMA RightSend ==
    ASSUME OneAtATime, VaultInv, RightInv, NEW r \in Requests,
           Accepted(r) \/ Rejected(r) \/ ReportFailure(r) \/ CheckAutoRotate(r) \/ LoadAndRotate(r)
    PROVE  RightInv'
<1>1. UNCHANGED <<vault, cache, edits>> /\ ~At(r, "drop")
    BY DEF Accepted, Rejected, ReportFailure, CheckAutoRotate, LoadAndRotate, At
<1>2. CASE Accepted(r) \/ ReportFailure(r)
    <2>1. /\ NewRequest.pc = "idle" /\ ~NewRequest.rotated /\ NewRequest.key = NoMethod
          /\ NewRequest.first = NoMethod
        BY DEF NewRequest
    <2>2. Set(r, NewRequest)
        BY <1>2 DEF Accepted, ReportFailure
    <2> QED
        BY <1>1, <2>1, <2>2, RightNow, RightKept, NotHeldNotStale
<1>3. CASE Rejected(r)
    <2>1. At(r, "send") /\ req[r].key # NoMethod
        BY <1>3, RotationAssumption DEF Rejected, VaultInv, Typed, Credentials
    <2>2. CASE req[r].first = NoMethod
        <3> DEFINE v == [req[r] EXCEPT !.pc = "rejected", !.first = req[r].key]
        <3>1. Set(r, v)
            BY <1>3, <2>2 DEF Rejected
        <3>2. v.pc = "rejected" /\ v.key = req[r].key /\ v.first = req[r].key /\ v.rotated = req[r].rotated
            BY RightNow DEF RequestRecord
        <3> HIDE DEF v
        <3>3. ~v.rotated
            BY <2>2, <3>2, RightNow
        <3> QED
            BY <1>1, <2>1, <3>1, <3>2, <3>3, RightNow, RightKept
    <2>3. CASE req[r].first # NoMethod
        <3> DEFINE v == [req[r] EXCEPT !.pc = "gaveUp"]
        <3>1. Set(r, v)
            BY <1>3, <2>3 DEF Rejected
        <3>2. v.pc = "gaveUp" /\ v.key = req[r].key /\ v.first = req[r].first /\ v.rotated = req[r].rotated
            BY RightNow DEF RequestRecord
        <3> HIDE DEF v
        <3> QED
            BY <1>1, <3>1, <3>2, RightNow, RightKept
    <2> QED
        BY <2>2, <2>3
<1>4. ASSUME NEW l \in {"rotate", "drop", "dropAgain"}, Goto(r, l),
             At(r, "rejected") \/ At(r, "rotate")
      PROVE  RightInv'
    <2> DEFINE v == [req[r] EXCEPT !.pc = l]
    <2>1. Set(r, v)
        BY <1>4 DEF Goto
    <2>2. v.pc = l /\ v.key = req[r].key /\ v.first = req[r].first /\ v.rotated = req[r].rotated
        BY RightNow DEF RequestRecord
    <2> HIDE DEF v
    <2>3. req[r].pc \in {"rejected", "rotate", "save"}
        BY <1>4 DEF At
    <2>4. req[r].first # NoMethod /\ ~req[r].rotated
        BY <2>3, RightNow
    <2> QED
        BY <1>1, <2>1, <2>2, <2>4, RightNow, RightKept
<1>5. CASE CheckAutoRotate(r)
    BY <1>4, <1>5 DEF CheckAutoRotate
<1>6. CASE LoadAndRotate(r)
    <2>1. CASE CanRotate(vault) /\ Set(r, [req[r] EXCEPT !.pc = "save", !.mem = RotateNext(vault)])
        <3> DEFINE v == [req[r] EXCEPT !.pc = "save", !.mem = RotateNext(vault)]
        <3>1. Set(r, v)
            BY <2>1
        <3>2. /\ v.pc = "save" /\ v.key = req[r].key /\ v.first = req[r].first
              /\ v.rotated = req[r].rotated /\ v.mem = RotateNext(vault)
            BY RightNow DEF RequestRecord
        <3> HIDE DEF v
        <3>3. req[r].pc \in {"rejected", "rotate", "save"}
            BY <1>6 DEF LoadAndRotate, At
        <3>4. req[r].first # NoMethod /\ ~req[r].rotated
            BY <3>3, RightNow
        <3> QED
            BY <1>1, <2>1, <3>1, <3>2, <3>4, RightNow, RightKept
    <2> QED
        BY <1>4, <1>6, <2>1 DEF LoadAndRotate
<1> QED
    BY <1>2, <1>3, <1>5, <1>6

(* The rotation is saved: the account the request was rejected with is no  *)
(* longer the active one, and what is cached is out of date until dropped. *)
LEMMA RightSave ==
    ASSUME OneAtATime, VaultInv, RightInv, NEW r \in Requests, SaveRotation(r)
    PROVE  RightInv'
<1>1. UNCHANGED <<cache, edits>> /\ At(r, "save") /\ ~At(r, "drop")
    BY DEF SaveRotation, At
<1>2. req[r].first # NoMethod /\ ~req[r].rotated /\ ~Stale(req[r].first)
    BY <1>1, RightNow DEF At
<1>3. CASE UNCHANGED vault /\ Set(r, [req[r] EXCEPT !.pc = "dropAgain", !.mem = EmptyVault])
    <2> DEFINE v == [req[r] EXCEPT !.pc = "dropAgain", !.mem = EmptyVault]
    <2>1. Set(r, v)
        BY <1>3
    <2>2. v.pc = "dropAgain" /\ v.key = req[r].key /\ v.first = req[r].first /\ v.rotated = req[r].rotated
        BY RightNow DEF RequestRecord
    <2> HIDE DEF v
    <2> QED
        BY <1>1, <1>2, <1>3, <2>1, <2>2, RightNow, RightKept
<1>4. CASE /\ vault' = req[r].mem
           /\ Set(r, [req[r] EXCEPT !.pc = "drop", !.rotated = TRUE, !.mem = EmptyVault])
    <2> DEFINE v == [req[r] EXCEPT !.pc = "drop", !.rotated = TRUE, !.mem = EmptyVault]
    <2>1. /\ v.pc = "drop" /\ v.rotated /\ v.key = req[r].key /\ v.first = req[r].first
        BY RightNow DEF RequestRecord
    <2>2. Set(r, v)
        BY <1>4
    <2> HIDE DEF v
    <2>3. \A s \in Requests : s = r /\ req'[s] = v
        BY <2>2, OnlyRecord
    <2>4. Unedited => ActiveAccount(vault') # ActiveAccount(vault)
        BY <1>1, <1>4, RightNow, RotateKeeps DEF VaultInv, Typed, CopiesWellFormed
    <2>5. Unedited' => Unedited
        BY <1>1 DEF Unedited
    <2>6. SourceHeld'
        BY <1>1, <2>1, <2>3, RightNow DEF SourceHeld, At, Held
    <2>7. CacheCurrent'
        <3>1. Rotating'
            BY <2>1, <2>3 DEF Rotating, At
        <3>2. \A s \in Requests : ~At(s, "store")'
            BY <2>1, <2>3 DEF At
        <3> QED
            BY <3>1, <3>2 DEF CacheCurrent
    <2>8. KeyCurrent' /\ OneRotation' /\ RotationNext'
        BY <1>2, <2>1, <2>3 DEF KeyCurrent, OneRotation, RotationNext, At
    <2>9. ResendOther'
        <3>1. Unedited' /\ v.first \in Accounts => v.first # ActiveAccount(vault')
            BY <1>2, <2>1, <2>4, <2>5 DEF Stale
        <3>2. \A s \in Requests : ~Rebuilt(s)'
            BY <2>1, <2>3 DEF Rebuilt
        <3> QED
            BY <2>3, <3>1, <3>2 DEF ResendOther
    <2> QED
        BY <2>6, <2>7, <2>8, <2>9 DEF RightInv
<1> QED
    BY <1>3, <1>4 DEF SaveRotation

(* A rejected credential leaves the cache before the vault is read again. *)
LEMMA RightDrop ==
    ASSUME OneAtATime, VaultInv, RightInv, NEW r \in Requests, DropCache(r)
    PROVE  RightInv'
<1> DEFINE l == IF At(r, "drop") /\ ~req[r].rotated THEN "dropAgain" ELSE "auth"
           v == [req[r] EXCEPT !.pc = l]
<1>1. /\ Set(r, v) /\ UNCHANGED <<vault, edits>>
      /\ ~cache'.present /\ cache'.method = NoMethod
    BY DEF DropCache, Goto, NoCache
<1>2. l \in {"dropAgain", "auth"}
    OBVIOUS
<1> HIDE DEF l
<1>3. /\ v.pc = l /\ v.key = req[r].key /\ v.first = req[r].first /\ v.rotated = req[r].rotated
    BY RightNow DEF RequestRecord
<1> HIDE DEF v
<1> QED
    BY <1>1, <1>2, <1>3, RightNow, RightKept, NotHeldNotStale

(* Time passes, and the command line edits.                                *)
LEMMA RightOthers ==
    ASSUME OneAtATime, VaultInv, RightInv, Expire \/ Cli
    PROVE  RightInv'
<1>1. UNCHANGED req /\ (edits' = edits \/ edits' = edits + 1) /\ (edits' = edits => vault' = vault)
    BY DEF Expire, Cli, CliLoad, UseAccount, Logout, ToggleAutoRotate, AddAccountCmd, CliAbort, CliSave,
           VaultInv, Typed
<1>2. Unedited' => Unedited /\ vault' = vault
    BY <1>1 DEF Unedited, VaultInv, Typed
<1>3. cache'.method = cache.method /\ cache'.present = cache.present
    BY DEF Expire, Cli, CliLoad, UseAccount, Logout, ToggleAutoRotate, AddAccountCmd, CliAbort, CliSave,
           VaultInv, Typed
<1>4. SourceHeld'
    BY <1>1, <1>3 DEF RightInv, SourceHeld, At
<1>5. CacheCurrent' /\ KeyCurrent'
    BY <1>1, <1>2, <1>3 DEF RightInv, CacheCurrent, KeyCurrent, Stale, At, Rotating
<1>6. OneRotation' /\ RotationNext' /\ ResendOther'
    BY <1>1, <1>2 DEF RightInv, OneRotation, RotationNext, ResendOther, Rebuilt, At
<1> QED
    BY <1>4, <1>5, <1>6 DEF RightInv

(* With one request at a time every action keeps the invariant. *)
LEMMA RightInductive == OneAtATime => (VaultInv /\ RightInv /\ [Next]_vars => RightInv')
<1> SUFFICES ASSUME OneAtATime, VaultInv, RightInv, [Next]_vars PROVE RightInv'
    OBVIOUS
<1>1. ASSUME UNCHANGED vars PROVE RightInv'
    BY <1>1 DEF vars, RightInv, SourceHeld, CacheCurrent, KeyCurrent, OneRotation, RotationNext,
                ResendOther, Rebuilt, Stale, At, Rotating, Unedited
<1>2. ASSUME NEW r \in Requests, Start(r) \/ RequestStep(r) PROVE RightInv'
    BY <1>2, RightRead, RightSend, RightSave, RightDrop DEF RequestStep
<1> QED
    BY <1>1, <1>2, RightOthers DEF Next

(* When the proxy's requests come one at a time, each carries the active   *)
(* account (or auth.json's key), the resend after a rotation carries       *)
(* another account than the rejected one, and NoAuthConfigured is reported *)
(* only when auth.json is there without a key.                             *)
THEOREM RequestsCarryRightCredential == OneAtATime => (Spec => []RightCredential)
<1> SUFFICES ASSUME OneAtATime PROVE Spec => []RightCredential
    OBVIOUS
<1>1. VaultInv /\ RightInv /\ [Next]_vars => RightInv'
    BY RightInductive
<1> QED
    BY <1>1, RightInit, RightInvImplies, VaultInvariant, PTL DEF Spec
=============================================================================
