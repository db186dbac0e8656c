--------------------------- MODULE LocalParts_proofs ---------------------------
(***************************************************************************)
(* Safety of seven of the parts LocalParts composes, each by an inductive  *)
(* invariant of its own, and of LocalParts as a whole.                     *)
(*                                                                         *)
(* ConnectInv, for every set of keys, models and editors and every first   *)
(* configuration: it relates the router to the configuration it was built  *)
(* from (by whichever of the two loops of providers/mod.rs), and the copy  *)
(* of a command that is still current to the file's last complete content; *)
(* that the default and the winner of a model exist is a lemma on finite   *)
(* sets of numbers.                                                        *)
(*                                                                         *)
(* TasteInv, for any files and any number of servers: what is held under   *)
(* the time a file still has is the content it has, since the times were   *)
(* taken before the contents, and a file that has been read gets another   *)
(* time with its next change.  AccountInv, for any set of processes and    *)
(* any first vault: a process has a file open exactly while it writes it,  *)
(* that file is the temporary one as long as no two saves overlapped, and  *)
(* accounts.json is then a complete vault; with a pigeonhole argument there*)
(* is an inode and a port to spare.  AdmissionInv, for any set of          *)
(* connections: what a request at a station has passed before it, and the  *)
(* counters as a tally of the answers given and the requests upstream.     *)
(* LimiterInv, for any limit and any window: where the times at which      *)
(* requests were let through lie around the bucket's window.  LogInv, for  *)
(* any limit of size, any number of backups and lines of any length: the   *)
(* next rename goes to a file that is not there, and which backups are in  *)
(* use at each step of a rotation.  SetupInv, for any harnesses and        *)
(* configurations: what a run of setup writes, and into which file; what   *)
(* the merge keeps is said of any JSON.  At the end all parts are put      *)
(* together, with those of SessionStore_proofs.                            *)
(***************************************************************************)
EXTENDS LocalParts, AccountVault_proofs, SessionStore_proofs

(***************************************************************************)
(* The providers: connect, the configuration file and the router           *)
(***************************************************************************)

ProviderSpec == ProviderInit /\ [][ProviderNext]_providerVars

(***************************************************************************)
(* The least and the greatest key                                          *)
(***************************************************************************)

Greatest(S) == \E x \in S : \A y \in S : x >= y
Least(S)    == \E x \in S : \A y \in S : x <= y

(* A finite set without a greatest or a least element would have a smaller *)
(* one of its kind, which is not possible for ever.                        *)
LEMMA FiniteHasExtremes ==
    ASSUME NEW S \in SUBSET Nat, IsFiniteSet(S), S # {}
    PROVE  Greatest(S) /\ Least(S)
<1> DEFINE Bad == {A \in FiniteSubsetsOf(Nat) : A # {} /\ ~(Greatest(A) /\ Least(A))}
<1> SUFFICES ASSUME Bad # {} PROVE FALSE
    BY DEF FiniteSubsetsOf
<1>1. PICK A \in Bad : \A B \in Bad : <<B, A>> \notin StrictSubsetOrdering(Nat)
    <2>1. Bad \subseteq FiniteSubsetsOf(Nat)
        OBVIOUS
    <2> HIDE DEF Bad
    <2> QED
        BY <2>1, FS_StrictSubsetOrderingWellFounded, WFMin
<1>2. A \in SUBSET Nat /\ IsFiniteSet(A) /\ A # {} /\ ~(Greatest(A) /\ Least(A))
    BY DEF FiniteSubsetsOf
<1>3. PICK a \in A : TRUE
    BY <1>2
<1> DEFINE B == A \ {a}
<1>4. B \in FiniteSubsetsOf(Nat) /\ <<B, A>> \in StrictSubsetOrdering(Nat)
    <2>1. IsFiniteSet(B)
        BY <1>2, FS_Subset
    <2> QED
        BY <1>2, <1>3, <2>1 DEF FiniteSubsetsOf, StrictSubsetOrdering
<1>5. B = {} \/ (Greatest(B) /\ Least(B))
    BY <1>1, <1>4
<1>6. A = B \union {a} /\ a \in Nat /\ B \subseteq Nat
    BY <1>2, <1>3
<1>7. Greatest(A)
    <2>1. CASE B = {}
        BY <2>1, <1>6 DEF Greatest
    <2>2. CASE B # {}
        <3>1. PICK x \in B : \A y \in B : x >= y
            BY <2>2, <1>5 DEF Greatest
        <3>2. CASE a >= x
            BY <3>1, <3>2, <1>6 DEF Greatest
        <3>3. CASE ~(a >= x)
            BY <3>1, <3>3, <1>6 DEF Greatest
        <3> QED
            BY <3>2, <3>3
    <2> QED
        BY <2>1, <2>2
<1>8. Least(A)
    <2>1. CASE B = {}
        BY <2>1, <1>6 DEF Least
    <2>2. CASE B # {}
        <3>1. PICK x \in B : \A y \in B : x <= y
            BY <2>2, <1>5 DEF Least
        <3>2. CASE a <= x
            BY <3>1, <3>2, <1>6 DEF Least
        <3>3. CASE ~(a <= x)
            BY <3>1, <3>3, <1>6 DEF Least
        <3> QED
            BY <3>2, <3>3
    <2> QED
        BY <2>1, <2>2
<1> QED
    BY <1>2, <1>7, <1>8

(* Whatever a request resolves to in the router of a configuration.        *)
LEMMA ResolvesToEnabled ==
    ASSUME NEW cfg \in Configs, NEW m \in Models
    PROVE  LET k == Resolve(Router(cfg), m) IN
           /\ k # NoProvider => k \in EnabledKeys(cfg)
           /\ (\E j \in Keys : <<m, j>> \in ListedModels(cfg)) => k \in Declaring(cfg, m)
           /\ k = NoProvider <=> EnabledKeys(cfg) = {}
<1>1. DOMAIN cfg \subseteq Keys /\ \A k \in DOMAIN cfg : cfg[k] \in Entries
    BY DEF Configs
<1>2. /\ EnabledKeys(cfg) \in SUBSET Nat /\ IsFiniteSet(EnabledKeys(cfg))
      /\ Declaring(cfg, m) \in SUBSET Nat /\ IsFiniteSet(Declaring(cfg, m))
      /\ Declaring(cfg, m) \subseteq EnabledKeys(cfg)
      /\ EnabledKeys(cfg) \subseteq Keys
    <2>1. EnabledKeys(cfg) \subseteq Keys /\ Declaring(cfg, m) \subseteq EnabledKeys(cfg)
        BY <1>1 DEF EnabledKeys, Declaring
    <2> QED
        BY <2>1, FS_Subset, SelectionAssumption
<1>3. EnabledKeys(cfg) # {} => DefaultOf(cfg) \in EnabledKeys(cfg)
    BY <1>2, FiniteHasExtremes DEF DefaultOf, Min, Least
<1>4. Declaring(cfg, m) # {} => Max(Declaring(cfg, m)) \in Declaring(cfg, m)
    BY <1>2, FiniteHasExtremes DEF Max, Greatest
<1>5. m \in DOMAIN ByModel(cfg) <=> Declaring(cfg, m) # {}
    BY DEF ByModel, DeclaredModels, Declaring
<1>6. (\E j \in Keys : <<m, j>> \in ListedModels(cfg)) => Declaring(cfg, m) # {}
    BY DEF ListedModels
<1> DEFINE k == Resolve(Router(cfg), m)
<1>7. k = IF Declaring(cfg, m) # {} THEN Max(Declaring(cfg, m)) ELSE DefaultOf(cfg)
    BY <1>5 DEF Resolve, Router, ByModel
<1>8. EnabledKeys(cfg) = {} => DefaultOf(cfg) = NoProvider
    BY DEF DefaultOf
<1>9. NoProvider \notin Keys
    BY SelectionAssumption
<1> HIDE DEF k
<1>10. k # NoProvider => k \in EnabledKeys(cfg)
    BY <1>2, <1>3, <1>4, <1>7, <1>8
<1>11. (\E j \in Keys : <<m, j>> \in ListedModels(cfg)) => k \in Declaring(cfg, m)
    BY <1>4, <1>6, <1>7
<1>12. k = NoProvider <=> EnabledKeys(cfg) = {}
    BY <1>2, <1>3, <1>4, <1>7, <1>8, <1>9
<1> QED
    BY <1>10, <1>11, <1>12 DEF k

(* The two loops build the same router. *)
LEMMA BuildersAgree ==
    ASSUME NEW cfg, Loaded(cfg)
    PROVE  FromEnv(cfg) = Router(cfg)
<1>1. (~EnabledSeen(cfg) /\ DOMAIN cfg # {})
         <=> (DOMAIN cfg # {} /\ \A k \in DOMAIN cfg : ~cfg[k].enabled)
    BY DEF EnabledSeen
<1>2. (~EnabledSeen(cfg) /\ DOMAIN cfg # {})
         = (DOMAIN cfg # {} /\ \A k \in DOMAIN cfg : ~cfg[k].enabled)
    BY <1>1
<1> QED
    BY <1>2 DEF FromEnv, Router

(***************************************************************************)
(* The invariant                                                           *)
(***************************************************************************)

(* The router is what its configuration makes of it. *)
RouterBuilt == Loaded(source) => router = Router(source)

(* The copy of a command whose file nobody has touched is one edit away    *)
(* from the file's last complete content.                                  *)
OneEditAway ==
    \A e \in Editors : editor[e].alone /\ editor[e].pc \in {"open", "put"} /\ Loaded(whole) =>
        \E k \in Keys : editor[e].cfg \in Edited(whole, k)

EditorsTyped ==
    editor \in [Editors -> [pc : {"idle", "open", "put"}, cfg : Configs, alone : BOOLEAN]]

ConnectInv == ProviderTypeOK /\ EditorsTyped /\ RouterBuilt /\ OneEditAway

(* A file without providers. *)
LEMMA EmptyIsConfig == << >> \in Configs
<1>1. << >> \in [{} -> Entries]
    OBVIOUS
<1> QED
    BY <1>1 DEF Configs

(* An edit of a configuration is a configuration and changes one key.      *)
LEMMA EditIsLocal ==
    ASSUME NEW cfg \in Configs, NEW k \in Keys, NEW new \in Edited(cfg, k)
    PROVE  /\ new \in Configs
           /\ \A x \in Keys \ {k} :
                 /\ x \in DOMAIN new <=> x \in DOMAIN cfg
                 /\ x \in DOMAIN cfg => new[x] = cfg[x]
<1>1. cfg \in [DOMAIN cfg -> Entries] /\ DOMAIN cfg \subseteq Keys
    BY DEF Configs
<1>2. CASE \E given \in NewEntries : new = Overlay(cfg, k, given)
    <2>1. PICK given \in NewEntries : new = Overlay(cfg, k, given)
        BY <1>2
    <2>2. given \in Entries
        BY ConnectAssumption
    <2>3. new \in [DOMAIN cfg \union {k} -> Entries]
        BY <1>1, <2>1, <2>2 DEF Overlay
    <2>4. new \in Configs
        BY <1>1, <2>3 DEF Configs
    <2> QED
        BY <2>1, <2>4 DEF Overlay
<1>3. CASE k \in DOMAIN cfg /\ new = Restrict(cfg, DOMAIN cfg \ {k})
    <2>1. new \in [DOMAIN cfg \ {k} -> Entries]
        BY <1>1, <1>3 DEF Restrict
    <2>2. new \in Configs
        BY <1>1, <2>1 DEF Configs
    <2> QED
        BY <1>3, <2>2 DEF Restrict
<1>4. CASE k \in DOMAIN cfg /\ \E b \in BOOLEAN : new = [cfg EXCEPT ![k].enabled = b]
    <2>1. PICK b \in BOOLEAN : new = [cfg EXCEPT ![k].enabled = b]
        BY <1>4
    <2>2. [cfg[k] EXCEPT !.enabled = b] \in Entries
        BY <1>1, <1>4 DEF Entries
    <2>3. new = [cfg EXCEPT ![k] = [cfg[k] EXCEPT !.enabled = b]]
        BY <1>1, <2>1
    <2>4. new \in [DOMAIN cfg -> Entries]
        BY <1>1, <2>2, <2>3
    <2>5. new \in Configs
        BY <1>1, <2>4 DEF Configs
    <2> QED
        BY <1>1, <2>3, <2>5
<1> QED
    BY <1>2, <1>3, <1>4 DEF Edited

(* The invariant holds at the start. *)
LEMMA ConnectInit == ProviderInit => ConnectInv
<1> SUFFICES ASSUME ProviderInit PROVE ConnectInv
    OBVIOUS
<1>1. NoEditor \in [pc : {"idle", "open", "put"}, cfg : Configs, alone : BOOLEAN]
    BY EmptyIsConfig DEF NoEditor
<1>2. EditorsTyped
    BY <1>1 DEF ProviderInit, EditorsTyped
<1>3. ProviderTypeOK
    BY <1>2, ConnectAssumption DEF ProviderInit, ProviderTypeOK, EditorsTyped
<1>4. RouterBuilt
    BY BuildersAgree DEF ProviderInit, RouterBuilt
<1>5. OneEditAway
    BY DEF ProviderInit, OneEditAway, NoEditor
<1> QED
    BY <1>2, <1>3, <1>4, <1>5 DEF ConnectInv

(* A change of the file leaves every other command with a copy that is no  *)
(* longer current.                                                         *)
LEMMA StaleCopies ==
    ASSUME EditorsTyped, NEW e \in Editors, NEW content,
           NEW next \in [pc : {"idle", "open", "put"}, cfg : Configs, alone : BOOLEAN],
           Becomes(e, content, next)
    PROVE  /\ EditorsTyped'
           /\ editor'[e] = next
           /\ \A x \in Editors \ {e} : ~editor'[x].alone
<1>1. editor' = [x \in Editors |-> IF x = e THEN next ELSE [editor[x] EXCEPT !.alone = FALSE]]
    BY DEF Becomes
<1>2. \A x \in Editors : [editor[x] EXCEPT !.alone = FALSE]
                              \in [pc : {"idle", "open", "put"}, cfg : Configs, alone : BOOLEAN]
    BY DEF EditorsTyped
<1>3. EditorsTyped'
    BY <1>1, <1>2 DEF EditorsTyped
<1>4. \A x \in Editors \ {e} : ~editor'[x].alone
    BY <1>1 DEF EditorsTyped
<1> QED
    BY <1>1, <1>3, <1>4

(* The bound on edits, and what the router was built at. *)
LEMMA ChangesCounted ==
    ASSUME ProviderTypeOK, changes < MaxChanges, changes' = changes + 1, UNCHANGED builtAt
    PROVE  changes' \in 0..MaxChanges /\ builtAt' \in 0..changes'
    BY ConnectAssumption DEF ProviderTypeOK

(* An editor loads the file and edits its copy. *)
LEMMA LoadKeeps ==
    ASSUME ConnectInv, NEW e \in Editors, LoadAndEdit(e)
    PROVE  ConnectInv'
<1>1. PICK k \in Keys : \E cfg \in Edited(LoadRaw, k) :
          editor' = [editor EXCEPT ![e] = [pc |-> "open", cfg |-> cfg, alone |-> LoadRaw = whole]]
    BY DEF LoadAndEdit
<1>2. PICK cfg \in Edited(LoadRaw, k) :
          editor' = [editor EXCEPT ![e] = [pc |-> "open", cfg |-> cfg, alone |-> LoadRaw = whole]]
    BY <1>1
<1>3. UNCHANGED <<pfile, router, changes, builtAt, source, whole>>
    BY DEF LoadAndEdit
<1>4. LoadRaw \in Configs
    BY EmptyIsConfig DEF LoadAndEdit, LoadRaw, ConnectInv, ProviderTypeOK, Loaded
<1>5. cfg \in Configs
    BY <1>4, EditIsLocal
<1>6. EditorsTyped'
    <2>1. [pc |-> "open", cfg |-> cfg, alone |-> LoadRaw = whole]
              \in [pc : {"idle", "open", "put"}, cfg : Configs, alone : BOOLEAN]
        BY <1>5
    <2> QED
        BY <1>2, <2>1 DEF ConnectInv, EditorsTyped
<1>7. ProviderTypeOK'
    BY <1>3, <1>6 DEF ConnectInv, ProviderTypeOK, EditorsTyped
<1>8. RouterBuilt'
    BY <1>3 DEF ConnectInv, RouterBuilt
<1>9. OneEditAway'
    <2> SUFFICES ASSUME NEW x \in Editors, editor'[x].alone, editor'[x].pc \in {"open", "put"},
                        Loaded(whole)
                 PROVE  \E j \in Keys : editor'[x].cfg \in Edited(whole, j)
        BY <1>3 DEF OneEditAway
    <2>1. CASE x = e
        <3>1. editor'[e] = [pc |-> "open", cfg |-> cfg, alone |-> LoadRaw = whole]
            BY <1>2 DEF ConnectInv, EditorsTyped
        <3>2. editor'[e].alone = (LoadRaw = whole)
            BY <3>1
        <3>3. LoadRaw = whole
            BY <2>1, <3>2, Zenon
        <3> QED
            BY <2>1, <3>1, <3>3
    <2>2. CASE x # e
        <3>1. editor'[x] = editor[x]
            BY <2>2, <1>2 DEF ConnectInv, EditorsTyped
        <3> QED
            BY <3>1 DEF ConnectInv, OneEditAway
    <2> QED
        BY <2>1, <2>2
<1> QED
    BY <1>6, <1>7, <1>8, <1>9 DEF ConnectInv

(* save_raw empties the file before it writes it. *)
LEMMA TruncateKeeps ==
    ASSUME ConnectInv, NEW e \in Editors, Truncate(e)
    PROVE  ConnectInv'
<1> DEFINE next == [editor[e] EXCEPT !.pc = "put"]
<1>1. Becomes(e, Missing, next) /\ UNCHANGED <<router, builtAt, source, whole>>
      /\ editor[e].pc = "open"
    BY DEF Truncate
<1>2. next \in [pc : {"idle", "open", "put"}, cfg : Configs, alone : BOOLEAN]
    BY DEF ConnectInv, EditorsTyped
<1>3. /\ EditorsTyped' /\ editor'[e] = next
      /\ \A x \in Editors \ {e} : ~editor'[x].alone
    <2> HIDE DEF next
    <2> QED
        BY <1>1, <1>2, StaleCopies DEF ConnectInv
<1>4. changes < MaxChanges /\ changes' = changes + 1 /\ pfile' = Missing
    BY <1>1 DEF Becomes
<1>5. ProviderTypeOK'
    <2>1. changes' \in 0..MaxChanges /\ builtAt' \in 0..changes'
        BY <1>1, <1>4, ChangesCounted DEF ConnectInv
    <2> QED
        BY <1>1, <1>3, <1>4, <2>1 DEF ConnectInv, ProviderTypeOK, EditorsTyped, Loaded
<1>6. RouterBuilt'
    BY <1>1 DEF ConnectInv, RouterBuilt
<1>7. OneEditAway'
    <2>1. next.cfg = editor[e].cfg /\ next.alone = editor[e].alone
        BY DEF ConnectInv, EditorsTyped
    <2> HIDE DEF next
    <2> QED
        BY <1>1, <1>3, <2>1 DEF ConnectInv, OneEditAway
<1> QED
    BY <1>3, <1>5, <1>6, <1>7 DEF ConnectInv

(* The copy is written. *)
LEMMA WriteKeeps ==
    ASSUME ConnectInv, NEW e \in Editors, WriteConfig(e)
    PROVE  ConnectInv'
<1>1. Becomes(e, editor[e].cfg, NoEditor) /\ UNCHANGED <<router, builtAt, source>>
      /\ whole' = editor[e].cfg
    BY DEF WriteConfig
<1>2. NoEditor \in [pc : {"idle", "open", "put"}, cfg : Configs, alone : BOOLEAN]
    BY EmptyIsConfig DEF NoEditor
<1>3. /\ EditorsTyped' /\ editor'[e] = NoEditor
      /\ \A x \in Editors \ {e} : ~editor'[x].alone
    BY <1>1, <1>2, StaleCopies DEF ConnectInv
<1>4. changes < MaxChanges /\ changes' = changes + 1 /\ pfile' = editor[e].cfg
    BY <1>1 DEF Becomes
<1>5. editor[e].cfg \in Configs
    BY DEF ConnectInv, EditorsTyped
<1>6. ProviderTypeOK'
    <2>1. changes' \in 0..MaxChanges /\ builtAt' \in 0..changes'
        BY <1>1, <1>4, ChangesCounted DEF ConnectInv
    <2> QED
        BY <1>1, <1>3, <1>4, <1>5, <2>1 DEF ConnectInv, ProviderTypeOK, EditorsTyped
<1>7. RouterBuilt'
    BY <1>1 DEF ConnectInv, RouterBuilt
<1>8. OneEditAway'
    BY <1>3 DEF OneEditAway, NoEditor
<1> QED
    BY <1>3, <1>6, <1>7, <1>8 DEF ConnectInv

(* Somebody breaks the file by hand. *)
LEMMA BreakKeeps ==
    ASSUME ConnectInv, BreakByHand
    PROVE  ConnectInv'
<1>1. /\ changes < MaxChanges /\ changes' = changes + 1
      /\ pfile' = Unparsable /\ whole' = Unparsable
      /\ editor' = [x \in Editors |-> [editor[x] EXCEPT !.alone = FALSE]]
      /\ UNCHANGED <<router, builtAt, source>>
    BY DEF BreakByHand
<1>2. \A x \in Editors : [editor[x] EXCEPT !.alone = FALSE]
                              \in [pc : {"idle", "open", "put"}, cfg : Configs, alone : BOOLEAN]
    BY DEF ConnectInv, EditorsTyped
<1>3. EditorsTyped'
    BY <1>1, <1>2 DEF EditorsTyped
<1>4. ProviderTypeOK'
    <2>1. changes' \in 0..MaxChanges /\ builtAt' \in 0..changes'
        BY <1>1, ChangesCounted DEF ConnectInv
    <2> QED
        BY <1>1, <1>3, <2>1 DEF ConnectInv, ProviderTypeOK, EditorsTyped, Loaded
<1>5. RouterBuilt'
    BY <1>1 DEF ConnectInv, RouterBuilt
<1>6. OneEditAway'
    BY <1>1 DEF OneEditAway, Loaded
<1> QED
    BY <1>3, <1>4, <1>5, <1>6 DEF ConnectInv

(* The proxy rebuilds its router, or starts again. *)
LEMMA ProxyKeeps ==
    ASSUME ConnectInv, Request \/ Restart
    PROVE  ConnectInv'
<1>1. UNCHANGED <<pfile, editor, changes, whole>> /\ builtAt' = changes
    BY DEF Request, Restart
<1>2. source' = source \/ source' = pfile
    BY DEF Request, Restart
<1>3. EditorsTyped' /\ OneEditAway'
    BY <1>1 DEF ConnectInv, EditorsTyped, OneEditAway
<1>4. ProviderTypeOK'
    BY <1>1, <1>2 DEF ConnectInv, ProviderTypeOK
<1>5. RouterBuilt'
    <2>1. ASSUME Request PROVE RouterBuilt'
        BY <2>1 DEF Request, ConnectInv, RouterBuilt
    <2>2. ASSUME Restart PROVE RouterBuilt'
        BY <2>2, BuildersAgree DEF Restart, RouterBuilt
    <2> QED
        BY <2>1, <2>2
<1> QED
    BY <1>3, <1>4, <1>5 DEF ConnectInv

(* An editor dies, perhaps with the file truncated. *)
LEMMA DeathKeeps ==
    ASSUME ConnectInv, NEW e \in Editors, EditorDies(e)
    PROVE  ConnectInv'
<1>1. editor' = [editor EXCEPT ![e] = NoEditor]
      /\ UNCHANGED <<pfile, router, changes, builtAt, source, whole>>
    BY DEF EditorDies
<1>2. NoEditor \in [pc : {"idle", "open", "put"}, cfg : Configs, alone : BOOLEAN]
    BY EmptyIsConfig DEF NoEditor
<1>3. EditorsTyped'
    BY <1>1, <1>2 DEF ConnectInv, EditorsTyped
<1>4. ProviderTypeOK'
    BY <1>1, <1>3 DEF ConnectInv, ProviderTypeOK, EditorsTyped
<1>5. RouterBuilt'
    BY <1>1 DEF ConnectInv, RouterBuilt
<1>6. OneEditAway'
    BY <1>1 DEF ConnectInv, EditorsTyped, OneEditAway, NoEditor
<1> QED
    BY <1>3, <1>4, <1>5, <1>6 DEF ConnectInv

(* Every action keeps the invariant. *)
LEMMA ConnectInductive == ConnectInv /\ [ProviderNext]_providerVars => ConnectInv'
<1> SUFFICES ASSUME ConnectInv, [ProviderNext]_providerVars PROVE ConnectInv'
    OBVIOUS
<1>1. ASSUME UNCHANGED providerVars PROVE ConnectInv'
    BY <1>1 DEF providerVars, ConnectInv, ProviderTypeOK, EditorsTyped, RouterBuilt, OneEditAway
<1> QED
    BY <1>1, LoadKeeps, TruncateKeeps, WriteKeeps, BreakKeeps, ProxyKeeps, DeathKeeps
    DEF ProviderNext

(* The invariant of the provider file. *)
LEMMA ConnectInvariant == ProviderSpec => []ConnectInv
    BY ConnectInit, ConnectInductive, PTL DEF ProviderSpec

(***************************************************************************)
(* The theorems                                                            *)
(***************************************************************************)

(* "Disabled entries serve no traffic": a router built from any            *)
(* configuration resolves every model to an enabled entry, to one that     *)
(* declares it if it is listed, and to nobody only if all are disabled.    *)
THEOREM DisabledServeNothing == ProviderSpec => []OnlyEnabledServe
<1>1. ConnectInv => OnlyEnabledServe
    <2> SUFFICES ASSUME ConnectInv, Loaded(source), NEW m \in Models
                 PROVE  LET k == Resolve(router, m) IN
                        /\ k # NoProvider => source[k].enabled
                        /\ (\E j \in Keys : <<m, j>> \in router.models) => m \in source[k].models
                        /\ k = NoProvider <=>
                              router.models = {} /\ \A j \in DOMAIN source : ~source[j].enabled
        BY DEF OnlyEnabledServe
    <2>1. source \in Configs /\ router = Router(source)
        BY DEF ConnectInv, ProviderTypeOK, RouterBuilt
    <2> DEFINE k == Resolve(Router(source), m)
    <2>2. /\ k # NoProvider => k \in EnabledKeys(source)
          /\ (\E j \in Keys : <<m, j>> \in ListedModels(source)) => k \in Declaring(source, m)
          /\ k = NoProvider <=> EnabledKeys(source) = {}
        BY <2>1, ResolvesToEnabled
    <2> HIDE DEF k
    <2>3. Router(source).models = ListedModels(source)
        BY DEF Router
    <2>4. EnabledKeys(source) = {} => ListedModels(source) = {}
        BY DEF ListedModels, Declaring
    <2>5. /\ k # NoProvider => source[k].enabled
          /\ (\E j \in Keys : <<m, j>> \in Router(source).models) => m \in source[k].models
          /\ k = NoProvider <=>
                Router(source).models = {} /\ \A j \in DOMAIN source : ~source[j].enabled
        BY <2>2, <2>3, <2>4 DEF EnabledKeys, Declaring
    <2> QED
        BY <2>1, <2>5 DEF k
<1> QED
    BY <1>1, ConnectInvariant, PTL

(* A proxy restarted on the configuration it has loaded last comes up with *)
(* the router it has: the two copies of the loop agree on every file.      *)
THEOREM RestartKeepsRouter == ProviderSpec => []RestartAgrees
<1>1. ConnectInv => RestartAgrees
    BY BuildersAgree DEF ConnectInv, RouterBuilt, RestartAgrees
<1> QED
    BY <1>1, ConnectInvariant, PTL

(* Start-up, reload and restart leave the proxy with a router that serves   *)
(* every model by an enabled provider, the same one whichever built it.     *)
THEOREM RoutesAreSound == ProviderSpec => []RoutesSound
<1>1. OnlyEnabledServe /\ RestartAgrees => RoutesSound
    BY DEF RoutesSound
<1> QED
    BY <1>1, DisabledServeNothing, RestartKeepsRouter, PTL

(* A `connect` command whose copy of providers.json was complete and has   *)
(* stayed current changes the entry of one key.                            *)
THEOREM ConnectChangesOneEntry == ProviderSpec => OthersKept
<1> DEFINE Local ==
        \A e \in Editors :
            WriteConfig(e) /\ editor[e].alone /\ Loaded(whole) =>
               \E k \in Keys : \A x \in Keys \ {k} :
                   /\ x \in DOMAIN pfile' <=> x \in DOMAIN whole
                   /\ x \in DOMAIN whole => pfile'[x] = whole[x]
<1>1. ConnectInv => [Local]_providerVars
    <2> SUFFICES ASSUME ConnectInv, NEW e \in Editors,
                        WriteConfig(e), editor[e].alone, Loaded(whole)
                 PROVE  \E k \in Keys : \A x \in Keys \ {k} :
                            /\ x \in DOMAIN pfile' <=> x \in DOMAIN whole
                            /\ x \in DOMAIN whole => pfile'[x] = whole[x]
        OBVIOUS
    <2>1. PICK k \in Keys : editor[e].cfg \in Edited(whole, k)
        BY DEF WriteConfig, ConnectInv, OneEditAway
    <2>2. pfile' = editor[e].cfg
        BY DEF WriteConfig, Becomes
    <2>3. whole \in Configs
        BY DEF ConnectInv, ProviderTypeOK
    <2>4. \A old \in Configs : \A new \in Edited(old, k) : \A x \in Keys \ {k} :
             /\ x \in DOMAIN new <=> x \in DOMAIN old
             /\ x \in DOMAIN old => new[x] = old[x]
        BY EditIsLocal
    <2> QED
        BY <2>1, <2>2, <2>3, <2>4, Zenon
<1> QED
    BY <1>1, ConnectInvariant, PTL DEF OthersKept

(***************************************************************************)
(* The taste files: what a request is given                                *)
(***************************************************************************)

TasteSpec == TasteInit /\ [][TasteNext]_tasteVars

TasteRecord == [prefs : SUBSET Preferences, version : 0..MaxTasteChanges,
                mtime : 0..second, readAt : 0..second]
Times == [TasteNames -> Nat]
ReaderRecord == [pc : {"idle", "stat global", "stat local", "check", "read global", "read local",
                       "store", "done"}, stat : Times, since : Times, got : Times]
ServerRecord == [pc : {"loop", "asked", "write", "fill"}, sent : Seq(Handling),
                 answers : Seq(Nat), snapshot : SUBSET Preferences,
                 calls : SUBSET SUBSET Preferences]

(* The types, records with all their fields. *)
FilesTyped == second \in 1..MaxSeconds /\ blind \in BOOLEAN /\ taste \in [TasteNames -> TasteRecord]
ServersTyped == server \in [Servers -> ServerRecord]
ReaderTyped == reader \in ReaderRecord /\ held \in [stat : Times, got : Times]

(* A file has a time once it was written, and never one it was read at     *)
(* that lies after it.                                                     *)
TimesOfFiles ==
    \A f \in TasteNames :
        /\ taste[f].mtime = 0 => taste[f].version = 0
        /\ taste[f].readAt <= taste[f].mtime

(* What was read after a time was taken: if the file still has that time,  *)
(* it has not changed, and would not do so unseen.                         *)
SeenAt(stat, got, f) ==
    /\ stat[f] <= taste[f].mtime
    /\ stat[f] = taste[f].mtime =>
          got[f] >= taste[f].version /\ taste[f].readAt = taste[f].mtime

HasStat(f) == reader.pc \in IF f = "global" THEN {"stat local", "check"} ELSE {"check"}
HasRead(f) == reader.pc \in IF f = "global" THEN {"read local", "store"} ELSE {"store"}

FreshInv ==
    ~blind =>
        \A f \in TasteNames :
            /\ SeenAt(held.stat, held.got, f)
            /\ reader.pc # "idle" => reader.since[f] <= taste[f].version
            /\ reader.pc \in {"read global", "read local"} \/ HasStat(f)
                  => reader.stat[f] <= taste[f].mtime
            /\ HasStat(f) /\ reader.stat[f] = held.stat[f] => held.got[f] >= reader.since[f]
            /\ HasRead(f) => SeenAt(reader.stat, reader.got, f)
            /\ HasRead(f) \/ reader.pc = "done" => reader.got[f] >= reader.since[f]

TasteInv == FilesTyped /\ ServersTyped /\ ReaderTyped /\ TimesOfFiles /\ FreshInv

(* Nothing is held and nothing read at the start. *)
LEMMA TasteInvInit == TasteInit => TasteInv
<1> SUFFICES ASSUME TasteInit PROVE TasteInv
    OBVIOUS
<1> USE DEF TasteInit
<1>1. FilesTyped
    <2>1. NoTaste \in TasteRecord
        BY TasteAssumption DEF NoTaste, TasteRecord
    <2>2. taste \in [TasteNames -> TasteRecord]
        BY <2>1
    <2>3. second \in 1..MaxSeconds /\ blind \in BOOLEAN
        <3>1. 1 \in 1..MaxSeconds
            BY TasteAssumption
        <3> QED
            BY <3>1
    <2> QED
        BY <2>2, <2>3 DEF FilesTyped
<1>2. ServersTyped
    <2>1. NoServer \in ServerRecord
        BY DEF NoServer, ServerRecord
    <2> QED
        BY <2>1 DEF ServersTyped
<1>3. ReaderTyped
    BY DEF ReaderTyped, NoReader, ReaderRecord, NothingHeld, Times
<1>4. TimesOfFiles
    BY DEF TimesOfFiles, NoTaste
<1>5. FreshInv
    BY DEF FreshInv, NoTaste, SeenAt, HasStat, HasRead, NoReader, NothingHeld
<1> QED
    BY <1>1, <1>2, <1>3, <1>4, <1>5 DEF TasteInv

(* A file is given a new content. *)
LEMMA PutKeeps ==
    ASSUME TasteInv, NEW f \in TasteNames, NEW prefs \in SUBSET Preferences, PutTaste(f, prefs),
           UNCHANGED <<second, reader, held>>
    PROVE  FilesTyped' /\ TimesOfFiles' /\ ReaderTyped' /\ FreshInv'
<1> DEFINE v == [taste[f] EXCEPT !.prefs = prefs, !.version = taste[f].version + 1, !.mtime = second]
<1>1. /\ taste \in [TasteNames -> TasteRecord] /\ second \in 1..MaxSeconds /\ second \in Nat
      /\ second # 0 /\ MaxTasteChanges \in Nat /\ blind \in BOOLEAN
    BY TasteAssumption DEF TasteInv, FilesTyped
<1>2. /\ taste[f].version + 1 \in 0..MaxTasteChanges
      /\ \A g \in TasteNames : /\ taste[g].version \in Nat /\ taste[g].mtime \in 0..second
                              /\ taste[g].readAt \in 0..second
    <2>1. \A g \in TasteNames : taste[g] \in TasteRecord
        BY <1>1
    <2>2. \A g \in TasteNames : /\ taste[g].version \in 0..MaxTasteChanges
                              /\ taste[g].mtime \in 0..second /\ taste[g].readAt \in 0..second
        BY <2>1 DEF TasteRecord
    <2>3. taste["global"].version + taste["local"].version < MaxTasteChanges
        BY DEF PutTaste, TasteChanges
    <2>4. "global" \in TasteNames /\ "local" \in TasteNames /\ (f = "global" \/ f = "local")
        BY DEF TasteNames
    <2> QED
        BY <1>1, <2>2, <2>3, <2>4
<1>3. /\ v \in TasteRecord /\ v.version = taste[f].version + 1 /\ v.mtime = second
      /\ v.readAt = taste[f].readAt
    <2>1. taste[f] \in TasteRecord
        BY <1>1
    <2>2. second \in 0..second
        BY <1>1
    <2> QED
        BY <1>2, <2>1, <2>2 DEF TasteRecord
<1>4. taste' = [taste EXCEPT ![f] = v] /\ (~blind' => ~blind /\ taste[f].readAt # second)
    <2>1. taste' = [taste EXCEPT ![f] = v]
        BY DEF PutTaste
    <2>2. blind' = (blind \/ taste[f].readAt = second)
        BY Zenon DEF PutTaste
    <2> QED
        BY <2>1, <2>2
<1> HIDE DEF v
<1>5. taste'[f] = v /\ \A g \in TasteNames \ {f} : taste'[g] = taste[g]
    BY <1>1, <1>4
<1>6. FilesTyped'
    <2>1. blind' \in BOOLEAN
        BY Zenon DEF PutTaste
    <2>2. second' = second /\ taste' \in [TasteNames -> TasteRecord]
        BY <1>1, <1>3, <1>4
    <2> QED
        BY <1>1, <2>1, <2>2 DEF FilesTyped, TasteRecord
<1>7. TimesOfFiles'
    BY <1>1, <1>2, <1>3, <1>5 DEF TasteInv, TimesOfFiles
<1>8. ASSUME ~blind', NEW g \in TasteNames,
             NEW stat \in Times, NEW got \in Times, SeenAt(stat, got, g)
      PROVE  SeenAt(stat, got, g)'
    <2>1. stat[g] \in Nat /\ got[g] \in Nat
        BY DEF Times
    <2>2. CASE g = f
        <3>1. stat[f] # second
            <4>1. taste[f].readAt # second
                BY <1>4, <1>8
            <4> QED
                BY <1>2, <1>8, <2>1, <2>2, <4>1 DEF SeenAt
        <3>2. stat[f] <= second
            BY <1>1, <1>2, <1>8, <2>1, <2>2 DEF SeenAt
        <3> QED
            BY <1>3, <1>5, <2>2, <3>1, <3>2 DEF SeenAt
    <2>3. CASE g # f
        BY <1>5, <1>8, <2>3 DEF SeenAt
    <2> QED
        BY <2>2, <2>3
<1>9. /\ reader.stat \in Times /\ reader.got \in Times /\ reader.since \in Times
      /\ held.stat \in Times /\ held.got \in Times
    BY DEF TasteInv, ReaderTyped, ReaderRecord
<1>10. \A g \in TasteNames :
          /\ taste[g].version <= taste'[g].version /\ taste[g].mtime <= taste'[g].mtime
          /\ taste'[g].version \in Nat /\ taste'[g].mtime \in Nat
          /\ reader.stat[g] \in Nat /\ reader.since[g] \in Nat
    BY <1>1, <1>2, <1>3, <1>5, <1>9 DEF Times
<1>11. ASSUME ~blind', NEW g \in TasteNames
       PROVE  /\ SeenAt(held.stat, held.got, g)'
              /\ HasRead(g) => SeenAt(reader.stat, reader.got, g)'
    <2>1. SeenAt(held.stat, held.got, g)
        BY <1>4, <1>11 DEF TasteInv, FreshInv
    <2>2. HasRead(g) => SeenAt(reader.stat, reader.got, g)
        BY <1>4, <1>11 DEF TasteInv, FreshInv
    <2>3. SeenAt(held.stat, held.got, g)'
        BY <1>8, <1>9, <1>11, <2>1
    <2>4. HasRead(g) => SeenAt(reader.stat, reader.got, g)'
        BY <1>8, <1>9, <1>11, <2>2
    <2> QED
        BY <2>3, <2>4
<1>12. FreshInv'
    <2> SUFFICES ASSUME ~blind', NEW g \in TasteNames
                 PROVE  /\ SeenAt(held.stat, held.got, g)'
                        /\ reader.pc # "idle" => reader.since[g] <= taste'[g].version
                        /\ reader.pc \in {"read global", "read local"} \/ HasStat(g)
                              => reader.stat[g] <= taste'[g].mtime
                        /\ HasStat(g) /\ reader.stat[g] = held.stat[g] => held.got[g] >= reader.since[g]
                        /\ HasRead(g) => SeenAt(reader.stat, reader.got, g)'
                        /\ HasRead(g) \/ reader.pc = "done" => reader.got[g] >= reader.since[g]
        BY DEF FreshInv, HasRead, HasStat
    <2>1. /\ reader.pc # "idle" => reader.since[g] <= taste[g].version
          /\ reader.pc \in {"read global", "read local"} \/ HasStat(g)
                => reader.stat[g] <= taste[g].mtime
          /\ HasStat(g) /\ reader.stat[g] = held.stat[g] => held.got[g] >= reader.since[g]
          /\ HasRead(g) \/ reader.pc = "done" => reader.got[g] >= reader.since[g]
        BY <1>4 DEF TasteInv, FreshInv
    <2>2. reader.pc # "idle" => reader.since[g] <= taste'[g].version
        <3>1. reader.since[g] <= taste[g].version => reader.since[g] <= taste'[g].version
            BY <1>2, <1>10
        <3> QED
            BY <2>1, <3>1
    <2>3. reader.stat[g] <= taste[g].mtime => reader.stat[g] <= taste'[g].mtime
        BY <1>2, <1>10
    <2> QED
        BY <1>11, <2>1, <2>2, <2>3
<1>13. ReaderTyped'
    BY DEF TasteInv, ReaderTyped
<1> QED
    BY <1>6, <1>7, <1>12, <1>13

(* What a step leaves alone: the files, or all that a request reads.       *)
LEMMA FreshUntouched ==
    ASSUME TasteInv, UNCHANGED <<second, taste, blind, reader, held>>
    PROVE  FilesTyped' /\ ReaderTyped' /\ TimesOfFiles' /\ FreshInv'
BY DEF TasteInv, FilesTyped, ReaderTyped, TimesOfFiles, FreshInv, TasteRecord, SeenAt, HasStat, HasRead

(* A record of a server, as a step leaves it. *)
LEMMA ServerStays ==
    ASSUME ServersTyped, NEW s \in Servers, NEW v \in ServerRecord, SSet(s, v)
    PROVE  ServersTyped'
BY DEF ServersTyped, SSet

(* The values a reader's record takes. *)
LEMMA ReaderFields ==
    ASSUME TasteInv
    PROVE  /\ reader.stat \in Times /\ reader.got \in Times /\ reader.since \in Times
           /\ held.stat \in Times /\ held.got \in Times
           /\ second \in Nat /\ blind \in BOOLEAN
           /\ taste \in [TasteNames -> TasteRecord] /\ reader \in ReaderRecord
           /\ \A g \in TasteNames :
                 /\ taste[g].version \in Nat /\ taste[g].mtime \in Nat /\ taste[g].readAt \in Nat
                 /\ reader.stat[g] \in Nat /\ reader.since[g] \in Nat /\ reader.got[g] \in Nat
                 /\ held.stat[g] \in Nat /\ held.got[g] \in Nat
<1>1. /\ reader.stat \in Times /\ reader.got \in Times /\ reader.since \in Times
      /\ held.stat \in Times /\ held.got \in Times
    BY DEF TasteInv, ReaderTyped, ReaderRecord
<1>2. second \in Nat /\ blind \in BOOLEAN /\ taste \in [TasteNames -> TasteRecord]
    BY TasteAssumption DEF TasteInv, FilesTyped
<1>3. \A g \in TasteNames : taste[g] \in TasteRecord
    BY <1>2
<1>4. \A g \in TasteNames :
         taste[g].version \in Nat /\ taste[g].mtime \in Nat /\ taste[g].readAt \in Nat
    BY <1>2, <1>3, TasteAssumption DEF TasteRecord
<1> QED
    BY <1>1, <1>2, <1>4 DEF Times, TasteInv, ReaderTyped

(* A request begins to read. *)
LEMMA StartReadKeeps == ASSUME TasteInv, StartRead PROVE ReaderTyped' /\ FreshInv'
<1> DEFINE v == [NoReader EXCEPT !.pc = "stat global", !.since = [f \in TasteNames |-> taste[f].version]]
<1>1. v \in ReaderRecord /\ v.pc = "stat global" /\ \A f \in TasteNames : v.since[f] = taste[f].version
    BY ReaderFields DEF NoReader, ReaderRecord, Times
<1>2. reader' = v /\ UNCHANGED <<second, server, taste, blind, held>>
    BY DEF StartRead, RSet, NoRead
<1> HIDE DEF v
<1>3. ReaderTyped'
    BY <1>1, <1>2 DEF TasteInv, ReaderTyped
<1>4. ASSUME ~blind, NEW f \in TasteNames
      PROVE  /\ SeenAt(held.stat, held.got, f)' /\ ~HasStat(f)' /\ ~HasRead(f)'
             /\ reader'.since[f] <= taste'[f].version
    <2>1. SeenAt(held.stat, held.got, f)'
        BY <1>2, <1>4 DEF TasteInv, FreshInv, SeenAt
    <2>2. ~HasStat(f)' /\ ~HasRead(f)'
        BY <1>1, <1>2 DEF HasStat, HasRead
    <2>3. reader'.since[f] <= taste'[f].version
        <3>1. taste[f].version \in Nat
            BY ReaderFields
        <3>2. reader'.since[f] = taste[f].version /\ taste' = taste
            BY <1>1, <1>2
        <3> QED
            BY <3>1, <3>2
    <2> QED
        BY <2>1, <2>2, <2>3
<1> QED
    BY <1>1, <1>2, <1>3, <1>4 DEF FreshInv

(* It takes the times of the two files, one after the other. *)
LEMMA StatKeeps == ASSUME TasteInv, StatTaste PROVE ReaderTyped' /\ FreshInv'
<1>1. PICK f \in TasteNames :
         /\ reader.pc = IF f = "global" THEN "stat global" ELSE "stat local"
         /\ RSet([reader EXCEPT !.pc = IF f = "global" THEN "stat local" ELSE "check",
                                !.stat[f] = taste[f].mtime])
         /\ NoRead /\ UNCHANGED held
    BY DEF StatTaste
<1> DEFINE next == IF f = "global" THEN "stat local" ELSE "check"
           stat == [reader.stat EXCEPT ![f] = taste[f].mtime]
           v    == [reader EXCEPT !.pc = next, !.stat = stat]
<1>2. stat \in Times /\ stat[f] = taste[f].mtime
      /\ \A g \in TasteNames : g # f => stat[g] = reader.stat[g]
    BY ReaderFields DEF Times
<1>3. reader' = v /\ UNCHANGED <<second, server, taste, blind, held>>
    BY <1>1 DEF RSet, NoRead
<1> HIDE DEF stat
<1>4. /\ v \in ReaderRecord /\ v.pc = next /\ v.stat = stat /\ v.since = reader.since
      /\ v.got = reader.got
    BY <1>2, ReaderFields DEF ReaderRecord
<1> HIDE DEF v
<1>5. ReaderTyped'
    BY <1>3, <1>4 DEF TasteInv, ReaderTyped
<1>6. ASSUME ~blind, NEW g \in TasteNames
      PROVE  /\ SeenAt(held.stat, held.got, g)' /\ ~HasRead(g)'
             /\ reader'.since[g] <= taste'[g].version
             /\ HasStat(g)' => reader'.stat[g] <= taste'[g].mtime
             /\ HasStat(g)' /\ reader'.stat[g] = held'.stat[g] => held'.got[g] >= reader'.since[g]
    <2>1. /\ SeenAt(held.stat, held.got, g) /\ reader.since[g] <= taste[g].version
          /\ HasStat(g) => reader.stat[g] <= taste[g].mtime
          /\ HasStat(g) /\ reader.stat[g] = held.stat[g] => held.got[g] >= reader.since[g]
        BY <1>1, <1>6 DEF TasteInv, FreshInv
    <2>2. SeenAt(held.stat, held.got, g)'
        BY <1>3, <2>1 DEF SeenAt
    <2>3. ~HasRead(g)'
        BY <1>3, <1>4 DEF HasRead
    <2>4. reader'.since[g] <= taste'[g].version
        BY <1>3, <1>4, <2>1
    <2>5. CASE g = f
        <3>1. reader'.stat[f] = taste[f].mtime /\ taste[f].mtime \in Nat /\ taste' = taste
            BY <1>2, <1>3, <1>4, ReaderFields
        <3>2. held.stat[f] = taste[f].mtime => held.got[f] >= taste[f].version
            BY <2>1, <2>5 DEF SeenAt
        <3>3. /\ held.got[f] \in Nat /\ reader.since[f] \in Nat /\ taste[f].version \in Nat
              /\ reader.since[f] <= taste[f].version
            BY <2>1, <2>5, ReaderFields
        <3>4. reader'.stat[f] = held'.stat[f] => held'.got[f] >= reader'.since[f]
            <4>1. held' = held /\ reader'.since[f] = reader.since[f]
                BY <1>3, <1>4
            <4> QED
                BY <3>1, <3>2, <3>3, <4>1
        <3> QED
            BY <2>2, <2>3, <2>4, <2>5, <3>1, <3>4
    <2>6. CASE g # f
        <3>1. HasStat(g)' => HasStat(g)
            BY <1>1, <1>3, <1>4, <2>6 DEF HasStat, TasteNames
        <3> QED
            BY <1>2, <1>3, <1>4, <2>1, <2>2, <2>3, <2>4, <2>6, <3>1
    <2> QED
        BY <2>5, <2>6
<1>7. reader'.pc \notin {"read global", "read local", "done"}
    BY <1>3, <1>4
<1> QED
    BY <1>3, <1>5, <1>6, <1>7 DEF FreshInv

(* It compares them with those of what is held. *)
LEMMA CheckKeeps == ASSUME TasteInv, CheckHeld PROVE ReaderTyped' /\ FreshInv'
<1> DEFINE next == IF Hit THEN "done" ELSE "read global"
           got  == IF Hit THEN held.got ELSE reader.got
           v    == [reader EXCEPT !.pc = next, !.got = got]
<1>1. reader.pc = "check" /\ reader' = v /\ UNCHANGED <<second, server, taste, blind, held>>
    BY DEF CheckHeld, RSet, NoRead
<1>2. got \in Times
    BY ReaderFields
<1> HIDE DEF got
<1>3. /\ v \in ReaderRecord /\ v.pc = next /\ v.stat = reader.stat /\ v.since = reader.since
      /\ v.got = got
    BY <1>2, ReaderFields DEF ReaderRecord
<1> HIDE DEF v
<1>4. ReaderTyped'
    BY <1>1, <1>3 DEF TasteInv, ReaderTyped
<1>5. ASSUME ~blind, NEW g \in TasteNames
      PROVE  /\ SeenAt(held.stat, held.got, g)' /\ ~HasRead(g)' /\ ~HasStat(g)'
             /\ reader'.since[g] <= taste'[g].version
             /\ reader'.stat[g] <= taste'[g].mtime
             /\ reader'.pc = "done" => reader'.got[g] >= reader'.since[g]
    <2>0. HasStat(g)
        BY <1>1 DEF HasStat
    <2>1. /\ SeenAt(held.stat, held.got, g) /\ reader.since[g] <= taste[g].version
          /\ reader.stat[g] <= taste[g].mtime
          /\ reader.stat[g] = held.stat[g] => held.got[g] >= reader.since[g]
        BY <1>1, <1>5, <2>0 DEF TasteInv, FreshInv
    <2>2. SeenAt(held.stat, held.got, g)'
        BY <1>1, <2>1 DEF SeenAt
    <2>3. ~HasRead(g)' /\ ~HasStat(g)'
        BY <1>1, <1>3 DEF HasRead, HasStat
    <2>4. next = "done" => held.stat = reader.stat /\ got = held.got
        BY DEF Hit, got
    <2>5. reader'.pc = "done" => reader'.got[g] >= reader'.since[g]
        BY <1>1, <1>3, <2>1, <2>4
    <2> QED
        BY <1>1, <1>3, <2>1, <2>2, <2>3, <2>5
<1> QED
    BY <1>1, <1>4, <1>5 DEF FreshInv

(* It reads a file whose time differs. *)
LEMMA ReadKeeps ==
    ASSUME TasteInv, ReadTaste
    PROVE  FilesTyped' /\ TimesOfFiles' /\ ReaderTyped' /\ FreshInv'
<1>1. PICK f \in TasteNames :
         /\ reader.pc = IF f = "global" THEN "read global" ELSE "read local"
         /\ RSet([reader EXCEPT !.pc = IF f = "global" THEN "read local" ELSE "store",
                                !.got[f] = taste[f].version])
         /\ taste' = [taste EXCEPT ![f].readAt = taste[f].mtime]
         /\ UNCHANGED <<held, blind>>
    BY DEF ReadTaste
<1> DEFINE next == IF f = "global" THEN "read local" ELSE "store"
           got  == [reader.got EXCEPT ![f] = taste[f].version]
           v    == [reader EXCEPT !.pc = next, !.got = got]
           file == [taste[f] EXCEPT !.readAt = taste[f].mtime]
<1>2. got \in Times /\ got[f] = taste[f].version
      /\ \A g \in TasteNames : g # f => got[g] = reader.got[g]
    BY ReaderFields DEF Times
<1>3. reader' = v /\ taste' = [taste EXCEPT ![f] = file] /\ UNCHANGED <<second, server, blind, held>>
    BY <1>1 DEF RSet
<1> HIDE DEF got
<1>4. /\ v \in ReaderRecord /\ v.pc = next /\ v.stat = reader.stat /\ v.since = reader.since
      /\ v.got = got
    BY <1>2, ReaderFields DEF ReaderRecord
<1>5. /\ file \in TasteRecord /\ file.version = taste[f].version /\ file.mtime = taste[f].mtime
      /\ file.readAt = taste[f].mtime
    <2>1. taste[f] \in TasteRecord
        BY ReaderFields
    <2> QED
        BY <2>1 DEF TasteRecord
<1> HIDE DEF v, file
<1>6. /\ taste' \in [TasteNames -> TasteRecord]
      /\ \A g \in TasteNames : /\ taste'[g].version = taste[g].version /\ taste'[g].mtime = taste[g].mtime
                              /\ taste'[g].readAt = IF g = f THEN taste[f].mtime ELSE taste[g].readAt
    BY <1>3, <1>5, ReaderFields
<1>7. FilesTyped'
    BY <1>3, <1>6 DEF TasteInv, FilesTyped, TasteRecord
<1>8. TimesOfFiles'
    <2> SUFFICES ASSUME NEW g \in TasteNames
                 PROVE  (taste'[g].mtime = 0 => taste'[g].version = 0)
                        /\ taste'[g].readAt <= taste'[g].mtime
        BY DEF TimesOfFiles
    <2>1. (taste[g].mtime = 0 => taste[g].version = 0) /\ taste[g].readAt <= taste[g].mtime
        BY DEF TasteInv, TimesOfFiles
    <2>2. taste[g].mtime \in Nat
        BY ReaderFields
    <2> QED
        BY <1>6, <2>1, <2>2
<1>9. ReaderTyped'
    BY <1>3, <1>4 DEF TasteInv, ReaderTyped
<1>10. ASSUME NEW g \in TasteNames, NEW stat, NEW took, SeenAt(stat, took, g)
       PROVE  SeenAt(stat, took, g)'
    BY <1>6, <1>10 DEF SeenAt
<1>11. ASSUME ~blind, NEW g \in TasteNames
       PROVE  /\ SeenAt(held.stat, held.got, g)'
              /\ reader'.since[g] <= taste'[g].version /\ reader'.stat[g] <= taste'[g].mtime
              /\ ~HasStat(g)'
              /\ HasRead(g)' => SeenAt(reader.stat, reader.got, g)' /\ reader'.got[g] >= reader'.since[g]
    <2>1. /\ SeenAt(held.stat, held.got, g) /\ reader.since[g] <= taste[g].version
          /\ reader.stat[g] <= taste[g].mtime
          /\ HasRead(g) => SeenAt(reader.stat, reader.got, g) /\ reader.got[g] >= reader.since[g]
        <3>1. /\ SeenAt(held.stat, held.got, g) /\ reader.since[g] <= taste[g].version
              /\ HasRead(g) => SeenAt(reader.stat, reader.got, g) /\ reader.got[g] >= reader.since[g]
            BY <1>1, <1>11 DEF TasteInv, FreshInv
        <3>2. reader.stat[g] <= taste[g].mtime
            <4>1. reader.pc \in {"read global", "read local"}
                BY <1>1
            <4> QED
                BY <1>11, <4>1 DEF TasteInv, FreshInv
        <3> QED
            BY <3>1, <3>2
    <2>2. SeenAt(held.stat, held.got, g)'
        <3>1. SeenAt(held.stat, held.got, g)
            BY <2>1
        <3> QED
            BY <1>3, <1>10, <3>1 DEF SeenAt
    <2>3. ~HasStat(g)'
        BY <1>3, <1>4 DEF HasStat
    <2>4. reader'.since[g] <= taste'[g].version /\ reader'.stat[g] <= taste'[g].mtime
        BY <1>3, <1>4, <1>6, <2>1
    <2>5. CASE g = f
        <3>1. taste[f].version \in Nat /\ taste[f].mtime \in Nat /\ reader.since[f] \in Nat
              /\ reader.stat[f] \in Nat
            BY ReaderFields
        <3>2. SeenAt(reader.stat, reader.got, f)'
            <4>1. reader'.stat = reader.stat /\ reader'.got[f] = taste[f].version
                BY <1>2, <1>3, <1>4
            <4>2. /\ taste'[f].version = taste[f].version /\ taste'[f].mtime = taste[f].mtime
                  /\ taste'[f].readAt = taste[f].mtime
                BY <1>6
            <4>3. taste[f].version >= taste[f].version
                BY <3>1
            <4> QED
                BY <2>1, <2>5, <4>1, <4>2, <4>3 DEF SeenAt
        <3>3. reader'.got[f] >= reader'.since[f]
            <4>1. reader'.got[f] = taste[f].version /\ reader'.since[f] = reader.since[f]
                BY <1>2, <1>3, <1>4
            <4> QED
                BY <2>1, <2>5, <3>1, <4>1
        <3> QED
            BY <2>2, <2>3, <2>4, <2>5, <3>2, <3>3
    <2>6. CASE g # f
        <3>1. HasRead(g)' => HasRead(g)
            BY <1>1, <1>3, <1>4, <2>6 DEF HasRead, TasteNames
        <3>2. HasRead(g)' => SeenAt(reader.stat, reader.got, g)'
            BY <1>2, <1>3, <1>4, <1>6, <2>1, <2>6, <3>1 DEF SeenAt
        <3>3. HasRead(g)' => reader'.got[g] >= reader'.since[g]
            BY <1>2, <1>3, <1>4, <2>1, <2>6, <3>1
        <3> QED
            BY <2>2, <2>3, <2>4, <3>2, <3>3
    <2> QED
        BY <2>5, <2>6
<1>12. FreshInv'
    <2>1. reader'.got = got /\ reader'.stat = reader.stat /\ reader'.pc # "done" /\ blind' = blind
        BY <1>3, <1>4
    <2> SUFFICES ASSUME ~blind, NEW g \in TasteNames
                 PROVE  /\ SeenAt(held.stat, held.got, g)'
                        /\ reader'.since[g] <= taste'[g].version
                        /\ reader'.stat[g] <= taste'[g].mtime
                        /\ ~HasStat(g)'
                        /\ HasRead(g)' => SeenAt(reader.stat, reader.got, g)'
                        /\ HasRead(g)' => reader'.got[g] >= reader'.since[g]
        BY <2>1 DEF FreshInv
    <2> QED
        BY <1>11, <2>1 DEF SeenAt
<1> QED
    BY <1>7, <1>8, <1>9, <1>12

(* What was read is held, under the times taken before it was read. *)
LEMMA StoreHeldKeeps == ASSUME TasteInv, StoreHeld PROVE ReaderTyped' /\ FreshInv'
<1> DEFINE v == [reader EXCEPT !.pc = "done"]
           w == [stat |-> reader.stat, got |-> reader.got]
<1>1. /\ reader.pc = "store" /\ reader' = v /\ UNCHANGED <<second, server, taste, blind>>
      /\ held' = w \/ held' = held
    BY DEF StoreHeld, RSet, NoRead
<1>2. /\ v \in ReaderRecord /\ v.pc = "done" /\ v.stat = reader.stat /\ v.since = reader.since
      /\ v.got = reader.got
    BY ReaderFields DEF ReaderRecord
<1>3. w \in [stat : Times, got : Times] /\ w.stat = reader.stat /\ w.got = reader.got
    BY ReaderFields
<1> HIDE DEF v, w
<1>4. ReaderTyped'
    BY <1>1, <1>2, <1>3 DEF TasteInv, ReaderTyped
<1>5. ASSUME ~blind, NEW g \in TasteNames
      PROVE  /\ SeenAt(held.stat, held.got, g)' /\ ~HasRead(g)' /\ ~HasStat(g)'
             /\ reader'.since[g] <= taste'[g].version
             /\ reader'.got[g] >= reader'.since[g]
    <2>1. HasRead(g)
        BY <1>1 DEF HasRead
    <2>2. /\ SeenAt(held.stat, held.got, g) /\ reader.since[g] <= taste[g].version
          /\ SeenAt(reader.stat, reader.got, g) /\ reader.got[g] >= reader.since[g]
        BY <1>1, <1>5, <2>1 DEF TasteInv, FreshInv
    <2>3. SeenAt(held.stat, held.got, g)'
        BY <1>1, <1>3, <2>2 DEF SeenAt
    <2>4. ~HasRead(g)' /\ ~HasStat(g)'
        BY <1>1, <1>2 DEF HasRead, HasStat
    <2> QED
        BY <1>1, <1>2, <2>2, <2>3, <2>4
<1>6. reader'.pc = "done" /\ blind' = blind
    BY <1>1, <1>2
<1> QED
    BY <1>4, <1>5, <1>6 DEF FreshInv

(* The request goes on with what is held. *)
LEMMA FinishReadKeeps == ASSUME TasteInv, FinishRead PROVE ReaderTyped' /\ FreshInv'
<1>1. reader' = NoReader /\ UNCHANGED <<second, server, taste, blind, held>>
    BY DEF FinishRead, RSet, NoRead
<1>2. NoReader \in ReaderRecord /\ NoReader.pc = "idle"
    BY DEF NoReader, ReaderRecord, Times
<1>3. ReaderTyped'
    BY <1>1, <1>2 DEF TasteInv, ReaderTyped
<1>4. ASSUME ~blind, NEW g \in TasteNames
      PROVE  SeenAt(held.stat, held.got, g)' /\ ~HasRead(g)' /\ ~HasStat(g)'
    BY <1>1, <1>2, <1>4 DEF TasteInv, FreshInv, SeenAt, HasRead, HasStat
<1> QED
    BY <1>1, <1>2, <1>3, <1>4 DEF FreshInv

(* The clock goes on: a file written from now on gets a later time. *)
LEMMA SecondKeeps ==
    ASSUME TasteInv, Second
    PROVE  FilesTyped' /\ TimesOfFiles' /\ ReaderTyped' /\ FreshInv'
<1>1. UNCHANGED <<taste, server, reader, held, blind>> /\ second' = second + 1 /\ second < MaxSeconds
    BY DEF Second
<1>2. second' \in 1..MaxSeconds
    BY <1>1, TasteAssumption DEF TasteInv, FilesTyped
<1>3. TasteRecord \subseteq TasteRecord'
    <2>1. 0..second \subseteq 0..second'
        BY <1>1, TasteAssumption DEF TasteInv, FilesTyped
    <2> QED
        BY <2>1 DEF TasteRecord
<1>4. FilesTyped'
    BY <1>1, <1>2, <1>3 DEF TasteInv, FilesTyped
<1> QED
    BY <1>1, <1>4 DEF TasteInv, TimesOfFiles, ReaderTyped, FreshInv, SeenAt, HasStat, HasRead

(* Every step of a server replaces its record, and changes the files only  *)
(* by giving one a new content.                                            *)
LEMMA ServerStepsKeep ==
    ASSUME TasteInv, NEW s \in Servers,
           Receive(s) \/ UpstreamFails(s) \/ ModelAnswers(s) \/ TruncateTaste(s) \/ FillTaste(s)
             \/ WriteFails(s) \/ FinishCall(s)
    PROVE  TasteInv'
<1> DEFINE Leaves(v) == v \in ServerRecord /\ SSet(s, v)
           Puts == \E f \in TasteNames, prefs \in SUBSET Preferences : PutTaste(f, prefs)
<1> USE DEF Handling
<1>1. /\ server[s] \in ServerRecord /\ server[s].sent \in Seq(Handling)
      /\ server[s].answers \in Seq(Nat) /\ server[s].calls \in SUBSET SUBSET Preferences
      /\ server[s].snapshot \in SUBSET Preferences /\ Len(server[s].sent) \in Nat
    BY DEF TasteInv, ServersTyped, ServerRecord
<1>2. taste["global"].prefs \in SUBSET Preferences /\ "global" \in TasteNames
    <2>1. taste["global"] \in TasteRecord
        BY ReaderFields DEF TasteNames
    <2> QED
        BY <2>1 DEF TasteRecord, TasteNames
<1>3. Reply(s) \in Seq(Nat)
    BY <1>1 DEF Reply
<1>4. CASE Receive(s)
    <2>1. PICK kind \in Handling :
             LET sent == Append(server[s].sent, kind) IN
             /\ SSet(s, IF kind = "call" THEN Ask(s, sent)
                        ELSE [server[s] EXCEPT !.sent = sent,
                                 !.answers = IF Answered(kind) THEN Append(@, Len(sent)) ELSE @])
             /\ UNCHANGED <<taste, blind>> /\ OnlyServer
        BY <1>4 DEF Receive
    <2> DEFINE sent    == Append(server[s].sent, kind)
               answers == IF Answered(kind) THEN Append(server[s].answers, Len(sent))
                          ELSE server[s].answers
    <2>2. sent \in Seq(Handling) /\ answers \in Seq(Nat)
        BY <1>1
    <2> HIDE DEF sent, answers
    <2>3. Ask(s, sent) \in ServerRecord
        BY <1>1, <1>2, <2>2 DEF Ask, ServerRecord
    <2>4. [server[s] EXCEPT !.sent = sent, !.answers = answers] \in ServerRecord
        BY <1>1, <2>2 DEF ServerRecord
    <2>5. SSet(s, IF kind = "call" THEN Ask(s, sent)
                  ELSE [server[s] EXCEPT !.sent = sent, !.answers = answers])
        BY <2>1 DEF sent, answers
    <2>6. \E v : Leaves(v)
        BY <2>3, <2>4, <2>5
    <2> QED
        BY <2>1, <2>6, FreshUntouched, ServerStays DEF TasteInv, OnlyServer
<1>5. CASE UpstreamFails(s) \/ WriteFails(s) \/ FinishCall(s)
    <2>1. \E v : Leaves(v)
        <3>1. /\ [server[s] EXCEPT !.pc = "loop", !.answers = Reply(s), !.snapshot = {}] \in ServerRecord
              /\ [server[s] EXCEPT !.pc = "loop", !.answers = Reply(s), !.calls = {}] \in ServerRecord
              /\ [server[s] EXCEPT !.pc = "loop", !.answers = Reply(s)] \in ServerRecord
            BY <1>1, <1>3 DEF ServerRecord
        <3> QED
            BY <1>5, <3>1 DEF UpstreamFails, WriteFails, FinishCall
    <2>2. UNCHANGED <<taste, blind>> /\ OnlyServer
        BY <1>5 DEF UpstreamFails, WriteFails, FinishCall
    <2> QED
        BY <2>1, <2>2, FreshUntouched, ServerStays DEF TasteInv, OnlyServer
<1>6. CASE ModelAnswers(s)
    <2>1. PICK new \in SUBSET Preferences :
             SSet(s, [server[s] EXCEPT !.pc = "write", !.snapshot = {},
                                       !.calls = {server[s].snapshot \union {x} : x \in new}])
        BY <1>6 DEF ModelAnswers
    <2> DEFINE calls == {server[s].snapshot \union {x} : x \in new}
    <2>2. calls \in SUBSET SUBSET Preferences
        BY <1>1
    <2> HIDE DEF calls
    <2>3. [server[s] EXCEPT !.pc = "write", !.snapshot = {}, !.calls = calls] \in ServerRecord
        BY <1>1, <2>2 DEF ServerRecord
    <2>4. SSet(s, [server[s] EXCEPT !.pc = "write", !.snapshot = {}, !.calls = calls])
        BY <2>1 DEF calls
    <2>5. UNCHANGED <<taste, blind>> /\ OnlyServer
        BY <1>6 DEF ModelAnswers
    <2> QED
        BY <2>3, <2>4, <2>5, FreshUntouched, ServerStays DEF TasteInv, OnlyServer
<1>7. CASE TruncateTaste(s)
    <2>1. [server[s] EXCEPT !.pc = "fill"] \in ServerRecord
        BY <1>1 DEF ServerRecord
    <2>2. SSet(s, [server[s] EXCEPT !.pc = "fill"]) /\ PutTaste("global", {}) /\ OnlyServer
        BY <1>7 DEF TruncateTaste
    <2> QED
        BY <1>2, <2>1, <2>2, PutKeeps, ServerStays DEF TasteInv, OnlyServer
<1>8. CASE FillTaste(s)
    <2>1. PICK content \in server[s].calls :
             /\ PutTaste("global", content)
             /\ SSet(s, [server[s] EXCEPT !.pc = "write", !.calls = server[s].calls \ {content}])
             /\ OnlyServer
        BY <1>8 DEF FillTaste
    <2>2. [server[s] EXCEPT !.pc = "write", !.calls = server[s].calls \ {content}] \in ServerRecord
        BY <1>1 DEF ServerRecord
    <2> QED
        BY <1>1, <1>2, <2>1, <2>2, PutKeeps, ServerStays DEF TasteInv, OnlyServer
<1> QED
    BY <1>4, <1>5, <1>6, <1>7, <1>8

(* Every action keeps the invariant. *)
LEMMA TasteInductive == TasteInv /\ [TasteNext]_tasteVars => TasteInv'
<1> SUFFICES ASSUME TasteInv, [TasteNext]_tasteVars PROVE TasteInv'
    OBVIOUS
<1>1. ASSUME UNCHANGED server, FilesTyped', TimesOfFiles', ReaderTyped', FreshInv' PROVE TasteInv'
    BY <1>1 DEF TasteInv, ServersTyped
<1>2. ASSUME NEW s \in Servers,
             Receive(s) \/ UpstreamFails(s) \/ ModelAnswers(s) \/ TruncateTaste(s) \/ FillTaste(s)
               \/ WriteFails(s) \/ FinishCall(s)
      PROVE  TasteInv'
    BY <1>2, ServerStepsKeep
<1>3. CASE EditLocal
    <2>1. PutTaste("local", Preferences) /\ UNCHANGED <<second, server, reader, held>>
        BY <1>3 DEF EditLocal
    <2>2. "local" \in TasteNames /\ Preferences \in SUBSET Preferences
        BY DEF TasteNames
    <2> QED
        BY <1>1, <2>1, <2>2, PutKeeps
<1>4. ASSUME UNCHANGED <<second, server, taste, blind>>, ReaderTyped', FreshInv' PROVE TasteInv'
    BY <1>4 DEF TasteInv, ServersTyped, FilesTyped, TimesOfFiles, TasteRecord
<1>5. CASE StartRead \/ StatTaste \/ CheckHeld \/ StoreHeld \/ FinishRead
    <2>1. UNCHANGED <<second, server, taste, blind>>
        BY <1>5 DEF StartRead, StatTaste, CheckHeld, StoreHeld, FinishRead, RSet, NoRead
    <2>2. ReaderTyped' /\ FreshInv'
        BY <1>5, StartReadKeeps, StatKeeps, CheckKeeps, StoreHeldKeeps, FinishReadKeeps
    <2> QED
        BY <1>4, <2>1, <2>2
<1>6. CASE ReadTaste
    <2>1. UNCHANGED server
        BY <1>6 DEF ReadTaste, RSet
    <2> QED
        BY <1>1, <1>6, <2>1, ReadKeeps
<1>7. CASE Second
    <2>1. UNCHANGED server
        BY <1>7 DEF Second
    <2> QED
        BY <1>1, <1>7, <2>1, SecondKeeps
<1>8. CASE UNCHANGED tasteVars
    BY <1>1, <1>8, FreshUntouched DEF tasteVars
<1> QED
    BY <1>2, <1>3, <1>5, <1>6, <1>7, <1>8 DEF TasteNext

(* The invariant of the taste files. *)
LEMMA TasteInvariant == TasteSpec => []TasteInv
BY TasteInvInit, TasteInductive, PTL DEF TasteSpec

(* Whatever is edited between the stats and the reads of a request, it is  *)
(* given contents that the files had at some moment of the request, unless *)
(* a file changed again in the second in which it had been read            *)
(* (read_taste_content compares mtimes).                                   *)
THEOREM TasteIsFresh == TasteSpec => []TasteFresh
<1>1. TasteInv => TasteFresh
    BY DEF TasteInv, FreshInv, TasteFresh
<1> QED
    BY <1>1, TasteInvariant, PTL

(***************************************************************************)
(* The MCP server: one answer to each message that expects one             *)
(***************************************************************************)

(* A message is to be answered or not, whatever comes after it.            *)
LEMMA ExpectedAppend ==
    ASSUME NEW sent \in Seq(Handling), NEW kind \in Handling
    PROVE  Expected(Append(sent, kind)) =
              IF Answered(kind) THEN Append(Expected(sent), Len(sent) + 1) ELSE Expected(sent)
<1> DEFINE longer     == Append(sent, kind)
           numbers(t) == [i \in DOMAIN t |-> i]
           asked(t)   == {i \in DOMAIN t : Answered(t[i])}
<1>1. /\ longer \in Seq(Handling) /\ Len(longer) = Len(sent) + 1
      /\ DOMAIN longer = 1..(Len(sent) + 1) /\ DOMAIN sent = 1..Len(sent) /\ Len(sent) \in Nat
      /\ longer[Len(sent) + 1] = kind
      /\ \A i \in 1..Len(sent) : longer[i] = sent[i]
    BY AppendFacts
<1> HIDE DEF longer
<1>2. numbers(sent) \in Seq(Nat) /\ Len(numbers(sent)) = Len(sent)
    BY <1>1
<1>3. numbers(longer) = Append(numbers(sent), Len(sent) + 1)
    <2> DEFINE t == Append(numbers(sent), Len(sent) + 1)
    <2>1. /\ t \in Seq(Nat) /\ Len(t) = Len(sent) + 1 /\ t[Len(sent) + 1] = Len(sent) + 1
          /\ \A i \in 1..Len(sent) : t[i] = i
        <3>1. Len(sent) + 1 \in Nat /\ \A i \in 1..Len(sent) : numbers(sent)[i] = i
            BY <1>1
        <3> HIDE DEF numbers
        <3> QED
            BY <1>1, <1>2, <3>1, AppendFacts
    <2>2. numbers(longer) \in Seq(Nat) /\ Len(numbers(longer)) = Len(sent) + 1
          /\ \A i \in 1..(Len(sent) + 1) : numbers(longer)[i] = i
        BY <1>1
    <2> HIDE DEF t, numbers
    <2>3. \A i \in 1..(Len(sent) + 1) : t[i] = i
        BY <1>1, <2>1
    <2>4. numbers(longer) = t
        BY <1>1, <2>1, <2>2, <2>3, SeqEqual
    <2> QED
        BY <2>4 DEF t
<1>4. Filter(numbers(longer), asked(longer)) =
         IF Len(sent) + 1 \in asked(longer)
         THEN Append(Filter(numbers(sent), asked(longer)), Len(sent) + 1)
         ELSE Filter(numbers(sent), asked(longer))
    <2>1. Len(sent) + 1 \in Nat
        BY <1>1
    <2>2. ASSUME NEW r \in Seq(Nat), NEW x \in Nat, NEW T, r = numbers(sent), x = Len(sent) + 1,
                 T = asked(longer)
          PROVE  Filter(numbers(longer), T) = IF x \in T THEN Append(Filter(r, T), x) ELSE Filter(r, T)
        <3>1. Filter(Append(r, x), T) = IF x \in T THEN Append(Filter(r, T), x) ELSE Filter(r, T)
            BY FilterAppend
        <3> QED
            BY <1>3, <2>2, <3>1
    <2> HIDE DEF numbers, asked
    <2> QED
        BY <1>2, <2>1, <2>2
<1>5. Len(sent) + 1 \in asked(longer) <=> Answered(kind)
    BY <1>1
<1>6. Filter(numbers(sent), asked(longer)) = Filter(numbers(sent), asked(sent))
    <2>1. ToSet(numbers(sent)) \subseteq 1..Len(sent)
        BY <1>1 DEF ToSet
    <2>2. \A i \in 1..Len(sent) : i \in asked(longer) <=> i \in asked(sent)
        BY <1>1
    <2>3. ToSet(numbers(sent)) \intersect asked(longer) = ToSet(numbers(sent)) \intersect asked(sent)
        BY <2>1, <2>2
    <2> HIDE DEF numbers, asked
    <2> QED
        BY <1>2, <2>3, FilterSame
<1>7. \A t : Expected(t) = Filter(numbers(t), asked(t))
    BY DEF Expected
<1> HIDE DEF numbers, asked
<1> QED
    BY <1>4, <1>5, <1>6, <1>7 DEF longer

(* No message was sent, none answered. *)
LEMMA AnsweredInit == TasteInit => AnsweredInOrder
<1>1. Expected(<< >>) = << >>
    <2>1. [i \in DOMAIN << >> |-> i] = << >>
        OBVIOUS
    <2> QED
        BY <2>1, FilterEmpty DEF Expected
<1> QED
    BY <1>1 DEF TasteInit, NoServer, AnsweredInOrder

(* The server is where it is, with what it has answered so far. *)
InStep(v) == IF v.pc = "loop" THEN v.answers = Expected(v.sent)
             ELSE Append(v.answers, Len(v.sent)) = Expected(v.sent)

(* A step of one server that keeps its answers in step keeps the property. *)
LEMMA AnsweredKept ==
    ASSUME ServersTyped, AnsweredInOrder, NEW s \in Servers, NEW v, SSet(s, v), InStep(v)
    PROVE  AnsweredInOrder'
<1>1. \A t \in Servers : InStep(server[t])
    BY DEF AnsweredInOrder, InStep
<1>2. \A t \in Servers : InStep(server'[t])
    BY <1>1 DEF SSet, ServersTyped
<1> QED
    BY <1>2 DEF AnsweredInOrder, InStep

(* Every action of a server answers the message at hand or none. *)
LEMMA AnsweredInductive == ServersTyped /\ AnsweredInOrder /\ [TasteNext]_tasteVars => AnsweredInOrder'
<1> SUFFICES ASSUME ServersTyped, AnsweredInOrder, [TasteNext]_tasteVars PROVE AnsweredInOrder'
    OBVIOUS
<1>1. ASSUME UNCHANGED server PROVE AnsweredInOrder'
    BY <1>1 DEF AnsweredInOrder
<1>2. ASSUME NEW s \in Servers
      PROVE  /\ server[s] \in ServerRecord /\ server[s].sent \in Seq(Handling)
             /\ server[s].answers \in Seq(Nat) /\ InStep(server[s])
    BY DEF ServersTyped, ServerRecord, AnsweredInOrder, InStep
<1>3. ASSUME NEW s \in Servers, Receive(s) PROVE AnsweredInOrder'
    <2>1. PICK kind \in Handling :
             /\ server[s].pc = "loop"
             /\ LET sent == Append(server[s].sent, kind) IN
                SSet(s, IF kind = "call" THEN Ask(s, sent)
                        ELSE [server[s] EXCEPT !.sent = sent,
                                 !.answers = IF Answered(kind) THEN Append(@, Len(sent)) ELSE @])
        BY <1>3 DEF Receive
    <2> DEFINE sent    == Append(server[s].sent, kind)
               answers == IF Answered(kind) THEN Append(server[s].answers, Len(sent))
                          ELSE server[s].answers
               v == IF kind = "call" THEN Ask(s, sent)
                    ELSE [server[s] EXCEPT !.sent = sent, !.answers = answers]
    <2>2. SSet(s, v)
        BY <2>1
    <2>3. server[s].answers = Expected(server[s].sent) /\ Len(sent) = Len(server[s].sent) + 1
        BY <1>2, <2>1, AppendFacts DEF InStep
    <2>4. Expected(sent) = IF Answered(kind) THEN Append(server[s].answers, Len(sent))
                           ELSE server[s].answers
        BY <1>2, <2>3, ExpectedAppend
    <2> HIDE DEF sent
    <2>5. /\ v.sent = sent
          /\ kind = "call" => v.pc = "asked" /\ v.answers = server[s].answers /\ Answered(kind)
          /\ kind # "call" => v.pc = "loop" /\ v.answers = answers
        BY <1>2, <2>1 DEF Ask, ServerRecord, Answered
    <2> HIDE DEF v
    <2>6. InStep(v)
        BY <2>4, <2>5 DEF InStep
    <2> QED
        BY <2>2, <2>6, AnsweredKept
<1>5. ASSUME NEW s \in Servers, UpstreamFails(s) \/ WriteFails(s) \/ FinishCall(s)
      PROVE  AnsweredInOrder'
    <2>1. /\ server[s].pc # "loop"
          /\ \/ SSet(s, [server[s] EXCEPT !.pc = "loop", !.answers = Reply(s), !.snapshot = {}])
             \/ SSet(s, [server[s] EXCEPT !.pc = "loop", !.answers = Reply(s), !.calls = {}])
             \/ SSet(s, [server[s] EXCEPT !.pc = "loop", !.answers = Reply(s)])
        BY <1>5 DEF UpstreamFails, WriteFails, FinishCall
    <2>2. PICK v : /\ SSet(s, v)
                   /\ \/ v = [server[s] EXCEPT !.pc = "loop", !.answers = Reply(s), !.snapshot = {}]
                      \/ v = [server[s] EXCEPT !.pc = "loop", !.answers = Reply(s), !.calls = {}]
                      \/ v = [server[s] EXCEPT !.pc = "loop", !.answers = Reply(s)]
        BY <2>1
    <2>3. Reply(s) \in Seq(Nat)
        BY <1>2 DEF Reply
    <2>4. v \in ServerRecord /\ v.sent = server[s].sent /\ v.pc = "loop" /\ v.answers = Reply(s)
        BY <1>2, <2>2, <2>3 DEF ServerRecord
    <2>5. InStep(v)
        BY <1>2, <2>1, <2>4 DEF InStep, Reply
    <2> QED
        BY <2>2, <2>5, AnsweredKept
<1>6. ASSUME NEW s \in Servers, ModelAnswers(s) \/ TruncateTaste(s) \/ FillTaste(s)
      PROVE  AnsweredInOrder'
    <2>1. /\ server[s].pc # "loop"
          /\ \E calls : \/ SSet(s, [server[s] EXCEPT !.pc = "write", !.snapshot = {}, !.calls = calls])
                        \/ SSet(s, [server[s] EXCEPT !.pc = "fill"])
                        \/ SSet(s, [server[s] EXCEPT !.pc = "write", !.calls = calls])
        BY <1>6 DEF ModelAnswers, TruncateTaste, FillTaste
    <2>2. PICK v, calls :
             /\ SSet(s, v)
             /\ \/ v = [server[s] EXCEPT !.pc = "write", !.snapshot = {}, !.calls = calls]
                \/ v = [server[s] EXCEPT !.pc = "fill"]
                \/ v = [server[s] EXCEPT !.pc = "write", !.calls = calls]
        BY <2>1
    <2>3. v.sent = server[s].sent /\ v.pc # "loop" /\ v.answers = server[s].answers
        BY <1>2, <2>2 DEF ServerRecord
    <2>4. InStep(v)
        BY <1>2, <2>1, <2>3 DEF InStep
    <2> QED
        BY <2>2, <2>4, AnsweredKept
<1>7. CASE EditLocal \/ StartRead \/ StatTaste \/ CheckHeld \/ ReadTaste \/ StoreHeld \/ FinishRead
             \/ Second \/ UNCHANGED tasteVars
    <2>1. UNCHANGED server
        BY <1>7 DEF EditLocal, StartRead, StatTaste, CheckHeld, ReadTaste, StoreHeld, FinishRead,
                    Second, RSet, tasteVars
    <2> QED
        BY <1>1, <2>1
<1> QED
    BY <1>3, <1>5, <1>6, <1>7 DEF TasteNext

(* However many messages the harness sends, of whatever kinds, the answers *)
(* of the MCP server are those its requests ask for, one each and in their *)
(* order, and notifications get none.                                      *)
THEOREM AnswersInOrder == TasteSpec => []AnsweredInOrder
<1>1. TasteInv => ServersTyped
    BY DEF TasteInv
<1> QED
    BY <1>1, AnsweredInit, AnsweredInductive, TasteInvariant, PTL DEF TasteSpec

(***************************************************************************)
(* accounts.json: processes that save over one another and die             *)
(***************************************************************************)

AccountSpec == AccountInit /\ [][AccountNext]_accountVars

GoodVaults == {v \in Vaults : WellFormed(v)}
ProcessRecord == [pc : {"idle", "prompt", "listen", "load", "ready", "create", "write", "rename"},
                  mem : GoodVaults, fd : Inodes \union {NoFile}, account : Accounts \union {NoAccount},
                  port : {0} \union Ports, token : Nat]
Post == [port : {0} \union Ports, token : Nat, account : Accounts, apart : BOOLEAN]

(* What is on disk is a well-formed vault, or does not parse. *)
DiskTyped ==
    /\ dir \in [file : Inodes, tmp : Inodes \union {NoFile}] /\ dir.tmp # dir.file
    /\ inode \in [Inodes -> GoodVaults \union {Blank, Torn}]
    /\ collided \in BOOLEAN

(* A process has a file open while it writes and at no other time.         *)
ProcessStates ==
    {v \in ProcessRecord : /\ v.fd # NoFile <=> v.pc = "write"
                           /\ v.pc = "load" => v.account # NoAccount}

ProcessesTyped ==
    proc \in [Processes -> ProcessStates] /\ posts \subseteq Post /\ commands \in 0..MaxCommands

(* As long as no two saves were under way at once: whoever saves has the   *)
(* temporary file for itself, up to the rename that makes it accounts.json. *)
OneSaver ==
    ~collided =>
        /\ inode[dir.file] \in GoodVaults
        /\ \A p, q \in Processes : Saving(p) /\ Saving(q) => p = q
        /\ \A p \in Processes :
              /\ PAt(p, "write") => proc[p].fd = dir.tmp /\ inode[dir.tmp] = Blank
              /\ PAt(p, "rename") => dir.tmp # NoFile /\ inode[dir.tmp] = proc[p].mem

AccountInv == DiskTyped /\ ProcessesTyped /\ OneSaver

(* The idle process is not needed to see that there is something left. *)
LEMMA SpareLeft ==
    ASSUME NEW f \in [Processes -> Int \union {NoFile}], NEW p \in Processes,
           NEW S, IsFiniteSet(S), Cardinality(S) >= Cardinality(Processes)
    PROVE  \E x \in S : \A q \in Processes \ {p} : f[q] # x
<1> SUFFICES ASSUME \A x \in S : \E q \in Processes \ {p} : f[q] = x PROVE FALSE
    OBVIOUS
<1> DEFINE others == Processes \ {p}
           g == [x \in S |-> CHOOSE q \in others : f[q] = x]
<1>1. IsFiniteSet(others) /\ Cardinality(others) = Cardinality(Processes) - 1
      /\ Cardinality(Processes) \in Nat
    BY AccountAssumption, FS_RemoveElement, FS_CardinalityType
<1>2. Cardinality(others) < Cardinality(S)
    <2>1. Cardinality(S) \in Nat
        BY FS_CardinalityType
    <2> QED
        BY <1>1, <2>1
<1>3. g \in [S -> others] /\ \A x \in S : f[g[x]] = x
    OBVIOUS
<1> HIDE DEF others, g
<1>4. \E x, y \in S : x # y /\ g[x] = g[y]
    BY <1>1, <1>2, <1>3, FS_PigeonHole
<1> QED
    BY <1>3, <1>4

(* A set of indices that is not empty has a first one. *)
LEMMA FirstIndex ==
    ASSUME NEW n \in Nat, NEW S \in SUBSET (1..n), S # {}
    PROVE  \E i \in S : \A j \in 1..(i - 1) : j \notin S
<1>1. S \subseteq Nat
    OBVIOUS
<1>2. PICK i \in S : \A j \in S : <<j, i>> \notin OpToRel(<, Nat)
    BY <1>1, NatLessThanWellFounded, WFMin
<1>3. \A j \in 1..(i - 1) : j \in Nat /\ i \in Nat /\ j < i
    OBVIOUS
<1>4. \A j \in 1..(i - 1) : <<j, i>> \in OpToRel(<, Nat)
    BY <1>3 DEF OpToRel
<1> QED
    BY <1>2, <1>4

(* The choice of a name is an account under that name.                     *)
LEMMA FirstNamedShown ==
    ASSUME NEW v \in Vaults, NEW n \in ShownNames(v)
    PROVE  FirstNamed(v, n) \in Ids(v) /\ NameOf[FirstNamed(v, n)] = n
<1> DEFINE S == {i \in 1..Len(v.accounts) : NameOf[v.accounts[i]] = n}
           First(i) == NameOf[v.accounts[i]] = n /\ \A j \in 1..(i - 1) : NameOf[v.accounts[j]] # n
<1>1. v.accounts \in Seq(Accounts) /\ Len(v.accounts) \in Nat /\ DOMAIN v.accounts = 1..Len(v.accounts)
    BY VaultFields
<1>2. S # {}
    BY <1>1 DEF ShownNames, Ids, ToSet
<1>3. PICK i \in S : \A j \in 1..(i - 1) : j \notin S
    <2> HIDE DEF S
    <2>1. S \in SUBSET (1..Len(v.accounts))
        BY DEF S
    <2> QED
        BY <1>1, <1>2, <2>1, FirstIndex
<1>4. i \in 1..Len(v.accounts) /\ First(i)
    <2>1. \A j \in 1..(i - 1) : j \in 1..Len(v.accounts)
        BY <1>1
    <2> QED
        BY <1>3, <2>1
<1>5. \E k \in DOMAIN v.accounts : First(k)
    BY <1>1, <1>4
<1> DEFINE k == CHOOSE k \in DOMAIN v.accounts : First(k)
<1>6. k \in DOMAIN v.accounts /\ First(k) /\ FirstNamed(v, n) = v.accounts[k]
    BY <1>5 DEF FirstNamed
<1> HIDE DEF k
<1> QED
    BY <1>6 DEF Ids, ToSet

(* The file is a good vault and no process runs. *)
LEMMA AccountInvInit == AccountInit => AccountInv
<1> SUFFICES ASSUME AccountInit PROVE AccountInv
    OBVIOUS
<1>1. /\ dir = [file |-> 1, tmp |-> NoFile] /\ collided = FALSE /\ posts = {} /\ commands = 0
      /\ inode = [i \in Inodes |-> IF i = 1 THEN FirstVault ELSE Blank]
      /\ proc = [p \in Processes |-> NoProc]
    BY DEF AccountInit
<1>2. 1 \in Inodes /\ FirstVault \in GoodVaults /\ NoFile # 1
    BY AccountAssumption, FS_CardinalityType DEF Inodes, GoodVaults
<1>3. NoProc \in ProcessStates /\ NoProc.pc = "idle"
    <2>1. EmptyVault \in GoodVaults
        BY EmptyIsVault DEF GoodVaults
    <2> QED
        BY <2>1 DEF NoProc, ProcessStates, ProcessRecord
<1>4. DiskTyped
    BY <1>1, <1>2 DEF DiskTyped
<1>5. ProcessesTyped
    BY <1>1, <1>3, AccountAssumption DEF ProcessesTyped
<1>6. OneSaver
    BY <1>1, <1>2, <1>3 DEF OneSaver, Saving, PAt
<1> QED
    BY <1>4, <1>5, <1>6 DEF AccountInv

(* The state of a process. *)
LEMMA ProcessFields ==
    ASSUME AccountInv, NEW p \in Processes
    PROVE  /\ proc[p] \in ProcessStates /\ proc[p] \in ProcessRecord
           /\ proc[p].mem \in Vaults /\ WellFormed(proc[p].mem)
           /\ proc[p].fd # NoFile <=> proc[p].pc = "write"
           /\ proc[p].fd \in Inodes \union {NoFile}
           /\ proc[p].account \in Accounts \union {NoAccount}
           /\ proc[p].pc = "load" => proc[p].account \in Accounts
<1>1. proc[p] \in ProcessStates
    BY DEF AccountInv, ProcessesTyped
<1> QED
    BY <1>1 DEF ProcessStates, ProcessRecord, GoodVaults

(* A process goes on to a state in which it does not save, and touches no  *)
(* file.                                                                   *)
LEMMA ProcessStepKeeps ==
    ASSUME AccountInv, NEW p \in Processes, NEW v \in ProcessStates, PSet(p, v), NoDisk,
           v.pc \notin {"write", "rename"}, posts' \subseteq Post, commands' \in 0..MaxCommands
    PROVE  AccountInv'
<1>1. /\ proc' = [proc EXCEPT ![p] = v] /\ dir' = dir /\ inode' = inode /\ collided' = collided
      /\ proc \in [Processes -> ProcessStates]
    BY DEF PSet, NoDisk, AccountInv, ProcessesTyped
<1>2. DiskTyped'
    BY <1>1 DEF AccountInv, DiskTyped
<1>3. ProcessesTyped'
    BY <1>1 DEF ProcessesTyped
<1>4. \A q \in Processes : (q # p => proc'[q] = proc[q]) /\ (q = p => proc'[q].pc = v.pc)
    BY <1>1
<1>5. OneSaver'
    <2>1. \A q \in Processes : Saving(q)' => Saving(q) /\ proc'[q] = proc[q]
        BY <1>4 DEF Saving
    <2>3. \A q \in Processes : proc'[q].pc \in {"write", "rename"} => proc'[q] = proc[q]
        BY <1>4
    <2> SUFFICES ASSUME ~collided
                 PROVE  /\ inode[dir.file] \in GoodVaults
                        /\ \A q, r \in Processes : Saving(q)' /\ Saving(r)' => q = r
                        /\ \A q \in Processes :
                              /\ PAt(q, "write")' => proc'[q].fd = dir.tmp /\ inode[dir.tmp] = Blank
                              /\ PAt(q, "rename")' => dir.tmp # NoFile /\ inode[dir.tmp] = proc'[q].mem
        BY <1>1 DEF OneSaver
    <2>4. inode[dir.file] \in GoodVaults /\ \A q, r \in Processes : Saving(q) /\ Saving(r) => q = r
        BY DEF AccountInv, OneSaver
    <2>5. \A q \in Processes :
             /\ PAt(q, "write") => proc[q].fd = dir.tmp /\ inode[dir.tmp] = Blank
             /\ PAt(q, "rename") => dir.tmp # NoFile /\ inode[dir.tmp] = proc[q].mem
        BY DEF AccountInv, OneSaver
    <2>6. \A q, r \in Processes : Saving(q)' /\ Saving(r)' => q = r
        BY <2>1, <2>4
    <2>7. ASSUME NEW q \in Processes
          PROVE  /\ PAt(q, "write")' => proc'[q].fd = dir.tmp /\ inode[dir.tmp] = Blank
                 /\ PAt(q, "rename")' => dir.tmp # NoFile /\ inode[dir.tmp] = proc'[q].mem
        <3>1. CASE proc'[q].pc = "write"
            <4>1. proc'[q] = proc[q] /\ PAt(q, "write")
                BY <2>3, <3>1 DEF PAt
            <4> QED
                BY <2>5, <3>1, <4>1 DEF PAt
        <3>2. CASE proc'[q].pc = "rename"
            <4>1. proc'[q] = proc[q] /\ PAt(q, "rename")
                BY <2>3, <3>2 DEF PAt
            <4> QED
                BY <2>5, <3>2, <4>1 DEF PAt
        <3>3. CASE proc'[q].pc \notin {"write", "rename"}
            BY <3>3 DEF PAt
        <3> QED
            BY <3>1, <3>2, <3>3
    <2> QED
        BY <2>4, <2>6, <2>7
<1> QED
    BY <1>2, <1>3, <1>5 DEF AccountInv

(* find_available_port finds a port: no more are bound than there are other *)
(* processes.                                                              *)
LEMMA PortIsFree ==
    ASSUME AccountInv, NEW p \in Processes, PAt(p, "idle")
    PROVE  (CHOOSE n \in Ports : ~Bound(n) /\ \A m \in 1..(n - 1) : Bound(m)) \in Ports
<1> DEFINE f == [q \in Processes |-> proc[q].port]
           n == Cardinality(Processes)
           S == {m \in Ports : ~Bound(m)}
<1>1. n \in Nat /\ Ports = 1..n
    BY AccountAssumption, FS_CardinalityType DEF Ports
<1>2. IsFiniteSet(Ports) /\ Cardinality(Ports) >= n
    <2>1. 1 \in Int /\ n \in Int
        BY <1>1
    <2>2. IsFiniteSet(1..n) /\ Cardinality(1..n) = IF 1 > n THEN 0 ELSE n - 1 + 1
        BY <2>1, FS_Interval
    <2> HIDE DEF n
    <2> QED
        BY <1>1, <2>2
<1>3. f \in [Processes -> Int \union {NoFile}]
    <2>1. \A q \in Processes : proc[q].port \in {0} \union Ports
        BY DEF AccountInv, ProcessesTyped, ProcessStates, ProcessRecord
    <2> HIDE DEF n
    <2> QED
        BY <1>1, <2>1
<1>4. PICK x \in Ports : \A q \in Processes \ {p} : f[q] # x
    <2> HIDE DEF f
    <2> QED
        BY <1>2, <1>3, SpareLeft
<1>5. ~Bound(x)
    BY <1>4 DEF Bound, PAt
<1>6. PICK i \in S : \A j \in 1..(i - 1) : j \notin S
    <2>1. S \in SUBSET (1..n) /\ S # {}
        BY <1>1, <1>5
    <2> HIDE DEF S, n
    <2> QED
        BY <1>1, <2>1, FirstIndex
<1>7. i \in Ports /\ ~Bound(i) /\ \A m \in 1..(i - 1) : Bound(m)
    <2>1. \A m \in 1..(i - 1) : m \in Ports
        <3> HIDE DEF n
        <3> QED
            BY <1>1
    <2> QED
        BY <1>6, <2>1
<1>8. \E k \in Ports : ~Bound(k) /\ \A m \in 1..(k - 1) : Bound(m)
    BY <1>7
<1> QED
    BY <1>8

(* A login chooses a port that nobody listens at. *)
LEMMA StartLoginKeeps == ASSUME AccountInv, NEW p \in Processes, StartLogin(p) PROVE AccountInv'
<1> DEFINE port == CHOOSE n \in Ports : ~Bound(n) /\ \A m \in 1..(n - 1) : Bound(m)
           v == [NoProc EXCEPT !.pc = "prompt", !.port = port, !.token = commands + 1]
<1>1. /\ PAt(p, "idle") /\ commands < MaxCommands /\ commands' = commands + 1
      /\ PSet(p, v) /\ NoDisk /\ posts' = posts
    BY DEF StartLogin, NoLogin
<1>2. port \in Ports
    BY <1>1, PortIsFree
<1> HIDE DEF port
<1>3. commands \in Nat /\ commands' \in 0..MaxCommands /\ posts' \subseteq Post
    BY <1>1, AccountAssumption DEF AccountInv, ProcessesTyped
<1>4. v \in ProcessStates /\ v.pc = "prompt"
    <2>1. EmptyVault \in GoodVaults /\ commands + 1 \in Nat
        BY <1>3, EmptyIsVault DEF GoodVaults
    <2> QED
        BY <1>2, <2>1 DEF NoProc, ProcessStates, ProcessRecord
<1> HIDE DEF v
<1> QED
    BY <1>1, <1>3, <1>4, ProcessStepKeeps

(* The states a login or a command moves to.                               *)
LEMMA NextStates ==
    ASSUME AccountInv, NEW p \in Processes
    PROVE  /\ NoProc \in ProcessStates /\ NoProc.pc = "idle"
           /\ \A x \in Accounts : [NoProc EXCEPT !.pc = "load", !.account = x] \in ProcessStates
           /\ \A v \in GoodVaults : [NoProc EXCEPT !.pc = "ready", !.mem = v] \in ProcessStates
           /\ proc[p].pc # "write" =>
                 /\ [proc[p] EXCEPT !.pc = "listen"] \in ProcessStates
                 /\ \A v \in GoodVaults :
                       [proc[p] EXCEPT !.pc = "create", !.mem = v] \in ProcessStates
<1>1. EmptyVault \in GoodVaults
    BY EmptyIsVault DEF GoodVaults
<1>2. NoProc \in ProcessStates /\ NoProc.pc = "idle"
    BY <1>1 DEF NoProc, ProcessStates, ProcessRecord
<1>3. \A x \in Accounts : [NoProc EXCEPT !.pc = "load", !.account = x] \in ProcessStates
    BY <1>1, VaultAssumption DEF NoProc, ProcessStates, ProcessRecord
<1>4. \A v \in GoodVaults : [NoProc EXCEPT !.pc = "ready", !.mem = v] \in ProcessStates
    BY <1>1 DEF NoProc, ProcessStates, ProcessRecord
<1>5. ASSUME proc[p].pc # "write"
      PROVE  /\ [proc[p] EXCEPT !.pc = "listen"] \in ProcessStates
             /\ \A v \in GoodVaults : [proc[p] EXCEPT !.pc = "create", !.mem = v] \in ProcessStates
    <2>1. proc[p] \in ProcessRecord /\ proc[p].fd = NoFile
        BY <1>5, ProcessFields
    <2>2. [proc[p] EXCEPT !.pc = "listen"] \in ProcessStates
        BY <2>1 DEF ProcessStates, ProcessRecord
    <2>3. \A v \in GoodVaults : [proc[p] EXCEPT !.pc = "create", !.mem = v] \in ProcessStates
        BY <2>1 DEF ProcessStates, ProcessRecord
    <2> QED
        BY <2>2, <2>3
<1> QED
    BY <1>2, <1>3, <1>4, <1>5

(* A file that parses holds a good vault; so does what a command makes of  *)
(* the copy it has loaded.                                                 *)
LEMMA ContentGood == ASSUME AccountInv, Parses PROVE Content \in GoodVaults
<1>1. dir.file \in Inodes /\ inode[dir.file] \in GoodVaults \union {Blank, Torn}
    BY DEF AccountInv, DiskTyped
<1>2. dir.file # NoFile
    BY <1>1, AccountAssumption
<1> QED
    BY <1>1, <1>2 DEF Content, Parses

(* The browser, the callback, the pasted key. *)
LEMMA LoginStepsKeep ==
    ASSUME AccountInv, NEW p \in Processes,
           Listen(p) \/ PasteKey(p) \/ Authorise(p) \/ Callback(p) \/ GiveUp(p)
    PROVE  AccountInv'
<1>1. posts \subseteq Post /\ commands \in 0..MaxCommands
    BY DEF AccountInv, ProcessesTyped
<1>2. ASSUME NEW v \in ProcessStates, PSet(p, v), NoDisk, v.pc \notin {"write", "rename"},
             posts' \subseteq Post, commands' = commands
      PROVE  AccountInv'
    BY <1>1, <1>2, ProcessStepKeeps
<1>3. CASE Listen(p)
    <2>1. /\ proc[p].pc = "prompt" /\ NoDisk /\ posts' = posts /\ commands' = commands
          /\ PSet(p, NoProc) \/ PSet(p, [proc[p] EXCEPT !.pc = "listen"])
        BY <1>3 DEF Listen, PAt, NoLogin
    <2>2. [proc[p] EXCEPT !.pc = "listen"].pc = "listen"
        BY ProcessFields DEF ProcessRecord
    <2> QED
        BY <1>1, <1>2, <2>1, <2>2, NextStates
<1>4. CASE PasteKey(p)
    <2>1. PICK x \in Accounts : PSet(p, [NoProc EXCEPT !.pc = "load", !.account = x])
        BY <1>4 DEF PasteKey
    <2>2. NoDisk /\ posts' = posts /\ commands' = commands
        BY <1>4 DEF PasteKey, NoLogin
    <2>3. [NoProc EXCEPT !.pc = "load", !.account = x].pc = "load"
        BY DEF NoProc
    <2> QED
        BY <1>1, <1>2, <2>1, <2>2, <2>3, NextStates
<1>5. CASE Authorise(p)
    <2>1. PICK x \in Accounts, apart \in BOOLEAN :
             /\ proc[p].pc \in {"prompt", "listen"}
             /\ posts' = posts \union {[port |-> proc[p].port, token |-> proc[p].token,
                                        account |-> x, apart |-> apart]}
             /\ NoDisk /\ UNCHANGED <<proc, commands>>
        BY <1>5 DEF Authorise
    <2>2. proc[p].port \in {0} \union Ports /\ proc[p].token \in Nat
        BY ProcessFields DEF ProcessRecord
    <2>3. posts' \subseteq Post
        BY <1>1, <2>1, <2>2 DEF Post
    <2>4. PSet(p, proc[p])
        BY <2>1 DEF PSet, AccountInv, ProcessesTyped
    <2> QED
        BY <1>2, <2>1, <2>3, <2>4, ProcessFields
<1>6. CASE Callback(p)
    <2>1. PICK m \in posts : PSet(p, Answer(p, m)) /\ posts' = posts \ {m}
        BY <1>6 DEF Callback
    <2>2. NoDisk /\ commands' = commands /\ proc[p].pc = "listen"
        BY <1>6 DEF Callback, PAt
    <2>3. m.account \in Accounts
        BY <1>1 DEF Post
    <2>4. [NoProc EXCEPT !.pc = "load", !.account = m.account].pc = "load"
        BY DEF NoProc
    <2>5. Answer(p, m) \in ProcessStates /\ Answer(p, m).pc \notin {"write", "rename"}
        BY <2>2, <2>3, <2>4, NextStates, ProcessFields DEF Answer
    <2> QED
        BY <1>1, <1>2, <2>1, <2>2, <2>5
<1>7. CASE GiveUp(p)
    <2>1. PSet(p, NoProc) /\ NoDisk /\ posts' = posts /\ commands' = commands
        BY <1>7 DEF GiveUp, NoLogin
    <2> QED
        BY <1>1, <1>2, <2>1, NextStates
<1> QED
    BY <1>3, <1>4, <1>5, <1>6, <1>7

(* An edited copy is about to be saved. *)
LEMMA KeepKeeps ==
    ASSUME AccountInv, NEW p \in Processes, proc[p].pc # "write", NEW v \in GoodVaults, Keep(p, v)
    PROVE  AccountInv'
<1>1. /\ PSet(p, [proc[p] EXCEPT !.pc = "create", !.mem = v]) /\ NoDisk
      /\ posts' = posts /\ commands' = commands
    BY DEF Keep, NoLogin
<1>2. [proc[p] EXCEPT !.pc = "create", !.mem = v].pc = "create"
    BY ProcessFields DEF ProcessRecord
<1>3. posts' \subseteq Post /\ commands' \in 0..MaxCommands
    BY <1>1 DEF AccountInv, ProcessesTyped
<1> QED
    BY <1>1, <1>2, <1>3, NextStates, ProcessStepKeeps

(* The account commands load the vault and edit their copy; a process may  *)
(* die anywhere.                                                           *)
LEMMA CommandStepsKeep ==
    ASSUME AccountInv, NEW p \in Processes,
           StartCommand(p) \/ Add(p) \/ Use(p) \/ LogoutCommand(p) \/ Toggle(p) \/ Rotate(p) \/ Die(p)
    PROVE  AccountInv'
<1> DEFINE mem == proc[p].mem
<1>1. posts \subseteq Post /\ commands \in 0..MaxCommands /\ MaxCommands \in Nat
    BY AccountAssumption DEF AccountInv, ProcessesTyped
<1>2. mem \in Vaults /\ WellFormed(mem)
    BY ProcessFields
<1>3. ASSUME posts' = posts, commands' \in 0..MaxCommands, PSet(p, NoProc), NoDisk PROVE AccountInv'
    BY <1>1, <1>3, NextStates, ProcessStepKeeps
<1>4. CASE Die(p)
    BY <1>1, <1>3, <1>4 DEF Die, NoLogin
<1>5. CASE StartCommand(p)
    <2>1. /\ commands' \in 0..MaxCommands /\ posts' = posts /\ NoDisk
          /\ PSet(p, IF Parses THEN [NoProc EXCEPT !.pc = "ready", !.mem = Content] ELSE NoProc)
        BY <1>1, <1>5 DEF StartCommand, NoLogin
    <2>2. CASE Parses
        <3>1. [NoProc EXCEPT !.pc = "ready", !.mem = Content].pc = "ready"
            BY DEF NoProc
        <3> QED
            BY <1>1, <2>1, <2>2, <3>1, ContentGood, NextStates, ProcessStepKeeps
    <2>3. CASE ~Parses
        BY <1>3, <2>1, <2>3
    <2> QED
        BY <2>2, <2>3
<1>6. CASE Add(p)
    <2>1. CASE Parses /\ CanAdd(Content, proc[p].account)
        <3>1. Keep(p, AddAccount(Content, proc[p].account)) /\ proc[p].pc = "load"
            BY <1>6, <2>1 DEF Add, PAt
        <3>2. Content \in Vaults /\ WellFormed(Content) /\ proc[p].account \in Accounts
            BY <2>1, <3>1, ContentGood, ProcessFields DEF GoodVaults
        <3>3. AddAccount(Content, proc[p].account) \in GoodVaults
            BY <2>1, <3>2, AddKeeps DEF GoodVaults
        <3> QED
            BY <3>1, <3>3, KeepKeeps
    <2>2. CASE ~(Parses /\ CanAdd(Content, proc[p].account))
        BY <1>1, <1>3, <1>6, <2>2 DEF Add, NoLogin
    <2> QED
        BY <2>1, <2>2
<1>7. CASE Use(p)
    <2>1. PICK n \in ShownNames(mem) : PAt(p, "ready") /\ Keep(p, SetActive(mem, FirstNamed(mem, n)))
        BY <1>7 DEF Use
    <2>2. SetActive(mem, FirstNamed(mem, n)) \in GoodVaults
        BY <1>2, FirstNamedShown, FieldEditKeeps DEF GoodVaults
    <2> QED
        BY <2>1, <2>2, KeepKeeps DEF PAt
<1>8. CASE LogoutCommand(p)
    <2>1. PICK ids : PAt(p, "ready") /\ Keep(p, RemoveAccounts(mem, ids))
        BY <1>8 DEF LogoutCommand, LogoutNames
    <2>2. RemoveAccounts(mem, ids) \in GoodVaults
        BY <1>2, RemoveKeeps DEF GoodVaults
    <2> QED
        BY <2>1, <2>2, KeepKeeps DEF PAt
<1>9. CASE Toggle(p)
    <2>1. PAt(p, "ready") /\ Keep(p, [mem EXCEPT !.auto = ~@])
        BY <1>9 DEF Toggle
    <2>2. [mem EXCEPT !.auto = ~mem.auto] \in GoodVaults
        <3>1. mem.auto = TRUE \/ mem.auto = FALSE
            BY <1>2, VaultFields
        <3> QED
            BY <1>2, <3>1, FieldEditKeeps DEF GoodVaults
    <2> QED
        BY <2>1, <2>2, KeepKeeps DEF PAt
<1>10. CASE Rotate(p)
    <2>1. PAt(p, "ready") /\ CanRotate(mem) /\ Keep(p, RotateNext(mem))
        BY <1>10 DEF Rotate
    <2>2. RotateNext(mem) \in GoodVaults
        BY <1>2, <2>1, RotateKeeps DEF GoodVaults
    <2> QED
        BY <2>1, <2>2, KeepKeeps DEF PAt
<1> QED
    BY <1>4, <1>5, <1>6, <1>7, <1>8, <1>9, <1>10

(* A callback with a wrong state. *)
LEMMA RefusedKeeps == ASSUME AccountInv, Refused PROVE AccountInv'
<1>1. PICK m \in posts : posts' = posts \ {m}
    BY DEF Refused
<1>2. NoDisk /\ UNCHANGED <<proc, commands>>
    BY DEF Refused
<1>3. DiskTyped'
    BY <1>2 DEF NoDisk, AccountInv, DiskTyped
<1>4. ProcessesTyped'
    BY <1>1, <1>2 DEF AccountInv, ProcessesTyped
<1>5. OneSaver'
    BY <1>2 DEF NoDisk, AccountInv, OneSaver, Saving, PAt
<1> QED
    BY <1>3, <1>4, <1>5 DEF AccountInv

(***************************************************************************)
(* The three system calls of a save                                        *)
(***************************************************************************)

(* There is an unused inode: no more are open than there are other         *)
(* processes, and one more is accounts.json.                               *)
LEMMA InodeIsFree ==
    ASSUME AccountInv, NEW p \in Processes, PAt(p, "create"), dir.tmp = NoFile
    PROVE  (CHOOSE j \in Unused : TRUE) \in Inodes \ {dir.file}
<1> DEFINE f == [q \in Processes |-> proc[q].fd]
           n == Cardinality(Processes)
           S == Inodes \ {dir.file}
<1>1. n \in Nat /\ Inodes = 1..(n + 1) /\ dir.file \in Inodes /\ NoFile \notin Inodes
    BY AccountAssumption, FS_CardinalityType DEF Inodes, AccountInv, DiskTyped
<1>2. IsFiniteSet(S) /\ Cardinality(S) >= n
    <2>1. 1 \in Int /\ n + 1 \in Int
        BY <1>1
    <2>2. IsFiniteSet(1..(n + 1)) /\ Cardinality(1..(n + 1)) = IF 1 > n + 1 THEN 0 ELSE (n + 1) - 1 + 1
        BY <2>1, FS_Interval
    <2> HIDE DEF n
    <2>3. IsFiniteSet(Inodes) /\ Cardinality(Inodes) = n + 1
        BY <1>1, <2>2
    <2>4. IsFiniteSet(S) /\ Cardinality(S) = Cardinality(Inodes) - 1
        BY <1>1, <2>3, FS_RemoveElement
    <2> QED
        BY <1>1, <2>3, <2>4
<1>3. f \in [Processes -> Int \union {NoFile}]
    <2>1. \A q \in Processes : proc[q].fd \in Inodes \union {NoFile}
        BY ProcessFields
    <2> HIDE DEF n
    <2> QED
        BY <1>1, <2>1
<1>4. PICK x \in S : \A q \in Processes \ {p} : f[q] # x
    <2> HIDE DEF f, S
    <2> QED
        BY <1>2, <1>3, SpareLeft
<1>5. proc[p].fd = NoFile
    BY ProcessFields DEF PAt
<1>6. x \in Unused
    BY <1>1, <1>4, <1>5 DEF Unused
<1>7. Unused \subseteq S
    BY DEF Unused
<1> QED
    BY <1>6, <1>7

(* fs::write opens the temporary file: a new one, or the one that is there,*)
(* cut to nothing.                                                         *)
LEMMA CreateKeeps == ASSUME AccountInv, NEW p \in Processes, Create(p) PROVE AccountInv'
<1> DEFINE i == IF dir.tmp = NoFile THEN CHOOSE j \in Unused : TRUE ELSE dir.tmp
           v == [proc[p] EXCEPT !.pc = "write", !.fd = i]
<1>1. /\ PAt(p, "create") /\ dir' = [dir EXCEPT !.tmp = i] /\ inode' = [inode EXCEPT ![i] = Blank]
      /\ PSet(p, v) /\ posts' = posts /\ commands' = commands
    BY DEF Create, NoLogin
<1>2. collided' = (collided \/ \E q \in Processes : Saving(q))
    BY Zenon DEF Create
<1>3. /\ dir \in [file : Inodes, tmp : Inodes \union {NoFile}] /\ dir.tmp # dir.file
      /\ inode \in [Inodes -> GoodVaults \union {Blank, Torn}]
    BY DEF AccountInv, DiskTyped
<1>4. i \in Inodes /\ i # dir.file /\ i # NoFile
    <2>1. CASE dir.tmp = NoFile
        BY <1>1, <2>1, InodeIsFree, AccountAssumption
    <2>2. CASE dir.tmp # NoFile
        BY <1>3, <2>2
    <2> QED
        BY <2>1, <2>2
<1> HIDE DEF i
<1>5. v \in ProcessStates /\ v.pc = "write" /\ v.fd = i
    BY <1>1, <1>4, ProcessFields DEF ProcessStates, ProcessRecord, PAt
<1> HIDE DEF v
<1>6. dir'.file = dir.file /\ dir'.tmp = i /\ dir' \in [file : Inodes, tmp : Inodes \union {NoFile}]
    BY <1>1, <1>3, <1>4
<1>7. inode' \in [Inodes -> GoodVaults \union {Blank, Torn}] /\ inode'[i] = Blank
      /\ \A j \in Inodes : j # i => inode'[j] = inode[j]
    BY <1>1, <1>3, <1>4
<1>8. proc' = [proc EXCEPT ![p] = v] /\ proc \in [Processes -> ProcessStates]
    BY <1>1 DEF PSet, AccountInv, ProcessesTyped
<1>9. DiskTyped'
    <2>1. collided' \in BOOLEAN
        BY <1>2, Zenon
    <2> QED
        BY <1>4, <1>6, <1>7, <2>1 DEF DiskTyped
<1>10. ProcessesTyped'
    BY <1>1, <1>5, <1>8 DEF AccountInv, ProcessesTyped
<1>11. OneSaver'
    <2> SUFFICES ASSUME ~collided'
                 PROVE  /\ inode'[dir'.file] \in GoodVaults
                        /\ \A q, r \in Processes : Saving(q)' /\ Saving(r)' => q = r
                        /\ \A q \in Processes :
                              /\ PAt(q, "write")' => proc'[q].fd = dir'.tmp /\ inode'[dir'.tmp] = Blank
                              /\ PAt(q, "rename")' => dir'.tmp # NoFile /\ inode'[dir'.tmp] = proc'[q].mem
        BY DEF OneSaver
    <2>1. ~collided /\ \A q \in Processes : proc[q].pc \notin {"write", "rename"}
        BY <1>2 DEF Saving
    <2>2. inode'[dir'.file] \in GoodVaults
        BY <1>3, <1>4, <1>6, <1>7, <2>1 DEF AccountInv, OneSaver
    <2>3. \A q \in Processes : proc'[q].pc \in {"write", "rename"} => q = p
        BY <1>8, <2>1
    <2>4. proc'[p] = v
        BY <1>8
    <2> QED
        BY <1>5, <1>6, <1>7, <2>2, <2>3, <2>4 DEF Saving, PAt
<1> QED
    BY <1>9, <1>10, <1>11 DEF AccountInv

(* The copy is written to it, perhaps over the rest of a longer text. *)
LEMMA SaveWriteKeeps == ASSUME AccountInv, NEW p \in Processes, Write(p) PROVE AccountInv'
<1>1. PICK rest \in BOOLEAN :
         /\ PAt(p, "write")
         /\ rest => inode[proc[p].fd] \notin {Blank, proc[p].mem}
         /\ inode' = [inode EXCEPT ![proc[p].fd] = IF rest THEN Torn ELSE proc[p].mem]
         /\ PSet(p, [proc[p] EXCEPT !.pc = "rename", !.fd = NoFile])
         /\ UNCHANGED <<dir, collided>>
         /\ NoLogin /\ UNCHANGED commands
    BY DEF Write
<1> DEFINE fd   == proc[p].fd
           text == IF rest THEN Torn ELSE proc[p].mem
           v    == [proc[p] EXCEPT !.pc = "rename", !.fd = NoFile]
<1>2. inode' = [inode EXCEPT ![fd] = text] /\ PSet(p, v) /\ posts' = posts /\ commands' = commands
    BY <1>1 DEF NoLogin
<1>3. fd \in Inodes /\ proc[p].mem \in GoodVaults
    BY <1>1, ProcessFields DEF PAt, GoodVaults
<1>4. text \in GoodVaults \union {Blank, Torn}
    BY <1>3
<1>5. v \in ProcessStates /\ v.pc = "rename" /\ v.mem = proc[p].mem
    BY <1>1, ProcessFields DEF ProcessStates, ProcessRecord, PAt
<1>6. proc' = [proc EXCEPT ![p] = v] /\ proc \in [Processes -> ProcessStates]
    BY <1>2 DEF PSet, AccountInv, ProcessesTyped
<1>7. /\ dir \in [file : Inodes, tmp : Inodes \union {NoFile}] /\ dir.tmp # dir.file
      /\ inode \in [Inodes -> GoodVaults \union {Blank, Torn}]
    BY DEF AccountInv, DiskTyped
<1> HIDE DEF v, text
<1>8. DiskTyped'
    <2>1. inode' \in [Inodes -> GoodVaults \union {Blank, Torn}]
        BY <1>2, <1>4, <1>7
    <2> QED
        BY <1>1, <1>7, <2>1 DEF AccountInv, DiskTyped
<1>9. ProcessesTyped'
    BY <1>1, <1>2, <1>5, <1>6 DEF AccountInv, ProcessesTyped
<1>10. OneSaver'
    <2> SUFFICES ASSUME ~collided
                 PROVE  /\ inode'[dir.file] \in GoodVaults
                        /\ \A q, r \in Processes : Saving(q)' /\ Saving(r)' => q = r
                        /\ \A q \in Processes :
                              /\ PAt(q, "write")' => proc'[q].fd = dir.tmp /\ inode'[dir.tmp] = Blank
                              /\ PAt(q, "rename")' => dir.tmp # NoFile /\ inode'[dir.tmp] = proc'[q].mem
        BY <1>1 DEF OneSaver
    <2>1. /\ inode[dir.file] \in GoodVaults /\ fd = dir.tmp /\ inode[dir.tmp] = Blank
          /\ \A q \in Processes : proc[q].pc \in {"write", "rename"} => q = p
        <3>1. Saving(p)
            BY <1>1 DEF PAt, Saving
        <3> QED
            BY <1>1, <3>1 DEF AccountInv, OneSaver, Saving
    <2>2. text = proc[p].mem
        BY <1>1, <2>1 DEF text
    <2>3. inode'[dir.tmp] = proc[p].mem /\ inode'[dir.file] = inode[dir.file] /\ dir.tmp # NoFile
        BY <1>2, <1>3, <1>7, <2>1, <2>2, AccountAssumption
    <2>4. \A q \in Processes : proc'[q].pc \in {"write", "rename"} => q = p
        BY <1>6, <2>1
    <2>5. proc'[p] = v
        BY <1>6
    <2> QED
        BY <1>5, <2>1, <2>3, <2>4, <2>5 DEF Saving, PAt
<1> QED
    BY <1>8, <1>9, <1>10 DEF AccountInv

(* accounts.json becomes what the temporary file is by now. *)
LEMMA RenameKeeps == ASSUME AccountInv, NEW p \in Processes, Rename(p) PROVE AccountInv'
<1>1. /\ PAt(p, "rename") /\ UNCHANGED <<inode, collided>> /\ PSet(p, NoProc)
      /\ posts' = posts /\ commands' = commands
      /\ dir' = IF dir.tmp = NoFile THEN dir ELSE [file |-> dir.tmp, tmp |-> NoFile]
    BY DEF Rename, NoLogin
<1>2. /\ dir \in [file : Inodes, tmp : Inodes \union {NoFile}] /\ dir.tmp # dir.file
      /\ inode \in [Inodes -> GoodVaults \union {Blank, Torn}] /\ proc[p].mem \in GoodVaults
    BY ProcessFields DEF AccountInv, DiskTyped, GoodVaults
<1>3. proc' = [proc EXCEPT ![p] = NoProc] /\ proc \in [Processes -> ProcessStates]
    BY <1>1 DEF PSet, AccountInv, ProcessesTyped
<1>4. DiskTyped'
    <2>1. dir' \in [file : Inodes, tmp : Inodes \union {NoFile}] /\ dir'.tmp # dir'.file
        BY <1>1, <1>2
    <2> QED
        BY <1>1, <2>1 DEF AccountInv, DiskTyped
<1>5. ProcessesTyped'
    BY <1>1, <1>3, NextStates DEF AccountInv, ProcessesTyped
<1>6. OneSaver'
    <2> SUFFICES ASSUME ~collided
                 PROVE  /\ inode[dir'.file] \in GoodVaults
                        /\ \A q \in Processes : proc'[q].pc \notin {"write", "rename"}
        BY <1>1 DEF OneSaver, Saving, PAt
    <2>1. /\ dir.tmp # NoFile /\ inode[dir.tmp] = proc[p].mem
          /\ \A q \in Processes : proc[q].pc \in {"write", "rename"} => q = p
        <3>1. Saving(p)
            BY <1>1 DEF PAt, Saving
        <3> QED
            BY <1>1, <3>1 DEF AccountInv, OneSaver, Saving
    <2> QED
        BY <1>1, <1>2, <1>3, <2>1, NextStates
<1> QED
    BY <1>4, <1>5, <1>6 DEF AccountInv

(* Every action keeps the invariant. *)
LEMMA AccountInductive == AccountInv /\ [AccountNext]_accountVars => AccountInv'
<1>1. ASSUME AccountInv, UNCHANGED accountVars PROVE AccountInv'
    BY <1>1 DEF AccountInv, accountVars, DiskTyped, ProcessesTyped, OneSaver, Saving, PAt
<1>2. ASSUME AccountInv, AccountNext PROVE AccountInv'
    BY <1>2, StartLoginKeeps, LoginStepsKeep, CommandStepsKeep, RefusedKeeps, CreateKeeps,
       SaveWriteKeeps, RenameKeeps DEF AccountNext
<1> QED
    BY <1>1, <1>2

(* The invariant of accounts.json. *)
LEMMA AccountInvariant == AccountSpec => []AccountInv
BY AccountInvInit, AccountInductive, PTL DEF AccountSpec

(* Wherever a process dies, accounts.json parses as long as no two saves   *)
(* were under way at once, since AccountStore.save writes a temporary file *)
(* and renames it; and what parses is a well-formed vault, however the     *)
(* saves overlapped.                                                       *)
THEOREM SavesAreAtomic == AccountSpec => []SaveAtomic
<1>1. AccountInv => SaveAtomic
    <2> SUFFICES ASSUME AccountInv PROVE SaveAtomic
        OBVIOUS
    <2>1. dir.file # NoFile
        BY AccountAssumption DEF AccountInv, DiskTyped
    <2>2. ~collided => Parses
        <3>1. Blank \notin GoodVaults /\ Torn \notin GoodVaults
            BY AccountAssumption DEF GoodVaults
        <3> QED
            BY <2>1, <3>1 DEF AccountInv, OneSaver, Parses, Content
    <2>3. Parses => WellFormed(Content)
        BY ContentGood DEF GoodVaults
    <2> QED
        BY <2>2, <2>3 DEF SaveAtomic
<1> QED
    BY <1>1, AccountInvariant, PTL

(* Distinct names stand for distinct accounts.                             *)
LEMMA AsManyAsNames ==
    ASSUME NEW v \in Vaults, NEW chosen \in SUBSET ShownNames(v)
    PROVE  LET gone == {FirstNamed(v, n) : n \in chosen}
           IN  /\ gone \subseteq Ids(v) /\ {NameOf[x] : x \in gone} = chosen
               /\ Cardinality(gone) = Cardinality(chosen)
<1> DEFINE gone == {FirstNamed(v, n) : n \in chosen}
           f == [n \in chosen |-> FirstNamed(v, n)]
           first == [i \in 1..Len(v.accounts) |-> NameOf[v.accounts[i]]]
<1>1. \A n \in chosen : FirstNamed(v, n) \in Ids(v) /\ NameOf[FirstNamed(v, n)] = n
    BY FirstNamedShown
<1>2. IsFiniteSet(chosen)
    <2>1. /\ v.accounts \in Seq(Accounts) /\ Len(v.accounts) \in Nat
          /\ DOMAIN v.accounts = 1..Len(v.accounts)
        BY VaultFields
    <2>2. first \in Surjection(1..Len(v.accounts), ShownNames(v))
        BY <2>1 DEF Surjection, ShownNames, Ids, ToSet
    <2>3. IsFiniteSet(1..Len(v.accounts))
        BY <2>1, FS_Interval
    <2>4. IsFiniteSet(ShownNames(v))
        BY <2>2, <2>3, FS_Surjection
    <2> QED
        BY <2>4, FS_Subset
<1>3. f \in Bijection(chosen, gone)
    <2>1. f \in [chosen -> gone] /\ \A x \in gone : \E n \in chosen : f[n] = x
        OBVIOUS
    <2>2. \A m, n \in chosen : f[m] = f[n] => m = n
        BY <1>1
    <2> HIDE DEF f, gone
    <2> QED
        BY <2>1, <2>2 DEF Bijection, Injection, IsInjective, Surjection
<1>4. Cardinality(gone) = Cardinality(chosen)
    <2> HIDE DEF f, gone
    <2> QED
        BY <1>2, <1>3, FS_Bijection DEF ExistsBijection
<1> QED
    BY <1>1, <1>4

(* A logout takes one account for each chosen name, one that goes by it,   *)
(* and no other, whatever names accounts share and whatever the other      *)
(* processes do (logout, AccountVault::remove).                            *)
THEOREM LogoutIsByName == AccountSpec => LogoutByName
<1> DEFINE Step ==
        \A p \in Processes : \A chosen \in SUBSET Names :
            chosen \subseteq ShownNames(proc[p].mem) /\ LogoutNames(p, chosen) =>
               LET gone == Ids(proc[p].mem) \ Ids(proc'[p].mem)
               IN  /\ {NameOf[x] : x \in gone} = chosen
                   /\ Cardinality(gone) = Cardinality(chosen)
<1>1. AccountInv => Step
    <2> SUFFICES ASSUME AccountInv, NEW p \in Processes, NEW chosen \in SUBSET Names,
                        chosen \subseteq ShownNames(proc[p].mem), LogoutNames(p, chosen)
                 PROVE  LET gone == Ids(proc[p].mem) \ Ids(proc'[p].mem)
                        IN  /\ {NameOf[x] : x \in gone} = chosen
                            /\ Cardinality(gone) = Cardinality(chosen)
        OBVIOUS
    <2> DEFINE mem  == proc[p].mem
               ids  == {FirstNamed(mem, n) : n \in chosen}
               left == RemoveAccounts(mem, ids)
    <2>1. mem \in Vaults /\ WellFormed(mem) /\ proc[p] \in ProcessRecord
        BY ProcessFields
    <2>2. ids \subseteq Ids(mem) /\ {NameOf[x] : x \in ids} = chosen /\ Cardinality(ids) = Cardinality(chosen)
        BY <2>1, AsManyAsNames
    <2>3. proc' = [proc EXCEPT ![p] = [proc[p] EXCEPT !.pc = "create", !.mem = left]]
        BY DEF LogoutNames, Keep, PSet
    <2> HIDE DEF left
    <2>4. [proc[p] EXCEPT !.pc = "create", !.mem = left].mem = left
        BY <2>1 DEF ProcessRecord
    <2>5. proc'[p].mem = left
        BY <2>3, <2>4 DEF AccountInv, ProcessesTyped
    <2>6. Ids(left) = Ids(mem) \ ids
        BY <2>1, RemoveKeeps DEF left
    <2>7. Ids(mem) \ Ids(proc'[p].mem) = ids
        BY <2>2, <2>5, <2>6
    <2> QED
        BY <2>2, <2>7
<1>2. AccountInv => [Step]_accountVars
    BY <1>1
<1>3. AccountSpec => [][Step]_accountVars
    BY <1>2, AccountInvariant, PTL
<1> QED
    BY <1>3 DEF LogoutByName

(* A callback becomes an account only with the state of the login that     *)
(* waits for it, also when two logins share a port.                        *)
THEOREM LoginAddsOwnAccount == AccountSpec => OwnAuthorisation
<1> DEFINE Step ==
        \A p \in Processes : \A m \in posts :
            PAt(p, "listen") /\ proc'[p].pc = "load" /\ posts' = posts \ {m} /\ m \notin posts' =>
               m.token = proc[p].token
<1>1. AccountInv /\ [AccountNext]_accountVars => Step
    <2> SUFFICES ASSUME AccountInv, [AccountNext]_accountVars, NEW p \in Processes, NEW m \in posts,
                        PAt(p, "listen"), proc'[p].pc = "load", posts' = posts \ {m}, m \notin posts'
                 PROVE  m.token = proc[p].token
        OBVIOUS
    <2>1. proc[p].pc = "listen" /\ posts' # posts /\ ~(posts \subseteq posts') /\ proc' # proc
        BY DEF PAt
    <2>2. ASSUME NEW q \in Processes, Callback(q) PROVE m.token = proc[p].token
        <3>1. PICK k \in posts : PSet(q, Answer(q, k)) /\ posts' = posts \ {k}
            BY <2>2 DEF Callback
        <3>2. k = m
            BY <3>1
        <3>3. proc \in [Processes -> ProcessStates] /\ proc' = [proc EXCEPT ![q] = Answer(q, m)]
            BY <3>1, <3>2 DEF PSet, AccountInv, ProcessesTyped
        <3>4. q = p /\ Answer(p, m).pc = "load"
            BY <2>1, <3>3
        <3> QED
            BY <2>1, <3>4 DEF Answer, NoProc
    <2>3. CASE UNCHANGED accountVars
        BY <2>1, <2>3 DEF accountVars
    <2>4. CASE Refused
        BY <2>1, <2>4 DEF Refused
    <2>5. ASSUME NEW q \in Processes, Authorise(q) PROVE FALSE
        BY <2>1, <2>5 DEF Authorise
    <2>6. ASSUME NEW q \in Processes,
                 \/ StartLogin(q) \/ Listen(q) \/ PasteKey(q) \/ GiveUp(q) \/ StartCommand(q) \/ Add(q)
                 \/ Use(q) \/ LogoutCommand(q) \/ Toggle(q) \/ Rotate(q) \/ Create(q) \/ Write(q)
                 \/ Rename(q) \/ Die(q)
          PROVE  FALSE
        <3>1. posts' = posts
            BY <2>6 DEF StartLogin, Listen, PasteKey, GiveUp, StartCommand, Add, Use, LogoutCommand,
                        LogoutNames, Toggle, Rotate, Create, Write, Rename, Die, Keep, NoLogin
        <3> QED
            BY <2>1, <3>1
    <2> QED
        BY <2>2, <2>3, <2>4, <2>5, <2>6 DEF AccountNext
<1>2. AccountSpec => [][Step]_accountVars
    BY <1>1, AccountInvariant, PTL DEF AccountSpec
<1> QED
    BY <1>2 DEF OwnAuthorisation

(***************************************************************************)
(* Admission: nothing slips through, and nothing goes uncounted            *)
(***************************************************************************)

AdmissionSpec == AdmissionInit /\ [][AdmissionNext]_admissionVars

Statuses == {0, 200, 204, 400, 401, 404, 413, 429, 500, 502, 504}
AdmissionRecord ==
    [pc : {"none", "route", "gate", "limit", "body", "model", "forward"}, dialect : Dialects,
     token : BOOLEAN, charged : BOOLEAN, length : Nat, listed : BOOLEAN, stream : BOOLEAN,
     forwarded : BOOLEAN, status : Statuses]

AdmissionTyped ==
    /\ policy \in [gate : BOOLEAN, limit : BOOLEAN, allowlist : BOOLEAN]
    /\ req \in [Connections -> AdmissionRecord]
    /\ served \in Seq(AdmissionRecord)
    /\ counters \in [Counted -> Nat]

(* What a request at a station of the handler has passed before it. *)
Passed(q) ==
    /\ q.status = 0 /\ q.length <= MaxBody
    /\ q.forwarded <=> q.pc = "forward"
    /\ q.pc \in {"none", "route", "gate", "limit"} => ~q.charged /\ q.length = 0
    /\ q.pc \in {"limit", "body", "model", "forward"} => (policy.gate => q.token)
    /\ q.pc \in {"body", "model", "forward"} => (q.charged <=> Charged)
    /\ q.pc \in {"model", "forward"} => q.length >= 1
    /\ q.pc = "forward" => (policy.allowlist => q.listed)

(* What OnlyAdmitted says of one request. *)
Admitted(q) ==
    /\ q.charged => policy.gate /\ q.token
    /\ q.forwarded =>
          /\ policy.gate => q.token
          /\ policy.gate /\ policy.limit => q.charged
          /\ policy.allowlist => q.listed
          /\ q.length \in 1..MaxBody
    /\ ~policy.gate => q.status \notin {401, 429}

AdmissionInv ==
    /\ AdmissionTyped
    /\ \A r \in Connections : Passed(req[r])
    /\ \A i \in DOMAIN served : Admitted(served[i])
    /\ Accounted

(* How many elements of a sequence are in T. *)
CountIn(s, T) == Cardinality({i \in DOMAIN s : s[i] \in T})

(* An appended element counts one if it is in T. *)
LEMMA CountAppend ==
    ASSUME NEW S, NEW s \in Seq(S), NEW x \in S, NEW T
    PROVE  /\ CountIn(s, T) \in Nat
           /\ CountIn(Append(s, x), T) = CountIn(s, T) + (IF x \in T THEN 1 ELSE 0)
<1> DEFINE r == Append(s, x)
           n == Len(s)
           A == {i \in DOMAIN s : s[i] \in T}
           B == {i \in DOMAIN r : r[i] \in T}
<1>1. /\ n \in Nat /\ DOMAIN s = 1..n /\ DOMAIN r = 1..(n + 1) /\ r[n + 1] = x
      /\ \A i \in 1..n : r[i] = s[i]
    BY AppendFacts
<1> HIDE DEF r, n
<1>2. IsFiniteSet(A) /\ n + 1 \notin A
    <2>1. IsFiniteSet(1..n)
        <3>1. 1 \in Int /\ n \in Int
            BY <1>1
        <3> QED
            BY <3>1, FS_Interval
    <2>2. A \subseteq 1..n
        BY <1>1
    <2>3. n + 1 \notin 1..n
        BY <1>1
    <2> HIDE DEF A
    <2>4. IsFiniteSet(A)
        BY <2>1, <2>2, FS_Subset
    <2> QED
        BY <2>2, <2>3, <2>4
<1>3. B = IF x \in T THEN A \union {n + 1} ELSE A
    BY <1>1
<1>4. Cardinality(A) \in Nat /\ Cardinality(A \union {n + 1}) = Cardinality(A) + 1
    <2> HIDE DEF A
    <2> QED
        BY <1>2, FS_AddElement, FS_CardinalityType
<1>5. CountIn(s, T) = Cardinality(A) /\ CountIn(r, T) = Cardinality(B)
    BY DEF CountIn
<1> HIDE DEF A, B
<1>6. CountIn(r, T) = CountIn(s, T) + (IF x \in T THEN 1 ELSE 0)
    BY <1>3, <1>4, <1>5
<1> QED
    BY <1>4, <1>5, <1>6 DEF r

Sent      == {q \in AdmissionRecord : q.forwarded}
TimedOut  == {q \in AdmissionRecord : q.status = 504}
Erroneous == {q \in AdmissionRecord : q.status >= 400}
Turned    == {q \in AdmissionRecord : ~q.forwarded /\ q.status \in {400, 404, 413}}
Upstream  == {r \in Connections : req[r].forwarded}

(* Accounted, of counters m, the answers s and n requests upstream. *)
Tally(m, s, n) ==
    /\ m.requests = m.stream + m.nonstream
    /\ m.requests = CountIn(s, Sent) + n
    /\ m.timeouts = CountIn(s, TimedOut)
    /\ m.errors = CountIn(s, Erroneous) + m.timeouts
    /\ m.bad + m.large + m.denied + m.unknown = CountIn(s, Turned)

(* Accounted is the tally of the counters, the answers and the requests    *)
(* that are upstream.                                                      *)
LEMMA AccountedAs ==
    served \in Seq(AdmissionRecord) => (Accounted <=> Tally(counters, served, Cardinality(Upstream)))
<1> SUFFICES ASSUME served \in Seq(AdmissionRecord)
             PROVE  Accounted <=> Tally(counters, served, Cardinality(Upstream))
    OBVIOUS
<1>1. \A i \in DOMAIN served : served[i] \in AdmissionRecord
    OBVIOUS
<1>2. {i \in DOMAIN served : served[i].forwarded} = {i \in DOMAIN served : served[i] \in Sent}
    BY <1>1 DEF Sent
<1>3. {i \in DOMAIN served : served[i].status = 504} = {i \in DOMAIN served : served[i] \in TimedOut}
    BY <1>1 DEF TimedOut
<1>4. {i \in DOMAIN served : served[i].status >= 400} = {i \in DOMAIN served : served[i] \in Erroneous}
    BY <1>1 DEF Erroneous
<1>5. {i \in DOMAIN served : ~served[i].forwarded /\ served[i].status \in {400, 404, 413}}
         = {i \in DOMAIN served : served[i] \in Turned}
    BY <1>1 DEF Turned
<1> QED
    BY <1>2, <1>3, <1>4, <1>5 DEF Accounted, Tally, Number, CountIn, Upstream

(* The same of the state after a step. *)
LEMMA AccountedAfter ==
    served' \in Seq(AdmissionRecord)
        => (Accounted' <=> Tally(counters', served', Cardinality({r \in Connections : req'[r].forwarded})))
<1>1. (served \in Seq(AdmissionRecord)
          => (Accounted <=> Tally(counters, served, Cardinality(Upstream))))'
    BY AccountedAs, PTL
<1> QED
    BY <1>1 DEF Upstream, Tally, Sent, TimedOut, Erroneous, Turned

(* A count is a number. *)
LEMMA CountIsNat ==
    ASSUME NEW S, NEW s \in Seq(S), NEW T
    PROVE  CountIn(s, T) \in Nat
<1>1. IsFiniteSet(DOMAIN s)
    <2>1. DOMAIN s = 1..Len(s) /\ Len(s) \in Nat
        OBVIOUS
    <2> QED
        BY <2>1, FS_Interval
<1>2. {i \in DOMAIN s : s[i] \in T} \subseteq DOMAIN s
    OBVIOUS
<1> QED
    BY <1>1, <1>2, FS_Subset, FS_CardinalityType DEF CountIn

(* Nothing was sent and nothing is counted at the start. *)
LEMMA AdmissionInvInit == AdmissionInit => AdmissionInv
<1> SUFFICES ASSUME AdmissionInit PROVE AdmissionInv
    OBVIOUS
<1>1. /\ policy \in [gate : BOOLEAN, limit : BOOLEAN, allowlist : BOOLEAN]
      /\ req = [r \in Connections |-> NoRequest] /\ served = << >>
      /\ counters = [c \in Counted |-> 0]
    BY DEF AdmissionInit
<1>2. NoRequest \in AdmissionRecord
    BY DEF NoRequest, AdmissionRecord, Dialects, Statuses
<1>3. AdmissionTyped
    BY <1>1, <1>2 DEF AdmissionTyped
<1>4. \A r \in Connections : Passed(req[r])
    BY <1>1, AdmissionAssumption DEF Passed, NoRequest
<1>5. Accounted
    <2>1. \A T : CountIn(<< >>, T) = 0
        <3>1. \A T : {i \in DOMAIN << >> : << >>[i] \in T} = {}
            OBVIOUS
        <3> QED
            BY <3>1, FS_EmptySet DEF CountIn
    <2>2. Upstream = {}
        BY <1>1 DEF Upstream, NoRequest
    <2>3. Cardinality(Upstream) = 0
        BY <2>2, FS_EmptySet
    <2>4. \A c \in Counted : counters[c] = 0
        BY <1>1
    <2>5. served \in Seq(AdmissionRecord)
        BY <1>1
    <2> HIDE DEF Upstream
    <2> QED
        BY <1>1, <2>1, <2>3, <2>4, <2>5, AccountedAs DEF Counted, Tally
<1> QED
    BY <1>1, <1>3, <1>4, <1>5 DEF AdmissionInv

(* What has passed the checks so far is admitted.                          *)
LEMMA PassedAdmitted ==
    ASSUME NEW q \in AdmissionRecord, Passed(q)
    PROVE  Admitted(q)
BY AdmissionAssumption DEF Passed, Admitted, Charged, AdmissionRecord

(* A request goes on: the answers and their numbers stay; the counters     *)
(* move only when it is sent upstream.                                     *)
LEMMA GoesKeeps ==
    ASSUME AdmissionInv, NEW r \in Connections, NEW v \in AdmissionRecord, Goes(r, v), Passed(v),
           policy' = policy, ~req[r].forwarded,
           counters' = IF v.forwarded THEN inc_request(counters, v.stream) ELSE counters
    PROVE  AdmissionInv'
<1>1. /\ req' = [req EXCEPT ![r] = v] /\ served' = served
      /\ req \in [Connections -> AdmissionRecord] /\ served \in Seq(AdmissionRecord)
      /\ counters \in [Counted -> Nat]
    BY DEF Goes, AdmissionInv, AdmissionTyped
<1>2. /\ \A c \in Counted : counters[c] \in Nat
      /\ counters' \in [Counted -> Nat]
      /\ v.forwarded => /\ counters'.requests = counters.requests + 1
                        /\ counters'.stream + counters'.nonstream = counters.stream + counters.nonstream + 1
      /\ ~v.forwarded => counters'.requests = counters.requests
                        /\ counters'.stream = counters.stream /\ counters'.nonstream = counters.nonstream
      /\ \A c \in Counted \ {"requests", "stream", "nonstream"} : counters'[c] = counters[c]
    <2>1. \A c \in Counted : counters[c] \in Nat
        BY <1>1
    <2>2. CASE v.forwarded
        <3> DEFINE cs == {"requests", IF v.stream THEN "stream" ELSE "nonstream"}
        <3>1. counters' = [c \in Counted |-> IF c \in cs THEN counters[c] + 1 ELSE counters[c]]
            BY <2>2 DEF inc_request, Inc
        <3>2. \A c \in Counted : counters'[c] = IF c \in cs THEN counters[c] + 1 ELSE counters[c]
            BY <3>1
        <3>3. counters' \in [Counted -> Nat]
            BY <2>1, <3>1
        <3>4. /\ counters'.requests = counters.requests + 1
              /\ counters'.stream = IF v.stream THEN counters.stream + 1 ELSE counters.stream
              /\ counters'.nonstream = IF v.stream THEN counters.nonstream ELSE counters.nonstream + 1
            BY <3>2 DEF Counted
        <3>5. counters.stream \in Nat /\ counters.nonstream \in Nat
            BY <2>1 DEF Counted
        <3>6. \A c \in Counted \ {"requests", "stream", "nonstream"} : counters'[c] = counters[c]
            BY <3>2
        <3>7. counters'.stream + counters'.nonstream = counters.stream + counters.nonstream + 1
            BY <3>4, <3>5
        <3> QED
            BY <2>1, <2>2, <3>3, <3>4, <3>6, <3>7
    <2>3. CASE ~v.forwarded
        BY <1>1, <2>1, <2>3
    <2> QED
        BY <2>2, <2>3
<1>3. AdmissionTyped'
    BY <1>1, <1>2 DEF AdmissionInv, AdmissionTyped
<1>4. \A s \in Connections : Passed(req[s])'
    <2>1. \A s \in Connections : Passed(req[s])
        BY DEF AdmissionInv
    <2>2. \A s \in Connections : Passed(req'[s])
        BY <1>1, <2>1
    <2> QED
        BY <2>2 DEF Passed, Charged
<1>5. \A i \in DOMAIN served' : Admitted(served[i])'
    BY <1>1 DEF AdmissionInv, Admitted
<1> DEFINE before == {s \in Connections : req[s].forwarded}
           after  == {s \in Connections : req'[s].forwarded}
<1>6. IsFiniteSet(before) /\ r \notin before
      /\ after = IF v.forwarded THEN before \union {r} ELSE before
    <2>1. before \subseteq Connections
        OBVIOUS
    <2>2. IsFiniteSet(before)
        BY <2>1, AdmissionAssumption, FS_Subset
    <2> QED
        BY <1>1, <2>2
<1>7. Tally(counters, served, Cardinality(before))
    BY <1>1, AccountedAs DEF AdmissionInv, Upstream
<1>8. Tally(counters', served, Cardinality(after))
    <2> HIDE DEF before, after
    <2>1. Cardinality(after) = Cardinality(before) + (IF v.forwarded THEN 1 ELSE 0) /\ Cardinality(before) \in Nat
        <3>1. Cardinality(before) \in Nat
            BY <1>6, FS_CardinalityType
        <3>2. Cardinality(before \union {r}) = Cardinality(before) + 1
            BY <1>6, FS_AddElement
        <3> QED
            BY <1>6, <3>1, <3>2
    <2>2. CountIn(served, Sent) \in Nat /\ counters.requests \in Nat
        BY <1>1, <1>2, CountIsNat DEF Counted
    <2>3. /\ counters'.timeouts = counters.timeouts /\ counters'.errors = counters.errors
          /\ counters'.bad = counters.bad /\ counters'.large = counters.large
          /\ counters'.denied = counters.denied /\ counters'.unknown = counters.unknown
        BY <1>2 DEF Counted
    <2>4. counters'.requests = counters'.stream + counters'.nonstream
        BY <1>2, <1>7 DEF Tally
    <2>5. counters'.requests = CountIn(served, Sent) + Cardinality(after)
        BY <1>2, <1>7, <2>1, <2>2 DEF Tally
    <2> QED
        BY <1>7, <2>3, <2>4, <2>5 DEF Tally
<1>9. Accounted'
    BY <1>1, <1>8, AccountedAfter
<1> QED
    BY <1>3, <1>4, <1>5, <1>9 DEF AdmissionInv

(* What is answered keeps what the request has shown on its way.           *)
Closing(q, status) ==
    [q EXCEPT !.status = status, !.pc = "none", !.dialect = "OpenAi", !.stream = FALSE]

(* The counters m are those of before and the answer q is given.           *)
CountedFor(m, q, status) ==
    /\ m.requests = counters.requests /\ m.stream = counters.stream
    /\ m.nonstream = counters.nonstream
    /\ m.timeouts = counters.timeouts + (IF status = 504 THEN 1 ELSE 0)
    /\ m.errors = counters.errors + (IF status >= 400 THEN 1 ELSE 0) + (IF status = 504 THEN 1 ELSE 0)
    /\ m.bad + m.large + m.denied + m.unknown
          = counters.bad + counters.large + counters.denied + counters.unknown
               + (IF ~q.forwarded /\ status \in {400, 404, 413} THEN 1 ELSE 0)

(* An answered request still shows what it passed. *)
LEMMA ClosingFields ==
    ASSUME NEW q \in AdmissionRecord, NEW status \in Statuses
    PROVE  /\ Closing(q, status) \in AdmissionRecord /\ Closing(q, status).status = status
           /\ Closing(q, status).token = q.token /\ Closing(q, status).charged = q.charged
           /\ Closing(q, status).length = q.length /\ Closing(q, status).listed = q.listed
           /\ Closing(q, status).forwarded = q.forwarded
BY DEF Closing, AdmissionRecord, Dialects

(* Every element of a longer sequence is one of before or the new one.     *)
LEMMA AppendEach ==
    ASSUME NEW S, NEW s \in Seq(S), NEW x \in S, NEW i \in DOMAIN Append(s, x)
    PROVE  Append(s, x)[i] = x \/ (i \in DOMAIN s /\ Append(s, x)[i] = s[i])
BY AppendFacts

(* A finite set less one element.                                          *)
LEMMA OneLess ==
    ASSUME NEW S, NEW x, IsFiniteSet(S)
    PROVE  /\ Cardinality(S) \in Nat /\ Cardinality(S \ {x}) \in Nat
           /\ Cardinality(S) = Cardinality(S \ {x}) + (IF x \in S THEN 1 ELSE 0)
<1>1. IsFiniteSet(S \ {x})
    BY FS_RemoveElement
<1>2. Cardinality(S) \in Nat /\ Cardinality(S \ {x}) \in Nat
    BY <1>1, FS_CardinalityType
<1>3. Cardinality(S \ {x}) = IF x \in S THEN Cardinality(S) - 1 ELSE Cardinality(S)
    BY FS_RemoveElement
<1> QED
    BY <1>2, <1>3

(* A request is answered: the answer is admitted, and the counters tell of *)
(* it and of nothing else.                                                 *)
LEMMA AnswersKeeps ==
    ASSUME AdmissionInv, NEW r \in Connections, NEW status \in Statuses, NEW m \in [Counted -> Nat],
           Answers(r, status, m), policy' = policy,
           ~policy.gate => status \notin {401, 429},
           CountedFor(m, req[r], status)
    PROVE  AdmissionInv'
<1> DEFINE q == req[r]
           a == Closing(q, status)
<1>1. /\ req' = [req EXCEPT ![r] = NoRequest] /\ served' = Append(served, a) /\ counters' = m
      /\ req \in [Connections -> AdmissionRecord] /\ served \in Seq(AdmissionRecord)
      /\ counters \in [Counted -> Nat] /\ q \in AdmissionRecord /\ Passed(q)
    BY DEF Answers, Closing, AdmissionInv, AdmissionTyped
<1>2. NoRequest \in AdmissionRecord /\ Passed(NoRequest) /\ ~NoRequest.forwarded
    BY AdmissionAssumption DEF NoRequest, AdmissionRecord, Dialects, Statuses, Passed
<1> HIDE DEF q
<1>3. /\ a \in AdmissionRecord /\ a.status = status
      /\ a.token = q.token /\ a.charged = q.charged /\ a.length = q.length
      /\ a.listed = q.listed /\ a.forwarded = q.forwarded
    BY <1>1, ClosingFields
<1> HIDE DEF a
<1>4. Admitted(a)
    <2>1. Admitted(q)
        BY <1>1, PassedAdmitted
    <2> QED
        BY <1>3, <2>1 DEF Admitted
<1>5. AdmissionTyped'
    <2>1. a \in AdmissionRecord /\ NoRequest \in AdmissionRecord
        BY <1>2, <1>3
    <2>2. served' \in Seq(AdmissionRecord)
        BY <1>1, <2>1
    <2>3. req' \in [Connections -> AdmissionRecord]
        BY <1>1, <2>1
    <2> QED
        BY <1>1, <2>2, <2>3 DEF AdmissionInv, AdmissionTyped
<1>6. \A s \in Connections : Passed(req[s])'
    <2>1. \A s \in Connections : Passed(req[s])
        BY DEF AdmissionInv
    <2>2. \A s \in Connections : Passed(req'[s])
        <3>1. \A s \in Connections : req'[s] = IF s = r THEN NoRequest ELSE req[s]
            BY <1>1
        <3> QED
            BY <1>2, <2>1, <3>1
    <2> QED
        BY <2>2 DEF Passed, Charged
<1>7. \A i \in DOMAIN served' : Admitted(served[i])'
    <2>1. \A i \in DOMAIN served : Admitted(served[i])
        BY DEF AdmissionInv
    <2>2. \A i \in DOMAIN served' : Admitted(served'[i])
        <3>1. ASSUME NEW i \in DOMAIN Append(served, a) PROVE Admitted(Append(served, a)[i])
            <4>1. Append(served, a)[i] = a \/ (i \in DOMAIN served /\ Append(served, a)[i] = served[i])
                <5>1. \A s \in Seq(AdmissionRecord), x \in AdmissionRecord : \A j \in DOMAIN Append(s, x) :
                         Append(s, x)[j] = x \/ (j \in DOMAIN s /\ Append(s, x)[j] = s[j])
                    BY AppendEach
                <5> QED
                    BY <1>1, <1>3, <5>1
            <4> QED
                BY <1>4, <2>1, <4>1
        <3> QED
            BY <1>1, <3>1
    <2> QED
        BY <2>2 DEF Admitted
<1> DEFINE before == {s \in Connections : req[s].forwarded}
           after  == {s \in Connections : req'[s].forwarded}
<1>8. IsFiniteSet(before) /\ after = before \ {r} /\ (r \in before <=> q.forwarded)
    <2>1. before \subseteq Connections
        OBVIOUS
    <2>2. IsFiniteSet(before)
        BY <2>1, AdmissionAssumption, FS_Subset
    <2>3. \A s \in Connections : req'[s] = IF s = r THEN NoRequest ELSE req[s]
        BY <1>1
    <2>4. after = before \ {r}
        BY <1>2, <2>3
    <2>5. r \in before <=> q.forwarded
        BY DEF q
    <2> QED
        BY <2>2, <2>4, <2>5
<1>9. Tally(counters, served, Cardinality(before))
    BY <1>1, AccountedAs DEF AdmissionInv, Upstream
<1>10. Tally(m, served', Cardinality(after))
    <2> HIDE DEF before, after
    <2>1. Cardinality(before) = Cardinality(after) + (IF q.forwarded THEN 1 ELSE 0)
          /\ Cardinality(before) \in Nat /\ Cardinality(after) \in Nat
        BY <1>8, OneLess
    <2>2. \A T : CountIn(served, T) \in Nat /\ CountIn(served', T) = CountIn(served, T) + (IF a \in T THEN 1 ELSE 0)
        <3>1. served \in Seq(AdmissionRecord) /\ a \in AdmissionRecord /\ served' = Append(served, a)
            BY <1>1, <1>3
        <3>2. \A T : CountIn(served, T) \in Nat
                      /\ CountIn(Append(served, a), T) = CountIn(served, T) + (IF a \in T THEN 1 ELSE 0)
            <4>1. \A s \in Seq(AdmissionRecord), x \in AdmissionRecord : \A T :
                     /\ CountIn(s, T) \in Nat
                     /\ CountIn(Append(s, x), T) = CountIn(s, T) + (IF x \in T THEN 1 ELSE 0)
                BY CountAppend
            <4> QED
                BY <3>1, <4>1
        <3> QED
            BY <3>1, <3>2
    <2>3. /\ CountIn(served', Sent) = CountIn(served, Sent) + (IF q.forwarded THEN 1 ELSE 0)
          /\ CountIn(served', TimedOut) = CountIn(served, TimedOut) + (IF status = 504 THEN 1 ELSE 0)
          /\ CountIn(served', Erroneous) = CountIn(served, Erroneous) + (IF status >= 400 THEN 1 ELSE 0)
          /\ CountIn(served', Turned)
                = CountIn(served, Turned) + (IF ~q.forwarded /\ status \in {400, 404, 413} THEN 1 ELSE 0)
        <3>1. /\ a \in Sent <=> q.forwarded
              /\ a \in TimedOut <=> status = 504
              /\ a \in Erroneous <=> status >= 400
              /\ a \in Turned <=> (~q.forwarded /\ status \in {400, 404, 413})
            BY <1>3 DEF Sent, TimedOut, Erroneous, Turned
        <3> QED
            BY <2>2, <3>1
    <2>4. \A c \in Counted : counters[c] \in Nat
        BY <1>1
    <2> USE DEF CountedFor
    <2>5. m.requests = CountIn(served', Sent) + Cardinality(after)
        BY <1>9, <2>1, <2>2, <2>3 DEF Tally
    <2>6. m.timeouts = CountIn(served', TimedOut)
        BY <1>9, <2>3 DEF Tally
    <2>7. m.errors = CountIn(served', Erroneous) + m.timeouts
        <3>1. CountIn(served, Erroneous) \in Nat /\ counters.timeouts \in Nat
            BY <2>2, <2>4 DEF Counted
        <3>2. (IF status >= 400 THEN 1 ELSE 0) \in Nat /\ (IF status = 504 THEN 1 ELSE 0) \in Nat
            OBVIOUS
        <3> QED
            BY <1>9, <2>3, <3>1, <3>2 DEF Tally
    <2>8. m.bad + m.large + m.denied + m.unknown = CountIn(served', Turned)
        BY <1>9, <2>3 DEF Tally, q
    <2> QED
        BY <1>9, <2>5, <2>6, <2>7, <2>8 DEF Tally
<1>11. Accounted'
    BY <1>1, <1>5, <1>10, AccountedAfter DEF AdmissionTyped
<1> QED
    BY <1>5, <1>6, <1>7, <1>11 DEF AdmissionInv

(* What a refusal of a kind of its own, an error and a failure upstream    *)
(* count.                                                                  *)
LEMMA Increments ==
    ASSUME counters \in [Counted -> Nat], NEW q
    PROVE  /\ \A kind \in {"bad", "large", "denied", "unknown"} : \A status \in {400, 404, 413} :
                 ~q.forwarded => /\ inc_kind(counters, kind) \in [Counted -> Nat]
                                 /\ CountedFor(inc_kind(counters, kind), q, status)
           /\ \A status \in {401, 429, 500, 502} :
                 /\ inc_error(counters) \in [Counted -> Nat]
                 /\ CountedFor(inc_error(counters), q, status)
           /\ \A status \in {200, 204} : CountedFor(counters, q, status)
           /\ inc_kind(inc_error(counters), "timeouts") \in [Counted -> Nat]
           /\ CountedFor(inc_kind(inc_error(counters), "timeouts"), q, 504)
<1>1. \A c \in Counted : counters[c] \in Nat
    OBVIOUS
<1> DEFINE e == inc_error(counters)
<1>2. e = [c \in Counted |-> IF c = "errors" THEN counters[c] + 1 ELSE counters[c]]
    BY DEF inc_error, Inc
<1>3. e \in [Counted -> Nat]
    BY <1>1, <1>2
<1> HIDE DEF e
<1>4. /\ counters.errors \in Nat /\ counters.timeouts \in Nat /\ counters.bad \in Nat
      /\ counters.large \in Nat /\ counters.denied \in Nat /\ counters.unknown \in Nat
    BY <1>1 DEF Counted
<1>5. /\ e.errors = counters.errors + 1 /\ e.timeouts = counters.timeouts
      /\ e.bad = counters.bad /\ e.large = counters.large /\ e.denied = counters.denied
      /\ e.unknown = counters.unknown /\ e.requests = counters.requests
      /\ e.stream = counters.stream /\ e.nonstream = counters.nonstream
    BY <1>2 DEF Counted
<1>6. ASSUME NEW kind \in {"bad", "large", "denied", "unknown"}, NEW status \in {400, 404, 413},
             ~q.forwarded
      PROVE  /\ inc_kind(counters, kind) \in [Counted -> Nat]
             /\ CountedFor(inc_kind(counters, kind), q, status)
    <2> DEFINE m == inc_kind(counters, kind)
    <2>1. m = [c \in Counted |-> IF c \in {kind, "errors"} THEN counters[c] + 1 ELSE counters[c]]
        BY DEF inc_kind, inc_error, Inc
    <2>2. m \in [Counted -> Nat]
        BY <1>1, <2>1
    <2> HIDE DEF m
    <2>3. /\ m.errors = counters.errors + 1 /\ m.timeouts = counters.timeouts
          /\ m.requests = counters.requests
          /\ m.stream = counters.stream /\ m.nonstream = counters.nonstream
        BY <2>1 DEF Counted
    <2>4. m.bad + m.large + m.denied + m.unknown
             = counters.bad + counters.large + counters.denied + counters.unknown + 1
        <3>1. CASE kind = "bad"
            BY <1>4, <2>1, <3>1 DEF Counted
        <3>2. CASE kind = "large"
            BY <1>4, <2>1, <3>2 DEF Counted
        <3>3. CASE kind = "denied"
            BY <1>4, <2>1, <3>3 DEF Counted
        <3>4. CASE kind = "unknown"
            BY <1>4, <2>1, <3>4 DEF Counted
        <3> QED
            BY <3>1, <3>2, <3>3, <3>4
    <2>5. CountedFor(m, q, status)
        BY <1>4, <1>6, <2>3, <2>4 DEF CountedFor
    <2> QED
        BY <2>2, <2>5 DEF m
<1>7. \A status \in {401, 429, 500, 502} : CountedFor(e, q, status)
    BY <1>4, <1>5 DEF CountedFor
<1>8. \A status \in {200, 204} : CountedFor(counters, q, status)
    BY <1>4 DEF CountedFor
<1> DEFINE t == inc_kind(e, "timeouts")
<1>9. /\ t \in [Counted -> Nat]
      /\ CountedFor(t, q, 504)
    <2>1. t = [c \in Counted |-> IF c \in {"timeouts", "errors"} THEN e[c] + 1 ELSE e[c]]
        BY DEF inc_kind, inc_error, Inc
    <2>2. t \in [Counted -> Nat]
        BY <1>3, <2>1
    <2> HIDE DEF t
    <2>3. /\ t.errors = e.errors + 1 /\ t.timeouts = e.timeouts + 1 /\ t.requests = e.requests
          /\ t.stream = e.stream /\ t.nonstream = e.nonstream
          /\ t.bad = e.bad /\ t.large = e.large /\ t.denied = e.denied /\ t.unknown = e.unknown
        BY <2>1 DEF Counted
    <2>4. CountedFor(t, q, 504)
        BY <1>4, <1>5, <2>3 DEF CountedFor
    <2> QED
        BY <2>2, <2>4
<1> HIDE DEF t
<1> QED
    BY <1>3, <1>6, <1>7, <1>8, <1>9 DEF e, t

(* A request goes on without being sent, or is answered, with the counters *)
(* a refusal, an error, or an answer that is none moves.                   *)
LEMMA AcceptKeeps == ASSUME AdmissionInv, NEW r \in Connections, Accept(r) PROVE AdmissionInv'
<1> DEFINE v == [NoRequest EXCEPT !.pc = "route"]
<1>1. Goes(r, v) /\ policy' = policy /\ counters' = counters /\ req[r].pc = "none"
    BY DEF Accept, RAt
<1>2. v \in AdmissionRecord /\ Passed(v) /\ ~v.forwarded
    <2>1. /\ NoRequest \in AdmissionRecord /\ ~NoRequest.charged /\ NoRequest.length = 0
          /\ ~NoRequest.forwarded /\ NoRequest.status = 0
        BY DEF NoRequest, AdmissionRecord, Dialects, Statuses
    <2>2. /\ v \in AdmissionRecord /\ v.pc = "route" /\ ~v.charged /\ v.length = 0
          /\ ~v.forwarded /\ v.status = 0
        BY <2>1 DEF AdmissionRecord
    <2> HIDE DEF v
    <2> QED
        BY <2>2, AdmissionAssumption DEF Passed
<1>3. ~req[r].forwarded
    BY <1>1 DEF AdmissionInv, Passed
<1> HIDE DEF v
<1> QED
    BY <1>1, <1>2, <1>3, GoesKeeps

(* A refusal of a kind of its own, of a request that was not sent. *)
LEMMA RefusesKeeps ==
    ASSUME AdmissionInv, NEW r \in Connections, NEW kind \in {"bad", "large", "denied", "unknown"},
           NEW status \in {400, 404, 413}, Refuses(r, status, kind), policy' = policy,
           ~req[r].forwarded
    PROVE  AdmissionInv'
<1>1. counters \in [Counted -> Nat]
    BY DEF AdmissionInv, AdmissionTyped
<1>2. Answers(r, status, inc_kind(counters, kind))
    BY DEF Refuses
<1>3. /\ status \in Statuses /\ status \notin {401, 429}
      /\ inc_kind(counters, kind) \in [Counted -> Nat]
      /\ CountedFor(inc_kind(counters, kind), req[r], status)
    BY <1>1, Increments DEF Statuses
<1> QED
    BY <1>2, <1>3, AnswersKeeps

(* OPTIONS, the open paths, the dialects, and what is no route. *)
LEMMA RouteKeeps == ASSUME AdmissionInv, NEW r \in Connections, Route(r) PROVE AdmissionInv'
<1>1. PICK path \in Paths, method \in {"GET", "POST", "OPTIONS"} :
        /\ RAt(r, "route")
        /\ CASE method = "OPTIONS" -> Answers(r, 204, counters)
             [] method = "GET" /\ path \in OpenPaths -> Answers(r, 200, counters)
             [] method = "POST" /\ path \in ChatPaths ->
                   /\ Goes(r, [req[r] EXCEPT !.pc = "gate", !.dialect = DetectFrontend(path),
                                  !.stream = path = "models/m:streamGenerateContent"])
                   /\ UNCHANGED counters
             [] OTHER -> Refuses(r, 404, "unknown")
        /\ UNCHANGED <<policy, room>>
    BY DEF Route
<1>2. /\ req[r].pc = "route" /\ req[r] \in AdmissionRecord /\ Passed(req[r])
      /\ counters \in [Counted -> Nat] /\ policy' = policy /\ ~req[r].forwarded
    BY <1>1 DEF RAt, AdmissionInv, AdmissionTyped, Passed
<1> DEFINE v == [req[r] EXCEPT !.pc = "gate", !.dialect = DetectFrontend(path),
                               !.stream = path = "models/m:streamGenerateContent"]
<1>3. \/ Answers(r, 204, counters)
      \/ Answers(r, 200, counters)
      \/ Goes(r, v) /\ UNCHANGED counters
      \/ Refuses(r, 404, "unknown")
    BY <1>1
<1>4. v \in AdmissionRecord /\ Passed(v) /\ ~v.forwarded
    <2>1. DetectFrontend(path) \in Dialects
        BY DEF DetectFrontend, Dialects
    <2> HIDE DEF DetectFrontend
    <2>2. (path = "models/m:streamGenerateContent") \in BOOLEAN
        OBVIOUS
    <2>3. v \in AdmissionRecord
        BY <1>2, <2>1, <2>2 DEF AdmissionRecord
    <2>4. /\ v.pc = "gate" /\ v.token = req[r].token /\ v.charged = req[r].charged
          /\ v.length = req[r].length /\ v.listed = req[r].listed
          /\ v.forwarded = req[r].forwarded /\ v.status = req[r].status
        BY <1>2 DEF AdmissionRecord
    <2> HIDE DEF v
    <2>5. Passed(v)
        BY <1>2, <2>4 DEF Passed
    <2> QED
        BY <1>2, <2>3, <2>4, <2>5
<1> HIDE DEF v
<1>5. CASE Goes(r, v) /\ UNCHANGED counters
    BY <1>2, <1>4, <1>5, GoesKeeps
<1>6. ASSUME NEW status \in {200, 204}, Answers(r, status, counters) PROVE AdmissionInv'
    <2>1. status \in Statuses /\ status \notin {401, 429} /\ CountedFor(counters, req[r], status)
        BY <1>2, Increments DEF Statuses
    <2> QED
        BY <1>2, <1>6, <2>1, AnswersKeeps
<1>7. CASE Refuses(r, 404, "unknown")
    BY <1>2, <1>7, RefusesKeeps
<1> QED
    BY <1>3, <1>5, <1>6, <1>7

(* An error without a kind; 401 and 429 only where there is a gate. *)
LEMMA ErrorKeeps ==
    ASSUME AdmissionInv, NEW r \in Connections, NEW status \in {401, 429, 500, 502},
           Error(r, status), policy' = policy, ~policy.gate => status \notin {401, 429}
    PROVE  AdmissionInv'
<1>1. counters \in [Counted -> Nat]
    BY DEF AdmissionInv, AdmissionTyped
<1>2. Answers(r, status, inc_error(counters))
    BY DEF Error
<1>3. /\ status \in Statuses /\ inc_error(counters) \in [Counted -> Nat]
      /\ CountedFor(inc_error(counters), req[r], status)
    BY <1>1, Increments DEF Statuses
<1> QED
    BY <1>2, <1>3, AnswersKeeps

(* The incoming token. *)
LEMMA GateKeeps == ASSUME AdmissionInv, NEW r \in Connections, Gate(r) PROVE AdmissionInv'
<1>1. PICK token \in BOOLEAN :
        /\ RAt(r, "gate")
        /\ IF policy.gate /\ ~token THEN Error(r, 401)
           ELSE Goes(r, [req[r] EXCEPT !.pc = "limit", !.token = token]) /\ UNCHANGED counters
        /\ UNCHANGED <<policy, room>>
    BY DEF Gate
<1>2. /\ req[r].pc = "gate" /\ req[r] \in AdmissionRecord /\ Passed(req[r])
      /\ policy' = policy /\ ~req[r].forwarded
    BY <1>1 DEF RAt, AdmissionInv, AdmissionTyped, Passed
<1> DEFINE v == [req[r] EXCEPT !.pc = "limit", !.token = token]
<1>3. CASE policy.gate /\ ~token
    <2>1. Error(r, 401)
        BY <1>1, <1>3
    <2> QED
        BY <1>2, <1>3, <2>1, ErrorKeeps
<1>4. CASE ~(policy.gate /\ ~token)
    <2>1. Goes(r, v) /\ counters' = counters
        BY <1>1, <1>4
    <2>2. /\ v \in AdmissionRecord /\ v.pc = "limit" /\ v.token = token
          /\ v.charged = req[r].charged /\ v.length = req[r].length
          /\ v.forwarded = req[r].forwarded /\ v.status = req[r].status
        BY <1>2 DEF AdmissionRecord
    <2> HIDE DEF v
    <2>3. Passed(v) /\ ~v.forwarded
        BY <1>2, <1>4, <2>2 DEF Passed
    <2> QED
        BY <1>2, <2>1, <2>2, <2>3, GoesKeeps
<1> QED
    BY <1>3, <1>4

(* The window, which without a gate is nobody's. *)
LEMMA LimitKeeps == ASSUME AdmissionInv, NEW r \in Connections, Limit(r) PROVE AdmissionInv'
<1>2. /\ req[r].pc = "limit" /\ req[r] \in AdmissionRecord /\ Passed(req[r])
      /\ policy' = policy /\ ~req[r].forwarded
    BY DEF Limit, RAt, AdmissionInv, AdmissionTyped, Passed
<1> DEFINE v == [req[r] EXCEPT !.pc = "body", !.charged = Charged]
<1>3. CASE Charged /\ room = 0
    <2>1. Error(r, 429) /\ policy.gate
        BY <1>3 DEF Limit, Charged
    <2> QED
        BY <1>2, <2>1, ErrorKeeps
<1>4. CASE ~(Charged /\ room = 0)
    <2>1. Goes(r, v) /\ counters' = counters
        BY <1>4 DEF Limit
    <2>2. policy \in [gate : BOOLEAN, limit : BOOLEAN, allowlist : BOOLEAN]
        BY DEF AdmissionInv, AdmissionTyped
    <2>3. Charged \in BOOLEAN
        BY <2>2 DEF Charged
    <2>4. /\ v \in AdmissionRecord /\ v.pc = "body" /\ v.token = req[r].token
          /\ v.charged = Charged /\ v.length = req[r].length
          /\ v.forwarded = req[r].forwarded /\ v.status = req[r].status
        BY <1>2, <2>3 DEF AdmissionRecord
    <2> HIDE DEF v
    <2>5. Passed(v) /\ ~v.forwarded
        BY <1>2, <2>4 DEF Passed
    <2> QED
        BY <1>2, <2>1, <2>4, <2>5, GoesKeeps
<1> QED
    BY <1>3, <1>4

(* A chunk of the body; one too many is refused before it is kept. *)
LEMMA ReadChunkKeeps == ASSUME AdmissionInv, NEW r \in Connections, ReadChunk(r) PROVE AdmissionInv'
<1>2. /\ req[r].pc = "body" /\ req[r] \in AdmissionRecord /\ Passed(req[r])
      /\ policy' = policy /\ ~req[r].forwarded
    BY DEF ReadChunk, RAt, AdmissionInv, AdmissionTyped, Passed
<1> DEFINE v == [req[r] EXCEPT !.length = @ + 1]
<1>3. CASE TooLarge(r)
    <2>1. Refuses(r, 413, "large")
        BY <1>3 DEF ReadChunk
    <2> QED
        BY <1>2, <2>1, RefusesKeeps
<1>4. CASE ~TooLarge(r)
    <2>1. Goes(r, v) /\ counters' = counters
        BY <1>4 DEF ReadChunk
    <2>2. req[r].length \in Nat
        BY <1>2 DEF AdmissionRecord
    <2>3. /\ v \in AdmissionRecord /\ v.pc = "body" /\ v.token = req[r].token
          /\ v.charged = req[r].charged /\ v.length = req[r].length + 1
          /\ v.forwarded = req[r].forwarded /\ v.status = req[r].status
        BY <1>2, <2>2 DEF AdmissionRecord
    <2> HIDE DEF v
    <2>4. v.length <= MaxBody
        BY <1>4, <2>2, <2>3, AdmissionAssumption DEF TooLarge
    <2>5. Passed(v) /\ ~v.forwarded
        BY <1>2, <2>3, <2>4 DEF Passed
    <2> QED
        BY <1>2, <2>1, <2>3, <2>5, GoesKeeps
<1> QED
    BY <1>3, <1>4

(* The body is a request, of a length that is not zero, or refused. *)
LEMMA EndBodyKeeps == ASSUME AdmissionInv, NEW r \in Connections, EndBody(r) PROVE AdmissionInv'
<1>1. PICK defect \in {"none", "json", "shape", "empty", "unknown"}, stream \in BOOLEAN :
        /\ RAt(r, "body")
        /\ defect = "empty" => req[r].dialect \in {"Gemini", "Ollama"}
        /\ defect = "unknown" => req[r].dialect = "Responses"
        /\ req[r].length = 0 => defect = "json"
        /\ IF defect = "none"
           THEN /\ Goes(r, [req[r] EXCEPT !.pc = "model",
                               !.stream = IF req[r].dialect = "Gemini" THEN @ ELSE stream])
                /\ UNCHANGED counters
           ELSE Refuses(r, IF defect = "unknown" THEN 404 ELSE 400, "bad")
        /\ UNCHANGED <<policy, room>>
    BY DEF EndBody
<1>2. /\ req[r].pc = "body" /\ req[r] \in AdmissionRecord /\ Passed(req[r])
      /\ policy' = policy /\ ~req[r].forwarded
    BY <1>1 DEF RAt, AdmissionInv, AdmissionTyped, Passed
<1> DEFINE v == [req[r] EXCEPT !.pc = "model", !.stream = IF req[r].dialect = "Gemini" THEN @ ELSE stream]
<1>3. CASE defect = "none"
    <2>1. Goes(r, v) /\ counters' = counters /\ req[r].length # 0
        BY <1>1, <1>3
    <2>2. req[r].length \in Nat /\ req[r].stream \in BOOLEAN
        BY <1>2 DEF AdmissionRecord
    <2>3. /\ v \in AdmissionRecord /\ v.pc = "model" /\ v.token = req[r].token
          /\ v.charged = req[r].charged /\ v.length = req[r].length
          /\ v.forwarded = req[r].forwarded /\ v.status = req[r].status
        BY <1>2, <2>2 DEF AdmissionRecord
    <2> HIDE DEF v
    <2>4. Passed(v) /\ ~v.forwarded
        BY <1>2, <2>1, <2>2, <2>3 DEF Passed
    <2> QED
        BY <1>2, <2>1, <2>3, <2>4, GoesKeeps
<1>4. CASE defect # "none"
    <2>1. Refuses(r, 404, "bad") \/ Refuses(r, 400, "bad")
        BY <1>1, <1>4
    <2> QED
        BY <1>2, <2>1, RefusesKeeps
<1> QED
    BY <1>3, <1>4

(* The allowlist; from here on the request counts as sent. *)
LEMMA ModelKeeps == ASSUME AdmissionInv, NEW r \in Connections, Model(r) PROVE AdmissionInv'
<1>1. PICK listed \in BOOLEAN :
        /\ RAt(r, "model")
        /\ IF policy.allowlist /\ ~listed THEN Refuses(r, 400, "denied")
           ELSE /\ Goes(r, [req[r] EXCEPT !.pc = "forward", !.listed = listed, !.forwarded = TRUE])
                /\ counters' = inc_request(counters, req[r].stream)
        /\ UNCHANGED <<policy, room>>
    BY DEF Model
<1>2. /\ req[r].pc = "model" /\ req[r] \in AdmissionRecord /\ Passed(req[r])
      /\ policy' = policy /\ ~req[r].forwarded
    BY <1>1 DEF RAt, AdmissionInv, AdmissionTyped, Passed
<1> DEFINE v == [req[r] EXCEPT !.pc = "forward", !.listed = listed, !.forwarded = TRUE]
<1>3. CASE policy.allowlist /\ ~listed
    <2>1. Refuses(r, 400, "denied")
        BY <1>1, <1>3
    <2> QED
        BY <1>2, <2>1, RefusesKeeps
<1>4. CASE ~(policy.allowlist /\ ~listed)
    <2>1. Goes(r, v) /\ counters' = inc_request(counters, req[r].stream)
        BY <1>1, <1>4
    <2>2. /\ v \in AdmissionRecord /\ v.pc = "forward" /\ v.token = req[r].token
          /\ v.charged = req[r].charged /\ v.length = req[r].length /\ v.listed = listed
          /\ v.stream = req[r].stream /\ v.forwarded /\ v.status = req[r].status
        BY <1>2 DEF AdmissionRecord
    <2> HIDE DEF v
    <2>3. Passed(v)
        BY <1>2, <1>4, <2>2 DEF Passed
    <2>4. counters' = IF v.forwarded THEN inc_request(counters, v.stream) ELSE counters
        BY <2>1, <2>2
    <2> QED
        BY <1>2, <2>1, <2>2, <2>3, <2>4, GoesKeeps
<1> QED
    BY <1>3, <1>4

(* The upstream's answer; a timeout counts as two errors. *)
LEMMA ForwardKeeps == ASSUME AdmissionInv, NEW r \in Connections, Forward(r) PROVE AdmissionInv'
<1>1. PICK outcome \in {"ok", "refused", "reset", "timeout", "http"} :
        /\ Answers(r, CASE outcome = "ok" -> 200 [] outcome = "timeout" -> 504
                        [] outcome = "http" -> 500 [] OTHER -> 502,
                   IF outcome = "ok" THEN counters ELSE Failed(counters, outcome = "timeout"))
        /\ UNCHANGED <<policy, room>>
    BY DEF Forward
<1>2. /\ counters \in [Counted -> Nat] /\ policy' = policy
    BY <1>1 DEF AdmissionInv, AdmissionTyped
<1>3. CASE outcome = "ok"
    <2>1. Answers(r, 200, counters)
        BY <1>1, <1>3
    <2>2. 200 \in Statuses /\ CountedFor(counters, req[r], 200)
        BY <1>2, Increments DEF Statuses
    <2> QED
        BY <1>2, <2>1, <2>2, AnswersKeeps
<1>4. CASE outcome = "timeout"
    <2>1. Answers(r, 504, inc_kind(inc_error(counters), "timeouts"))
        BY <1>1, <1>4 DEF Failed
    <2>2. /\ 504 \in Statuses
          /\ inc_kind(inc_error(counters), "timeouts") \in [Counted -> Nat]
          /\ CountedFor(inc_kind(inc_error(counters), "timeouts"), req[r], 504)
        BY <1>2, Increments DEF Statuses
    <2> QED
        BY <1>2, <2>1, <2>2, AnswersKeeps
<1>5. CASE outcome \in {"refused", "reset", "http"}
    <2>1. PICK status \in {500, 502} : Answers(r, status, inc_error(counters))
        BY <1>1, <1>5 DEF Failed
    <2>2. Error(r, status)
        BY <2>1 DEF Error
    <2> QED
        BY <1>2, <2>2, ErrorKeeps
<1> QED
    BY <1>3, <1>4, <1>5

(* The window opens again, or nothing of the admission moves.              *)
LEMMA OthersKeepAdmission ==
    ASSUME AdmissionInv, UNCHANGED <<policy, req, counters, served>>
    PROVE  AdmissionInv'
<1>1. AdmissionTyped'
    BY DEF AdmissionInv, AdmissionTyped
<1>2. \A r \in Connections : Passed(req[r])'
    BY DEF AdmissionInv, Passed, Charged
<1>3. \A i \in DOMAIN served' : Admitted(served[i])'
    BY DEF AdmissionInv, Admitted
<1>4. Accounted'
    BY DEF AdmissionInv, Accounted, Number
<1> QED
    BY <1>1, <1>2, <1>3, <1>4 DEF AdmissionInv

(* Every action of every connection keeps the invariant. *)
LEMMA AdmissionInductive == AdmissionInv /\ [AdmissionNext]_admissionVars => AdmissionInv'
<1> SUFFICES ASSUME AdmissionInv, [AdmissionNext]_admissionVars PROVE AdmissionInv'
    OBVIOUS
<1>1. ASSUME NEW r \in Connections,
             \/ Accept(r) \/ Route(r) \/ Gate(r) \/ Limit(r) \/ ReadChunk(r) \/ EndBody(r)
             \/ Model(r) \/ Forward(r)
      PROVE  AdmissionInv'
    BY <1>1, AcceptKeeps, RouteKeeps, GateKeeps, LimitKeeps, ReadChunkKeeps, EndBodyKeeps,
       ModelKeeps, ForwardKeeps
<1>2. CASE NewWindow
    BY <1>2, OthersKeepAdmission DEF NewWindow
<1>3. CASE UNCHANGED admissionVars
    BY <1>3, OthersKeepAdmission DEF admissionVars
<1> QED
    BY <1>1, <1>2, <1>3 DEF AdmissionNext

(* The invariant of the admission. *)
LEMMA AdmissionInvariant == AdmissionSpec => []AdmissionInv
BY AdmissionInvInit, AdmissionInductive, PTL DEF AdmissionSpec

(* Whatever connections run, however they interleave: a request that has   *)
(* been sent upstream has passed the gate, the window, the body limit and  *)
(* the allowlist that are configured, and the counters of /metrics agree   *)
(* with the answers given (request_filter, Metrics).                       *)
THEOREM AdmissionIsSound == AdmissionSpec => []AdmissionSound
<1>1. AdmissionInv => AdmissionSound
    <2> SUFFICES ASSUME AdmissionInv PROVE OnlyAdmitted
        BY DEF AdmissionSound, AdmissionInv
    <2>1. ASSUME NEW q \in Known PROVE Admitted(q)
        <3>1. \A r \in Connections : req[r] \in AdmissionRecord /\ Passed(req[r])
            BY DEF AdmissionInv, AdmissionTyped
        <3>2. \A r \in Connections : Admitted(req[r])
            BY <3>1, PassedAdmitted
        <3> QED
            BY <2>1, <3>2 DEF Known, AdmissionInv
    <2> QED
        BY <2>1 DEF OnlyAdmitted, Admitted
<1> QED
    BY <1>1, AdmissionInvariant, PTL
(***************************************************************************)
(* The rate limiter                                                        *)
(***************************************************************************)

LimiterSpec == LimiterInit /\ [][LimiterNext]_limiterVars

(* Two requests let through that are 2 * MaxRequests apart are more than a *)
(* window apart.                                                           *)
Spread(g) ==
    \A i, j \in DOMAIN g : j = i + 2 * MaxRequests => g[j] - g[i] > Window

(* What a bucket with this count and this start says of g, the times at    *)
(* which requests were let through: before the last `count` of them none   *)
(* is after the window's start, and before MaxRequests more none is within *)
(* a window of it.                                                         *)
Placed(count, start, g) ==
    /\ \A i \in DOMAIN g : g[i] <= start + Window + 1
    /\ \A i \in DOMAIN g : i <= Len(g) - count => g[i] <= start
    /\ \A i \in DOMAIN g : i <= Len(g) - count - MaxRequests => g[i] + Window < start
    /\ Spread(g)

(* The requests the bucket counts are the last ones, none before its start.*)
Filled(count, start, g) ==
    /\ count <= MaxRequests /\ count <= Len(g)
    /\ count > 0 => g[Len(g) - count + 1] >= start

(* Every window before this one took a window's time and MaxRequests.      *)
Paced(count, start, g) ==
    \E q \in Nat : /\ q * (Window + 1) <= start
                   /\ Len(g) <= MaxRequests * q + count

Fits(count, start, g) ==
    /\ Filled(count, start, g)
    /\ Paced(count, start, g)
    /\ MaxWait <= 1 => Placed(count, start, g)

(* Whoever waits is at the one bucket there is, with a `now` not too old. *)
WaitersFresh ==
    \A r \in Requests : waiting[r].at =>
        /\ Limited /\ waiting[r].cred = Token /\ waiting[r].key = Token
        /\ waiting[r].now <= clock /\ clock <= waiting[r].now + MaxWait

(* With a limit only the token gets through, and only past its bucket.     *)
OnlyToken ==
    Limited => /\ \A c \in Credentials : c # Token => granted[c] = << >>
               /\ Token \notin DOMAIN entry => granted[Token] = << >>

BucketSound ==
    /\ DOMAIN entry \subseteq {Token}
    /\ Token \in DOMAIN entry =>
          /\ Limited /\ entry[Token].start <= clock
          /\ Fits(entry[Token].count, entry[Token].start, granted[Token])

LimiterInv == LimiterTypeOK /\ WaitersFresh /\ OnlyToken /\ BucketSound

(* What the constants are, for leaves that compute with them.              *)
LEMMA LimiterConstants ==
    MaxRequests \in Nat /\ Window \in Nat /\ MaxWait \in Nat /\ MaxTime \in Nat
BY LimiterAssumption DEF LimiterAssumption

(* A bucket that has just been made fits. *)
LEMMA NewBucketFits ==
    ASSUME NEW now \in Nat
    PROVE  Fits(0, now, << >>)
<1>0. MaxRequests \in Nat /\ Window \in Nat
    BY LimiterConstants
<1>2. Len(<< >>) = 0 /\ DOMAIN << >> = {}
    OBVIOUS
<1>3. Filled(0, now, << >>)
    BY <1>0, <1>2 DEF Filled
<1>4. Paced(0, now, << >>)
    <2>1. 0 * (Window + 1) = 0 /\ MaxRequests * 0 = 0 /\ now >= 0 /\ 0 \in Nat
        BY <1>0
    <2>2. 0 * (Window + 1) <= now /\ Len(<< >>) <= MaxRequests * 0 + 0
        BY <2>1, <1>2
    <2> QED
        BY <2>2, <2>1 DEF Paced
<1>5. Placed(0, now, << >>)
    BY <1>2 DEF Placed, Spread
<1> QED
    BY <1>3, <1>4, <1>5 DEF Fits

(* A times more is A more. *)
LEMMA OneMoreTimes ==
    ASSUME NEW a \in Nat, NEW q \in Nat
    PROVE  a * (q + 1) = a * q + a /\ (q + 1) * a = q * a + a /\ a * q \in Nat /\ q * a \in Nat
    OBVIOUS

(* The times are times.                                                    *)
LEMMA TimesTyped ==
    ASSUME NEW g \in Seq(0..MaxTime)
    PROVE  /\ DOMAIN g = 1..Len(g) /\ Len(g) \in Nat
           /\ \A i \in DOMAIN g : g[i] \in 0..MaxTime /\ i \in Nat
<1>1. DOMAIN g = 1..Len(g) /\ Len(g) \in Nat
    OBVIOUS
<1>2. \A i \in 1..Len(g) : g[i] \in 0..MaxTime
    BY ElementOfSeq
<1> QED
    BY <1>1, <1>2

(* An appended time: the earlier requests stay where they were.            *)
LEMMA TimeAppended ==
    ASSUME NEW g \in Seq(0..MaxTime), NEW t \in 0..MaxTime
    PROVE  /\ Append(g, t) \in Seq(0..MaxTime) /\ Len(Append(g, t)) = Len(g) + 1 /\ Len(g) \in Nat
           /\ Append(g, t)[Len(g) + 1] = t
           /\ \A i \in DOMAIN Append(g, t) :
                /\ i \in 1..(Len(g) + 1)
                /\ i <= Len(g) => i \in DOMAIN g /\ Append(g, t)[i] = g[i] /\ g[i] \in 0..MaxTime
           /\ \A i \in 1..Len(g) : Append(g, t)[i] = g[i]
<1>1. /\ Append(g, t) \in Seq(0..MaxTime) /\ Len(Append(g, t)) = Len(g) + 1
      /\ DOMAIN Append(g, t) = 1..(Len(g) + 1) /\ DOMAIN g = 1..Len(g) /\ Len(g) \in Nat
      /\ Append(g, t)[Len(g) + 1] = t
      /\ \A i \in 1..Len(g) : Append(g, t)[i] = g[i]
    BY AppendFacts
<1>2. \A i \in 1..Len(g) : g[i] \in 0..MaxTime
    BY TimesTyped
<1> QED
    BY <1>1, <1>2

(* The first of two places that are 2 * MaxRequests apart.                 *)
LEMMA PlacesApart ==
    ASSUME MaxRequests > 0, NEW n \in Nat, NEW i \in 1..(n + 1), NEW j \in 1..(n + 1),
           j = i + 2 * MaxRequests
    PROVE  i <= n /\ i \in Nat /\ j \in Nat /\ (j = n + 1 => i = n + 1 - 2 * MaxRequests)
<1>1. MaxRequests \in Nat
    BY LimiterConstants
<1> QED
    BY <1>1

(* Appending a time keeps Spread if what lies 2 * MaxRequests before it is *)
(* more than a window earlier.                                             *)
LEMMA SpreadKept ==
    ASSUME MaxRequests > 0,
           NEW g \in Seq(0..MaxTime), NEW t \in 0..MaxTime, Spread(g),
           \A i \in DOMAIN g : i = Len(g) + 1 - 2 * MaxRequests => g[i] + Window < t
    PROVE  Spread(Append(g, t))
<1> DEFINE h == Append(g, t)
<1>0. MaxRequests \in Nat /\ Window \in Nat /\ MaxTime \in Nat
    BY LimiterConstants
<1>1. /\ Len(g) \in Nat /\ h[Len(g) + 1] = t
      /\ \A i \in DOMAIN h :
           /\ i \in 1..(Len(g) + 1)
           /\ i <= Len(g) => i \in DOMAIN g /\ h[i] = g[i] /\ g[i] \in 0..MaxTime
    BY TimeAppended
<1> HIDE DEF h
<1>2. ASSUME NEW i \in DOMAIN h, NEW j \in DOMAIN h, j = i + 2 * MaxRequests
      PROVE  h[j] - h[i] > Window
    <2>0. i \in 1..(Len(g) + 1) /\ j \in 1..(Len(g) + 1) /\ j = i + 2 * MaxRequests
        BY <1>1, <1>2
    <2>a. /\ i <= Len(g) /\ i \in Nat /\ j \in Nat /\ Len(g) \in Nat
          /\ j = Len(g) + 1 => i = Len(g) + 1 - 2 * MaxRequests
        <3>1. Len(g) \in Nat
            BY <1>1
        <3> QED
            BY <3>1, <2>0, PlacesApart
    <2>1. i \in DOMAIN g /\ h[i] = g[i] /\ g[i] \in 0..MaxTime
        BY <2>a, <1>1
    <2>2. CASE j <= Len(g)
        BY <2>1, <2>2, <1>1, <1>2 DEF Spread
    <2>3. CASE j = Len(g) + 1
        <3>1. i = Len(g) + 1 - 2 * MaxRequests
            BY <2>a, <2>3
        <3>2. g[i] + Window < t
            BY <3>1, <2>1
        <3>3. h[j] = t
            BY <2>3, <1>1
        <3> QED
            BY <3>2, <3>3, <2>1, <1>0
    <2>4. j <= Len(g) \/ j = Len(g) + 1
        BY <1>1, <2>0
    <2> QED
        BY <2>2, <2>3, <2>4
<1>3. Spread(h)
    BY <1>2 DEF Spread
<1> QED
    BY <1>3 DEF h

(* A request counted in its window: one more of both. *)
LEMMA CountedFits ==
    ASSUME MaxRequests > 0,
           NEW g \in Seq(0..MaxTime), NEW count \in Nat, NEW start \in 0..MaxTime,
           Fits(count, start, g), count < MaxRequests,
           NEW t \in 0..MaxTime, start <= t, t <= start + Window + MaxWait
    PROVE  Fits(count + 1, start, Append(g, t))
<1> DEFINE h == Append(g, t)
<1>0. MaxRequests \in Nat /\ Window \in Nat /\ MaxWait \in Nat /\ MaxTime \in Nat
    BY LimiterConstants
<1>3. /\ Len(h) = Len(g) + 1 /\ Len(g) \in Nat /\ h[Len(g) + 1] = t
      /\ \A i \in DOMAIN h :
           /\ i \in 1..(Len(g) + 1)
           /\ i <= Len(g) => i \in DOMAIN g /\ h[i] = g[i] /\ g[i] \in 0..MaxTime
      /\ \A i \in 1..Len(g) : h[i] = g[i]
    BY TimeAppended
<1>5. Filled(count + 1, start, h)
    <2>1. count <= Len(g) /\ (count > 0 => g[Len(g) - count + 1] >= start)
        BY DEF Fits, Filled
    <2> HIDE DEF h
    <2>2. h[Len(h) - (count + 1) + 1] >= start
        <3>1. CASE count = 0
            BY <3>1, <1>3
        <3>2. CASE count > 0
            <4>1. Len(h) - (count + 1) + 1 = Len(g) - count + 1 /\ Len(g) - count + 1 \in 1..Len(g)
                BY <3>2, <2>1, <1>3
            <4>2. h[Len(g) - count + 1] = g[Len(g) - count + 1]
                BY <4>1, <1>3
            <4> QED
                BY <4>1, <4>2, <2>1, <3>2
        <3> QED
            BY <3>1, <3>2
    <2> QED
        BY <2>1, <2>2, <1>0, <1>3 DEF Filled
<1>6. Paced(count + 1, start, h)
    <2>1. PICK q \in Nat : q * (Window + 1) <= start /\ Len(g) <= MaxRequests * q + count
        BY DEF Fits, Paced
    <2>2. MaxRequests * q \in Nat
        BY <1>0, OneMoreTimes
    <2> HIDE DEF h
    <2>3. Len(h) <= MaxRequests * q + (count + 1)
        <3> DEFINE m == MaxRequests * q
        <3>1. m \in Nat /\ Len(g) <= m + count
            BY <2>1, <2>2
        <3> HIDE DEF m
        <3>2. Len(h) <= m + (count + 1)
            BY <3>1, <1>3
        <3> QED
            BY <3>2 DEF m
    <2> QED
        BY <2>1, <2>3 DEF Paced
<1>7. ASSUME MaxWait <= 1 PROVE Placed(count + 1, start, h)
    <2>0. Placed(count, start, g)
        BY <1>7 DEF Fits
    <2>5. Spread(h)
        <3>1. ASSUME NEW i \in DOMAIN g, i = Len(g) + 1 - 2 * MaxRequests
              PROVE  g[i] + Window < t
            <4>1. i <= Len(g) - count - MaxRequests
                BY <3>1, <1>0, <1>3
            <4>2. g[i] + Window < start /\ g[i] \in 0..MaxTime
                BY <4>1, <2>0, TimesTyped DEF Placed
            <4> QED
                BY <4>2, <1>0
        <3>2. Spread(g)
            BY <2>0 DEF Placed
        <3> QED
            BY <3>1, <3>2, SpreadKept
    <2> HIDE DEF h
    <2>6. ASSUME NEW i \in DOMAIN h
          PROVE  /\ h[i] <= start + Window + 1
                 /\ i <= Len(h) - (count + 1) => h[i] <= start
                 /\ i <= Len(h) - (count + 1) - MaxRequests => h[i] + Window < start
        <3>1. CASE i <= Len(g)
            <4>1. i \in DOMAIN g /\ h[i] = g[i] /\ i \in Nat
                BY <3>1, <1>3
            <4>2. /\ g[i] <= start + Window + 1
                  /\ i <= Len(g) - count => g[i] <= start
                  /\ i <= Len(g) - count - MaxRequests => g[i] + Window < start
                BY <4>1, <2>0 DEF Placed
            <4>3. /\ Len(h) - (count + 1) = Len(g) - count
                  /\ Len(h) - (count + 1) - MaxRequests = Len(g) - count - MaxRequests
                BY <1>0, <1>3
            <4> QED
                BY <4>1, <4>2, <4>3
        <3>2. CASE i = Len(g) + 1
            <4>1. h[i] = t /\ ~(i <= Len(h) - (count + 1)) /\ ~(i <= Len(h) - (count + 1) - MaxRequests)
                BY <3>2, <1>0, <1>3
            <4>2. t <= start + Window + 1
                BY <1>0, <1>7
            <4> QED
                BY <4>1, <4>2
        <3>3. i <= Len(g) \/ i = Len(g) + 1
            BY <1>3
        <3> QED
            BY <3>1, <3>2, <3>3
    <2> QED
        BY <2>5, <2>6 DEF Placed
<1>8. Fits(count + 1, start, h)
    BY <1>5, <1>6, <1>7 DEF Fits
<1> QED
    BY <1>8 DEF h

(* A request that begins a window: the window before it had its quota, and *)
(* took its time.                                                          *)
LEMMA RestartedFits ==
    ASSUME MaxRequests > 0,
           NEW g \in Seq(0..MaxTime), NEW count \in Nat, NEW start \in 0..MaxTime,
           Fits(count, start, g),
           NEW now \in 0..MaxTime, now > start + Window,
           NEW t \in 0..MaxTime, now <= t, t <= now + MaxWait
    PROVE  Fits(1, now, Append(g, t))
<1> DEFINE h == Append(g, t)
<1>0. MaxRequests \in Nat /\ Window \in Nat /\ MaxWait \in Nat /\ MaxTime \in Nat
    BY LimiterConstants
<1>2. count <= MaxRequests
    BY DEF Fits, Filled
<1>3. /\ Len(h) = Len(g) + 1 /\ Len(g) \in Nat /\ h[Len(g) + 1] = t
      /\ \A i \in DOMAIN h :
           /\ i \in 1..(Len(g) + 1)
           /\ i <= Len(g) => i \in DOMAIN g /\ h[i] = g[i] /\ g[i] \in 0..MaxTime
    BY TimeAppended
<1>5. Filled(1, now, h)
    <2> HIDE DEF h
    <2>1. Len(h) - 1 + 1 = Len(g) + 1
        BY <1>3
    <2> QED
        BY <2>1, <1>0, <1>3 DEF Filled
<1>6. Paced(1, now, h)
    <2>1. PICK q \in Nat : q * (Window + 1) <= start /\ Len(g) <= MaxRequests * q + count
        BY DEF Fits, Paced
    <2>3. /\ MaxRequests * (q + 1) = MaxRequests * q + MaxRequests
          /\ MaxRequests * q \in Nat
        BY <1>0, OneMoreTimes
    <2>4. /\ (q + 1) * (Window + 1) = q * (Window + 1) + (Window + 1)
          /\ q * (Window + 1) \in Nat
        <3>1. Window + 1 \in Nat
            BY <1>0
        <3> QED
            BY <3>1, OneMoreTimes
    <2> HIDE DEF h
    <2>5. (q + 1) * (Window + 1) <= now
        BY <2>1, <2>4, <1>0
    <2>6. Len(h) <= MaxRequests * (q + 1) + 1
        BY <2>1, <2>3, <1>0, <1>2, <1>3
    <2>7. q + 1 \in Nat
        OBVIOUS
    <2> QED
        BY <2>5, <2>6, <2>7 DEF Paced
<1>7. ASSUME MaxWait <= 1 PROVE Placed(1, now, h)
    <2>0. Placed(count, start, g)
        BY <1>7 DEF Fits
    <2>1. ASSUME NEW i \in DOMAIN g, i <= Len(g) - MaxRequests
          PROVE  g[i] + Window < now
        <3>1. i <= Len(g) - count
            BY <2>1, <1>0, <1>2, <1>3
        <3>2. g[i] <= start /\ g[i] \in 0..MaxTime
            BY <3>1, <2>0, TimesTyped DEF Placed
        <3> QED
            BY <3>2, <1>0
    <2>5. Spread(h)
        <3>1. ASSUME NEW i \in DOMAIN g, i = Len(g) + 1 - 2 * MaxRequests
              PROVE  g[i] + Window < t
            <4>1. i <= Len(g) - MaxRequests
                BY <3>1, <1>0, <1>3
            <4>2. g[i] + Window < now /\ g[i] \in 0..MaxTime
                BY <4>1, <2>1, TimesTyped
            <4> QED
                BY <4>2, <1>0
        <3>2. Spread(g)
            BY <2>0 DEF Placed
        <3> QED
            BY <3>1, <3>2, SpreadKept
    <2> HIDE DEF h
    <2>6. ASSUME NEW i \in DOMAIN h
          PROVE  /\ h[i] <= now + Window + 1
                 /\ i <= Len(h) - 1 => h[i] <= now
                 /\ i <= Len(h) - 1 - MaxRequests => h[i] + Window < now
        <3>1. CASE i <= Len(g)
            <4>1. i \in DOMAIN g /\ h[i] = g[i] /\ i \in Nat /\ g[i] \in 0..MaxTime
                BY <3>1, <1>3
            <4>2. g[i] <= start + Window + 1
                BY <4>1, <2>0 DEF Placed
            <4>3. h[i] <= now
                BY <4>1, <4>2, <1>0
            <4>4. i <= Len(h) - 1 - MaxRequests => h[i] + Window < now
                BY <4>1, <2>1, <1>0, <1>3
            <4> QED
                BY <4>1, <4>3, <4>4, <1>0
        <3>2. CASE i = Len(g) + 1
            <4>1. h[i] = t /\ ~(i <= Len(h) - 1) /\ ~(i <= Len(h) - 1 - MaxRequests)
                BY <3>2, <1>0, <1>3
            <4>2. t <= now + Window + 1
                BY <1>0, <1>7
            <4> QED
                BY <4>1, <4>2
        <3>3. i <= Len(g) \/ i = Len(g) + 1
            BY <1>3
        <3> QED
            BY <3>1, <3>2, <3>3
    <2> QED
        BY <2>5, <2>6 DEF Placed
<1>8. Fits(1, now, h)
    BY <1>5, <1>6, <1>7 DEF Fits
<1> QED
    BY <1>8 DEF h

(* What a request let through adds to the history. *)
LEMMA GrantLands ==
    ASSUME LimiterTypeOK, NEW c \in Credentials, Grant(c)
    PROVE  /\ granted' \in [Credentials -> Seq(0..MaxTime)]
           /\ granted'[c] = Append(granted[c], clock)
           /\ \A d \in Credentials : d # c => granted'[d] = granted[d]
<1>1. granted \in [Credentials -> Seq(0..MaxTime)] /\ clock \in 0..MaxTime
    BY DEF LimiterTypeOK
<1>2. granted[c] \in Seq(0..MaxTime)
    BY <1>1
<1>3. Append(granted[c], clock) \in Seq(0..MaxTime)
    BY <1>1, <1>2, TimeAppended
<1>4. granted' = [granted EXCEPT ![c] = Append(granted[c], clock)]
    BY DEF Grant
<1> QED
    BY <1>1, <1>3, <1>4

(* What putting a bucket back leaves. *)
LEMMA PutLands ==
    ASSUME NEW k, NEW e, Put(k, e)
    PROVE  /\ DOMAIN entry' = DOMAIN entry \union {k} /\ entry'[k] = e
           /\ \A x \in DOMAIN entry : x # k => entry'[x] = entry[x]
BY DEF Put

(* Fields of buckets. *)
LEMMA BucketFields ==
    ASSUME NEW e \in Entry, NEW now \in 0..MaxTime
    PROVE  /\ e.count \in Nat /\ e.start \in 0..MaxTime
           /\ [e EXCEPT !.count = @ + 1] \in Entry
           /\ [e EXCEPT !.count = @ + 1].count = e.count + 1
           /\ [e EXCEPT !.count = @ + 1].start = e.start
           /\ \A n \in Nat : /\ [count |-> n, start |-> now] \in Entry
                             /\ [count |-> n, start |-> now].count = n
                             /\ [count |-> n, start |-> now].start = now
BY DEF Entry

(* The bucket a waiting request finds or makes. *)
LEMMA BucketFound ==
    ASSUME LimiterInv, Limited, NEW now \in 0..MaxTime, now <= clock
    PROVE  LET e == EntryAt(Token, now)
           IN  /\ e \in Entry /\ e.start <= clock
               /\ Fits(e.count, e.start, granted[Token])
<1>1. CASE Token \in DOMAIN entry
    <2>1. EntryAt(Token, now) = entry[Token]
        BY <1>1 DEF EntryAt
    <2>2. entry[Token] \in Entry
        BY <1>1 DEF LimiterInv, LimiterTypeOK
    <2> QED
        BY <2>1, <2>2, <1>1 DEF LimiterInv, BucketSound
<1>2. CASE Token \notin DOMAIN entry
    <2>1. EntryAt(Token, now) = [count |-> 0, start |-> now]
        BY <1>2 DEF EntryAt
    <2>2. /\ [count |-> 0, start |-> now] \in Entry
          /\ [count |-> 0, start |-> now].count = 0
          /\ [count |-> 0, start |-> now].start = now
        BY DEF Entry
    <2>3. granted[Token] = << >>
        BY <1>2 DEF LimiterInv, OnlyToken
    <2>4. Fits(0, now, << >>)
        <3>1. now \in Nat
            BY LimiterConstants
        <3> QED
            BY <3>1, NewBucketFits
    <2> QED
        BY <2>1, <2>2, <2>3, <2>4
<1> QED
    BY <1>1, <1>2

(* A request leaves the lock, and the bucket it puts back fits. *)
LEMMA LockLeft ==
    ASSUME LimiterInv, Limited, NEW r \in Requests,
           waiting' = [waiting EXCEPT ![r] = Free], UNCHANGED clock,
           NEW e \in Entry, e.start <= clock, Put(Token, e),
           granted' \in [Credentials -> Seq(0..MaxTime)],
           \A c \in Credentials : c # Token => granted'[c] = granted[c],
           Fits(e.count, e.start, granted'[Token])
    PROVE  LimiterInv'
<1>1. /\ DOMAIN entry' = {Token} /\ entry'[Token] = e
    <2>1. DOMAIN entry \subseteq {Token}
        BY DEF LimiterInv, BucketSound
    <2> QED
        BY <2>1, PutLands
<1>2. Free \in Slot /\ Free.at = FALSE
    BY LimiterAssumption, LimiterConstants DEF LimiterAssumption, Free, Slot, BucketKeys
<1>3. LimiterTypeOK'
    <2>1. waiting' \in [Requests -> Slot]
        BY <1>2 DEF LimiterInv, LimiterTypeOK
    <2>2. Token \in BucketKeys
        BY LimiterAssumption DEF LimiterAssumption, BucketKeys
    <2> QED
        BY <1>1, <2>1, <2>2 DEF LimiterInv, LimiterTypeOK
<1>4. WaitersFresh'
    <2> SUFFICES ASSUME NEW s \in Requests, waiting'[s].at
                 PROVE  /\ Limited /\ waiting'[s].cred = Token /\ waiting'[s].key = Token
                        /\ waiting'[s].now <= clock /\ clock <= waiting'[s].now + MaxWait
        BY DEF WaitersFresh, Limited
    <2>1. waiting \in [Requests -> Slot]
        BY DEF LimiterInv, LimiterTypeOK
    <2>2. s # r /\ waiting'[s] = waiting[s]
        BY <2>1, <1>2
    <2> QED
        BY <2>2 DEF LimiterInv, WaitersFresh
<1>5. OnlyToken'
    BY <1>1 DEF LimiterInv, OnlyToken, Limited
<1>6. BucketSound'
    BY <1>1 DEF BucketSound, Limited
<1> QED
    BY <1>3, <1>4, <1>5, <1>6 DEF LimiterInv

(* check_rate_limit, in its three outcomes. *)
LEMMA CheckKeepsInv ==
    ASSUME LimiterInv, NEW r \in Requests, CheckRateLimit(r)
    PROVE  LimiterInv'
<1> DEFINE now == waiting[r].now
           e   == EntryAt(Token, now)
           g   == granted[Token]
<1>1. /\ Limited /\ waiting[r].cred = Token /\ waiting[r].key = Token
      /\ now <= clock /\ clock <= now + MaxWait
    BY DEF LimiterInv, WaitersFresh, CheckRateLimit
<1>2. now \in 0..MaxTime /\ clock \in 0..MaxTime /\ g \in Seq(0..MaxTime) /\ Token \in Credentials
    BY LimiterAssumption DEF LimiterInv, LimiterTypeOK, Slot, LimiterAssumption
<1>3. e \in Entry /\ e.start <= clock /\ Fits(e.count, e.start, g)
    BY <1>1, <1>2, BucketFound
<1>4. e.count \in Nat /\ e.start \in 0..MaxTime
    BY <1>2, <1>3, BucketFields
<1>5. /\ waiting' = [waiting EXCEPT ![r] = Free] /\ UNCHANGED clock
      /\ \/ Over(e, now) /\ Put(Token, [count |-> 1, start |-> now]) /\ Grant(Token)
         \/ ~Over(e, now) /\ e.count >= MaxRequests /\ Put(Token, e) /\ UNCHANGED granted
         \/ /\ ~Over(e, now) /\ e.count < MaxRequests
            /\ Put(Token, [e EXCEPT !.count = @ + 1]) /\ Grant(Token)
    BY <1>1 DEF CheckRateLimit
<1>6. MaxRequests \in Nat /\ Window \in Nat /\ MaxWait \in Nat /\ MaxTime \in Nat /\ MaxRequests > 0
    BY <1>1, LimiterConstants DEF Limited
<1>8. LimiterTypeOK /\ granted \in [Credentials -> Seq(0..MaxTime)]
    BY DEF LimiterInv, LimiterTypeOK
<1> HIDE DEF e, now, g
<1>7. Over(e, now) <=> now > e.start + Window
    <2>1. Since(now, e.start) = IF now > e.start THEN now - e.start ELSE 0
        BY DEF Since
    <2>2. Since(now, e.start) > Window <=> now > e.start + Window
        BY <2>1, <1>2, <1>4, <1>6
    <2> QED
        BY <2>2 DEF Over
<1>a. CASE Over(e, now) /\ Put(Token, [count |-> 1, start |-> now]) /\ Grant(Token)
    <2>1. Fits(1, now, Append(g, clock))
        BY <1>a, <1>1, <1>2, <1>3, <1>4, <1>6, <1>7, RestartedFits
    <2>2. /\ granted' \in [Credentials -> Seq(0..MaxTime)]
          /\ granted'[Token] = Append(g, clock)
          /\ \A c \in Credentials : c # Token => granted'[c] = granted[c]
        BY <1>a, <1>2, <1>8, GrantLands DEF g
    <2> DEFINE f == [count |-> 1, start |-> now]
    <2>3. f \in Entry /\ f.count = 1 /\ f.start = now
        BY <1>2 DEF Entry
    <2>4. Put(Token, f)
        BY <1>a
    <2> HIDE DEF f
    <2>5. Fits(f.count, f.start, granted'[Token]) /\ f.start <= clock
        BY <2>1, <2>2, <2>3, <1>1
    <2> QED
        BY <2>2, <2>3, <2>4, <2>5, <1>1, <1>5, LockLeft
<1>b. CASE ~Over(e, now) /\ e.count >= MaxRequests /\ Put(Token, e) /\ UNCHANGED granted
    <2>1. Fits(e.count, e.start, granted'[Token])
        BY <1>b, <1>3 DEF g
    <2> QED
        BY <2>1, <1>b, <1>1, <1>3, <1>5, <1>8, LockLeft
<1>c. CASE /\ ~Over(e, now) /\ e.count < MaxRequests
           /\ Put(Token, [e EXCEPT !.count = @ + 1]) /\ Grant(Token)
    <2>0. clock <= e.start + Window + MaxWait
        <3>1. ~(now > e.start + Window) /\ clock <= now + MaxWait
            BY <1>c, <1>1, <1>7
        <3> QED
            BY <3>1, <1>2, <1>4, <1>6
    <2>1. Fits(e.count + 1, e.start, Append(g, clock))
        BY <2>0, <1>c, <1>2, <1>3, <1>4, <1>6, CountedFits
    <2>2. /\ granted' \in [Credentials -> Seq(0..MaxTime)]
          /\ granted'[Token] = Append(g, clock)
          /\ \A c \in Credentials : c # Token => granted'[c] = granted[c]
        BY <1>c, <1>2, <1>8, GrantLands DEF g
    <2> DEFINE f == [e EXCEPT !.count = @ + 1]
    <2>3. f \in Entry /\ f.count = e.count + 1 /\ f.start = e.start
        BY <1>2, <1>3, BucketFields
    <2>4. Put(Token, f)
        BY <1>c
    <2> HIDE DEF f
    <2>5. Fits(f.count, f.start, granted'[Token]) /\ f.start <= clock
        BY <2>1, <2>2, <2>3, <1>3
    <2> QED
        BY <2>2, <2>3, <2>4, <2>5, <1>1, <1>5, LockLeft
<1> QED
    BY <1>5, <1>a, <1>b, <1>c

(* A request arrives: past the limiter, or to the lock with the clock. *)
LEMMA ArrivalKeepsInv ==
    ASSUME LimiterInv, NEW r \in Requests, Arrive(r)
    PROVE  LimiterInv'
<1>0. MaxRequests \in Nat /\ MaxWait \in Nat /\ MaxTime \in Nat
    BY LimiterConstants
<1>1. PICK c \in Credentials :
        /\ Gated => c = Token
        /\ IF Unlimited(c)
           THEN Grant(c) /\ UNCHANGED waiting
           ELSE /\ waiting' = [waiting EXCEPT ![r] = [at |-> TRUE, cred |-> c,
                                                      key |-> BucketKey(c), now |-> clock]]
                /\ UNCHANGED granted
    BY DEF Arrive
<1>2. UNCHANGED <<clock, entry>>
    BY DEF Arrive
<1>3. /\ LimiterTypeOK /\ clock \in 0..MaxTime /\ waiting \in [Requests -> Slot]
      /\ WaitersFresh /\ OnlyToken /\ BucketSound
    BY DEF LimiterInv, LimiterTypeOK
<1>a. CASE Unlimited(c)
    <2>1. ~Limited
        BY <1>a, <1>0, LimiterAssumption DEF Unlimited, BucketKey, Limited, LimiterAssumption
    <2>2. granted' \in [Credentials -> Seq(0..MaxTime)]
        BY <1>a, <1>1, <1>3, GrantLands
    <2>3. LimiterTypeOK'
        BY <1>a, <1>1, <1>2, <1>3, <2>2 DEF LimiterTypeOK
    <2>4. WaitersFresh'
        BY <1>a, <1>1, <1>2, <1>3 DEF WaitersFresh, Limited
    <2>5. OnlyToken' /\ BucketSound'
        BY <1>2, <1>3, <2>1 DEF OnlyToken, BucketSound, Limited
    <2> QED
        BY <2>3, <2>4, <2>5 DEF LimiterInv
<1>b. CASE ~Unlimited(c)
    <2> DEFINE slot == [at |-> TRUE, cred |-> c, key |-> BucketKey(c), now |-> clock]
    <2>1. Limited /\ c = Token /\ BucketKey(c) = Token
        BY <1>b, <1>0, <1>1 DEF Unlimited, BucketKey, Limited
    <2>2. /\ slot \in Slot /\ slot.cred = Token /\ slot.key = Token /\ slot.now = clock
        BY <2>1, <1>3 DEF Slot, BucketKeys
    <2>3. waiting' = [waiting EXCEPT ![r] = slot] /\ UNCHANGED granted
        BY <1>b, <1>1
    <2> HIDE DEF slot
    <2>4. LimiterTypeOK'
        BY <2>2, <2>3, <1>2, <1>3 DEF LimiterTypeOK
    <2>5. WaitersFresh'
        <3> SUFFICES ASSUME NEW s \in Requests, waiting'[s].at
                     PROVE  /\ Limited /\ waiting'[s].cred = Token /\ waiting'[s].key = Token
                            /\ waiting'[s].now <= clock /\ clock <= waiting'[s].now + MaxWait
            BY <1>2 DEF WaitersFresh, Limited
        <3>1. CASE s = r
            <4>1. waiting'[s] = slot
                BY <3>1, <2>3, <1>3
            <4>2. clock <= clock /\ clock <= clock + MaxWait
                BY <1>0, <1>3
            <4> QED
                BY <4>1, <4>2, <2>1, <2>2
        <3>2. CASE s # r
            <4>1. waiting'[s] = waiting[s]
                BY <3>2, <2>3, <1>3
            <4> QED
                BY <4>1, <1>3 DEF WaitersFresh
        <3> QED
            BY <3>1, <3>2
    <2>6. OnlyToken' /\ BucketSound'
        BY <2>3, <1>2, <1>3 DEF OnlyToken, BucketSound, Limited
    <2> QED
        BY <2>4, <2>5, <2>6 DEF LimiterInv
<1> QED
    BY <1>a, <1>b

(* Time passes: nobody waits too long, and no window starts later. *)
LEMMA TickKeepsInv ==
    ASSUME LimiterInv, Tick
    PROVE  LimiterInv'
<1>0. MaxRequests \in Nat /\ MaxWait \in Nat /\ MaxTime \in Nat
    BY LimiterConstants
<1>1. /\ LimiterTypeOK /\ clock \in 0..MaxTime /\ waiting \in [Requests -> Slot]
      /\ WaitersFresh /\ OnlyToken /\ BucketSound
    BY DEF LimiterInv, LimiterTypeOK
<1>2. /\ clock < MaxTime /\ clock' = clock + 1 /\ UNCHANGED <<entry, waiting, granted>>
      /\ \A r \in Requests : waiting[r].at => clock - waiting[r].now < MaxWait
    BY DEF Tick
<1>3. LimiterTypeOK'
    BY <1>0, <1>1, <1>2 DEF LimiterTypeOK
<1>4. WaitersFresh'
    <2> SUFFICES ASSUME NEW r \in Requests, waiting[r].at
                 PROVE  /\ Limited /\ waiting[r].cred = Token /\ waiting[r].key = Token
                        /\ waiting[r].now <= clock + 1 /\ clock + 1 <= waiting[r].now + MaxWait
        BY <1>2 DEF WaitersFresh, Limited
    <2>1. waiting[r].now \in 0..MaxTime
        BY <1>1 DEF Slot
    <2>2. /\ Limited /\ waiting[r].cred = Token /\ waiting[r].key = Token
          /\ waiting[r].now <= clock /\ clock - waiting[r].now < MaxWait
        BY <1>1, <1>2 DEF WaitersFresh
    <2> QED
        BY <2>1, <2>2, <1>0, <1>1
<1>5. OnlyToken'
    BY <1>1, <1>2 DEF OnlyToken, Limited
<1>6. BucketSound'
    <2>1. ASSUME Token \in DOMAIN entry PROVE entry[Token].start <= clock + 1
        <3>1. entry[Token].start \in 0..MaxTime /\ entry[Token].start <= clock
            BY <2>1, <1>1 DEF LimiterTypeOK, Entry, BucketSound
        <3> QED
            BY <3>1, <1>0, <1>1
    <2> QED
        BY <2>1, <1>1, <1>2 DEF BucketSound, Limited
<1> QED
    BY <1>3, <1>4, <1>5, <1>6 DEF LimiterInv

(* The limiter's invariant holds of every reachable state. *)
LEMMA LimiterInvariant == LimiterSpec => []LimiterInv
<1>1. LimiterInit => LimiterInv
    <2> SUFFICES ASSUME LimiterInit PROVE LimiterInv
        OBVIOUS
    <2>0. MaxTime \in Nat /\ Free \in Slot /\ Free.at = FALSE
        BY LimiterAssumption DEF LimiterAssumption, Free, Slot, BucketKeys
    <2>1. DOMAIN << >> = {} /\ << >> \in Seq(0..MaxTime)
        OBVIOUS
    <2>2. LimiterTypeOK
        BY <2>0, <2>1 DEF LimiterInit, LimiterTypeOK
    <2>3. WaitersFresh
        BY <2>0 DEF LimiterInit, WaitersFresh
    <2>4. OnlyToken /\ BucketSound
        BY <2>1, LimiterAssumption DEF LimiterInit, OnlyToken, BucketSound, LimiterAssumption
    <2> QED
        BY <2>2, <2>3, <2>4 DEF LimiterInv
<1>2. LimiterInv /\ [LimiterNext]_limiterVars => LimiterInv'
    <2> SUFFICES ASSUME LimiterInv, [LimiterNext]_limiterVars PROVE LimiterInv'
        OBVIOUS
    <2>1. ASSUME NEW r \in Requests, Arrive(r) PROVE LimiterInv'
        BY <2>1, ArrivalKeepsInv
    <2>2. ASSUME NEW r \in Requests, CheckRateLimit(r) PROVE LimiterInv'
        BY <2>2, CheckKeepsInv
    <2>3. CASE Tick
        BY <2>3, TickKeepsInv
    <2>4. CASE UNCHANGED limiterVars
        BY <2>4 DEF limiterVars, LimiterInv, LimiterTypeOK, WaitersFresh, OnlyToken, BucketSound, Limited
    <2> QED
        BY <2>1, <2>2, <2>3, <2>4 DEF LimiterNext
<1> QED
    BY <1>1, <1>2, PTL DEF LimiterSpec

(* A factor that grows makes the product grow. *)
LEMMA ProductGrows ==
    ASSUME NEW k \in Nat, NEW a \in Nat, NEW b \in Nat, a <= b
    PROVE  k * a <= k * b
<1> DEFINE m == b - a
<1>1. m \in Nat /\ b = a + m
    OBVIOUS
<1> HIDE DEF m
<1>2. k * (a + m) = k * a + k * m /\ k * m \in Nat /\ k * a \in Nat
    BY <1>1
<1> QED
    BY <1>1, <1>2

(* As many windows as have fitted in a time have begun by then. *)
LEMMA WindowsBegun ==
    ASSUME NEW q \in Nat, NEW w \in Nat \ {0}, NEW t \in Nat, q * w <= t
    PROVE  q <= t \div w /\ t \div w \in Nat
<1> DEFINE d == t \div w
<1>1. d \in Nat /\ t = w * d + (t % w) /\ t % w \in 0..(w - 1)
    OBVIOUS
<1> HIDE DEF d
<1>2. ASSUME d + 1 <= q PROVE FALSE
    <2>1. w * (d + 1) <= w * q /\ w * q = q * w /\ w * (d + 1) = w * d + w
        BY <1>1, <1>2, ProductGrows
    <2> QED
        BY <2>1, <1>1
<1>3. q <= d
    BY <1>1, <1>2
<1> QED
    BY <1>1, <1>3 DEF d

(* The quota follows from the fit of the bucket. *)
LEMMA FitKeepsQuota ==
    ASSUME LimiterInv
    PROVE  QuotaKept
<1>0. MaxRequests \in Nat /\ Window \in Nat /\ MaxWait \in Nat /\ MaxTime \in Nat
    BY LimiterConstants
<1>1. ASSUME Limited, NEW c \in Credentials
      PROVE  \/ granted[c] = << >>
             \/ /\ c = Token /\ Token \in DOMAIN entry
                /\ Fits(entry[Token].count, entry[Token].start, granted[c])
    BY <1>1 DEF LimiterInv, OnlyToken, BucketSound
<1>2. Len(<< >>) = 0 /\ DOMAIN << >> = {}
    OBVIOUS
<1>3. BurstBound
    <2> SUFFICES ASSUME Limited, MaxWait <= 1, NEW c \in Credentials PROVE Spread(granted[c])
        BY DEF BurstBound, Spread
    <2>1. CASE granted[c] = << >>
        BY <2>1, <1>2 DEF Spread
    <2>2. CASE Fits(entry[Token].count, entry[Token].start, granted[c])
        BY <2>2 DEF Fits, Placed
    <2> QED
        BY <2>1, <2>2, <1>1
<1>4. AverageRate
    <2> SUFFICES ASSUME Limited, NEW c \in Credentials
                 PROVE  Len(granted[c]) <= MaxRequests * ((clock \div (Window + 1)) + 1)
        BY DEF AverageRate
    <2>0. clock \in Nat /\ Window + 1 \in Nat \ {0}
        BY <1>0 DEF LimiterInv, LimiterTypeOK
    <2> DEFINE d == clock \div (Window + 1)
    <2>1. CASE granted[c] = << >>
        <3>1. d \in Nat
            <4>1. 0 * (Window + 1) <= clock
                BY <2>0
            <4> QED
                BY <4>1, <2>0, WindowsBegun
        <3> HIDE DEF d
        <3>2. MaxRequests * (d + 1) \in Nat
            BY <3>1, <1>0
        <3> QED
            BY <3>2, <2>1, <1>2 DEF d
    <2>2. CASE /\ c = Token /\ Token \in DOMAIN entry
               /\ Fits(entry[Token].count, entry[Token].start, granted[c])
        <3> DEFINE n == Len(granted[c])
                   count == entry[Token].count
                   start == entry[Token].start
        <3>1. count \in Nat /\ start \in 0..MaxTime /\ start <= clock
            BY <2>2 DEF LimiterInv, LimiterTypeOK, Entry, BucketSound
        <3>2. n \in Nat
            BY TimesTyped DEF LimiterInv, LimiterTypeOK
        <3>3. PICK q \in Nat : q * (Window + 1) <= start /\ n <= MaxRequests * q + count
            BY <2>2 DEF Fits, Paced
        <3>4. count <= MaxRequests
            BY <2>2 DEF Fits, Filled
        <3> HIDE DEF n, count, start
        <3>5. q * (Window + 1) <= clock
            <4>1. q * (Window + 1) \in Nat
                BY <2>0, OneMoreTimes
            <4> QED
                BY <4>1, <3>1, <3>3, <2>0, <1>0
        <3>6. q <= d /\ d \in Nat
            BY <3>5, <2>0, WindowsBegun
        <3> HIDE DEF d
        <3>7. MaxRequests * q <= MaxRequests * d
            BY <3>6, <1>0, ProductGrows
        <3>8. /\ MaxRequests * (d + 1) = MaxRequests * d + MaxRequests
              /\ MaxRequests * d \in Nat /\ MaxRequests * q \in Nat
            BY <3>6, <1>0, OneMoreTimes
        <3>9. n <= MaxRequests * (d + 1)
            BY <3>1, <3>2, <3>3, <3>4, <3>7, <3>8, <1>0
        <3> QED
            BY <3>9 DEF n, d
    <2> QED
        BY <2>1, <2>2, <1>1
<1>5. RefusedOnlyWhenFull
    <2> SUFFICES ASSUME NEW k \in DOMAIN entry \ {NoKey}, entry[k].count > 0
                 PROVE  /\ Len(granted[k]) - entry[k].count + 1 >= 1
                        /\ granted[k][Len(granted[k]) - entry[k].count + 1] >= entry[k].start
        BY DEF RefusedOnlyWhenFull
    <2>1. k = Token /\ Fits(entry[k].count, entry[k].start, granted[k]) /\ entry[k].count \in Nat
        BY DEF LimiterInv, LimiterTypeOK, BucketSound, Entry
    <2>2. Len(granted[k]) \in Nat
        BY <2>1, TimesTyped, LimiterAssumption DEF LimiterInv, LimiterTypeOK, LimiterAssumption
    <2>3. /\ entry[k].count <= Len(granted[k])
          /\ granted[k][Len(granted[k]) - entry[k].count + 1] >= entry[k].start
        BY <2>1 DEF Fits, Filled
    <2> QED
        BY <2>1, <2>2, <2>3
<1> QED
    BY <1>3, <1>4, <1>5 DEF QuotaKept

(* The quota is kept from both sides, for every limit, window, clock and   *)
(* set of requests: no more than two windows' worth in any window's time   *)
(* (as long as no request waits for the lock longer than a tick), no more  *)
(* than a window's worth per window begun, and no refusal before that.     *)
THEOREM QuotaIsKept == LimiterSpec => []QuotaKept
<1>1. LimiterInv => QuotaKept
    BY FitKeepsQuota
<1> QED
    BY <1>1, LimiterInvariant, PTL

(***************************************************************************)
(* The log files                                                           *)
(***************************************************************************)

LogSpec == LogInit /\ [][LogNext]_logVars

Files == [0..Backups -> Seq(LogLines)]
LoggerRecord == [step : {"idle", "shift", "reopen"}, shift : 0..(Backups - 1), size : Nat,
                 line : [number : Nat, length : Nat, at : Nat]]

(* What LogFaithful says of files F, R the numbers of their lines and n the *)
(* last one written.                                                       *)
NumbersOf(F) == UNION {{F[i][k].number : k \in DOMAIN F[i]} : i \in 0..Backups}
Ordered(F) ==
    \A i, j \in 0..Backups : \A k \in DOMAIN F[i], l \in DOMAIN F[j] :
        i > j \/ (i = j /\ k < l) => F[i][k].number < F[j][l].number
UpTo(F, n) == \A i \in 0..Backups : \A k \in DOMAIN F[i] : F[i][k].number <= n
LineFits(line) == line.length < MaxBytes => line.at + line.length <= MaxBytes
AllFit(F) == \A i \in 0..Backups : \A k \in DOMAIN F[i] : LineFits(F[i][k])
Youngest(R, n) == (n > 0 => n \in R) /\ \A m \in R : m..n \subseteq R

LogTyped ==
    /\ logFile \in Files /\ logger \in LoggerRecord /\ logged \in 0..MaxLines
    /\ rotations \in Nat /\ mishap \in {"none", "crash", "fault"}

(* The size the writer goes by is that of the live file, but for the       *)
(* moment in which there is none; the line of a rotation is the last one   *)
(* logged, and fits a file.                                                *)
LineAtHand ==
    /\ logger.step # "reopen" => logger.size = EndOf(logFile[0])
    /\ logger.step = "reopen" => logFile[0] = <<>>
    /\ logger.step = "shift" => logFile[0] # <<>>
    /\ logger.step # "idle" =>
          logger.line.number = logged /\ logger.line.length < MaxBytes /\ rotations < logged
    /\ rotations <= logged

(* What is in the files was written, and the file the next rename goes to  *)
(* is not there.                                                           *)
NumbersBelow == UpTo(logFile, Newest)
RoomToShift == logger.step = "shift" /\ mishap # "fault" => logFile[logger.shift + 1] = <<>>

(* The backups in use at each step of a rotation. *)
InUse(i) ==
    \/ logger.step = "idle" /\ i <= rotations
    \/ logger.step = "reopen" /\ i <= rotations + 1
    \/ logger.step = "shift" /\ i <= logger.shift /\ i <= rotations
    \/ logger.step = "shift" /\ i > logger.shift + 1 /\ i <= rotations + 1
UseInv == mishap = "none" => \A i \in 1..Backups : logFile[i] # <<>> <=> InUse(i)

OrderInv ==
    /\ mishap # "fault" => Ordered(logFile)
    /\ mishap = "none" => Youngest(NumbersOf(logFile), Newest)

LogInv ==
    LogTyped /\ LineAtHand /\ NumbersBelow /\ RoomToShift /\ UseInv /\ OrderInv /\ AllFit(logFile)

LEMMA LogConstants ==
    /\ Backups \in Nat /\ Backups >= 1 /\ MaxBytes \in Nat /\ MaxBytes >= 1
    /\ MaxLines \in Nat /\ LineLengths \subseteq Nat
BY LogAssumption DEF LogAssumption

LEMMA FilesTypedAt ==
    ASSUME NEW F \in Files, NEW i \in 0..Backups
    PROVE  /\ F[i] \in Seq(LogLines)
           /\ \A k \in DOMAIN F[i] : F[i][k] \in LogLines /\ F[i][k].number \in 1..MaxLines
<1>1. F[i] \in Seq(LogLines)
  BY DEF Files
<1>2. ASSUME NEW k \in DOMAIN F[i] PROVE F[i][k] \in LogLines
  <2>1. k \in 1..Len(F[i])
    BY <1>1, <1>2
  <2> QED BY <1>1, <2>1, ElementOfSeq
<1> QED BY <1>1, <1>2 DEF LogLines

LEMMA NumbersIn ==
    ASSUME NEW F, NEW n
    PROVE  n \in NumbersOf(F) <=> \E i \in 0..Backups : \E k \in DOMAIN F[i] : F[i][k].number = n
BY DEF NumbersOf

(* A file of lines and its length. *)
LEMMA EndOfType ==
    ASSUME NEW lines \in Seq(LogLines)
    PROVE  EndOf(lines) \in Nat /\ (lines = <<>> => EndOf(lines) = 0)
<1>1. CASE lines = <<>>
  BY <1>1 DEF EndOf
<1>2. CASE lines # <<>>
  <2>1. Len(lines) \in 1..Len(lines)
    BY <1>2, EmptySeq
  <2>2. lines[Len(lines)] \in LogLines
    BY <2>1, ElementOfSeq
  <2> QED BY <1>2, <2>2 DEF EndOf, LogLines
<1> QED BY <1>1, <1>2

LEMMA HasALine ==
    ASSUME NEW lines \in Seq(LogLines), lines # <<>>
    PROVE  \E l \in DOMAIN lines : TRUE
<1>1. Len(lines) \in Nat /\ Len(lines) # 0
  BY EmptySeq
<1>2. 1 \in 1..Len(lines)
  BY <1>1
<1>3. DOMAIN lines = 1..Len(lines)
  BY LenProperties
<1> QED BY <1>2, <1>3

LEMMA EndOfAppend ==
    ASSUME NEW lines \in Seq(LogLines), NEW line \in LogLines
    PROVE  EndOf(Append(lines, line)) = line.at + line.length
<1>1. Append(lines, line) # <<>> /\ Len(Append(lines, line)) = Len(lines) + 1
      /\ Append(lines, line)[Len(lines) + 1] = line
  BY AppendFacts
<1> QED BY <1>1 DEF EndOf

(* What the renames, the drop of the oldest backup and a written line make *)
(* of the files.                                                           *)
LEMMA FilesMoved ==
    ASSUME NEW F \in Files, NEW from \in 0..(Backups - 1),
           NEW G, G = [F EXCEPT ![from + 1] = F[from], ![from] = <<>>]
    PROVE  /\ G \in Files /\ G[from] = <<>> /\ G[from + 1] = F[from]
           /\ \A i \in 0..Backups : i # from /\ i # from + 1 => G[i] = F[i]
<1>1. from \in 0..Backups /\ from + 1 \in 0..Backups /\ from + 1 # from
  BY LogConstants
<1>2. <<>> \in Seq(LogLines) /\ F[from] \in Seq(LogLines)
  BY <1>1, FilesTypedAt
<1> QED BY <1>1, <1>2 DEF Files

LEMMA LineWritten ==
    ASSUME NEW F \in Files, NEW line \in LogLines, NEW G, G = [F EXCEPT ![0] = Append(F[0], line)]
    PROVE  /\ G \in Files /\ G[0] = Append(F[0], line)
           /\ \A i \in 0..Backups : i # 0 => G[i] = F[i]
<1>1. 0 \in 0..Backups /\ F[0] \in Seq(LogLines)
  BY LogConstants, FilesTypedAt
<1>2. Append(F[0], line) \in Seq(LogLines)
  BY <1>1, AppendFacts
<1> QED BY <1>1, <1>2 DEF Files

(* A rename to a file that is not there loses nothing and keeps the order. *)
LEMMA MovedKeeps ==
    ASSUME NEW F \in Files, NEW G \in Files, NEW from \in 0..(Backups - 1),
           F[from + 1] = <<>>, G[from] = <<>>, G[from + 1] = F[from],
           \A i \in 0..Backups : i # from /\ i # from + 1 => G[i] = F[i]
    PROVE  /\ NumbersOf(G) = NumbersOf(F)
           /\ Ordered(F) => Ordered(G)
           /\ \A n : UpTo(F, n) => UpTo(G, n)
           /\ AllFit(F) => AllFit(G)
<1> DEFINE old(i) == IF i = from + 1 THEN from ELSE i
           new(i) == IF i = from THEN from + 1 ELSE i
<1>1. from \in 0..Backups /\ from + 1 \in 0..Backups /\ from + 1 # from
  BY LogConstants
<1>2. DOMAIN <<>> = {}
  OBVIOUS
<1>3. \A i \in 0..Backups : DOMAIN G[i] # {} => old(i) \in 0..Backups /\ i # from /\ G[i] = F[old(i)]
  BY <1>1, <1>2
<1>4. \A i \in 0..Backups : DOMAIN F[i] # {} => new(i) \in 0..Backups /\ G[new(i)] = F[i]
  BY <1>1, <1>2
<1>5. \A i, j \in 0..Backups : i # from /\ j # from /\ i > j => old(i) > old(j)
  BY <1>1
<1> HIDE DEF old, new
<1>6. NumbersOf(G) = NumbersOf(F)
  <2>1. ASSUME NEW n \in NumbersOf(G) PROVE n \in NumbersOf(F)
    <3>1. PICK i \in 0..Backups : \E k \in DOMAIN G[i] : G[i][k].number = n
      BY <2>1, NumbersIn
    <3>2. old(i) \in 0..Backups /\ G[i] = F[old(i)]
      BY <1>3, <3>1
    <3> QED BY <3>1, <3>2, NumbersIn
  <2>2. ASSUME NEW n \in NumbersOf(F) PROVE n \in NumbersOf(G)
    <3>1. PICK i \in 0..Backups : \E k \in DOMAIN F[i] : F[i][k].number = n
      BY <2>2, NumbersIn
    <3>2. new(i) \in 0..Backups /\ G[new(i)] = F[i]
      BY <1>4, <3>1
    <3> QED BY <3>1, <3>2, NumbersIn
  <2> QED BY <2>1, <2>2
<1>7. ASSUME Ordered(F) PROVE Ordered(G)
  <2> SUFFICES ASSUME NEW i \in 0..Backups, NEW j \in 0..Backups,
                      NEW k \in DOMAIN G[i], NEW l \in DOMAIN G[j], i > j \/ (i = j /\ k < l)
               PROVE  G[i][k].number < G[j][l].number
    BY DEF Ordered
  <2>1. old(i) \in 0..Backups /\ old(j) \in 0..Backups /\ G[i] = F[old(i)] /\ G[j] = F[old(j)]
        /\ i # from /\ j # from
    BY <1>3
  <2>2. old(i) > old(j) \/ (old(i) = old(j) /\ k < l)
    BY <1>5, <2>1
  <2>3. k \in DOMAIN F[old(i)] /\ l \in DOMAIN F[old(j)]
    BY <2>1
  <2> QED BY <1>7, <2>1, <2>2, <2>3 DEF Ordered
<1>8. ASSUME NEW n, UpTo(F, n) PROVE UpTo(G, n)
  BY <1>3, <1>8 DEF UpTo
<1>9. ASSUME AllFit(F) PROVE AllFit(G)
  BY <1>3, <1>9 DEF AllFit
<1> QED BY <1>6, <1>7, <1>8, <1>9

(* The oldest backup holds the oldest lines. *)
LEMMA EmptiedKeeps ==
    ASSUME NEW F \in Files, NEW G \in Files, G[Backups] = <<>>,
           \A i \in 0..Backups : i # Backups => G[i] = F[i]
    PROVE  /\ Ordered(F) => Ordered(G)
           /\ \A n : UpTo(F, n) => UpTo(G, n)
           /\ AllFit(F) => AllFit(G)
           /\ \A n \in Nat : /\ Ordered(F) /\ F[0] # <<>> /\ UpTo(F, n)
                             /\ Youngest(NumbersOf(F), n)
                             => Youngest(NumbersOf(G), n)
<1>1. DOMAIN <<>> = {} /\ Backups \in 0..Backups /\ 0 \in 0..Backups /\ Backups # 0
  BY LogConstants
<1>2. \A i \in 0..Backups : DOMAIN G[i] # {} => i # Backups /\ G[i] = F[i]
  BY <1>1
<1>3. ASSUME Ordered(F) PROVE Ordered(G)
  <2> SUFFICES ASSUME NEW i \in 0..Backups, NEW j \in 0..Backups,
                      NEW k \in DOMAIN G[i], NEW l \in DOMAIN G[j], i > j \/ (i = j /\ k < l)
               PROVE  G[i][k].number < G[j][l].number
    BY DEF Ordered
  <2>1. G[i] = F[i] /\ G[j] = F[j]
    BY <1>2
  <2> QED BY <1>3, <2>1 DEF Ordered
<1>4. ASSUME NEW n, UpTo(F, n) PROVE UpTo(G, n)
  BY <1>2, <1>4 DEF UpTo
<1>5. ASSUME AllFit(F) PROVE AllFit(G)
  BY <1>2, <1>5 DEF AllFit
<1>6. ASSUME NEW n \in Nat, Ordered(F), F[0] # <<>>, UpTo(F, n), Youngest(NumbersOf(F), n)
      PROVE  Youngest(NumbersOf(G), n)
  <2>1. PICK l \in DOMAIN F[0] : TRUE
    <3>1. F[0] \in Seq(LogLines)
      BY <1>1, FilesTypedAt
    <3> QED BY <1>6, <3>1, HasALine
  <2> DEFINE live == F[0][l].number
  <2>2. live <= n /\ live \in Nat
    <3>1. live \in 1..MaxLines
      BY <1>1, <2>1, FilesTypedAt
    <3> QED BY <1>1, <1>6, <2>1, <3>1, LogConstants DEF UpTo
  <2>3. ASSUME NEW i \in 0..Backups, NEW k \in DOMAIN F[i], NEW j \in 0..Backups, j # Backups,
               NEW m \in DOMAIN F[j], F[i][k].number >= F[j][m].number
        PROVE  i # Backups
    <3>1. SUFFICES ASSUME i = Backups PROVE FALSE
      OBVIOUS
    <3>2. i > j
      BY <2>3, <3>1, LogConstants
    <3>3. F[i][k].number < F[j][m].number
      BY <1>6, <2>3, <3>2 DEF Ordered
    <3>4. F[i][k].number \in 1..MaxLines /\ F[j][m].number \in 1..MaxLines
      BY <2>3, FilesTypedAt
    <3> QED BY <2>3, <3>3, <3>4, LogConstants
  <2>4. ASSUME NEW p \in NumbersOf(F), NEW j \in 0..Backups, j # Backups,
               NEW m \in DOMAIN F[j], p >= F[j][m].number
        PROVE  p \in NumbersOf(G)
    <3>1. PICK i \in 0..Backups : \E k \in DOMAIN F[i] : F[i][k].number = p
      BY <2>4, NumbersIn
    <3>2. i # Backups
      BY <2>3, <2>4, <3>1
    <3>3. G[i] = F[i]
      BY <3>2
    <3> QED BY <3>1, <3>3, NumbersIn
  <2>5. n > 0 => n \in NumbersOf(G)
    BY <1>1, <1>6, <2>1, <2>2, <2>4 DEF Youngest
  <2>6. ASSUME NEW q \in NumbersOf(G), NEW p \in q..n PROVE p \in NumbersOf(G)
    <3>1. PICK j \in 0..Backups : \E m \in DOMAIN G[j] : G[j][m].number = q
      BY <2>6, NumbersIn
    <3>2. j # Backups /\ G[j] = F[j]
      BY <1>2, <3>1
    <3>3. PICK m \in DOMAIN F[j] : F[j][m].number = q
      BY <3>1, <3>2
    <3>4. q \in NumbersOf(F)
      BY <3>3, NumbersIn
    <3>5. p \in NumbersOf(F)
      BY <1>6, <2>6, <3>4 DEF Youngest
    <3>6. q \in Nat
      BY <3>3, FilesTypedAt, LogConstants
    <3> QED BY <2>4, <2>6, <3>2, <3>3, <3>5, <3>6
  <2> QED BY <2>5, <2>6 DEF Youngest
<1> QED BY <1>3, <1>4, <1>5, <1>6

(* A line with the next number. *)
LEMMA WrittenKeeps ==
    ASSUME NEW F \in Files, NEW G \in Files, NEW line \in LogLines, NEW n \in Nat,
           G[0] = Append(F[0], line), \A i \in 0..Backups : i # 0 => G[i] = F[i],
           UpTo(F, n), line.number = n + 1
    PROVE  /\ UpTo(G, n + 1)
           /\ Ordered(F) => Ordered(G)
           /\ Youngest(NumbersOf(F), n) => Youngest(NumbersOf(G), n + 1)
           /\ AllFit(F) /\ LineFits(line) => AllFit(G)
<1> DEFINE last == Len(F[0]) + 1
<1>1. 0 \in 0..Backups /\ F[0] \in Seq(LogLines)
  BY LogConstants, FilesTypedAt
<1>2. /\ last \in Nat /\ DOMAIN F[0] = 1..Len(F[0]) /\ Len(F[0]) \in Nat
      /\ DOMAIN G[0] = 1..last /\ G[0][last] = line
      /\ \A k \in DOMAIN F[0] : G[0][k] = F[0][k]
  BY <1>1, AppendFacts
<1>3. ASSUME NEW i \in 0..Backups, NEW k \in DOMAIN G[i]
      PROVE  \/ i = 0 /\ k = last /\ G[i][k] = line
             \/ k \in DOMAIN F[i] /\ G[i][k] = F[i][k]
  <2>1. CASE i = 0
    <3>1. k \in 1..last
      BY <1>2, <1>3, <2>1
    <3>2. k = last \/ k \in 1..Len(F[0])
      BY <1>2, <3>1
    <3> QED BY <1>2, <2>1, <3>2
  <2>2. CASE i # 0
    BY <1>3, <2>2
  <2> QED BY <2>1, <2>2
<1>4. ASSUME NEW i \in 0..Backups, NEW k \in DOMAIN F[i]
      PROVE  k \in DOMAIN G[i] /\ G[i][k] = F[i][k]
  <2>1. CASE i = 0
    BY <1>2, <1>4, <2>1
  <2>2. CASE i # 0
    BY <1>4, <2>2
  <2> QED BY <2>1, <2>2
<1>5. last \in DOMAIN G[0]
  BY <1>2
<1>6. ASSUME NEW i \in 0..Backups, NEW k \in DOMAIN F[i]
      PROVE  F[i][k].number \in Nat /\ F[i][k].number <= n
  <2>1. F[i][k].number \in 1..MaxLines
    BY <1>6, FilesTypedAt
  <2> QED BY <1>6, <2>1, LogConstants DEF UpTo
<1>7. UpTo(G, n + 1)
  <2> SUFFICES ASSUME NEW i \in 0..Backups, NEW k \in DOMAIN G[i] PROVE G[i][k].number <= n + 1
    BY DEF UpTo
  <2>1. CASE G[i][k] = line
    BY <2>1
  <2>2. CASE k \in DOMAIN F[i] /\ G[i][k] = F[i][k]
    BY <1>6, <2>2
  <2> QED BY <1>3, <2>1, <2>2
<1>8. ASSUME Ordered(F) PROVE Ordered(G)
  <2> SUFFICES ASSUME NEW i \in 0..Backups, NEW j \in 0..Backups,
                      NEW k \in DOMAIN G[i], NEW l \in DOMAIN G[j], i > j \/ (i = j /\ k < l)
               PROVE  G[i][k].number < G[j][l].number
    BY DEF Ordered
  <2>1. CASE i = 0 /\ k = last
    <3>1. j = 0 /\ l > last
      BY <1>2, <2>1
    <3>2. l \in 1..last
      BY <1>2, <3>1
    <3> QED BY <1>2, <3>1, <3>2
  <2>2. CASE ~(i = 0 /\ k = last)
    <3>1. k \in DOMAIN F[i] /\ G[i][k] = F[i][k]
      BY <1>3, <2>2
    <3>2. CASE j = 0 /\ l = last /\ G[j][l] = line
      BY <1>6, <3>1, <3>2
    <3>3. CASE l \in DOMAIN F[j] /\ G[j][l] = F[j][l]
      BY <1>8, <3>1, <3>3 DEF Ordered
    <3> QED BY <1>3, <3>2, <3>3
  <2> QED BY <2>1, <2>2
<1>9. ASSUME Youngest(NumbersOf(F), n) PROVE Youngest(NumbersOf(G), n + 1)
  <2>1. n + 1 \in NumbersOf(G)
    BY <1>1, <1>2, <1>5, NumbersIn
  <2>2. ASSUME NEW p \in NumbersOf(F) PROVE p \in NumbersOf(G)
    <3>1. PICK i \in 0..Backups : \E k \in DOMAIN F[i] : F[i][k].number = p
      BY <2>2, NumbersIn
    <3> QED BY <1>4, <3>1, NumbersIn
  <2>3. ASSUME NEW q \in NumbersOf(G), NEW p \in q..(n + 1) PROVE p \in NumbersOf(G)
    <3>1. PICK i \in 0..Backups : \E k \in DOMAIN G[i] : G[i][k].number = q
      BY <2>3, NumbersIn
    <3>2. PICK k \in DOMAIN G[i] : G[i][k].number = q
      BY <3>1
    <3>3. CASE G[i][k] = line
      BY <2>1, <2>3, <3>2, <3>3
    <3>4. CASE k \in DOMAIN F[i] /\ G[i][k] = F[i][k]
      <4>1. q \in NumbersOf(F) /\ q \in Nat
        BY <1>6, <3>2, <3>4, NumbersIn
      <4>2. CASE p = n + 1
        BY <2>1, <4>2
      <4>3. CASE p # n + 1
        <5>1. p \in q..n
          BY <2>3, <4>1, <4>3
        <5> QED BY <1>9, <2>2, <4>1, <5>1 DEF Youngest
      <4> QED BY <4>2, <4>3
    <3> QED BY <1>3, <3>2, <3>3, <3>4
  <2> QED BY <2>1, <2>3 DEF Youngest
<1>10. ASSUME AllFit(F), LineFits(line) PROVE AllFit(G)
  <2> SUFFICES ASSUME NEW i \in 0..Backups, NEW k \in DOMAIN G[i] PROVE LineFits(G[i][k])
    BY DEF AllFit
  <2> QED BY <1>3, <1>10 DEF AllFit
<1> QED BY <1>7, <1>8, <1>9, <1>10

(* Append0, for the line with the number that is next.                     *)
LEMMA WritesALine ==
    ASSUME logFile \in Files, NEW line \in [number : Nat, length : Nat, at : Nat],
           NEW n \in Nat, line.number = n + 1, line.number <= MaxLines, UpTo(logFile, n),
           NEW size, size = EndOf(logFile[0]),
           line.length < MaxBytes => size + line.length <= MaxBytes,
           Append0(line, size)
    PROVE  /\ logFile' \in Files /\ \A i \in 1..Backups : logFile'[i] = logFile[i]
           /\ logger' \in LoggerRecord /\ logger'.step = "idle" /\ logger'.size = EndOf(logFile'[0])
           /\ UpTo(logFile', n + 1)
           /\ Ordered(logFile) => Ordered(logFile')
           /\ Youngest(NumbersOf(logFile), n) => Youngest(NumbersOf(logFile'), n + 1)
           /\ AllFit(logFile) => AllFit(logFile')
<1> DEFINE written == [line EXCEPT !.at = EndOf(logFile[0])]
<1>1. logFile[0] \in Seq(LogLines) /\ 0 \in 0..Backups
  BY LogConstants, FilesTypedAt
<1>2. size \in Nat
  BY <1>1, EndOfType
<1>3. /\ written \in LogLines /\ written.number = n + 1
      /\ written.at = size /\ written.length = line.length
  BY <1>2 DEF LogLines
<1>4. LineFits(written)
  BY <1>2, <1>3 DEF LineFits
<1>5. logFile' = [logFile EXCEPT ![0] = Append(logFile[0], written)]
  BY DEF Append0
<1> HIDE DEF written
<1>6. /\ logFile' \in Files /\ logFile'[0] = Append(logFile[0], written)
      /\ \A i \in 0..Backups : i # 0 => logFile'[i] = logFile[i]
  BY <1>3, <1>5, LineWritten
<1>7. logger' \in LoggerRecord /\ logger'.step = "idle" /\ logger'.size = size + line.length
  <2>1. logger' = [Ready EXCEPT !.size = size + line.length]
    BY DEF Append0
  <2>2. size + line.length \in Nat /\ 0 \in 0..(Backups - 1)
    BY <1>2, LogConstants
  <2> QED BY <2>1, <2>2 DEF Ready, LogLineOf, LoggerRecord
<1>8. EndOf(logFile'[0]) = size + line.length
  BY <1>1, <1>3, <1>6, EndOfAppend
<1>9. /\ UpTo(logFile', n + 1)
      /\ Ordered(logFile) => Ordered(logFile')
      /\ Youngest(NumbersOf(logFile), n) => Youngest(NumbersOf(logFile'), n + 1)
      /\ AllFit(logFile) => AllFit(logFile')
  BY <1>3, <1>4, <1>6, WrittenKeeps
<1>10. \A i \in 1..Backups : i \in 0..Backups /\ i # 0
  BY LogConstants
<1> QED BY <1>6, <1>7, <1>8, <1>9, <1>10

LEMMA UpToMore ==
    ASSUME NEW F \in Files, NEW m \in Nat, NEW n \in Nat, m <= n, UpTo(F, m)
    PROVE  UpTo(F, n)
<1> SUFFICES ASSUME NEW i \in 0..Backups, NEW k \in DOMAIN F[i] PROVE F[i][k].number <= n
  BY DEF UpTo
<1>1. F[i][k].number \in 1..MaxLines /\ F[i][k].number <= m
  BY FilesTypedAt DEF UpTo
<1> QED BY <1>1, LogConstants

LEMMA NewestType ==
    ASSUME LogInv
    PROVE  /\ Newest \in Nat /\ logged \in Nat /\ logged <= MaxLines /\ rotations \in Nat
           /\ logger.step = "idle" => Newest = logged
           /\ logger.step # "idle" => Newest = logged - 1 /\ Newest + 1 = logged
BY LogConstants DEF LogInv, LogTyped, LineAtHand, Newest

LEMMA LogInitially == LogInit => LogInv
<1> SUFFICES ASSUME LogInit PROVE LogInv
  OBVIOUS
<1>1. \A i \in 0..Backups : logFile[i] = <<>> /\ DOMAIN logFile[i] = {}
  BY DEF LogInit
<1>2. 0 \in 0..Backups /\ 0 \in 0..(Backups - 1) /\ 0 \in 0..MaxLines
      /\ \A i \in 1..Backups : i \in 0..Backups /\ ~(i <= 0)
  BY LogConstants
<1>3. LogTyped
  BY <1>2 DEF LogInit, LogTyped, Files, Ready, LogLineOf, LoggerRecord
<1>4. LineAtHand
  BY <1>1, <1>2 DEF LogInit, LineAtHand, Ready, EndOf
<1>5. NumbersBelow /\ AllFit(logFile) /\ Ordered(logFile)
  BY <1>1 DEF NumbersBelow, UpTo, AllFit, Ordered
<1>6. RoomToShift /\ UseInv
  BY <1>1, <1>2 DEF LogInit, Ready, RoomToShift, UseInv, InUse
<1>7. Youngest(NumbersOf(logFile), Newest)
  <2>1. NumbersOf(logFile) = {}
    BY <1>1, NumbersIn
  <2>2. Newest = 0
    BY DEF LogInit, Ready, Newest
  <2> QED BY <2>1, <2>2 DEF Youngest
<1> QED BY <1>3, <1>4, <1>5, <1>6, <1>7 DEF LogInv, OrderInv

(* One of the two ways to log a line: at the end of the live file.         *)
LEMMA LogLineAppends ==
    ASSUME LogInv, NEW length \in LineLengths, logger.step = "idle", logged < MaxLines,
           logged' = logged + 1, ~(logger.size + length > MaxBytes /\ length < MaxBytes),
           Append0(LogLineOf(logged + 1, length, 0), logger.size),
           UNCHANGED <<rotations, mishap>>
    PROVE  LogInv'
<1> DEFINE line == LogLineOf(logged + 1, length, 0)
<1>1. /\ logFile \in Files /\ logger.size \in Nat /\ logger.size = EndOf(logFile[0])
      /\ logged \in 0..MaxLines /\ rotations \in Nat /\ rotations <= logged
      /\ mishap \in {"none", "crash", "fault"}
  BY DEF LogInv, LogTyped, LineAtHand, LoggerRecord
<1>2. Newest \in Nat /\ Newest = logged /\ UpTo(logFile, logged)
  BY NewestType DEF LogInv, NumbersBelow
<1>3. /\ line \in [number : Nat, length : Nat, at : Nat] /\ line.number = logged + 1
      /\ line.length = length /\ line.number <= MaxLines
  BY <1>1, LogConstants DEF LogLineOf
<1>4. line.length < MaxBytes => logger.size + line.length <= MaxBytes
  BY <1>1, <1>3, LogConstants
<1>5. Append0(line, logger.size)
  OBVIOUS
<1> HIDE DEF line
<1>6. /\ logFile' \in Files /\ \A i \in 1..Backups : logFile'[i] = logFile[i]
      /\ logger' \in LoggerRecord /\ logger'.step = "idle" /\ logger'.size = EndOf(logFile'[0])
      /\ UpTo(logFile', logged + 1)
      /\ Ordered(logFile) => Ordered(logFile')
      /\ Youngest(NumbersOf(logFile), logged) => Youngest(NumbersOf(logFile'), logged + 1)
      /\ AllFit(logFile) => AllFit(logFile')
  BY <1>1, <1>2, <1>3, <1>4, <1>5, WritesALine
<1>7. Newest' = logged + 1 /\ logged + 1 \in 0..MaxLines
  BY <1>1, <1>6, LogConstants DEF Newest
<1>8. LogTyped' /\ LineAtHand'
  BY <1>1, <1>6, <1>7 DEF LogTyped, LineAtHand
<1>9. NumbersBelow' /\ RoomToShift'
  BY <1>6, <1>7 DEF NumbersBelow, RoomToShift
<1>10. UseInv'
  BY <1>6 DEF LogInv, UseInv, InUse
<1>11. OrderInv' /\ AllFit(logFile)'
  BY <1>2, <1>6, <1>7 DEF LogInv, OrderInv
<1> QED BY <1>8, <1>9, <1>10, <1>11 DEF LogInv

(* The other one: the rotation begins, and the oldest backup is gone.      *)
LEMMA LogLineRotates ==
    ASSUME LogInv, NEW length \in LineLengths, logger.step = "idle", logged < MaxLines,
           logged' = logged + 1, logger.size + length > MaxBytes, length < MaxBytes,
           logFile' = [logFile EXCEPT ![Backups] = <<>>],
           logger' = [logger EXCEPT !.step = "shift", !.shift = Backups - 1,
                                    !.line = LogLineOf(logged + 1, length, 0)],
           UNCHANGED <<rotations, mishap>>
    PROVE  LogInv'
<1>1. /\ logFile \in Files /\ logger \in LoggerRecord /\ logger.size \in Nat
      /\ logger.size = EndOf(logFile[0])
      /\ logged \in 0..MaxLines /\ rotations \in Nat /\ rotations <= logged
      /\ mishap \in {"none", "crash", "fault"}
  BY DEF LogInv, LogTyped, LineAtHand, LoggerRecord
<1>2. Newest \in Nat /\ Newest = logged /\ UpTo(logFile, logged)
  BY NewestType DEF LogInv, NumbersBelow
<1>3. 0 \in 0..Backups /\ Backups \in 0..Backups /\ Backups # 0 /\ Backups - 1 \in 0..(Backups - 1)
      /\ (Backups - 1) + 1 = Backups
  BY LogConstants
<1>4. logFile' \in Files /\ logFile'[Backups] = <<>>
      /\ \A i \in 0..Backups : i # Backups => logFile'[i] = logFile[i]
  <2>1. <<>> \in Seq(LogLines)
    OBVIOUS
  <2> QED BY <1>1, <1>3, <2>1 DEF Files
<1>5. logFile[0] # <<>> /\ logFile'[0] = logFile[0]
  <2>1. logFile[0] = <<>> => logger.size = 0
    BY <1>1 DEF EndOf
  <2>2. logger.size # 0
    BY <1>1, LogConstants
  <2> QED BY <1>3, <1>4, <2>1, <2>2
<1>6. /\ logger'.step = "shift" /\ logger'.shift = Backups - 1 /\ logger'.size = logger.size
      /\ logger'.line.number = logged + 1 /\ logger'.line.length = length
      /\ logger' \in LoggerRecord
  <2>1. LogLineOf(logged + 1, length, 0) \in [number : Nat, length : Nat, at : Nat]
    BY <1>1, LogConstants DEF LogLineOf
  <2> QED BY <1>1, <1>3, <2>1 DEF LoggerRecord, LogLineOf
<1>7. Newest' = logged /\ logged' = logged + 1 /\ logged' \in 0..MaxLines
  BY <1>1, <1>6, LogConstants DEF Newest
<1>8. LogTyped' /\ LineAtHand'
  BY <1>1, <1>4, <1>5, <1>6, <1>7 DEF LogTyped, LineAtHand
<1>9. /\ Ordered(logFile) => Ordered(logFile')
      /\ UpTo(logFile', logged)
      /\ AllFit(logFile) => AllFit(logFile')
      /\ Ordered(logFile) /\ Youngest(NumbersOf(logFile), logged)
            => Youngest(NumbersOf(logFile'), logged)
  BY <1>1, <1>2, <1>4, <1>5, EmptiedKeeps, LogConstants
<1>10. NumbersBelow' /\ RoomToShift'
  BY <1>3, <1>4, <1>6, <1>7, <1>9 DEF NumbersBelow, RoomToShift
<1>11. UseInv'
  <2> SUFFICES ASSUME mishap = "none", NEW i \in 1..Backups PROVE logFile'[i] # <<>> <=> InUse(i)'
    BY DEF UseInv
  <2>1. logFile[i] # <<>> <=> i <= rotations
    BY <1>1 DEF LogInv, UseInv, InUse
  <2>2. InUse(i)' <=> i <= Backups - 1 /\ i <= rotations
    <3>1. ~(i > (Backups - 1) + 1)
      BY LogConstants
    <3> QED BY <1>6, <3>1 DEF InUse
  <2>3. i <= Backups - 1 <=> i # Backups
    BY LogConstants
  <2> QED BY <1>4, <2>1, <2>2, <2>3
<1>12. OrderInv' /\ AllFit(logFile)'
  BY <1>2, <1>7, <1>9 DEF LogInv, OrderInv
<1> QED BY <1>8, <1>10, <1>11, <1>12 DEF LogInv

LEMMA ShiftPlaces ==
    ASSUME NEW s \in 0..(Backups - 1), s > 0
    PROVE  /\ s \in Nat /\ s <= Backups - 1 /\ s \in 0..Backups /\ s \in 1..Backups
           /\ 0 \in 0..Backups /\ s # 0 /\ s + 1 # 0
           /\ s - 1 \in 0..(Backups - 1) /\ (s - 1) + 1 = s /\ ~(s > s + 1)
BY LogConstants

LEMMA ShiftBackupLog == LogInv /\ ShiftBackup => LogInv'
<1> SUFFICES ASSUME LogInv, NEW fails \in BOOLEAN, logger.step = "shift", logger.shift > 0,
                    logFile' = IF fails \/ logFile[logger.shift] = <<>> THEN logFile
                               ELSE Move(logger.shift, logger.shift + 1),
                    logger' = [logger EXCEPT !.shift = ThenShift(@)],
                    mishap' = IF fails THEN "fault" ELSE mishap,
                    UNCHANGED <<logged, rotations>>
             PROVE  LogInv'
  BY DEF ShiftBackup
<1> DEFINE s == logger.shift
<1>1. /\ logFile \in Files /\ logger \in LoggerRecord /\ s \in 0..(Backups - 1)
      /\ logger.size = EndOf(logFile[0]) /\ logFile[0] # <<>>
      /\ logger.line.number = logged /\ logger.line.length < MaxBytes /\ rotations < logged
      /\ rotations <= logged
      /\ logged \in 0..MaxLines /\ rotations \in Nat /\ mishap \in {"none", "crash", "fault"}
  BY DEF LogInv, LogTyped, LineAtHand, LoggerRecord
<1>2. /\ s \in Nat /\ s > 0 /\ s <= Backups - 1 /\ s \in 0..Backups /\ s \in 1..Backups
      /\ 0 \in 0..Backups /\ s # 0 /\ s + 1 # 0
      /\ s - 1 \in 0..(Backups - 1) /\ (s - 1) + 1 = s /\ ~(s > s + 1)
  BY <1>1, ShiftPlaces
<1>3. /\ logger'.step = "shift" /\ logger'.shift = s - 1 /\ logger'.size = logger.size
      /\ logger'.line = logger.line /\ logger' \in LoggerRecord
  <2>1. logger' = [logger EXCEPT !.shift = s - 1]
    BY <1>1, <1>2 DEF ThenShift, LoggerRecord
  <2> QED BY <1>1, <1>2, <2>1 DEF LoggerRecord
<1> HIDE DEF s
<1>4. Newest' = Newest /\ UpTo(logFile, Newest) /\ Newest \in Nat
  BY <1>3, NewestType DEF LogInv, NumbersBelow, Newest
<1>5. CASE ~fails /\ logFile[s] # <<>> /\ mishap = "fault"
  <2>1. logFile' = [logFile EXCEPT ![s + 1] = logFile[s], ![s] = <<>>]
    BY <1>5 DEF Move, s
  <2>2. /\ logFile' \in Files /\ logFile'[s] = <<>> /\ logFile'[s + 1] = logFile[s]
        /\ \A i \in 0..Backups : i # s /\ i # s + 1 => logFile'[i] = logFile[i]
    BY <1>1, <2>1, FilesMoved
  <2> DEFINE old(i) == IF i = s + 1 THEN s ELSE i
  <2>3. \A i \in 0..Backups : DOMAIN logFile'[i] # {} =>
            old(i) \in 0..Backups /\ logFile'[i] = logFile[old(i)]
    BY <1>2, <2>2
  <2>4. mishap' = "fault"
    BY <1>5
  <2>5. LogTyped' /\ LineAtHand'
    BY <1>1, <1>2, <1>3, <2>2, <2>4 DEF LogTyped, LineAtHand
  <2> HIDE DEF old
  <2>6. NumbersBelow' /\ AllFit(logFile')
    BY <1>4, <2>3 DEF LogInv, NumbersBelow, UpTo, AllFit
  <2>7. RoomToShift' /\ UseInv' /\ OrderInv'
    BY <2>4 DEF RoomToShift, UseInv, OrderInv
  <2> QED BY <2>5, <2>6, <2>7 DEF LogInv
<1>6. CASE ~fails /\ logFile[s] # <<>> /\ mishap # "fault"
  <2>1. logFile' = [logFile EXCEPT ![s + 1] = logFile[s], ![s] = <<>>] /\ mishap' = mishap
    BY <1>6 DEF Move, s
  <2>2. /\ logFile' \in Files /\ logFile'[s] = <<>> /\ logFile'[s + 1] = logFile[s]
        /\ \A i \in 0..Backups : i # s /\ i # s + 1 => logFile'[i] = logFile[i]
    BY <1>1, <2>1, FilesMoved
  <2>3. logFile[s + 1] = <<>>
    BY <1>6 DEF LogInv, RoomToShift, s
  <2>4. /\ NumbersOf(logFile') = NumbersOf(logFile)
        /\ Ordered(logFile) => Ordered(logFile')
        /\ \A n : UpTo(logFile, n) => UpTo(logFile', n)
        /\ AllFit(logFile) => AllFit(logFile')
    BY <1>1, <2>2, <2>3, MovedKeeps
  <2>5. LogTyped' /\ LineAtHand'
    BY <1>1, <1>2, <1>3, <2>1, <2>2 DEF LogTyped, LineAtHand
  <2>6. NumbersBelow' /\ AllFit(logFile') /\ OrderInv'
    BY <1>4, <2>1, <2>4 DEF LogInv, NumbersBelow, OrderInv
  <2>7. RoomToShift'
    BY <1>2, <1>3, <2>2 DEF RoomToShift
  <2>8. UseInv'
    <3> SUFFICES ASSUME mishap = "none", NEW i \in 1..Backups
                 PROVE  logFile'[i] # <<>> <=> InUse(i)'
      BY <2>1 DEF UseInv
    <3>1. \A j \in 1..Backups : logFile[j] # <<>> <=> InUse(j)
      BY DEF LogInv, UseInv
    <3>2. \A j \in 1..Backups : InUse(j) <=> \/ j <= s /\ j <= rotations
                                             \/ j > s + 1 /\ j <= rotations + 1
      BY DEF InUse, s
    <3>3. InUse(i)' <=> (i <= s - 1 /\ i <= rotations) \/ (i > s /\ i <= rotations + 1)
      BY <1>2, <1>3 DEF InUse
    <3>4. i \in 0..Backups /\ i \in Nat
      BY LogConstants
    <3>8. s <= rotations
      BY <1>2, <1>6, <3>1, <3>2
    <3>5. CASE i = s
      BY <1>1, <1>2, <2>2, <3>3, <3>5
    <3>6. CASE i = s + 1
      BY <1>1, <1>2, <1>6, <2>2, <3>3, <3>6, <3>8
    <3>7. CASE i # s /\ i # s + 1
      BY <1>1, <1>2, <2>2, <3>1, <3>2, <3>3, <3>4, <3>7
    <3> QED BY <3>5, <3>6, <3>7
  <2> QED BY <2>5, <2>6, <2>7, <2>8 DEF LogInv
<1>7. CASE fails \/ logFile[s] = <<>>
  <2>1. logFile' = logFile
    BY <1>7 DEF s
  <2>2. mishap' \in {"none", "crash", "fault"} /\ (mishap' # "fault" => ~fails /\ mishap' = mishap)
    BY <1>1
  <2>3. LogTyped' /\ LineAtHand'
    BY <1>1, <1>3, <2>1, <2>2 DEF LogTyped, LineAtHand
  <2>4. NumbersBelow' /\ AllFit(logFile') /\ OrderInv'
    BY <1>4, <2>1, <2>2 DEF LogInv, NumbersBelow, OrderInv
  <2>5. RoomToShift'
    BY <1>2, <1>3, <1>7, <2>1, <2>2 DEF RoomToShift
  <2>6. UseInv'
    <3> SUFFICES ASSUME mishap' = "none", NEW i \in 1..Backups
                 PROVE  logFile[i] # <<>> <=> InUse(i)'
      BY <2>1 DEF UseInv
    <3>1. \A j \in 1..Backups : logFile[j] # <<>> <=> InUse(j)
      BY <2>2 DEF LogInv, UseInv
    <3>2. \A j \in 1..Backups : InUse(j) <=> \/ j <= s /\ j <= rotations
                                             \/ j > s + 1 /\ j <= rotations + 1
      BY DEF InUse, s
    <3>3. InUse(i)' <=> (i <= s - 1 /\ i <= rotations) \/ (i > s /\ i <= rotations + 1)
      BY <1>2, <1>3 DEF InUse
    <3>4. i \in Nat /\ ~(s <= rotations)
      BY <1>2, <1>7, <2>2, <3>1, <3>2
    <3>5. logFile[i] # <<>> <=> (i <= s /\ i <= rotations) \/ (i > s + 1 /\ i <= rotations + 1)
      BY <3>1, <3>2
    <3> HIDE <3>1, <3>2
    <3> QED BY <1>1, <1>2, <3>3, <3>4, <3>5
  <2> QED BY <2>3, <2>4, <2>5, <2>6 DEF LogInv
<1> QED BY <1>5, <1>6, <1>7

LEMMA LiveMoved ==
    ASSUME logFile \in Files, logFile' = [logFile EXCEPT ![1] = logFile[0], ![0] = <<>>]
    PROVE  /\ logFile' \in Files /\ logFile'[0] = <<>> /\ logFile'[1] = logFile[0]
           /\ \A i \in 0..Backups : i # 0 /\ i # 1 => logFile'[i] = logFile[i]
<1>1. 0 \in 0..Backups /\ 1 \in 0..Backups
  BY LogConstants
<1>2. <<>> \in Seq(LogLines) /\ logFile[0] \in Seq(LogLines)
  BY <1>1, FilesTypedAt
<1> QED BY <1>1, <1>2 DEF Files

LEMMA MoveLiveLog == LogInv /\ MoveLive => LogInv'
<1> SUFFICES ASSUME LogInv, NEW fails \in BOOLEAN, logger.step = "shift", logger.shift = 0,
                    IF fails
                    THEN /\ logger' = [Ready EXCEPT !.size = logger.size]
                         /\ mishap' = "fault" /\ UNCHANGED logFile
                    ELSE /\ logFile' = IF logFile[0] = <<>> THEN logFile ELSE Move(0, 1)
                         /\ logger' = [logger EXCEPT !.step = "reopen"]
                         /\ UNCHANGED mishap,
                    UNCHANGED <<logged, rotations>>
             PROVE  LogInv'
  BY DEF MoveLive
<1>1. /\ logFile \in Files /\ logger \in LoggerRecord /\ logger.size \in Nat
      /\ logger.size = EndOf(logFile[0]) /\ logFile[0] # <<>>
      /\ logger.line.number = logged /\ logger.line.length < MaxBytes /\ rotations < logged
      /\ rotations <= logged
      /\ logged \in 0..MaxLines /\ rotations \in Nat /\ mishap \in {"none", "crash", "fault"}
  BY DEF LogInv, LogTyped, LineAtHand, LoggerRecord
<1>2. Newest \in Nat /\ logged \in Nat /\ Newest = logged - 1 /\ UpTo(logFile, Newest)
  BY NewestType DEF LogInv, NumbersBelow
<1>3. 0 \in 0..(Backups - 1) /\ 0 \in 0..Backups /\ 1 \in 0..Backups
  BY LogConstants
<1>4. CASE fails
  <2>1. logger' \in LoggerRecord /\ logger'.step = "idle" /\ logger'.size = logger.size
    BY <1>1, <1>3, <1>4 DEF Ready, LogLineOf, LoggerRecord
  <2>2. logFile' = logFile /\ mishap' = "fault" /\ Newest' = logged
    BY <1>4, <2>1 DEF Newest
  <2>3. LogTyped' /\ LineAtHand'
    BY <1>1, <2>1, <2>2 DEF LogTyped, LineAtHand
  <2>4. UpTo(logFile, logged)
    BY <1>1, <1>2, UpToMore
  <2>5. NumbersBelow' /\ AllFit(logFile')
    BY <2>2, <2>4 DEF LogInv, NumbersBelow
  <2>6. RoomToShift' /\ UseInv' /\ OrderInv'
    BY <2>2 DEF RoomToShift, UseInv, OrderInv
  <2> QED BY <2>3, <2>5, <2>6 DEF LogInv
<1>5. CASE ~fails
  <2>1. /\ logger' \in LoggerRecord /\ logger'.step = "reopen" /\ logger'.line = logger.line
        /\ mishap' = mishap
    BY <1>1, <1>5 DEF LoggerRecord
  <2>2. logFile' = [logFile EXCEPT ![1] = logFile[0], ![0] = <<>>]
    BY <1>1, <1>5 DEF Move
  <2>3. /\ logFile' \in Files /\ logFile'[0] = <<>> /\ logFile'[1] = logFile[0]
        /\ \A i \in 0..Backups : i # 0 /\ i # 1 => logFile'[i] = logFile[i]
    BY <1>1, <2>2, LiveMoved, Zenon
  <2>4. Newest' = Newest
    BY <2>1 DEF Newest
  <2>5. LogTyped' /\ LineAtHand'
    BY <1>1, <2>1, <2>3 DEF LogTyped, LineAtHand
  <2>6. RoomToShift'
    BY <2>1 DEF RoomToShift
  <2>7. NumbersBelow' /\ AllFit(logFile') /\ OrderInv'
    <3>1. CASE mishap # "fault"
      <4>1. logFile[0 + 1] = <<>> /\ 0 + 1 = 1
        BY <3>1 DEF LogInv, RoomToShift
      <4>2. /\ NumbersOf(logFile') = NumbersOf(logFile)
            /\ Ordered(logFile) => Ordered(logFile')
            /\ \A n : UpTo(logFile, n) => UpTo(logFile', n)
            /\ AllFit(logFile) => AllFit(logFile')
        BY <1>1, <1>3, <2>3, <4>1, MovedKeeps
      <4> QED BY <1>2, <2>1, <2>4, <4>2 DEF LogInv, NumbersBelow, OrderInv
    <3>2. CASE mishap = "fault"
      <4>1. \A i \in 0..Backups : \/ logFile'[i] = <<>>
                                  \/ logFile'[i] = logFile[i]
                                  \/ logFile'[i] = logFile[0]
        BY <1>3, <2>3
      <4>2. \A i \in 0..Backups : \A k \in DOMAIN logFile'[i] :
                \E j \in 0..Backups : k \in DOMAIN logFile[j] /\ logFile'[i][k] = logFile[j][k]
        BY <1>3, <4>1
      <4> QED BY <1>2, <2>1, <2>4, <3>2, <4>2 DEF LogInv, NumbersBelow, UpTo, AllFit, OrderInv
    <3> QED BY <3>1, <3>2
  <2>8. UseInv'
    <3> SUFFICES ASSUME mishap = "none", NEW i \in 1..Backups
                 PROVE  logFile'[i] # <<>> <=> InUse(i)'
      BY <2>1 DEF UseInv
    <3>1. logFile[i] # <<>> <=> i > 1 /\ i <= rotations + 1
      BY <1>1 DEF LogInv, UseInv, InUse
    <3>2. InUse(i)' <=> i <= rotations + 1
      BY <2>1 DEF InUse
    <3>3. i = 1 => i <= rotations + 1
      BY <1>1
    <3>4. i \in 0..Backups /\ i # 0 /\ (i > 1 <=> i # 1)
      BY LogConstants
    <3> QED BY <1>1, <1>3, <2>3, <3>1, <3>2, <3>3, <3>4
  <2> QED BY <2>5, <2>6, <2>7, <2>8 DEF LogInv
<1> QED BY <1>4, <1>5

LEMMA ReopenLog == LogInv /\ Reopen => LogInv'
<1> SUFFICES ASSUME LogInv, logger.step = "reopen", Append0(logger.line, 0),
                    rotations' = rotations + 1, UNCHANGED <<logged, mishap>>
             PROVE  LogInv'
  BY DEF Reopen
<1>1. /\ logFile \in Files /\ logFile[0] = <<>>
      /\ logger.line \in [number : Nat, length : Nat, at : Nat]
      /\ logger.line.number = logged /\ logger.line.length < MaxBytes
      /\ rotations < logged /\ logged \in 0..MaxLines /\ rotations \in Nat
      /\ mishap \in {"none", "crash", "fault"}
  BY DEF LogInv, LogTyped, LineAtHand, LoggerRecord
<1>2. Newest \in Nat /\ logged \in Nat /\ Newest + 1 = logged /\ UpTo(logFile, Newest)
  BY NewestType DEF LogInv, NumbersBelow
<1>3. 0 = EndOf(logFile[0])
  BY <1>1 DEF EndOf
<1>4. logger.line.length < MaxBytes => 0 + logger.line.length <= MaxBytes
  BY <1>1, LogConstants
<1>5. logger.line.number <= MaxLines
  BY <1>1, LogConstants
<1>6. /\ logFile' \in Files /\ \A i \in 1..Backups : logFile'[i] = logFile[i]
      /\ logger' \in LoggerRecord /\ logger'.step = "idle" /\ logger'.size = EndOf(logFile'[0])
      /\ UpTo(logFile', Newest + 1)
      /\ Ordered(logFile) => Ordered(logFile')
      /\ Youngest(NumbersOf(logFile), Newest) => Youngest(NumbersOf(logFile'), Newest + 1)
      /\ AllFit(logFile) => AllFit(logFile')
  BY <1>1, <1>2, <1>3, <1>4, <1>5, WritesALine
<1>7. Newest' = Newest + 1
  BY <1>2, <1>6 DEF Newest
<1>8. LogTyped' /\ LineAtHand'
  BY <1>1, <1>6, LogConstants DEF LogTyped, LineAtHand
<1>9. NumbersBelow' /\ RoomToShift'
  BY <1>6, <1>7 DEF NumbersBelow, RoomToShift
<1>10. UseInv'
  BY <1>6 DEF LogInv, UseInv, InUse
<1>11. OrderInv' /\ AllFit(logFile)'
  BY <1>6, <1>7 DEF LogInv, OrderInv
<1> QED BY <1>8, <1>9, <1>10, <1>11 DEF LogInv

LEMMA RestartLog == LogInv /\ RestartLogger => LogInv'
<1> SUFFICES ASSUME LogInv, RestartLogger PROVE LogInv'
  OBVIOUS
<1>1. /\ logFile \in Files /\ rotations \in Nat /\ rotations <= logged
      /\ logged \in 0..MaxLines /\ mishap \in {"none", "crash", "fault"}
      /\ logFile' = logFile /\ rotations' = rotations /\ logged' = logged
  BY DEF LogInv, LogTyped, LineAtHand, RestartLogger
<1>2. EndOf(logFile[0]) \in Nat
  BY <1>1, FilesTypedAt, EndOfType, LogConstants
<1>3. logger' \in LoggerRecord /\ logger'.step = "idle" /\ logger'.size = EndOf(logFile[0])
  <2>1. 0 \in 0..(Backups - 1)
    BY LogConstants
  <2> QED BY <1>2, <2>1 DEF RestartLogger, OpenLog, Ready, LogLineOf, LoggerRecord
<1>4. /\ mishap' \in {"none", "crash", "fault"}
      /\ mishap' # "fault" => mishap # "fault"
      /\ mishap' = "none" => mishap = "none" /\ logger.step = "idle"
  BY <1>1 DEF RestartLogger
<1>5. Newest' = logged
  BY <1>1, <1>3 DEF Newest
<1>6. UpTo(logFile, logged) /\ (logger.step = "idle" => Newest = logged)
  <2>1. Newest \in Nat /\ logged \in Nat /\ Newest <= logged /\ (logger.step = "idle" => Newest = logged)
    BY NewestType
  <2>2. UpTo(logFile, Newest)
    BY DEF LogInv, NumbersBelow
  <2> QED BY <1>1, <2>1, <2>2, UpToMore
<1>7. LogTyped' /\ LineAtHand'
  BY <1>1, <1>3, <1>4 DEF LogTyped, LineAtHand
<1>8. NumbersBelow' /\ RoomToShift'
  BY <1>1, <1>3, <1>5, <1>6 DEF NumbersBelow, RoomToShift
<1>9. UseInv'
  BY <1>1, <1>3, <1>4 DEF LogInv, UseInv, InUse
<1>10. OrderInv' /\ AllFit(logFile)'
  BY <1>1, <1>4, <1>5, <1>6 DEF LogInv, OrderInv
<1> QED BY <1>7, <1>8, <1>9, <1>10 DEF LogInv

LEMMA LogInvNext == LogInv /\ [LogNext]_logVars => LogInv'
<1> SUFFICES ASSUME LogInv, [LogNext]_logVars PROVE LogInv'
  OBVIOUS
<1>1. CASE LogLine
  <2>1. PICK length \in LineLengths :
            /\ logger.step = "idle" /\ logged < MaxLines /\ logged' = logged + 1
            /\ IF logger.size + length > MaxBytes /\ length < MaxBytes
               THEN /\ logFile' = [logFile EXCEPT ![Backups] = <<>>]
                    /\ logger' = [logger EXCEPT !.step = "shift", !.shift = Backups - 1,
                                                !.line = LogLineOf(logged + 1, length, 0)]
               ELSE Append0(LogLineOf(logged + 1, length, 0), logger.size)
            /\ UNCHANGED <<rotations, mishap>>
    BY <1>1, Zenon DEF LogLine
  <2>2. CASE logger.size + length > MaxBytes /\ length < MaxBytes
    <3>1. /\ logFile' = [logFile EXCEPT ![Backups] = <<>>]
          /\ logger' = [logger EXCEPT !.step = "shift", !.shift = Backups - 1,
                                      !.line = LogLineOf(logged + 1, length, 0)]
      BY <2>1, <2>2
    <3> HIDE DEF LogInv
    <3> QED BY <2>1, <2>2, <3>1, LogLineRotates, Zenon
  <2>3. CASE ~(logger.size + length > MaxBytes /\ length < MaxBytes)
    BY <2>1, <2>3, LogLineAppends
  <2> QED BY <2>2, <2>3
<1>2. CASE UNCHANGED logVars
  BY <1>2 DEF logVars, LogInv, LogTyped, LineAtHand, NumbersBelow, RoomToShift, UseInv, InUse,
              OrderInv, Newest
<1> QED BY <1>1, <1>2, ShiftBackupLog, MoveLiveLog, ReopenLog, RestartLog DEF LogNext

LEMMA LogInvFaithful == LogInv => LogFaithful
<1> SUFFICES ASSUME LogInv PROVE LogFaithful
  OBVIOUS
<1>1. LogInOrder
  BY DEF LogInv, OrderInv, LogInOrder, Ordered, Youngest, NumbersOf, Retained
<1>2. LogKept
  BY DEF LogInv, UseInv, InUse, LogKept
<1>3. LogBounded
  BY DEF LogInv, AllFit, LineFits, LogBounded
<1> QED BY <1>1, <1>2, <1>3 DEF LogFaithful

LEMMA LogInvariant == LogSpec => []LogInv
BY LogInitially, LogInvNext, PTL DEF LogSpec

(* Through every crash and every rename that fails, in files of bounded    *)
(* size (RotatingFile::write_inner and rotate): the lines are in order and *)
(* none is there twice unless a rename failed; without mishaps they are    *)
(* the youngest, and a backup is given up only for a younger one.          *)
THEOREM LogIsFaithful == LogSpec => []LogFaithful
BY LogInvariant, LogInvFaithful, PTL
(***************************************************************************)
(* `setup`: what it keeps of the user's files                              *)
(***************************************************************************)

SetupSpec == SetupInit /\ [][SetupNext]_setupVars

(* What a level of the merge lets through, and what it puts in its place. *)
LEMMA LevelOfObjects ==
    ASSUME NEW base, NEW f, NEW below, base.kind = "object"
    PROVE  MergeLevel(base, Object(f), below) =
               Object([k \in DOMAIN base.of \union DOMAIN f |->
                           IF k \in DOMAIN f THEN below[k] ELSE base.of[k]])
BY DEF MergeLevel, Object

LEMMA LevelOfOthers ==
    ASSUME NEW base, NEW f, NEW below, base.kind # "object"
    PROVE  MergeLevel(base, Object(f), below) = Object(f)
BY DEF MergeLevel, Object

LEMMA LevelOfLeaf ==
    ASSUME NEW base, NEW x, NEW below
    PROVE  MergeLevel(base, Leaf(x), below) = Leaf(x)
BY DEF MergeLevel, Leaf

LEMMA ObjectIs == ASSUME NEW f PROVE Object(f).kind = "object" /\ Object(f).of = f
BY DEF Object

LEMMA FieldOf == ASSUME NEW f, NEW k \in DOMAIN f PROVE Field(Object(f), k) = f[k]
BY DEF Object, Field

OurModels == Object([ours |-> Leaf("name")])
OurEntry(s) == Object([baseURL |-> Leaf(s), models |-> OurModels])

(* The models: ours among what the user has.                               *)
LEMMA ModelsMerged ==
    ASSUME NEW base
    PROVE  /\ base.kind = "object" =>
                 MergeFlat(base, OurModels) =
                     Object([k \in DOMAIN base.of \union {"ours"} |->
                                 IF k = "ours" THEN Leaf("name") ELSE base.of[k]])
           /\ base.kind # "object" => MergeFlat(base, OurModels) = OurModels
<1> DEFINE f == [ours |-> Leaf("name")]
           below == [k \in DOMAIN f |-> MergeLeaf(Field(base, k), f[k])]
<1>1. OurModels = Object(f) /\ DOMAIN f = {"ours"} /\ f["ours"] = Leaf("name")
    BY DEF OurModels
<1>2. MergeLeaf(Field(base, "ours"), Leaf("name")) = Leaf("name")
    BY LevelOfLeaf DEF MergeLeaf
<1>3. below["ours"] = Leaf("name")
    BY <1>1, <1>2
<1>4. MergeFlat(base, OurModels) = MergeLevel(base, Object(f), below)
    BY <1>1, ObjectIs DEF MergeFlat
<1> HIDE DEF f, below
<1>5. CASE base.kind = "object"
    <2>1. MergeFlat(base, OurModels) =
              Object([k \in DOMAIN base.of \union DOMAIN f |->
                          IF k \in DOMAIN f THEN below[k] ELSE base.of[k]])
        BY <1>4, <1>5, LevelOfObjects
    <2>2. [k \in DOMAIN base.of \union DOMAIN f |-> IF k \in DOMAIN f THEN below[k] ELSE base.of[k]]
          = [k \in DOMAIN base.of \union {"ours"} |->
                 IF k = "ours" THEN Leaf("name") ELSE base.of[k]]
        BY <1>1, <1>3
    <2> QED
        BY <2>1, <2>2, <1>5
<1>6. CASE base.kind # "object"
    BY <1>4, <1>6, <1>1, LevelOfOthers
<1> QED
    BY <1>5, <1>6

LEMMA EntryMerged ==
    ASSUME NEW base, NEW s
    PROVE  /\ base.kind = "object" =>
                 MergeNested(base, OurEntry(s)) =
                     Object([k \in DOMAIN base.of \union {"baseURL", "models"} |->
                                 IF k = "baseURL" THEN Leaf(s)
                                 ELSE IF k = "models" THEN MergeFlat(Field(base, "models"), OurModels)
                                 ELSE base.of[k]])
           /\ base.kind # "object" => MergeNested(base, OurEntry(s)) = OurEntry(s)
<1> DEFINE f == [baseURL |-> Leaf(s), models |-> OurModels]
           below == [k \in DOMAIN f |-> MergeFlat(Field(base, k), f[k])]
<1>1. OurEntry(s) = Object(f) /\ DOMAIN f = {"baseURL", "models"}
      /\ f["baseURL"] = Leaf(s) /\ f["models"] = OurModels
    BY DEF OurEntry
<1>2. MergeFlat(Field(base, "baseURL"), Leaf(s)) = Leaf(s)
    BY LevelOfLeaf DEF MergeFlat
<1>3. below["baseURL"] = Leaf(s) /\ below["models"] = MergeFlat(Field(base, "models"), OurModels)
    BY <1>1, <1>2
<1>4. MergeNested(base, OurEntry(s)) = MergeLevel(base, Object(f), below)
    BY <1>1, ObjectIs DEF MergeNested
<1> HIDE DEF f, below
<1>5. CASE base.kind = "object"
    <2>1. MergeNested(base, OurEntry(s)) =
              Object([k \in DOMAIN base.of \union DOMAIN f |->
                          IF k \in DOMAIN f THEN below[k] ELSE base.of[k]])
        BY <1>4, <1>5, LevelOfObjects
    <2>2. [k \in DOMAIN base.of \union DOMAIN f |-> IF k \in DOMAIN f THEN below[k] ELSE base.of[k]]
          = [k \in DOMAIN base.of \union {"baseURL", "models"} |->
                 IF k = "baseURL" THEN Leaf(s)
                 ELSE IF k = "models" THEN MergeFlat(Field(base, "models"), OurModels)
                 ELSE base.of[k]]
        BY <1>1, <1>3
    <2> QED
        BY <2>1, <2>2, <1>5
<1>6. CASE base.kind # "object"
    BY <1>4, <1>6, <1>1, LevelOfOthers
<1> QED
    BY <1>5, <1>6

LEMMA ProviderMerged ==
    ASSUME NEW base, NEW s
    PROVE  /\ base.kind = "object" =>
                 DeepMerge(base, OurProvider(s)) =
                     Object([k \in DOMAIN base.of \union {"command_code"} |->
                                 IF k = "command_code"
                                 THEN MergeNested(Field(base, "command_code"), OurEntry(s))
                                 ELSE base.of[k]])
           /\ base.kind # "object" => DeepMerge(base, OurProvider(s)) = OurProvider(s)
<1> DEFINE f == [command_code |-> OurEntry(s)]
           below == [k \in DOMAIN f |-> MergeNested(Field(base, k), f[k])]
<1>1. OurProvider(s) = Object(f) /\ DOMAIN f = {"command_code"} /\ f["command_code"] = OurEntry(s)
    BY DEF OurProvider, OurEntry, OurModels
<1>3. below["command_code"] = MergeNested(Field(base, "command_code"), OurEntry(s))
    BY <1>1
<1>4. DeepMerge(base, OurProvider(s)) = MergeLevel(base, Object(f), below)
    BY <1>1, ObjectIs DEF DeepMerge
<1> HIDE DEF f, below
<1>5. CASE base.kind = "object"
    <2>1. DeepMerge(base, OurProvider(s)) =
              Object([k \in DOMAIN base.of \union DOMAIN f |->
                          IF k \in DOMAIN f THEN below[k] ELSE base.of[k]])
        BY <1>4, <1>5, LevelOfObjects
    <2>2. [k \in DOMAIN base.of \union DOMAIN f |-> IF k \in DOMAIN f THEN below[k] ELSE base.of[k]]
          = [k \in DOMAIN base.of \union {"command_code"} |->
                 IF k = "command_code" THEN MergeNested(Field(base, "command_code"), OurEntry(s))
                 ELSE base.of[k]]
        BY <1>1, <1>3
    <2> QED
        BY <2>1, <2>2, <1>5
<1>6. CASE base.kind # "object"
    BY <1>4, <1>6, <1>1, LevelOfOthers
<1> QED
    BY <1>5, <1>6

(* Merging the same models, entry or provider in again changes nothing but *)
(* the address.                                                            *)
LEMMA ModelsAbsorb ==
    ASSUME NEW base
    PROVE  MergeFlat(MergeFlat(base, OurModels), OurModels) = MergeFlat(base, OurModels)
<1> DEFINE g == [k \in DOMAIN base.of \union {"ours"} |->
                     IF k = "ours" THEN Leaf("name") ELSE base.of[k]]
           m == [ours |-> Leaf("name")]
<1>1. OurModels = Object(m) /\ DOMAIN m = {"ours"} /\ m["ours"] = Leaf("name")
    BY DEF OurModels
<1>2. CASE base.kind = "object"
    <2>1. MergeFlat(base, OurModels) = Object(g)
        BY <1>2, ModelsMerged
    <2>2. DOMAIN g = DOMAIN base.of \union {"ours"}
        OBVIOUS
    <2>3. [k \in DOMAIN g \union {"ours"} |-> IF k = "ours" THEN Leaf("name") ELSE g[k]] = g
        BY <2>2
    <2> HIDE DEF g
    <2> QED
        BY <2>1, <2>3, ObjectIs, ModelsMerged
<1>3. CASE base.kind # "object"
    <2> DEFINE laid(f) == [k \in DOMAIN f \union {"ours"} |->
                               IF k = "ours" THEN Leaf("name") ELSE f[k]]
    <2>1. laid(m) = m
        BY <1>1
    <2>a. OurModels.kind = "object" /\ OurModels.of = m
        BY <1>1, ObjectIs
    <2>b. MergeFlat(OurModels, OurModels) = Object(laid(OurModels.of))
        BY <2>a, ModelsMerged
    <2> HIDE DEF m, laid
    <2>2. MergeFlat(OurModels, OurModels) = OurModels
        BY <2>1, <2>a, <2>b, <1>1
    <2> QED
        BY <1>3, <2>2, ModelsMerged
<1> QED
    BY <1>2, <1>3

(* So it is as if our models had been there.                               *)
LEMMA OurModelsStay == MergeFlat(OurModels, OurModels) = OurModels
<1>1. Leaf("name").kind # "object"
    BY DEF Leaf
<1>2. MergeFlat(Leaf("name"), OurModels) = OurModels
    BY <1>1, ModelsMerged
<1> QED
    BY <1>2, ModelsAbsorb

LEMMA EntryAbsorb ==
    ASSUME NEW base, NEW s, NEW t
    PROVE  MergeNested(MergeNested(base, OurEntry(t)), OurEntry(s)) = MergeNested(base, OurEntry(s))
<1> DEFINE models == MergeFlat(Field(base, "models"), OurModels)
           g(x) == [k \in DOMAIN base.of \union {"baseURL", "models"} |->
                        IF k = "baseURL" THEN Leaf(x)
                        ELSE IF k = "models" THEN models ELSE base.of[k]]
           e(x) == [baseURL |-> Leaf(x), models |-> OurModels]
           laidOver(f, m) == [k \in DOMAIN f \union {"baseURL", "models"} |->
                                  IF k = "baseURL" THEN Leaf(s)
                                  ELSE IF k = "models" THEN m ELSE f[k]]
           laid(f) == laidOver(f, MergeFlat(f["models"], OurModels))
<1>1. ASSUME NEW f, "models" \in DOMAIN f
      PROVE  MergeNested(Object(f), OurEntry(s)) = Object(laid(f))
    <2>1. Field(Object(f), "models") = f["models"]
        BY <1>1, FieldOf
    <2>2. Object(f).kind = "object" /\ Object(f).of = f
        BY ObjectIs
    <2>3. MergeNested(Object(f), OurEntry(s))
          = Object(laidOver(Object(f).of, MergeFlat(Field(Object(f), "models"), OurModels)))
        BY <2>2, EntryMerged
    <2> HIDE DEF laidOver
    <2> QED
        BY <2>1, <2>2, <2>3
<1>2. CASE base.kind = "object"
    <2>1. \A x : MergeNested(base, OurEntry(x)) = Object(g(x))
        BY <1>2, EntryMerged
    <2>2. DOMAIN g(t) = DOMAIN base.of \union {"baseURL", "models"} /\ g(t)["models"] = models
        OBVIOUS
    <2>3. MergeFlat(models, OurModels) = models
        BY ModelsAbsorb
    <2> HIDE DEF models
    <2>4. laid(g(t)) = g(s)
        BY <2>2, <2>3
    <2> HIDE DEF g, laid
    <2>5. MergeNested(Object(g(t)), OurEntry(s)) = Object(laid(g(t)))
        BY <1>1, <2>2
    <2> QED
        BY <2>1, <2>4, <2>5
<1>3. CASE base.kind # "object"
    <2>1. DOMAIN e(t) = {"baseURL", "models"} /\ e(t)["models"] = OurModels
        OBVIOUS
    <2>2. laid(e(t)) = e(s)
        BY <2>1, OurModelsStay
    <2>3. \A x : OurEntry(x) = Object(e(x))
        BY DEF OurEntry
    <2> HIDE DEF e, laid
    <2>4. MergeNested(Object(e(t)), OurEntry(s)) = Object(laid(e(t)))
        BY <1>1, <2>1
    <2> QED
        BY <1>3, <2>2, <2>3, <2>4, EntryMerged
<1> QED
    BY <1>2, <1>3

LEMMA ProviderAbsorb ==
    ASSUME NEW base, NEW s, NEW t
    PROVE  DeepMerge(DeepMerge(base, OurProvider(t)), OurProvider(s)) = DeepMerge(base, OurProvider(s))
<1> DEFINE ourEntry(x) == MergeNested(Field(base, "command_code"), OurEntry(x))
           g(x) == [k \in DOMAIN base.of \union {"command_code"} |->
                        IF k = "command_code" THEN ourEntry(x) ELSE base.of[k]]
           e(x) == [command_code |-> OurEntry(x)]
           laid(f) == [k \in DOMAIN f \union {"command_code"} |->
                           IF k = "command_code" THEN MergeNested(f["command_code"], OurEntry(s))
                           ELSE f[k]]
<1>1. ASSUME NEW f, "command_code" \in DOMAIN f
      PROVE  DeepMerge(Object(f), OurProvider(s)) = Object(laid(f))
    <2>1. Field(Object(f), "command_code") = f["command_code"]
        BY <1>1, FieldOf
    <2> QED
        BY <2>1, ObjectIs, ProviderMerged
<1>2. CASE base.kind = "object"
    <2>1. \A x : DeepMerge(base, OurProvider(x)) = Object(g(x))
        BY <1>2, ProviderMerged
    <2>2. DOMAIN g(t) = DOMAIN base.of \union {"command_code"} /\ g(t)["command_code"] = ourEntry(t)
        OBVIOUS
    <2>3. MergeNested(ourEntry(t), OurEntry(s)) = ourEntry(s)
        BY EntryAbsorb
    <2> HIDE DEF ourEntry
    <2>4. laid(g(t)) = g(s)
        BY <2>2, <2>3
    <2> HIDE DEF g, laid
    <2>5. DeepMerge(Object(g(t)), OurProvider(s)) = Object(laid(g(t)))
        BY <1>1, <2>2
    <2> QED
        BY <2>1, <2>4, <2>5
<1>3. CASE base.kind # "object"
    <2>1. DOMAIN e(t) = {"command_code"} /\ e(t)["command_code"] = OurEntry(t)
        OBVIOUS
    <2>2. MergeNested(OurEntry(t), OurEntry(s)) = OurEntry(s)
        <3>1. Leaf("name").kind # "object"
            BY DEF Leaf
        <3>2. \A x : MergeNested(Leaf("name"), OurEntry(x)) = OurEntry(x)
            BY <3>1, EntryMerged
        <3> QED
            BY <3>2, EntryAbsorb
    <2>3. laid(e(t)) = e(s)
        BY <2>1, <2>2
    <2>4. \A x : OurProvider(x) = Object(e(x))
        BY DEF OurProvider, OurEntry, OurModels
    <2> HIDE DEF e, laid
    <2>5. DeepMerge(Object(e(t)), OurProvider(s)) = Object(laid(e(t)))
        BY <1>1, <2>1
    <2> QED
        BY <1>3, <2>3, <2>4, <2>5, ProviderMerged
<1> QED
    BY <1>2, <1>3

(* The servers: ours among what the user has, whole.                       *)
LEMMA ServersMerged ==
    ASSUME NEW config
    PROVE  LET servers == Field(config, "mcp") IN
           /\ servers.kind = "object" =>
                 MergedServers(config) =
                     Object([k \in DOMAIN servers.of \union {"cmdcode_taste"} |->
                                 IF k = "cmdcode_taste" THEN OurServer ELSE servers.of[k]])
           /\ servers.kind # "object" => MergedServers(config) = OurServers
BY DEF MergedServers, With

LEMMA ServersAbsorb ==
    ASSUME NEW config, NEW config2, Field(config2, "mcp") = MergedServers(config)
    PROVE  MergedServers(config2) = MergedServers(config)
<1> DEFINE servers == Field(config, "mcp")
           g == [k \in DOMAIN servers.of \union {"cmdcode_taste"} |->
                     IF k = "cmdcode_taste" THEN OurServer ELSE servers.of[k]]
           e == [cmdcode_taste |-> OurServer]
           laid(f) == [k \in DOMAIN f \union {"cmdcode_taste"} |->
                           IF k = "cmdcode_taste" THEN OurServer ELSE f[k]]
<1>1. ASSUME NEW f, MergedServers(config) = Object(f)
      PROVE  MergedServers(config2) = Object(laid(f))
    BY <1>1, ObjectIs, ServersMerged
<1>2. CASE servers.kind = "object"
    <2>1. MergedServers(config) = Object(g)
        BY <1>2, ServersMerged
    <2>2. laid(g) = g
        OBVIOUS
    <2> HIDE DEF g, laid, servers
    <2> QED
        BY <2>1, <2>2, <1>1
<1>3. CASE servers.kind # "object"
    <2>1. MergedServers(config) = Object(e)
        BY <1>3, ServersMerged DEF OurServers
    <2>2. laid(e) = e
        OBVIOUS
    <2> HIDE DEF e, laid, servers
    <2> QED
        BY <2>1, <2>2, <1>1
<1> QED
    BY <1>2, <1>3

(* What is written: three settings among what the user has.                *)
LEMMA MergeIs ==
    ASSUME NEW config, NEW s
    PROVE  Merge(config, s) =
               Object([k \in DOMAIN config.of \union {"provider", "model", "mcp"} |->
                           IF k = "mcp" THEN MergedServers(config)
                           ELSE IF k = "model" THEN Leaf(s)
                           ELSE IF k = "provider" THEN MergedProviders(config, s)
                           ELSE config.of[k]])
<1> DEFINE P == MergedProviders(config, s)
           M == MergedServers(config)
           D == DOMAIN config.of
           g1 == [k \in D \union {"provider"} |-> IF k = "provider" THEN P ELSE config.of[k]]
           g2 == [k \in (D \union {"provider"}) \union {"model"} |->
                      IF k = "model" THEN Leaf(s) ELSE g1[k]]
           g3 == [k \in ((D \union {"provider"}) \union {"model"}) \union {"mcp"} |->
                      IF k = "mcp" THEN M ELSE g2[k]]
           g == [k \in D \union {"provider", "model", "mcp"} |->
                     IF k = "mcp" THEN M ELSE IF k = "model" THEN Leaf(s)
                     ELSE IF k = "provider" THEN P ELSE config.of[k]]
<1>1. With(config, "provider", P) = Object(g1)
    BY DEF With
<1>2. DOMAIN g1 = D \union {"provider"} /\ DOMAIN g2 = (D \union {"provider"}) \union {"model"}
    OBVIOUS
<1>3. g3 = g
    <2> HIDE DEF P, M, D
    <2> QED
        OBVIOUS
<1> HIDE DEF P, M, g1
<1>4. With(Object(g1), "model", Leaf(s)) = Object(g2)
    <2>1. With(Object(g1), "model", Leaf(s)) =
              Object([k \in DOMAIN Object(g1).of \union {"model"} |->
                          IF k = "model" THEN Leaf(s) ELSE Object(g1).of[k]])
        BY DEF With
    <2>2. Object(g1).of = g1
        BY ObjectIs
    <2> QED
        BY <1>2, <2>1, <2>2
<1> HIDE DEF g2
<1>5. With(Object(g2), "mcp", M) = Object(g3)
    <2>1. With(Object(g2), "mcp", M) =
              Object([k \in DOMAIN Object(g2).of \union {"mcp"} |->
                          IF k = "mcp" THEN M ELSE Object(g2).of[k]])
        BY DEF With
    <2>2. Object(g2).of = g2
        BY ObjectIs
    <2> QED
        BY <1>2, <2>1, <2>2
<1> HIDE DEF g3
<1>6. Merge(config, s) = Object(g)
    BY <1>1, <1>3, <1>4, <1>5 DEF Merge, P, M
<1> QED
    BY <1>6 DEF P, M

LEMMA MergeFields ==
    ASSUME NEW config, NEW s
    PROVE  LET once == Merge(config, s) IN
           /\ once.kind = "object"
           /\ DOMAIN once.of = DOMAIN config.of \union {"provider", "model", "mcp"}
           /\ Field(once, "provider") = MergedProviders(config, s)
           /\ Field(once, "model") = Leaf(s)
           /\ Field(once, "mcp") = MergedServers(config)
           /\ \A k \in DOMAIN config.of \ {"provider", "model", "mcp"} :
                 once.of[k] = config.of[k] /\ Field(once, k) = config.of[k]
<1> DEFINE g == [k \in DOMAIN config.of \union {"provider", "model", "mcp"} |->
                     IF k = "mcp" THEN MergedServers(config) ELSE IF k = "model" THEN Leaf(s)
                     ELSE IF k = "provider" THEN MergedProviders(config, s) ELSE config.of[k]]
<1>1. Merge(config, s).kind = "object" /\ Merge(config, s).of = g
    BY MergeIs, ObjectIs
<1>2. /\ DOMAIN g = DOMAIN config.of \union {"provider", "model", "mcp"}
      /\ g["provider"] = MergedProviders(config, s) /\ g["model"] = Leaf(s)
      /\ g["mcp"] = MergedServers(config)
      /\ \A k \in DOMAIN config.of \ {"provider", "model", "mcp"} : g[k] = config.of[k]
    OBVIOUS
<1> HIDE DEF g
<1> QED
    BY <1>1, <1>2 DEF Field

(* What the providers are merged into.                                     *)
Providers(config) ==
    IF "provider" \in DOMAIN config.of THEN Field(config, "provider") ELSE Object(<< >>)

LEMMA MergeAbsorb ==
    ASSUME NEW config, NEW s, NEW t
    PROVE  Merge(Merge(config, t), s) = Merge(config, s)
<1> DEFINE once == Merge(config, t)
<1>1. MergedProviders(once, s) = MergedProviders(config, s)
    <2>1. Providers(once) = MergedProviders(config, t)
        BY MergeFields DEF Providers
    <2>2. \A x : MergedProviders(config, x) = DeepMerge(Providers(config), OurProvider(x))
        BY DEF MergedProviders, Providers
    <2>3. MergedProviders(once, s) = DeepMerge(Providers(once), OurProvider(s))
        BY DEF MergedProviders, Providers
    <2> HIDE DEF once
    <2> QED
        BY <2>1, <2>2, <2>3, ProviderAbsorb
<1>2. MergedServers(once) = MergedServers(config)
    BY MergeFields, ServersAbsorb
<1>3. DOMAIN once.of = DOMAIN config.of \union {"provider", "model", "mcp"}
    BY MergeFields
<1>4. \A k \in DOMAIN config.of \ {"provider", "model", "mcp"} : once.of[k] = config.of[k]
    BY MergeFields
<1> HIDE DEF once
<1> DEFINE g(json, p, m) == [k \in DOMAIN json.of \union {"provider", "model", "mcp"} |->
                     IF k = "mcp" THEN m ELSE IF k = "model" THEN Leaf(s)
                     ELSE IF k = "provider" THEN p ELSE json.of[k]]
<1>5. Merge(once, s) = Object(g(once, MergedProviders(once, s), MergedServers(once)))
    BY MergeIs
<1>6. Merge(config, s) = Object(g(config, MergedProviders(config, s), MergedServers(config)))
    BY MergeIs
<1>7. \A p, m : g(once, p, m) = g(config, p, m)
    BY <1>3, <1>4
<1> HIDE DEF g
<1>8. Merge(once, s) = Merge(config, s)
    BY <1>1, <1>2, <1>5, <1>6, <1>7
<1> QED
    BY <1>8 DEF once

(* The provider's address is the one given.                                *)
LEMMA AddressMerged ==
    ASSUME NEW config, NEW s
    PROVE  Field(Field(Field(Merge(config, s), "provider"), "command_code"), "baseURL") = Leaf(s)
<1> DEFINE b == Providers(config)
           ourEntry == MergeNested(Field(b, "command_code"), OurEntry(s))
<1>1. Field(Merge(config, s), "provider") = DeepMerge(b, OurProvider(s))
    BY MergeFields DEF MergedProviders, Providers
<1>2. Field(OurEntry(s), "baseURL") = Leaf(s)
    BY DEF OurEntry, Object, Field
<1>3. \A x : Field(MergeNested(x, OurEntry(s)), "baseURL") = Leaf(s)
    <2> SUFFICES ASSUME NEW x PROVE Field(MergeNested(x, OurEntry(s)), "baseURL") = Leaf(s)
        OBVIOUS
    <2> DEFINE g == [k \in DOMAIN x.of \union {"baseURL", "models"} |->
                         IF k = "baseURL" THEN Leaf(s)
                         ELSE IF k = "models" THEN MergeFlat(Field(x, "models"), OurModels)
                         ELSE x.of[k]]
    <2>1. "baseURL" \in DOMAIN g /\ g["baseURL"] = Leaf(s)
        OBVIOUS
    <2>2. x.kind = "object" => MergeNested(x, OurEntry(s)) = Object(g)
        BY EntryMerged
    <2> HIDE DEF g
    <2> QED
        BY <1>2, <2>1, <2>2, EntryMerged, FieldOf
<1>4. Field(DeepMerge(b, OurProvider(s)), "command_code") \in {ourEntry, OurEntry(s)}
    <2> HIDE DEF b
    <2> DEFINE g == [k \in DOMAIN b.of \union {"command_code"} |->
                         IF k = "command_code" THEN ourEntry ELSE b.of[k]]
    <2>1. "command_code" \in DOMAIN g /\ g["command_code"] = ourEntry
        OBVIOUS
    <2>2. b.kind = "object" => DeepMerge(b, OurProvider(s)) = Object(g)
        BY ProviderMerged
    <2>3. Field(OurProvider(s), "command_code") = OurEntry(s)
        BY DEF OurProvider, OurEntry, OurModels, Object, Field
    <2> HIDE DEF g, ourEntry
    <2> QED
        BY <2>1, <2>2, <2>3, ProviderMerged, FieldOf
<1> QED
    BY <1>1, <1>2, <1>3, <1>4

(* Whatever is in the file.                                                *)
LEMMA MergedTwiceIsOnce == SetupIdempotent
BY MergeFields, MergeAbsorb, AddressMerged DEF SetupIdempotent

(***************************************************************************)
(* Setting a config up once more is doing it once, whatever series of      *)
(* runs, edits and deaths left it behind, for any settings, any harnesses  *)
(* and any configuration of the user's.                                    *)
(***************************************************************************)
THEOREM SetupIsIdempotent == SetupSpec => []SetupIdempotent
BY MergedTwiceIsOnce, PTL

IsJson(json) == json.kind \in {"object", "array", "leaf"}

(* The types: what a run writes is what belongs into the file it writes.   *)
RunTyped ==
    /\ run = [todo |-> run.todo, settings |-> run.settings, force |-> run.force,
              write |-> run.write, to |-> run.to]
    /\ run.todo \subseteq Harnesses \union {"opencode"}
    /\ run.settings \in Settings \union {Absent} /\ run.force \in BOOLEAN
    /\ run.to \in Harnesses \union {"opencode", Absent}

SetupInv ==
    /\ opencode \in {Absent, Empty} \/ IsJson(opencode)
    /\ files \in [Harnesses -> {Absent, Empty, UserFile} \union Settings]
    /\ RunTyped
    /\ run.to = "opencode" => IsJson(run.write)
    /\ run.to \in Harnesses => run.write \in Settings
    /\ run.todo # {} => run.settings \in Settings
    /\ runs \in 0..MaxRuns

LEMMA SetupInvInit == SetupInit => SetupInv
BY SetupAssumption DEF SetupInit, SetupInv, NoRun, IsJson, RunTyped

LEMMA NoRunKeeps ==
    ASSUME SetupInv, run' = NoRun
    PROVE  /\ RunTyped' /\ run'.to = Absent /\ run'.todo = {}
BY DEF NoRun, RunTyped

LEMMA SkipKeeps ==
    ASSUME SetupInv, NEW h, Skip(h)
    PROVE  /\ RunTyped' /\ run'.to = run.to /\ run'.write = run.write
           /\ run'.settings = run.settings /\ run'.todo \subseteq run.todo
<1> DEFINE r == [todo |-> run.todo \ {h}, settings |-> run.settings, force |-> run.force,
                 write |-> run.write, to |-> run.to]
<1>1. run' = r
    BY DEF SetupInv, RunTyped, Skip
<1>2. r.todo = run.todo \ {h} /\ r.settings = run.settings /\ r.force = run.force
      /\ r.write = run.write /\ r.to = run.to
    OBVIOUS
<1> HIDE DEF r
<1>3. RunTyped'
    BY <1>1, <1>2 DEF r, SetupInv, RunTyped
<1> QED
    BY <1>1, <1>2, <1>3

LEMMA TruncatedKeeps ==
    ASSUME SetupInv, NEW h \in Harnesses \union {"opencode"}, NEW content, Truncated(h, content)
    PROVE  /\ RunTyped' /\ run'.to = h /\ run'.write = content
           /\ run'.settings = run.settings /\ run'.todo \subseteq run.todo
<1> DEFINE r == [todo |-> run.todo \ {h}, settings |-> run.settings, force |-> run.force,
                 write |-> content, to |-> h]
<1>1. run' = r
    BY DEF SetupInv, RunTyped, Truncated
<1>2. r.todo = run.todo \ {h} /\ r.settings = run.settings /\ r.force = run.force
      /\ r.write = content /\ r.to = h
    OBVIOUS
<1> HIDE DEF r
<1>3. RunTyped'
    BY <1>1, <1>2 DEF r, SetupInv, RunTyped
<1> QED
    BY <1>1, <1>2, <1>3

LEMMA WritesJson == \A config, s : IsJson(OpenCodeJson(s)) /\ IsJson(Merge(config, s))
BY MergeFields, ObjectIs DEF IsJson, OpenCodeJson

LEMMA SetupOpenCodeKeeps == ASSUME SetupInv, SetupOpenCode PROVE SetupInv'
<1>1. /\ run.to = Absent /\ "opencode" \in run.todo /\ UNCHANGED <<files, runs>>
    BY DEF SetupOpenCode, Idle
<1>2. Absent # "opencode" /\ "opencode" \notin Harnesses
    BY SetupAssumption
<1>3. \/ \E json : Truncated("opencode", json) /\ IsJson(json) /\ opencode' = Empty
      \/ Skip("opencode") /\ UNCHANGED opencode
      \/ run' = NoRun /\ UNCHANGED opencode
    <2>1. CASE run.force
        BY <2>1, WritesJson DEF SetupOpenCode
    <2>2. CASE ~run.force
        BY <2>2, WritesJson DEF SetupOpenCode, SetupInv, RunTyped
    <2> QED
        BY <2>1, <2>2
<1>4. CASE \E json : Truncated("opencode", json) /\ IsJson(json) /\ opencode' = Empty
    <2> PICK json : Truncated("opencode", json) /\ IsJson(json) /\ opencode' = Empty
        BY <1>4
    <2>1. /\ RunTyped' /\ run'.to = "opencode" /\ run'.write = json
          /\ run'.settings = run.settings /\ run'.todo \subseteq run.todo
        BY TruncatedKeeps
    <2> QED
        BY <1>1, <1>2, <2>1 DEF SetupInv, IsJson
<1>5. CASE Skip("opencode") /\ UNCHANGED opencode
    <2>1. /\ RunTyped' /\ run'.to = run.to /\ run'.write = run.write
          /\ run'.settings = run.settings /\ run'.todo \subseteq run.todo
        BY <1>5, SkipKeeps
    <2> QED
        BY <1>1, <1>2, <1>5, <2>1 DEF SetupInv, IsJson
<1>6. CASE run' = NoRun /\ UNCHANGED opencode
    <2>1. RunTyped' /\ run'.to = Absent /\ run'.todo = {}
        BY <1>6, NoRunKeeps
    <2>2. Absent \notin Harnesses
        BY SetupAssumption
    <2> QED
        BY <1>1, <1>2, <1>6, <2>1, <2>2 DEF SetupInv, IsJson
<1> QED
    BY <1>3, <1>4, <1>5, <1>6

LEMMA SetupHarnessKeeps == ASSUME SetupInv, SetupHarness PROVE SetupInv'
<1>1. PICK h \in run.todo \ {"opencode"} :
         /\ Idle /\ "opencode" \notin run.todo
         /\ IF files[h] # Absent /\ ~run.force THEN Skip(h) /\ UNCHANGED files
            ELSE /\ Truncated(h, run.settings)
                 /\ files' = [files EXCEPT ![h] = Empty]
         /\ UNCHANGED <<opencode, runs>>
    BY DEF SetupHarness
<1>2. h \in Harnesses /\ run.settings \in Settings /\ run.to = Absent
    BY <1>1 DEF SetupInv, RunTyped, Idle
<1>3. "opencode" \notin Harnesses /\ Absent \notin Harnesses /\ Absent # "opencode"
    BY SetupAssumption
<1>4. CASE files[h] # Absent /\ ~run.force
    <2>1. /\ RunTyped' /\ run'.to = run.to /\ run'.write = run.write
          /\ run'.settings = run.settings /\ run'.todo \subseteq run.todo
        BY <1>1, <1>4, SkipKeeps
    <2> QED
        BY <1>1, <1>2, <1>3, <1>4, <2>1 DEF SetupInv, IsJson
<1>5. CASE ~(files[h] # Absent /\ ~run.force)
    <2>1. /\ RunTyped' /\ run'.to = h /\ run'.write = run.settings
          /\ run'.settings = run.settings /\ run'.todo \subseteq run.todo
        BY <1>1, <1>2, <1>5, TruncatedKeeps
    <2> QED
        BY <1>1, <1>2, <1>3, <1>5, <2>1 DEF SetupInv, IsJson
<1> QED
    BY <1>4, <1>5

LEMMA WriteSetupKeeps == ASSUME SetupInv, WriteSetup PROVE SetupInv'
<1>1. Absent \notin Harnesses /\ Absent # "opencode" /\ "opencode" \notin Harnesses
    BY SetupAssumption
<1>2. run.to \in Harnesses \union {"opencode"}
    BY DEF WriteSetup, Idle, SetupInv, RunTyped
<1>3. RunTyped' /\ run'.to = Absent /\ run'.settings = run.settings /\ run'.todo = run.todo
    <2> DEFINE r == [todo |-> run.todo, settings |-> run.settings, force |-> run.force,
                     write |-> Absent, to |-> Absent]
    <2>1. run' = r
        BY DEF WriteSetup, SetupInv, RunTyped
    <2>2. r.todo = run.todo /\ r.settings = run.settings /\ r.force = run.force
          /\ r.write = Absent /\ r.to = Absent
        OBVIOUS
    <2> HIDE DEF r
    <2> QED
        BY <2>1, <2>2 DEF r, SetupInv, RunTyped
<1>4. (opencode \in {Absent, Empty} \/ IsJson(opencode))'
    BY <1>2 DEF WriteSetup, SetupInv, IsJson
<1>5. (files \in [Harnesses -> {Absent, Empty, UserFile} \union Settings])'
    BY <1>2, <1>1 DEF WriteSetup, SetupInv
<1> QED
    BY <1>1, <1>3, <1>4, <1>5 DEF WriteSetup, SetupInv

LEMMA SetupInvStep == ASSUME SetupInv, [SetupNext]_setupVars PROVE SetupInv'
<1>0. Absent \notin Harnesses /\ Absent # "opencode" /\ "opencode" \notin Harnesses /\ MaxRuns \in Nat
    BY SetupAssumption
<1>1. CASE StartSetup
    <2>1. PICK s \in Settings, force \in BOOLEAN, chosen \in SUBSET Installed :
             /\ runs < MaxRuns
             /\ run' = [NoRun EXCEPT !.settings = s, !.force = force, !.todo = chosen]
             /\ runs' = runs + 1 /\ UNCHANGED <<opencode, files>>
        BY <1>1 DEF StartSetup
    <2>2. run' = [todo |-> chosen, settings |-> s, force |-> force, write |-> Absent, to |-> Absent]
        BY <2>1 DEF NoRun
    <2>3. chosen \subseteq Harnesses \union {"opencode"}
        BY DEF Installed
    <2>4. RunTyped' /\ run'.to = Absent /\ run'.settings \in Settings
        BY <2>2, <2>3 DEF RunTyped
    <2>5. runs' \in 0..MaxRuns
        BY <1>0, <2>1 DEF SetupInv
    <2> QED
        BY <1>0, <2>1, <2>4, <2>5 DEF SetupInv, IsJson
<1>2. CASE SetupOpenCode
    BY <1>2, SetupOpenCodeKeeps
<1>3. CASE SetupHarness
    BY <1>3, SetupHarnessKeeps
<1>4. CASE WriteSetup
    BY <1>4, WriteSetupKeeps
<1>5. CASE EndSetup
    <2>1. RunTyped' /\ run'.to = Absent /\ run'.todo = {} /\ UNCHANGED <<opencode, files, runs>>
        BY <1>5, NoRunKeeps DEF EndSetup
    <2> QED
        BY <1>0, <2>1 DEF SetupInv, IsJson
<1>6. CASE UserEdits
    <2>1. runs' \in 0..MaxRuns /\ UNCHANGED run
        BY <1>0, <1>6 DEF UserEdits, SetupInv
    <2>2. (opencode \in {Absent, Empty} \/ IsJson(opencode))'
        BY <1>6, SetupAssumption DEF UserEdits, SetupInv, IsJson
    <2>3. (files \in [Harnesses -> {Absent, Empty, UserFile} \union Settings])'
        BY <1>6 DEF UserEdits, SetupInv
    <2> QED
        BY <2>1, <2>2, <2>3 DEF SetupInv, RunTyped
<1>7. CASE UNCHANGED setupVars
    BY <1>7 DEF setupVars, SetupInv, RunTyped, IsJson
<1> QED
    BY <1>1, <1>2, <1>3, <1>4, <1>5, <1>6, <1>7 DEF SetupNext

LEMMA SetupInvariant == SetupSpec => []SetupInv
<1>1. SetupInit => SetupInv
    BY SetupInvInit
<1>2. SetupInv /\ [SetupNext]_setupVars => SetupInv'
    BY SetupInvStep
<1> QED
    BY <1>1, <1>2, PTL DEF SetupSpec

(* The types of the setup part.                                            *)
LEMMA SetupTyped == SetupInv => SetupTypeOK
BY DEF SetupInv, SetupTypeOK, RunTyped, IsJson

(* What the merge keeps: other settings, providers, servers and models.    *)
LEMMA OthersMerged == ASSUME NEW config, NEW s PROVE Others(config, Merge(config, s))
<1>1. \A k \in DOMAIN config.of \ {"provider", "model", "mcp"} :
         Field(Merge(config, s), k) = config.of[k]
    BY MergeFields
<1>2. SameBut(Field(config, "provider"), Field(Merge(config, s), "provider"), "command_code")
    <2> DEFINE b == Field(config, "provider")
               g == [k \in DOMAIN b.of \union {"command_code"} |->
                         IF k = "command_code"
                         THEN MergeNested(Field(b, "command_code"), OurEntry(s)) ELSE b.of[k]]
    <2> SUFFICES ASSUME b.kind = "object"
                 PROVE  SameBut(b, MergedProviders(config, s), "command_code")
        BY MergeFields DEF SameBut
    <2>1. b # Null
        BY DEF Null, Leaf
    <2>2. Providers(config) = b
        BY <2>1 DEF Providers, Field
    <2>3. MergedProviders(config, s) = Object(g)
        BY <2>2, ProviderMerged DEF MergedProviders, Providers
    <2>4. \A x \in DOMAIN b.of \ {"command_code"} : x \in DOMAIN g /\ g[x] = b.of[x]
        OBVIOUS
    <2> HIDE DEF b, g
    <2> QED
        BY <2>3, <2>4, ObjectIs DEF SameBut
<1>3. SameBut(Field(config, "mcp"), Field(Merge(config, s), "mcp"), "cmdcode_taste")
    <2> DEFINE b == Field(config, "mcp")
               g == [k \in DOMAIN b.of \union {"cmdcode_taste"} |->
                         IF k = "cmdcode_taste" THEN OurServer ELSE b.of[k]]
    <2> SUFFICES ASSUME b.kind = "object"
                 PROVE  SameBut(b, MergedServers(config), "cmdcode_taste")
        BY MergeFields DEF SameBut
    <2>1. MergedServers(config) = Object(g)
        BY ServersMerged
    <2>2. \A x \in DOMAIN b.of \ {"cmdcode_taste"} : x \in DOMAIN g /\ g[x] = b.of[x]
        OBVIOUS
    <2> HIDE DEF b, g
    <2> QED
        BY <2>1, <2>2, ObjectIs DEF SameBut
<1> QED
    BY <1>1, <1>2, <1>3 DEF Others

LEMMA ModelsKept ==
    ASSUME NEW config, NEW s
    PROVE  SameBut(ModelsIn(config), ModelsIn(Merge(config, s)), "ours")
<1> DEFINE p == Field(config, "provider")
           e == Field(p, "command_code")
           m == Field(e, "models")
<1> SUFFICES ASSUME m.kind = "object" PROVE SameBut(m, ModelsIn(Merge(config, s)), "ours")
    BY DEF SameBut, ModelsIn
<1>1. Null.kind # "object"
    BY DEF Null, Leaf
<1>2. e.kind = "object" /\ p.kind = "object"
    BY <1>1 DEF Field
<1>3. MergedProviders(config, s) = DeepMerge(p, OurProvider(s))
    BY <1>1, <1>2 DEF MergedProviders, Field
<1>4. Field(DeepMerge(p, OurProvider(s)), "command_code") = MergeNested(e, OurEntry(s))
    <2> DEFINE g == [k \in DOMAIN p.of \union {"command_code"} |->
                         IF k = "command_code" THEN MergeNested(e, OurEntry(s)) ELSE p.of[k]]
    <2>1. DeepMerge(p, OurProvider(s)) = Object(g)
        BY <1>2, ProviderMerged
    <2>2. "command_code" \in DOMAIN g /\ g["command_code"] = MergeNested(e, OurEntry(s))
        OBVIOUS
    <2> HIDE DEF g, p, e
    <2> QED
        BY <2>1, <2>2, FieldOf
<1>5. Field(MergeNested(e, OurEntry(s)), "models") = MergeFlat(m, OurModels)
    <2> DEFINE g == [k \in DOMAIN e.of \union {"baseURL", "models"} |->
                         IF k = "baseURL" THEN Leaf(s)
                         ELSE IF k = "models" THEN MergeFlat(m, OurModels) ELSE e.of[k]]
    <2>1. MergeNested(e, OurEntry(s)) = Object(g)
        BY <1>2, EntryMerged
    <2>2. "models" \in DOMAIN g /\ g["models"] = MergeFlat(m, OurModels)
        OBVIOUS
    <2> HIDE DEF g, m, e
    <2> QED
        BY <2>1, <2>2, FieldOf
<1>6. ModelsIn(Merge(config, s)) = MergeFlat(m, OurModels)
    <2>1. Field(Merge(config, s), "provider") = DeepMerge(p, OurProvider(s))
        BY <1>3, MergeFields
    <2> QED
        BY <2>1, <1>4, <1>5 DEF ModelsIn
<1> DEFINE g == [k \in DOMAIN m.of \union {"ours"} |->
                     IF k = "ours" THEN Leaf("name") ELSE m.of[k]]
<1>7. MergeFlat(m, OurModels) = Object(g)
    BY ModelsMerged
<1>8. \A x \in DOMAIN m.of \ {"ours"} : x \in DOMAIN g /\ g[x] = m.of[x]
    OBVIOUS
<1> HIDE DEF g, m
<1> QED
    BY <1>6, <1>7, <1>8, ObjectIs DEF SameBut

(***************************************************************************)
(* Without --force `setup` keeps the user's other settings, providers,     *)
(* servers and models, and writes no other harness's file that is there,   *)
(* for any configuration of the user's.                                    *)
(***************************************************************************)
THEOREM SetupKeepsTheUsers == SetupSpec => SetupKeepsOthers
<1> DEFINE UsersKept ==
        /\ SetupOpenCode /\ ~run.force /\ run'.to = "opencode" =>
              /\ Others(opencode, run'.write)
              /\ SameBut(ModelsIn(opencode), ModelsIn(run'.write), "ours")
        /\ \A h \in Harnesses : SetupHarness /\ ~run.force /\ files'[h] # files[h] =>
              files[h] = Absent
<1>1. ASSUME SetupInv PROVE UsersKept
    <2>1. ASSUME SetupOpenCode, ~run.force, run'.to = "opencode"
          PROVE  /\ Others(opencode, run'.write)
                 /\ SameBut(ModelsIn(opencode), ModelsIn(run'.write), "ours")
        <3>1. run.to = Absent /\ Absent # "opencode"
            BY <2>1, SetupAssumption DEF SetupOpenCode, Idle
        <3>2. ~Skip("opencode")
            BY <1>1, <2>1, <3>1, SkipKeeps
        <3>3. run' # NoRun
            BY <2>1, <3>1 DEF NoRun
        <3>4. Truncated("opencode", Merge(opencode, run.settings))
            BY <2>1, <3>2, <3>3 DEF SetupOpenCode
        <3>5. run'.write = Merge(opencode, run.settings)
            BY <1>1, <3>4, TruncatedKeeps
        <3> QED
            BY <3>5, OthersMerged, ModelsKept
    <2>2. ASSUME NEW h \in Harnesses, SetupHarness, ~run.force, files'[h] # files[h]
          PROVE  files[h] = Absent
        BY <1>1, <2>2 DEF SetupHarness, SetupInv
    <2> QED
        BY <2>1, <2>2
<1>2. SetupInv /\ [SetupNext]_setupVars => [UsersKept]_setupVars
    BY <1>1
<1>3. SetupSpec => [][UsersKept]_setupVars
    BY <1>2, SetupInvariant, PTL DEF SetupSpec
<1> QED
    BY <1>3, PTL DEF SetupKeepsOthers

(***************************************************************************)
(* The types of the parts, and the parts together                          *)
(***************************************************************************)

(* The two bounds of the admission: the requests that are answered or      *)
(* under way, and the window.                                              *)
AdmissionBounds ==
    /\ room \in 0..WindowSize
    /\ Len(served) + Cardinality(InFlight) <= MaxServed

LEMMA InFlightFinite == IsFiniteSet(InFlight) /\ Cardinality(InFlight) \in Nat
BY AdmissionAssumption, FS_Subset, FS_CardinalityType DEF InFlight

LEMMA GoesOn ==
    ASSUME AdmissionInv, NEW r \in InFlight, NEW v, Goes(r, v), v.pc # "none"
    PROVE  InFlight' = InFlight /\ served' = served
BY DEF Goes, InFlight, RAt, AdmissionInv, AdmissionTyped

LEMMA AnswerEnds ==
    ASSUME AdmissionInv, NEW r \in InFlight, NEW status, NEW m, Answers(r, status, m)
    PROVE  InFlight' = InFlight \ {r} /\ Len(served') = Len(served) + 1
<1>1. NoRequest.pc = "none" /\ r \in Connections
    BY DEF NoRequest, InFlight
<1>2. InFlight' = InFlight \ {r}
    BY <1>1 DEF Answers, InFlight, RAt, AdmissionInv, AdmissionTyped
<1>3. Len(served') = Len(served) + 1
    <2> SUFFICES ASSUME NEW x, served' = Append(served, x) PROVE Len(served') = Len(served) + 1
        BY DEF Answers
    <2> QED
        BY DEF AdmissionInv, AdmissionTyped
<1> QED
    BY <1>2, <1>3

(* A request goes on to another station, or is answered. *)
MovesOn(r) ==
    \/ \E v : Goes(r, v) /\ v.pc # "none"
    \/ \E status, m : Answers(r, status, m)

LEMMA RouteMoves == ASSUME AdmissionInv, NEW r \in Connections, Route(r) PROVE MovesOn(r)
<1>0. PICK path \in Paths, method \in {"GET", "POST", "OPTIONS"} :
         /\ RAt(r, "route")
         /\ CASE method = "OPTIONS" -> Answers(r, 204, counters)
              [] method = "GET" /\ path \in OpenPaths -> Answers(r, 200, counters)
              [] method = "POST" /\ path \in ChatPaths ->
                    /\ Goes(r, [req[r] EXCEPT !.pc = "gate", !.dialect = DetectFrontend(path),
                                   !.stream = path = "models/m:streamGenerateContent"])
                    /\ UNCHANGED counters
              [] OTHER -> Refuses(r, 404, "unknown")
         /\ UNCHANGED <<policy, room>>
    BY DEF Route
<1> DEFINE v == [req[r] EXCEPT !.pc = "gate", !.dialect = DetectFrontend(path),
                               !.stream = path = "models/m:streamGenerateContent"]
<1>1. \/ Answers(r, 204, counters) \/ Answers(r, 200, counters)
      \/ Refuses(r, 404, "unknown") \/ Goes(r, v)
    BY <1>0
<1>2. v.pc = "gate"
    BY DEF AdmissionRecord, AdmissionInv, AdmissionTyped
<1> HIDE DEF v
<1> QED
    BY <1>1, <1>2 DEF Refuses, MovesOn

LEMMA GateMoves == ASSUME AdmissionInv, NEW r \in Connections, Gate(r) PROVE MovesOn(r)
<1>0. PICK token \in BOOLEAN :
         /\ RAt(r, "gate")
         /\ IF policy.gate /\ ~token THEN Error(r, 401)
            ELSE Goes(r, [req[r] EXCEPT !.pc = "limit", !.token = token]) /\ UNCHANGED counters
         /\ UNCHANGED <<policy, room>>
    BY DEF Gate
<1> DEFINE v == [req[r] EXCEPT !.pc = "limit", !.token = token]
<1>1. Error(r, 401) \/ Goes(r, v)
    BY <1>0
<1>2. v.pc = "limit"
    BY DEF AdmissionRecord, AdmissionInv, AdmissionTyped
<1> HIDE DEF v
<1> QED
    BY <1>1, <1>2 DEF Error, MovesOn

LEMMA LimitMoves == ASSUME AdmissionInv, NEW r \in Connections, Limit(r) PROVE MovesOn(r)
<1> DEFINE v == [req[r] EXCEPT !.pc = "body", !.charged = Charged]
<1>1. v.pc = "body"
    BY DEF AdmissionRecord, AdmissionInv, AdmissionTyped
<1>2. Error(r, 429) \/ Goes(r, v)
    BY DEF Limit
<1> HIDE DEF v
<1> QED
    BY <1>1, <1>2 DEF Error, MovesOn

LEMMA EndBodyMoves == ASSUME AdmissionInv, NEW r \in Connections, EndBody(r) PROVE MovesOn(r)
<1>0. PICK defect \in {"none", "json", "shape", "empty", "unknown"}, stream \in BOOLEAN :
         /\ RAt(r, "body")
         /\ defect = "empty" => req[r].dialect \in {"Gemini", "Ollama"}
         /\ defect = "unknown" => req[r].dialect = "Responses"
         /\ req[r].length = 0 => defect = "json"
         /\ IF defect = "none"
            THEN /\ Goes(r, [req[r] EXCEPT !.pc = "model",
                                !.stream = IF req[r].dialect = "Gemini" THEN @ ELSE stream])
                 /\ UNCHANGED counters
            ELSE Refuses(r, IF defect = "unknown" THEN 404 ELSE 400, "bad")
         /\ UNCHANGED <<policy, room>>
    BY DEF EndBody
<1> DEFINE v == [req[r] EXCEPT !.pc = "model",
                    !.stream = IF req[r].dialect = "Gemini" THEN @ ELSE stream]
<1>1. Refuses(r, 404, "bad") \/ Refuses(r, 400, "bad") \/ Goes(r, v)
    BY <1>0
<1>2. v.pc = "model"
    BY DEF AdmissionRecord, AdmissionInv, AdmissionTyped
<1> HIDE DEF v
<1> QED
    BY <1>1, <1>2 DEF Refuses, MovesOn

LEMMA ModelMoves == ASSUME AdmissionInv, NEW r \in Connections, Model(r) PROVE MovesOn(r)
<1>0. PICK listed \in BOOLEAN :
         /\ RAt(r, "model")
         /\ IF policy.allowlist /\ ~listed THEN Refuses(r, 400, "denied")
            ELSE /\ Goes(r, [req[r] EXCEPT !.pc = "forward", !.listed = listed,
                                           !.forwarded = TRUE])
                 /\ counters' = inc_request(counters, req[r].stream)
         /\ UNCHANGED <<policy, room>>
    BY DEF Model
<1> DEFINE v == [req[r] EXCEPT !.pc = "forward", !.listed = listed, !.forwarded = TRUE]
<1>1. Refuses(r, 400, "denied") \/ Goes(r, v)
    BY <1>0
<1>2. v.pc = "forward"
    BY DEF AdmissionRecord, AdmissionInv, AdmissionTyped
<1> HIDE DEF v
<1> QED
    BY <1>1, <1>2 DEF Refuses, MovesOn

(* A request of a handler that is under way stays so or is answered.       *)
LEMMA GoesOrEnds ==
    ASSUME AdmissionInv, NEW r \in Connections,
           Route(r) \/ Gate(r) \/ Limit(r) \/ ReadChunk(r) \/ EndBody(r) \/ Model(r) \/ Forward(r)
    PROVE  /\ r \in InFlight
           /\ \/ InFlight' = InFlight /\ served' = served
              \/ InFlight' = InFlight \ {r} /\ Len(served') = Len(served) + 1
<1>1. r \in InFlight
    BY DEF Route, Gate, Limit, ReadChunk, EndBody, Model, Forward, InFlight, RAt
<1>2. req[r] \in AdmissionRecord
    BY DEF AdmissionInv, AdmissionTyped
<1>3. MovesOn(r)
    <2>1. CASE Route(r) \/ Gate(r) \/ Limit(r) \/ EndBody(r) \/ Model(r)
        BY <2>1, RouteMoves, GateMoves, LimitMoves, EndBodyMoves, ModelMoves
    <2>2. CASE ReadChunk(r)
        BY <2>2, <1>2 DEF MovesOn, ReadChunk, Refuses, AdmissionRecord, RAt
    <2>3. CASE Forward(r)
        BY <2>3 DEF MovesOn, Forward
    <2> QED
        BY <2>1, <2>2, <2>3
<1> QED
    BY <1>1, <1>3, GoesOn, AnswerEnds DEF MovesOn

LEMMA BoundsStep ==
    ASSUME AdmissionInv, AdmissionBounds, [AdmissionNext]_admissionVars
    PROVE  AdmissionBounds'
<1>0. WindowSize \in Nat /\ MaxServed \in Nat /\ Len(served) \in Nat /\ Cardinality(InFlight) \in Nat
    BY AdmissionAssumption, InFlightFinite DEF AdmissionInv, AdmissionTyped
<1>1. ASSUME NEW r \in Connections, Accept(r) PROVE AdmissionBounds'
    <2>1. InFlight' = InFlight \union {r} /\ served' = served /\ room' = room
        BY <1>1 DEF Accept, Goes, InFlight, RAt, NoRequest, AdmissionInv, AdmissionTyped
    <2>a. Cardinality(InFlight \union {r}) \in {Cardinality(InFlight), Cardinality(InFlight) + 1}
        BY InFlightFinite, FS_AddElement
    <2>2. Cardinality(InFlight') \in {Cardinality(InFlight), Cardinality(InFlight) + 1}
        BY <2>1, <2>a
    <2>4. Len(served) + Cardinality(InFlight) < MaxServed
        BY <1>1 DEF Accept
    <2>5. Len(served') + Cardinality(InFlight') <= MaxServed
        BY <1>0, <2>1, <2>2, <2>4
    <2> QED
        BY <2>1, <2>5 DEF AdmissionBounds
<1>2. ASSUME NEW r \in Connections,
             Route(r) \/ Gate(r) \/ Limit(r) \/ ReadChunk(r) \/ EndBody(r) \/ Model(r) \/ Forward(r)
      PROVE  AdmissionBounds'
    <2>1. room' \in 0..WindowSize
        <3>1. CASE Limit(r)
            BY <1>0, <3>1 DEF Limit, AdmissionBounds
        <3>2. CASE ~Limit(r)
            BY <1>2, <3>2 DEF Route, Gate, ReadChunk, EndBody, Model, Forward, AdmissionBounds
        <3> QED
            BY <3>1, <3>2
    <2>2. /\ r \in InFlight
          /\ \/ InFlight' = InFlight /\ served' = served
             \/ InFlight' = InFlight \ {r} /\ Len(served') = Len(served) + 1
        BY <1>2, GoesOrEnds
    <2>3. Cardinality(InFlight \ {r}) = Cardinality(InFlight) - 1
        BY <2>2, InFlightFinite, FS_RemoveElement
    <2>a. \/ Cardinality(InFlight') = Cardinality(InFlight) /\ Len(served') = Len(served)
          \/ Cardinality(InFlight') = Cardinality(InFlight) - 1 /\ Len(served') = Len(served) + 1
        BY <2>2, <2>3
    <2>b. Len(served) + Cardinality(InFlight) <= MaxServed
        BY DEF AdmissionBounds
    <2>4. Len(served') + Cardinality(InFlight') <= MaxServed
        BY <1>0, <2>a, <2>b
    <2> QED
        BY <2>1, <2>4 DEF AdmissionBounds
<1>3. CASE NewWindow
    BY <1>0, <1>3 DEF NewWindow, AdmissionBounds, InFlight, RAt
<1>4. CASE UNCHANGED admissionVars
    BY <1>4 DEF admissionVars, AdmissionBounds, InFlight, RAt
<1> QED
    BY <1>1, <1>2, <1>3, <1>4 DEF AdmissionNext

LEMMA BoundsInit == AdmissionInit => AdmissionBounds
<1> SUFFICES ASSUME AdmissionInit PROVE AdmissionBounds
    OBVIOUS
<1>1. InFlight = {}
    BY DEF AdmissionInit, InFlight, RAt, NoRequest
<1>2. Len(served) = 0 /\ room = WindowSize
    BY DEF AdmissionInit
<1> QED
    BY <1>1, <1>2, AdmissionAssumption, FS_EmptySet DEF AdmissionBounds

LEMMA AdmissionTypes == AdmissionSpec => []AdmissionTypeOK
<1>1. AdmissionInv /\ AdmissionBounds => AdmissionTypeOK
    <2> SUFFICES ASSUME AdmissionInv, AdmissionBounds PROVE AdmissionTypeOK
        OBVIOUS
    <2>1. \A r \in Connections : req[r].dialect \in Dialects /\ req[r].length \in 0..MaxBody
        BY AdmissionAssumption DEF AdmissionInv, AdmissionTyped, AdmissionRecord, Passed
    <2>2. Len(served) <= MaxServed
        BY InFlightFinite, AdmissionAssumption DEF AdmissionBounds, AdmissionInv, AdmissionTyped
    <2> QED
        BY <2>1, <2>2 DEF AdmissionTypeOK, AdmissionBounds, AdmissionInv, AdmissionTyped
<1>2. AdmissionInv /\ AdmissionBounds /\ [AdmissionNext]_admissionVars => AdmissionBounds'
    BY BoundsStep
<1> QED
    BY <1>1, <1>2, BoundsInit, AdmissionInvariant, PTL DEF AdmissionSpec

LEMMA AccountTypes == AccountInv => AccountTypeOK
<1> SUFFICES ASSUME AccountInv PROVE AccountTypeOK
    OBVIOUS
<1>1. {dir.file, dir.tmp} \subseteq Inodes \union {NoFile}
    BY DEF AccountInv, DiskTyped
<1>2. ASSUME NEW i \in Inodes PROVE inode[i] \in {Blank, Torn} \/ Ids(inode[i]) \subseteq Accounts
    <2>1. inode[i] \in {Blank, Torn} \/ inode[i] \in GoodVaults
        BY DEF AccountInv, DiskTyped
    <2>2. ASSUME NEW v \in GoodVaults PROVE Ids(v) \subseteq Accounts
        <3>1. v.accounts \in Seq(Accounts)
            BY DEF GoodVaults, Vaults
        <3> QED
            BY <3>1 DEF Ids, ToSet
    <2> QED
        BY <2>1, <2>2
<1>3. ASSUME NEW p \in Processes
      PROVE  proc[p].fd \in Inodes \union {NoFile} /\ proc[p].port \in {0} \union Ports
    BY DEF AccountInv, ProcessesTyped, ProcessStates, ProcessRecord
<1> QED
    BY <1>1, <1>2, <1>3 DEF AccountTypeOK, AccountInv, DiskTyped, ProcessesTyped

LEMMA TasteTypes == TasteInv => TasteTypeOK
BY DEF TasteInv, TasteTypeOK, FilesTyped, ServersTyped, TasteRecord, ServerRecord

LEMMA LogTypes == LogInv => LogTypeOK
<1> SUFFICES ASSUME LogInv PROVE LogTypeOK
    OBVIOUS
<1>1. Backups \in Nat /\ MaxLines \in Nat
    BY LogConstants
<1>2. logger.step \in {"idle", "shift", "reopen"} /\ logger.shift \in 0..(Backups - 1)
      /\ logger.size \in Nat
    BY DEF LogInv, LogTyped, LoggerRecord
<1>3. rotations \in 0..MaxLines
    BY <1>1 DEF LogInv, LogTyped, LineAtHand
<1> QED
    BY <1>1, <1>2, <1>3 DEF LogTypeOK, LogInv, LogTyped, Files

(* A behaviour of all parts is one of every part, which mostly stutters.   *)
LEMMA PartsOnTheirOwn ==
    Spec => /\ AccountSpec /\ ProviderSpec /\ TasteSpec /\ LogSpec
            /\ SetupSpec /\ AdmissionSpec /\ LimiterSpec /\ StoreSpec
<1>1. Init => /\ AccountInit /\ ProviderInit /\ TasteInit /\ LogInit
              /\ SetupInit /\ AdmissionInit /\ LimiterInit /\ StoreInit
    BY DEF Init
<1>2. [Next]_vars => [AccountNext]_accountVars
    BY DEF Next, vars
<1>3. [Next]_vars => [ProviderNext]_providerVars
    BY DEF Next, vars
<1>4. [Next]_vars => [TasteNext]_tasteVars
    BY DEF Next, vars
<1>5. [Next]_vars => [LogNext]_logVars
    BY DEF Next, vars
<1>6. [Next]_vars => [SetupNext]_setupVars
    BY DEF Next, vars
<1>7. [Next]_vars => [AdmissionNext]_admissionVars
    BY DEF Next, vars
<1>8. [Next]_vars => [LimiterNext]_limiterVars
    BY DEF Next, vars
<1>9. [Next]_vars => [StoreNext]_storeVars
    BY DEF Next, vars
<1> QED
    BY <1>1, <1>2, <1>3, <1>4, <1>5, <1>6, <1>7, <1>8, <1>9, PTL
    DEF Spec, AccountSpec, ProviderSpec, TasteSpec, LogSpec, SetupSpec, AdmissionSpec,
        LimiterSpec, StoreSpec

(* Every part keeps its types (the structs of the parts, and the bounds of *)
(* the model's counters).                                                  *)
THEOREM LocalTypeCorrect == Spec => []TypeOK
<1>1. Spec => [](scene \in Scenes)
    <2>1. Init => scene \in Scenes
        BY DEF Init
    <2>2. scene \in Scenes /\ [Next]_vars => (scene \in Scenes)'
        BY DEF Next, vars
    <2> QED
        BY <2>1, <2>2, PTL DEF Spec
<1>2. ConnectInv => ProviderTypeOK
    BY DEF ConnectInv
<1>3. LimiterInv => LimiterTypeOK
    BY DEF LimiterInv
<1>4. TypeOK <=> /\ scene \in Scenes
                 /\ AccountTypeOK /\ ProviderTypeOK /\ TasteTypeOK /\ LogTypeOK /\ SetupTypeOK
                 /\ AdmissionTypeOK /\ LimiterTypeOK /\ StoreTypeOK
    BY DEF TypeOK
<1> QED
    BY <1>1, <1>2, <1>3, <1>4, PartsOnTheirOwn, AccountTypes, TasteTypes, LogTypes, SetupTyped,
       AdmissionTypes, AccountInvariant, ConnectInvariant, TasteInvariant, LogInvariant,
       SetupInvariant, LimiterInvariant, StoreTypeCorrect, PTL

(***************************************************************************)
(* What the run local_parts checks of the composed specification holds of  *)
(* it for every value of the constants: what was proved of a part on its   *)
(* own is not disturbed by the others.                                     *)
(***************************************************************************)
THEOREM LocalPartsAreSound ==
    Spec => /\ []SaveAtomic /\ []RoutesSound /\ []TasteFresh /\ []AnsweredInOrder
            /\ []LogFaithful /\ []SetupIdempotent /\ []AdmissionSound /\ []QuotaKept
            /\ []StoreSound
            /\ LogoutByName /\ OwnAuthorisation /\ OthersKept /\ SetupKeepsOthers /\ NoExpiredChain
BY PartsOnTheirOwn, SavesAreAtomic, RoutesAreSound, TasteIsFresh, AnswersInOrder, LogIsFaithful,
   SetupIsIdempotent, AdmissionIsSound, QuotaIsKept, StoreKeepsPromises, LogoutIsByName,
   LoginAddsOwnAccount, ConnectChangesOneEntry, SetupKeepsTheUsers, NoChainPastTTL, PTL
=============================================================================
