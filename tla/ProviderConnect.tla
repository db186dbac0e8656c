--------------------------- MODULE ProviderConnect ---------------------------
(***************************************************************************)
(* `cmdcode connect` (commands/connect.rs) against a running proxy: the    *)
(* commands load providers.json, change one entry and write the whole file *)
(* back in place (std::fs::write truncates, then writes); requests reload  *)
(* the router when the file has changed.  Several commands may run, die    *)
(* between any two steps, and the user may break the file in an editor.    *)
(* The reload is one step here (RouterReload takes it apart).              *)
(***************************************************************************)
EXTENDS ProviderSelection

CONSTANTS
    Editors,     \* running `cmdcode connect` commands
    NewEntries,  \* what `connect add` may be told to add
    FirstConfig, \* providers.json at the start
    MaxChanges   \* bound: changes to the file

ASSUME ConnectAssumption ==
    /\ NewEntries \subseteq Entries
    /\ Loaded(FirstConfig) => FirstConfig \in Configs
    /\ MaxChanges \in Nat

VARIABLES
    pfile,       \* providers.json
    router,      \* the proxy's router
    editor,      \* the connect commands
    changes,     \* changes to the file; also its mtime
    builtAt,     \* source_mtime of the router
    source,      \* history: the configuration the router was built from
    whole        \* history: the file's last complete content

providerVars == <<pfile, router, editor, changes, builtAt, source, whole>>

NoEditor == [pc |-> "idle", cfg |-> << >>, alone |-> FALSE]

ProviderInit ==
    /\ pfile = FirstConfig
    /\ router = FromEnv(FirstConfig)
    /\ editor = [e \in Editors |-> NoEditor]
    /\ changes = 0
    /\ builtAt = 0
    /\ source = FirstConfig
    /\ whole = FirstConfig

(* The file changes: nobody else's copy of it is current any longer.       *)
Becomes(e, content, next) ==
    /\ changes < MaxChanges
    /\ changes' = changes + 1
    /\ pfile' = content
    /\ editor' = [x \in Editors |-> IF x = e THEN next ELSE [editor[x] EXCEPT !.alone = FALSE]]

(* load_raw: a missing or empty file is an empty configuration.            *)
LoadRaw == IF pfile = Missing THEN << >> ELSE pfile

Overlay(cfg, k, entry) == [x \in DOMAIN cfg \union {k} |-> IF x = k THEN entry ELSE cfg[x]]

(* Faulty variant: `connect add` starts from an empty map of providers. *)
EditedFresh(cfg, k) == {Overlay(<< >>, k, entry) : entry \in NewEntries}

(* add replaces the whole entry of a known key; remove and enable/disable  *)
(* want a known key.  A file that does not parse ends the command.         *)
Edited(cfg, k) ==
    {Overlay(cfg, k, entry) : entry \in NewEntries}
    \union (IF k \in DOMAIN cfg
            THEN {Restrict(cfg, DOMAIN cfg \ {k})}
                 \union {[cfg EXCEPT ![k].enabled = b] : b \in BOOLEAN}
            ELSE {})

LoadAndEdit(e) ==
    /\ editor[e].pc = "idle" /\ LoadRaw # Unparsable
    /\ \E k \in Keys : \E cfg \in Edited(LoadRaw, k) :
          editor' = [editor EXCEPT ![e] = [pc |-> "open", cfg |-> cfg, alone |-> LoadRaw = whole]]
    /\ UNCHANGED <<pfile, router, changes, builtAt, source, whole>>

(* save_raw.                                                               *)
Truncate(e) ==
    /\ editor[e].pc = "open"
    /\ Becomes(e, Missing, [editor[e] EXCEPT !.pc = "put"])
    /\ UNCHANGED <<router, builtAt, source, whole>>

WriteConfig(e) ==
    /\ editor[e].pc = "put"
    /\ Becomes(e, editor[e].cfg, NoEditor)
    /\ whole' = editor[e].cfg
    /\ UNCHANGED <<router, builtAt, source>>

EditorDies(e) ==
    /\ editor[e].pc # "idle"
    /\ editor' = [editor EXCEPT ![e] = NoEditor]
    /\ UNCHANGED <<pfile, router, changes, builtAt, source, whole>>

(* The user's own edit leaves something that does not parse.               *)
BreakByHand ==
    /\ changes < MaxChanges
    /\ changes' = changes + 1
    /\ pfile' = Unparsable /\ whole' = Unparsable
    /\ editor' = [x \in Editors |-> [editor[x] EXCEPT !.alone = FALSE]]
    /\ UNCHANGED <<router, builtAt, source>>

(* reload_if_changed before every request: only a router built from a file *)
(* looks at it; a file that cannot be used keeps the router.               *)
Request ==
    /\ router.watched /\ builtAt # changes
    /\ builtAt' = changes
    /\ IF Loaded(pfile) THEN router' = Router(pfile) /\ source' = pfile
       ELSE UNCHANGED <<router, source>>
    /\ UNCHANGED <<pfile, editor, changes, whole>>

(* The proxy is started anew.                                              *)
Restart ==
    /\ router' = FromEnv(pfile) /\ builtAt' = changes
    /\ source' = pfile
    /\ UNCHANGED <<pfile, editor, changes, whole>>

ProviderNext ==
    \/ \E e \in Editors : LoadAndEdit(e) \/ Truncate(e) \/ WriteConfig(e) \/ EditorDies(e)
    \/ BreakByHand \/ Request \/ Restart

(***************************************************************************)
(* Properties                                                              *)
(***************************************************************************)

(* Type of the provider part. *)
ProviderTypeOK ==
    /\ \A f \in {pfile, source, whole} : Loaded(f) => f \in Configs
    /\ \A e \in Editors : editor[e].cfg \in Configs
    /\ changes \in 0..MaxChanges /\ builtAt \in 0..changes

(* "Disabled entries serve no traffic": whatever was edited and reloaded,  *)
(* every model goes to an enabled entry of the configuration in use, one   *)
(* that declares it if it is listed; with no such entry to nobody.         *)
OnlyEnabledServe ==
    Loaded(source) =>
        \A m \in Models :
            LET k == Resolve(router, m) IN
            /\ k # NoProvider => source[k].enabled
            /\ (\E j \in Keys : <<m, j>> \in router.models) => m \in source[k].models
            /\ k = NoProvider <=> router.models = {} /\ \A j \in DOMAIN source : ~source[j].enabled

(* The two copies of the loop agree: a proxy restarted on the file it has  *)
(* loaded last comes up with the router it has.                            *)
RestartAgrees == Loaded(source) => FromEnv(source) = router

(* The router in use is the right one for its configuration, however it    *)
(* came to be.                                                             *)
RoutesSound == OnlyEnabledServe /\ RestartAgrees

(* A command whose copy of the file was complete and has stayed current    *)
(* changes one entry: it neither loses nor revives anybody else's.         *)
OthersKept ==
    [][\A e \in Editors :
          WriteConfig(e) /\ editor[e].alone /\ Loaded(whole) =>
             \E k \in Keys : \A x \in Keys \ {k} :
                 /\ x \in DOMAIN pfile' <=> x \in DOMAIN whole
                 /\ x \in DOMAIN whole => pfile'[x] = whole[x]]_providerVars
=============================================================================
