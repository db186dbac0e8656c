-------------------------- MODULE ProviderSelection --------------------------
(***************************************************************************)
(* From providers.json to the provider that serves a request: the two      *)
(* builders of ProviderRouter (providers/mod.rs), resolve and the model    *)
(* list.  An entry keeps what they read; URLs, keys and names are left out.*)
(* A configuration is a function from declared keys to entries; the keys   *)
(* are numbers, in the order of the BTreeMap.                              *)
(***************************************************************************)
EXTENDS Naturals, FiniteSets, FiniteSetsExt, Functions

CONSTANTS
    Keys,          \* provider ids, as numbers in key order
    Models,        \* model ids
    NoProvider,    \* NoEnabledProvider
    EnvProvider,   \* the single provider of an environment-only setup
    Missing, Unparsable   \* what providers.json may be instead of a configuration

ASSUME SelectionAssumption ==
    /\ Keys \subseteq Nat /\ IsFiniteSet(Keys)
    /\ NoProvider \notin Keys /\ EnvProvider \notin Keys

Kinds == {"openai", "anthropic", "gemini", "command-code"}

(* ProviderEntry, after its serde defaults.                                *)
Entries == [kind : Kinds, models : SUBSET Models, learning : BOOLEAN, enabled : BOOLEAN]
Configs == UNION {[D -> Entries] : D \in SUBSET Keys}

(* ProvidersConfig::load: no file and an empty one are both Ok(None).      *)
Loaded(file) == file \notin {Missing, Unparsable}

(* Faulty variant: disabled entries are not skipped. *)
AllKeys(cfg) == DOMAIN cfg

EnabledKeys(cfg) == {k \in DOMAIN cfg : cfg[k].enabled}

(* The loop over the entries: the first enabled one is the default, ...    *)
DefaultOf(cfg) == IF EnabledKeys(cfg) = {} THEN NoProvider ELSE Min(EnabledKeys(cfg))

(* ... by_model.insert lets the last enabled declaration of a model win,   *)
(* and models.push lists every one.                                        *)
Declaring(cfg, m) == {k \in EnabledKeys(cfg) : m \in cfg[k].models}
DeclaredModels(cfg) == UNION {cfg[k].models : k \in EnabledKeys(cfg)}
ByModel(cfg) == [m \in DeclaredModels(cfg) |-> Max(Declaring(cfg, m))]
ListedModels(cfg) == {mk \in Models \X Keys : mk[2] \in Declaring(cfg, mk[1])}

(* Faulty variant: the loop that remembers whether it saw an enabled entry *)
(* starts from "yes". *)
RouterNeverOff(cfg) ==
    [default |-> DefaultOf(cfg), byModel |-> ByModel(cfg), models |-> ListedModels(cfg),
     allDisabled |-> FALSE, watched |-> TRUE]

(* try_build_declared, from a file that parsed.                            *)
Router(cfg) ==
    [default |-> DefaultOf(cfg), byModel |-> ByModel(cfg), models |-> ListedModels(cfg),
     allDisabled |-> DOMAIN cfg # {} /\ \A k \in DOMAIN cfg : ~cfg[k].enabled, watched |-> TRUE]

(* from_env: any failure to load means the environment's provider, which   *)
(* is never reloaded; otherwise its own copy of the loop.                  *)
EnvRouter ==
    [default |-> EnvProvider, byModel |-> << >>, models |-> {},
     allDisabled |-> FALSE, watched |-> FALSE]
EnabledSeen(cfg) == \E k \in DOMAIN cfg : cfg[k].enabled
FromEnv(file) ==
    IF ~Loaded(file) THEN EnvRouter
    ELSE [default |-> DefaultOf(file), byModel |-> ByModel(file), models |-> ListedModels(file),
          allDisabled |-> ~EnabledSeen(file) /\ DOMAIN file # {}, watched |-> TRUE]

(* resolve; a router with everything disabled refuses before it (503).     *)
Resolve(router, m) == IF m \in DOMAIN router.byModel THEN router.byModel[m] ELSE router.default
=============================================================================
