----------------------------- MODULE HarnessSetup -----------------------------
(***************************************************************************)
(* `cmdcode setup` (commands/setup.rs): OpenCode's own opencode.json is    *)
(* merged with the proxy's settings, every other harness gets a file of    *)
(* its own that only --force replaces.  std::fs::write truncates, then     *)
(* writes; a run may die in between, and the user edits the files.  JSON   *)
(* is an object, an array or a leaf; the fixed texts of the other files    *)
(* and the model names are left out.                                       *)
(***************************************************************************)
EXTENDS Naturals, Sequences, FiniteSets, SequencesExt, Functions

CONSTANTS
    Harnesses,    \* harnesses other than OpenCode
    Settings,     \* COMMAND_CODE_PROXY_URL and _DEFAULT of a run
    UserConfigs,  \* what the user may have in opencode.json
    Absent,       \* no file
    Empty,        \* a file a dead run has truncated
    UserFile,     \* a harness file that holds something else
    MaxRuns       \* bound: runs of setup and edits

ASSUME SetupAssumption ==
    /\ \A json \in UserConfigs : json.kind \in {"object", "array", "leaf"}
    /\ "opencode" \notin Harnesses /\ Absent \notin Harnesses \union {"opencode"}
    /\ MaxRuns \in Nat

VARIABLES
    opencode,     \* opencode.json
    files,        \* the other files: Absent, Empty, UserFile, or the settings in it
    run,          \* the run of setup: its settings, --force, what it has to do
    runs          \* runs started and edits made

setupVars == <<opencode, files, run, runs>>

NoRun == [todo |-> {}, settings |-> Absent, force |-> FALSE, write |-> Absent, to |-> Absent]

SetupInit ==
    /\ opencode \in UserConfigs \union {Absent}
    /\ files = [h \in Harnesses |-> Absent]
    /\ run = NoRun
    /\ runs = 0

(***************************************************************************)
(* JSON                                                                    *)
(***************************************************************************)

Leaf(x) == [kind |-> "leaf", of |-> x]
Object(f) == [kind |-> "object", of |-> f]
Array(s) == [kind |-> "array", of |-> s]
Null == Leaf("null")

Field(json, k) == IF json.kind = "object" /\ k \in DOMAIN json.of THEN json.of[k] ELSE Null
With(json, k, v) ==
    Object([x \in DOMAIN json.of \union {k} |-> IF x = k THEN v ELSE json.of[x]])

(* deep_merge: objects are merged key by key, arrays are appended, and     *)
(* anything else is the overlay's.  `below` is what merging the entries    *)
(* gives; what setup lays over a file nests three objects at most.         *)
MergeLevel(base, overlay, below) ==
    IF base.kind = "object" /\ overlay.kind = "object"
    THEN Object([k \in DOMAIN base.of \union DOMAIN overlay.of |->
             IF k \in DOMAIN overlay.of THEN below[k] ELSE base.of[k]])
    ELSE IF base.kind = "array" /\ overlay.kind = "array" THEN Array(base.of \o overlay.of)
    ELSE overlay

MergeLeaf(base, overlay) == MergeLevel(base, overlay, << >>)
MergeFlat(base, overlay) ==
    MergeLevel(base, overlay, [k \in DOMAIN overlay.of |-> MergeLeaf(Field(base, k), overlay.of[k])])
MergeNested(base, overlay) ==
    MergeLevel(base, overlay, [k \in DOMAIN overlay.of |-> MergeFlat(Field(base, k), overlay.of[k])])
DeepMerge(base, overlay) ==
    MergeLevel(base, overlay, [k \in DOMAIN overlay.of |-> MergeNested(Field(base, k), overlay.of[k])])

(* to_opencode_json                                                        *)
OurProvider(s) == Object([command_code |-> Object([
    baseURL |-> Leaf(s), models |-> Object([ours |-> Leaf("name")])])])
OurServer == Object([command |-> Array(<<"cmdcode-mcp">>), enabled |-> Leaf("true")])
OurServers == Object([cmdcode_taste |-> OurServer])
OpenCodeJson(s) == Object([provider |-> OurProvider(s), model |-> Leaf(s), mcp |-> OurServers])

(* Faulty variant: the servers are merged like the providers. *)
MergedServersDeep(config) ==
    DeepMerge(IF Field(config, "mcp") = Null THEN Object(<< >>) ELSE Field(config, "mcp"), OurServers)

(* "replace individual server entries, not extend arrays"                  *)
MergedServers(config) ==
    LET servers == Field(config, "mcp") IN
    IF servers.kind = "object" THEN With(servers, "cmdcode_taste", OurServer) ELSE OurServers

(* Faulty variant: the providers are replaced. *)
MergedProvidersOver(config, s) == OurProvider(s)

MergedProviders(config, s) ==
    DeepMerge(IF "provider" \in DOMAIN config.of THEN Field(config, "provider") ELSE Object(<< >>),
              OurProvider(s))

Merge(config, s) ==
    With(With(With(config, "provider", MergedProviders(config, s)), "model", Leaf(s)),
         "mcp", MergedServers(config))

(***************************************************************************)
(* A run                                                                   *)
(***************************************************************************)

(* detect_harnesses: OpenCode counts as installed when opencode.json is    *)
(* there; which others are is the machine's, which of them the filter's.   *)
Installed == Harnesses \union (IF opencode = Absent THEN {} ELSE {"opencode"})

StartSetup == \E s \in Settings, force \in BOOLEAN, chosen \in SUBSET Installed :
    /\ run = NoRun /\ runs < MaxRuns
    /\ run' = [NoRun EXCEPT !.settings = s, !.force = force, !.todo = chosen]
    /\ runs' = runs + 1
    /\ UNCHANGED <<opencode, files>>

Skip(h) == run' = [run EXCEPT !.todo = @ \ {h}]
Truncated(h, content) == run' = [run EXCEPT !.todo = @ \ {h}, !.write = content, !.to = h]
Idle == run.to = Absent

(* setup_opencode: an error for a file that does not parse; indexing into  *)
(* something other than an object panics, which ends the run.              *)
SetupOpenCode ==
    /\ Idle /\ "opencode" \in run.todo
    /\ CASE run.force -> /\ Truncated("opencode", OpenCodeJson(run.settings))
                         /\ opencode' = Empty
         [] ~run.force /\ opencode = Empty -> Skip("opencode") /\ UNCHANGED opencode
         [] ~run.force /\ opencode # Empty ->
               IF opencode.kind # "object" THEN run' = NoRun /\ UNCHANGED opencode
               ELSE /\ Truncated("opencode", Merge(opencode, run.settings))
                    /\ opencode' = Empty
    /\ UNCHANGED <<files, runs>>

(* setup_codex, _hermes, _litellm, _ollama, _vllm, _openwebui; OpenCode    *)
(* is the first of all_types.                                              *)
SetupHarness == \E h \in run.todo \ {"opencode"} :
    /\ Idle /\ "opencode" \notin run.todo
    /\ IF files[h] # Absent /\ ~run.force THEN Skip(h) /\ UNCHANGED files
       ELSE /\ Truncated(h, run.settings)
            /\ files' = [files EXCEPT ![h] = Empty]
    /\ UNCHANGED <<opencode, runs>>

WriteSetup ==
    /\ ~Idle
    /\ IF run.to = "opencode" THEN opencode' = run.write /\ UNCHANGED files
       ELSE files' = [files EXCEPT ![run.to] = run.write] /\ UNCHANGED opencode
    /\ run' = [run EXCEPT !.write = Absent, !.to = Absent]
    /\ UNCHANGED runs

(* The run is over, or dies.                                               *)
EndSetup ==
    /\ run # NoRun
    /\ run' = NoRun
    /\ UNCHANGED <<opencode, files, runs>>

UserEdits ==
    /\ run = NoRun /\ runs < MaxRuns
    /\ runs' = runs + 1
    /\ \/ opencode' \in UserConfigs /\ UNCHANGED files
       \/ \E h \in Harnesses : files' = [files EXCEPT ![h] = UserFile] /\ UNCHANGED opencode
    /\ UNCHANGED run

SetupNext ==
    \/ StartSetup \/ SetupOpenCode \/ SetupHarness \/ WriteSetup \/ EndSetup \/ UserEdits

(***************************************************************************)
(* Properties                                                              *)
(***************************************************************************)

(* Type of the setup part. *)
SetupTypeOK ==
    /\ opencode \in {Absent, Empty} \/ opencode.kind \in {"object", "array", "leaf"}
    /\ \A h \in Harnesses : files[h] \in {Absent, Empty, UserFile} \union Settings
    /\ run.todo \subseteq Harnesses \union {"opencode"} /\ runs \in 0..MaxRuns

(* What is in an object under keys other than the given one is the same.   *)
SameBut(old, new, k) ==
    old.kind = "object" =>
        /\ new.kind = "object"
        /\ \A x \in DOMAIN old.of \ {k} : x \in DOMAIN new.of /\ new.of[x] = old.of[x]

ModelsIn(config) == Field(Field(Field(config, "provider"), "command_code"), "models")

Others(old, new) ==
    /\ \A k \in DOMAIN old.of \ {"provider", "model", "mcp"} : Field(new, k) = old.of[k]
    /\ SameBut(Field(old, "provider"), Field(new, "provider"), "command_code")
    /\ SameBut(Field(old, "mcp"), Field(new, "mcp"), "cmdcode_taste")

(* Setup without --force keeps what is the user's: other settings, other   *)
(* providers and servers, models added to our provider, other harnesses'   *)
(* files; what it cannot read it leaves alone.                             *)
SetupKeepsOthers ==
    [][/\ SetupOpenCode /\ ~run.force /\ run'.to = "opencode" =>
              /\ Others(opencode, run'.write)
              /\ SameBut(ModelsIn(opencode), ModelsIn(run'.write), "ours")
       /\ \A h \in Harnesses : SetupHarness /\ ~run.force /\ files'[h] # files[h] =>
              files[h] = Absent]_setupVars

(* Whatever a series of runs and edits has left in opencode.json, setting  *)
(* it up once more brings the given settings, and doing so twice is doing  *)
(* it once: nothing accumulates.                                           *)
SetupIdempotent ==
    opencode \notin {Absent, Empty} /\ opencode.kind = "object" =>
        \A s, t \in Settings :
            LET once == Merge(opencode, s) IN
            /\ Field(once, "model") = Leaf(s)
            /\ Field(Field(Field(once, "provider"), "command_code"), "baseURL") = Leaf(s)
            /\ Merge(once, s) = once
            /\ Merge(Merge(opencode, t), s) = once
=============================================================================
