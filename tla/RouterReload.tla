----------------------------- MODULE RouterReload -----------------------------
(***************************************************************************)
(* Hot reload of providers.json: RouterHandle (providers/mod.rs), called   *)
(* by every forward_request before it resolves its provider.               *)
(*                                                                         *)
(* A request compares the mtime its router was built with to the file's,   *)
(* and rebuilds the router when they differ: read and parse the file, stat *)
(* it again, swap.  Requests do this concurrently, and the user edits the  *)
(* file at any moment.  An edit gives the file a new mtime; what a version *)
(* of the file routes to is abstracted to the version itself.              *)
(***************************************************************************)
EXTENDS Naturals

CONSTANTS
    Requests,     \* slots for requests; a slot is reused
    Missing,      \* no such file
    MaxEdits      \* bound: edits of the file

ASSUME ReloadAssumption == MaxEdits \in Nat /\ Missing \notin Nat

VARIABLES
    file,      \* the version on disk; it is also its mtime
    kinds,     \* what each version is: parses, does not, or no file
    router,    \* RouterHandle.inner: the version it was built from, source_mtime
    req,       \* the requests
    raced      \* history: the file was edited between a read and the stat after it

vars == <<file, kinds, router, req, raced>>

Versions == 0..MaxEdits
Kinds == {"good", "broken", "missing"}
Kind  == kinds[file]
Mtime == IF Kind = "missing" THEN Missing ELSE file

NewRequest == [pc |-> "idle", stat |-> Missing, read |-> 0, begun |-> 0, seen |-> 0]

(* from_env found a file that parses: source_path is set.                  *)
Init ==
    /\ file = 0
    /\ kinds = [v \in Versions |-> "good"]      \* of versions to come: until Edit
    /\ router = [version |-> 0, mtime |-> 0]
    /\ req = [r \in Requests |-> NewRequest]
    /\ raced = FALSE

At(r, l) == req[r].pc = l
Set(r, v) == req' = [req EXCEPT ![r] = v]

(* An edit; the requests it falls into are promised nothing.               *)
Edit == \E k \in Kinds :
    /\ file < MaxEdits
    /\ file' = file + 1
    /\ kinds' = [kinds EXCEPT ![file + 1] = k]
    /\ raced' = (raced \/ \E r \in Requests : At(r, "built"))
    /\ req' = [r \in Requests |-> [req[r] EXCEPT !.begun = 0]]
    /\ UNCHANGED router

(***************************************************************************)
(* reload_if_changed                                                       *)
(***************************************************************************)

(* A request begins; `begun` is the version it is entitled to.  While a    *)
(* rebuild that has read the file is under way there is none: that rebuild *)
(* swaps in what it read, however old it has become.                       *)
Rebuilding == \E r \in Requests : At(r, "built") \/ At(r, "swap")

Start(r) ==
    /\ At(r, "idle")
    /\ Set(r, [NewRequest EXCEPT !.pc = "snapshot",
                   !.begun = IF Kind = "good" /\ ~Rebuilding THEN file ELSE 0])
    /\ UNCHANGED <<file, kinds, router, raced>>

(* `current` and the stat: nothing to do when the mtimes agree.            *)
Snapshot(r) ==
    /\ At(r, "snapshot")
    /\ Set(r, [req[r] EXCEPT !.pc = "stat", !.seen = router.mtime])
    /\ UNCHANGED <<file, kinds, router, raced>>

Stat(r) ==
    /\ At(r, "stat")
    /\ Set(r, [req[r] EXCEPT !.pc = IF Mtime = req[r].seen THEN "resolve" ELSE "load",
                             !.stat = Mtime])
    /\ UNCHANGED <<file, kinds, router, raced>>

(* Faulty variant: a file that does not parse builds a router all the same. *)
LoadAnyway(r) ==
    /\ At(r, "load")
    /\ Set(r, [req[r] EXCEPT !.pc = "built", !.read = file])
    /\ UNCHANGED <<file, kinds, router, raced>>

(* try_build_declared reads and parses: Ok(Some), else Ok(None) or Err.    *)
Load(r) ==
    /\ At(r, "load")
    /\ Set(r, IF Kind = "good" THEN [req[r] EXCEPT !.pc = "built", !.read = file]
              ELSE [req[r] EXCEPT !.pc = "keep"])
    /\ UNCHANGED <<file, kinds, router, raced>>

(* ... and stats again: the router's source_mtime.                         *)
StatBuilt(r) ==
    /\ At(r, "built")
    /\ Set(r, [req[r] EXCEPT !.pc = "swap", !.stat = Mtime])
    /\ UNCHANGED <<file, kinds, router, raced>>

(* Faulty variant: the two versions are mixed up. *)
SwapByMtime(r) ==
    /\ At(r, "swap")
    /\ router' = [version |-> req[r].stat, mtime |-> req[r].stat]
    /\ Set(r, [req[r] EXCEPT !.pc = "resolve"])
    /\ UNCHANGED <<file, kinds, raced>>

Swap(r) ==
    /\ At(r, "swap")
    /\ router' = [version |-> req[r].read, mtime |-> req[r].stat]
    /\ Set(r, [req[r] EXCEPT !.pc = "resolve"])
    /\ UNCHANGED <<file, kinds, raced>>

(* Faulty variant: the mtime on disk now, not the one of before the read.  *)
KeepLastGoodRestat(r) ==
    /\ At(r, "keep")
    /\ router' = [router EXCEPT !.mtime = Mtime]
    /\ Set(r, [req[r] EXCEPT !.pc = "resolve"])
    /\ UNCHANGED <<file, kinds, raced>>

(* Broken or missing: the routes stay, the first stat's mtime is recorded. *)
KeepLastGood(r) ==
    /\ At(r, "keep")
    /\ router' = [router EXCEPT !.mtime = req[r].stat]
    /\ Set(r, [req[r] EXCEPT !.pc = "resolve"])
    /\ UNCHANGED <<file, kinds, raced>>

(* forward_request takes its snapshot of the router and goes on with it.   *)
Resolve(r) ==
    /\ At(r, "resolve")
    /\ Set(r, [req[r] EXCEPT !.pc = "routed", !.seen = router.version])
    /\ UNCHANGED <<file, kinds, router, raced>>

Finish(r) ==
    /\ At(r, "routed")
    /\ Set(r, NewRequest)
    /\ UNCHANGED <<file, kinds, router, raced>>

RequestStep(r) ==
    \/ Snapshot(r) \/ Stat(r) \/ Load(r) \/ StatBuilt(r) \/ Swap(r) \/ KeepLastGood(r)
    \/ Resolve(r) \/ Finish(r)

Next == Edit \/ \E r \in Requests : Start(r) \/ RequestStep(r)

(* A request goes on once it has begun; nobody owes a new one or an edit.  *)
Fairness == \A r \in Requests : WF_vars(RequestStep(r))

Spec == Init /\ [][Next]_vars /\ Fairness

(***************************************************************************)
(* Properties                                                              *)
(***************************************************************************)

Points == {"idle", "snapshot", "stat", "load", "built", "swap", "keep", "resolve", "routed"}

Mtimes == Versions \union {Missing}
RequestRecord == [pc : Points, stat : Mtimes, read : Versions, begun : Versions, seen : Mtimes]

(* Type invariant. *)
TypeOK ==
    /\ file \in Versions /\ kinds \in [Versions -> Kinds]
    /\ router \in [version : Versions, mtime : Mtimes]
    /\ req \in [Requests -> RequestRecord]
    /\ raced \in BOOLEAN

(* "a broken config file keeps the last-good router": whatever edits fall  *)
(* between the stats, the read and the swap, the routes in use come from a *)
(* version of the file that parsed.                                        *)
LastGoodKept == kinds[router.version] = "good"

(* While requests keep coming, a good final version of the file is in the  *)
(* end the one they are routed by -- when no edit fell between the read    *)
(* and the second stat of a rebuild.                                       *)
Busy == \A r \in Requests : []<>~At(r, "idle")
CatchesUp == <>[](Kind = "good" => router.version = file)
CatchesUpUnraced == Busy /\ []~raced => CatchesUp

(* "provider edits apply on the next request without restarting the proxy": *)
(* the same whatever the moment of the edit.                               *)
EditsApply == Busy => CatchesUp

(* The very next request: one that begins after an edit, when no rebuild   *)
(* from before is about to swap, and during which there is no edit, is     *)
(* routed by that version or a later one (again without that race).        *)
AppliesOnNextRequest ==
    ~raced => \A r \in Requests : At(r, "routed") => req[r].seen >= req[r].begun
=============================================================================
