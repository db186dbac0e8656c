------------------------- MODULE RouterReload_proofs -------------------------
(***************************************************************************)
(* TypeOK, LastGoodKept and AppliesOnNextRequest for any number of         *)
(* requests and edits.  What makes LastGoodKept inductive is that a        *)
(* version, once on disk, never changes: the version a request has read    *)
(* parsed when it was read, so it still is a good one when the request     *)
(* swaps it in, whatever was edited in between.  NextInv says why the next *)
(* request after an edit is routed by it.                                  *)
(***************************************************************************)
EXTENDS RouterReload, TLAPS

(* The version was on disk and parses. *)
Good(v) == v \in 0..file /\ kinds[v] = "good"

(* The version in use, and every version read and not yet swapped in, are  *)
(* good.                                                                   *)
IInv ==
    /\ TypeOK
    /\ Good(router.version)
    /\ \A r \in Requests : At(r, "built") \/ At(r, "swap") => Good(req[r].read)

(* A fresh request is a request. *)
LEMMA NewRequestType == NewRequest \in RequestRecord
BY ReloadAssumption DEF NewRequest, RequestRecord, Points, Mtimes, Versions

(* The initial router comes from a good file. *)
LEMMA InitGood == Init => IInv
<1> SUFFICES ASSUME Init PROVE IInv
    OBVIOUS
<1>1. TypeOK
    <2>1. 0 \in Versions /\ "good" \in Kinds
        BY ReloadAssumption DEF Versions, Kinds
    <2>2. kinds \in [Versions -> Kinds]
        BY <2>1 DEF Init
    <2>3. router \in [version : Versions, mtime : Mtimes]
        BY <2>1 DEF Init, Mtimes
    <2>4. req \in [Requests -> RequestRecord]
        BY NewRequestType DEF Init
    <2> QED
        BY <2>1, <2>2, <2>3, <2>4 DEF Init, TypeOK
<1>2. Good(router.version)
    BY ReloadAssumption DEF Init, Good, Versions
<1>3. ASSUME NEW r \in Requests PROVE ~At(r, "built") /\ ~At(r, "swap")
    BY DEF Init, At, NewRequest
<1> QED
    BY <1>1, <1>2, <1>3 DEF IInv

(* An edit makes a new version and touches no earlier one. *)
LEMMA EditKeeps ==
    ASSUME IInv, Edit
    PROVE  IInv'
<1>1. PICK k \in Kinds :
          /\ file < MaxEdits
          /\ file' = file + 1
          /\ kinds' = [kinds EXCEPT ![file + 1] = k]
          /\ raced' = (raced \/ \E r \in Requests : At(r, "built"))
          /\ req' = [r \in Requests |-> [req[r] EXCEPT !.begun = 0]]
          /\ UNCHANGED router
    BY DEF Edit
<1>2. file \in Nat /\ file + 1 \in Versions /\ 0 \in Versions
    BY <1>1, ReloadAssumption DEF IInv, TypeOK, Versions
<1>3. ASSUME NEW v, Good(v) PROVE v \in 0..file' /\ kinds'[v] = "good"
    <2>1. v \in 0..file /\ v # file + 1 /\ v \in Versions
        BY <1>1, <1>2, <1>3, ReloadAssumption DEF Good, Versions
    <2> QED
        BY <2>1, <1>1, <1>2, <1>3 DEF Good, IInv, TypeOK
<1>4. ASSUME NEW r \in Requests
      PROVE  /\ req'[r] \in RequestRecord
             /\ req'[r].pc = req[r].pc /\ req'[r].read = req[r].read
    <2>1. req[r] \in RequestRecord
        BY DEF IInv, TypeOK
    <2>2. req'[r] = [req[r] EXCEPT !.begun = 0]
        BY <1>1
    <2> QED
        BY <2>1, <2>2, <1>2 DEF RequestRecord
<1>5. TypeOK'
    <2>1. req' \in [Requests -> RequestRecord]
        BY <1>1, <1>4
    <2>2. kinds' \in [Versions -> Kinds]
        BY <1>1, <1>2 DEF IInv, TypeOK
    <2>3. raced' \in BOOLEAN
        BY <1>1 DEF IInv, TypeOK
    <2> QED
        BY <2>1, <2>2, <2>3, <1>1, <1>2 DEF IInv, TypeOK
<1>6. (Good(router.version))'
    BY <1>1, <1>3 DEF IInv, Good
<1>7. ASSUME NEW r \in Requests, (At(r, "built") \/ At(r, "swap"))'
      PROVE  (Good(req[r].read))'
    <2>1. Good(req[r].read)
        BY <1>4, <1>7 DEF IInv, At
    <2> QED
        BY <2>1, <1>3, <1>4 DEF Good
<1> QED
    BY <1>5, <1>6, <1>7 DEF IInv

(* A step of one request keeps IInv if the version in use, and what that   *)
(* request has read, stay good.                                            *)
LEMMA StepKeeps ==
    ASSUME IInv, NEW r \in Requests, NEW v \in RequestRecord, Set(r, v),
           UNCHANGED <<file, kinds, raced>>,
           router' \in [version : Versions, mtime : Mtimes], Good(router'.version),
           v.pc \in {"built", "swap"} => Good(v.read)
    PROVE  IInv'
<1>1. /\ req' \in [Requests -> RequestRecord]
      /\ \A s \in Requests : req'[s] = IF s = r THEN v ELSE req[s]
    BY DEF IInv, TypeOK, Set
<1>2. ASSUME NEW s \in Requests, (At(s, "built") \/ At(s, "swap"))'
      PROVE  (Good(req[s].read))'
    BY <1>1, <1>2 DEF IInv, Good, At
<1>3. TypeOK' /\ (Good(router.version))'
    BY <1>1 DEF IInv, TypeOK, Good
<1> QED
    BY <1>2, <1>3 DEF IInv

(* The inductive step. *)
LEMMA NextKeeps == IInv /\ [Next]_vars => IInv'
<1> SUFFICES ASSUME IInv, [Next]_vars PROVE IInv'
    OBVIOUS
<1>0. /\ Good(router.version)
      /\ router \in [version : Versions, mtime : Mtimes]
      /\ Mtime \in Mtimes /\ file \in Versions /\ 0 \in Versions
      /\ file \in 0..file
    BY ReloadAssumption DEF IInv, TypeOK, Mtime, Mtimes, Versions
<1>1. ASSUME NEW r \in Requests PROVE req[r] \in RequestRecord
    BY DEF IInv, TypeOK
<1>2. ASSUME NEW r \in Requests, Start(r) PROVE IInv'
    <2> DEFINE v == [NewRequest EXCEPT !.pc = "snapshot",
                                       !.begun = IF Kind = "good" /\ ~Rebuilding THEN file ELSE 0]
    <2>1. v \in RequestRecord /\ v.pc = "snapshot"
        BY <1>0, NewRequestType DEF RequestRecord, Points
    <2>2. Set(r, v) /\ UNCHANGED <<file, kinds, router, raced>>
        BY <1>2 DEF Start
    <2> HIDE DEF v
    <2> QED
        BY <2>1, <2>2, <1>0, StepKeeps
<1>3. ASSUME NEW r \in Requests, Snapshot(r) PROVE IInv'
    <2> DEFINE v == [req[r] EXCEPT !.pc = "stat", !.seen = router.mtime]
    <2>1. v \in RequestRecord /\ v.pc = "stat"
        BY <1>0, <1>1 DEF RequestRecord, Points
    <2>2. Set(r, v) /\ UNCHANGED <<file, kinds, router, raced>>
        BY <1>3 DEF Snapshot
    <2> HIDE DEF v
    <2> QED
        BY <2>1, <2>2, <1>0, StepKeeps
<1>4. ASSUME NEW r \in Requests, Stat(r) PROVE IInv'
    <2> DEFINE v == [req[r] EXCEPT !.pc = IF Mtime = req[r].seen THEN "resolve" ELSE "load",
                                   !.stat = Mtime]
    <2>1. v \in RequestRecord /\ v.pc \in {"resolve", "load"}
        BY <1>0, <1>1 DEF RequestRecord, Points
    <2>2. Set(r, v) /\ UNCHANGED <<file, kinds, router, raced>>
        BY <1>4 DEF Stat
    <2> HIDE DEF v
    <2> QED
        BY <2>1, <2>2, <1>0, StepKeeps
<1>5. ASSUME NEW r \in Requests, Load(r) PROVE IInv'
    <2> DEFINE v == [req[r] EXCEPT !.pc = "built", !.read = file]
               w == [req[r] EXCEPT !.pc = "keep"]
    <2>1. /\ v \in RequestRecord /\ v.read = file
          /\ w \in RequestRecord /\ w.pc = "keep"
        BY <1>0, <1>1 DEF RequestRecord, Points
    <2>2. UNCHANGED <<file, kinds, router, raced>>
        BY <1>5 DEF Load
    <2>3. CASE Kind = "good"
        <3>1. Set(r, v) /\ Good(v.read)
            BY <2>1, <2>3, <1>0, <1>5 DEF Load, Good, Kind
        <3> HIDE DEF v
        <3> QED
            BY <3>1, <2>1, <2>2, <1>0, StepKeeps
    <2>4. CASE Kind # "good"
        <3>1. Set(r, w)
            BY <2>4, <1>5 DEF Load
        <3> HIDE DEF w
        <3> QED
            BY <3>1, <2>1, <2>2, <1>0, StepKeeps
    <2> QED
        BY <2>3, <2>4
<1>6. ASSUME NEW r \in Requests, StatBuilt(r) PROVE IInv'
    <2> DEFINE v == [req[r] EXCEPT !.pc = "swap", !.stat = Mtime]
    <2>1. v \in RequestRecord /\ v.read = req[r].read
        BY <1>0, <1>1 DEF RequestRecord, Points
    <2>2. Set(r, v) /\ UNCHANGED <<file, kinds, router, raced>> /\ Good(req[r].read)
        BY <1>6 DEF StatBuilt, IInv
    <2> HIDE DEF v
    <2> QED
        BY <2>1, <2>2, <1>0, StepKeeps
<1>7. ASSUME NEW r \in Requests, Swap(r) PROVE IInv'
    <2> DEFINE v == [req[r] EXCEPT !.pc = "resolve"]
    <2>1. v \in RequestRecord /\ v.pc = "resolve"
        BY <1>1 DEF RequestRecord, Points
    <2>2. Set(r, v) /\ UNCHANGED <<file, kinds, raced>> /\ Good(req[r].read)
        BY <1>7 DEF Swap, IInv
    <2>3. /\ router' \in [version : Versions, mtime : Mtimes]
          /\ router'.version = req[r].read
        BY <1>1, <1>7 DEF Swap, RequestRecord
    <2> HIDE DEF v
    <2> QED
        BY <2>1, <2>2, <2>3, StepKeeps
<1>8. ASSUME NEW r \in Requests, KeepLastGood(r) PROVE IInv'
    <2> DEFINE v == [req[r] EXCEPT !.pc = "resolve"]
    <2>1. v \in RequestRecord /\ v.pc = "resolve"
        BY <1>1 DEF RequestRecord, Points
    <2>2. Set(r, v) /\ UNCHANGED <<file, kinds, raced>>
        BY <1>8 DEF KeepLastGood
    <2>3. /\ router' \in [version : Versions, mtime : Mtimes]
          /\ router'.version = router.version
        BY <1>0, <1>1, <1>8 DEF KeepLastGood, RequestRecord
    <2> HIDE DEF v
    <2> QED
        BY <2>1, <2>2, <2>3, <1>0, StepKeeps
<1>9. ASSUME NEW r \in Requests, Resolve(r) PROVE IInv'
    <2> DEFINE v == [req[r] EXCEPT !.pc = "routed", !.seen = router.version]
    <2>1. v \in RequestRecord /\ v.pc = "routed"
        BY <1>0, <1>1 DEF RequestRecord, Points, Mtimes
    <2>2. Set(r, v) /\ UNCHANGED <<file, kinds, router, raced>>
        BY <1>9 DEF Resolve
    <2> HIDE DEF v
    <2> QED
        BY <2>1, <2>2, <1>0, StepKeeps
<1>10. ASSUME NEW r \in Requests, Finish(r) PROVE IInv'
    <2>1. NewRequest.pc = "idle"
        BY DEF NewRequest
    <2>2. Set(r, NewRequest) /\ UNCHANGED <<file, kinds, router, raced>>
        BY <1>10 DEF Finish
    <2> QED
        BY <2>1, <2>2, <1>0, NewRequestType, StepKeeps
<1>11. CASE Edit
    BY <1>11, EditKeeps
<1>12. CASE UNCHANGED vars
    BY <1>12 DEF vars, IInv, TypeOK, Good, At
<1> QED
    BY <1>2, <1>3, <1>4, <1>5, <1>6, <1>7, <1>8, <1>9, <1>10, <1>11, <1>12
       DEF Next, RequestStep

(* Every variable of the reload protocol keeps its type. *)
THEOREM ReloadTypeCorrect == Spec => []TypeOK
<1>1. IInv => TypeOK
    BY DEF IInv
<1> QED
    BY <1>1, InitGood, NextKeeps, PTL DEF Spec

(* "a broken config file keeps the last-good router" (README.md), for every *)
(* number of requests and edits and whatever their interleaving.           *)
THEOREM LastGoodRouter == Spec => []LastGoodKept
<1>1. IInv => LastGoodKept
    BY DEF IInv, Good, LastGoodKept
<1> QED
    BY <1>1, InitGood, NextKeeps, PTL DEF Spec
(***************************************************************************)
(* The next request.  A router whose source_mtime is the file's holds the  *)
(* file's version if that parses (CurrentRouter): a swap records the mtime *)
(* it has read, but for the race, and KeepLastGood an mtime under which    *)
(* the file did not parse.  A request that is entitled to a version began  *)
(* with no rebuild under way, so every later rebuild reads that version.   *)
(***************************************************************************)
Past == 0..file \union {Missing}
MtimesPast == router.mtime \in Past /\ \A r \in Requests : req[r].stat \in Past
RoutedVersion == \A r \in Requests : At(r, "routed") => req[r].seen \in Versions

CurrentRouter == router.mtime = file /\ Kind = "good" => router.version = file

(* What a rebuild has in hand is what it will record. *)
ReadUnraced ==
    \A r \in Requests :
        /\ At(r, "built") => req[r].read = file
        /\ At(r, "swap") => req[r].stat = req[r].read
        /\ At(r, "keep") => ~(req[r].stat = file /\ Kind = "good")

(* A request entitled to a version is on its way to it. *)
OnItsWay(r) ==
    req[r].begun > 0 =>
        /\ req[r].begun = file /\ Kind = "good" /\ ~At(r, "keep")
        /\ \A s \in Requests : At(s, "built") \/ At(s, "swap") => req[s].read = file
        /\ At(r, "stat") /\ req[r].seen = file => router.version = file
        /\ At(r, "resolve") => router.version = file
        /\ At(r, "routed") => req[r].seen = file

NextInv ==
    /\ MtimesPast /\ RoutedVersion
    /\ ~raced => CurrentRouter /\ ReadUnraced /\ \A r \in Requests : OnItsWay(r)

(* The router holds version 0, which is on disk. *)
LEMMA NextInit == Init => NextInv
<1> SUFFICES ASSUME Init PROVE NextInv
    OBVIOUS
<1>1. router.version = 0 /\ router.mtime = 0 /\ file = 0
    BY DEF Init
<1>2. \A r \in Requests : req[r].pc = "idle" /\ req[r].stat = Missing /\ req[r].begun = 0
    BY DEF Init, NewRequest
<1> QED
    BY <1>1, <1>2 DEF NextInv, MtimesPast, RoutedVersion, CurrentRouter, ReadUnraced, OnItsWay, Past, At

(* An edit: no mtime recorded so far is the new one, and nobody is         *)
(* entitled to anything any more.                                          *)
LEMMA EditKeepsNext == ASSUME IInv, NextInv, Edit PROVE NextInv'
<1>1. file \in Nat /\ file' = file + 1 /\ UNCHANGED router
    BY ReloadAssumption DEF Edit, IInv, TypeOK, Versions
<1>2. ASSUME NEW r \in Requests
      PROVE  /\ req'[r].pc = req[r].pc /\ req'[r].stat = req[r].stat /\ req'[r].read = req[r].read
             /\ req'[r].seen = req[r].seen /\ req'[r].begun = 0
    <2>1. req[r] \in RequestRecord /\ req'[r] = [req[r] EXCEPT !.begun = 0]
        BY DEF Edit, IInv, TypeOK
    <2> QED
        BY <2>1 DEF RequestRecord
<1>3. \A m \in Past : m \in Past' /\ m # file'
    BY <1>1, ReloadAssumption DEF Past
<1>4. MtimesPast' /\ RoutedVersion'
    BY <1>1, <1>2, <1>3 DEF NextInv, MtimesPast, RoutedVersion, At
<1>5. CurrentRouter'
    BY <1>1, <1>3 DEF NextInv, MtimesPast, CurrentRouter
<1>6. ~raced' => ReadUnraced'
    <2> SUFFICES ASSUME ~raced' PROVE ReadUnraced'
        OBVIOUS
    <2>1. ~raced /\ \A r \in Requests : ~At(r, "built")
        BY DEF Edit
    <2>2. \A r \in Requests : req[r].stat # file'
        BY <1>3 DEF NextInv, MtimesPast
    <2> QED
        BY <2>1, <2>2, <1>2 DEF NextInv, ReadUnraced, At
<1>7. \A r \in Requests : OnItsWay(r)'
    BY <1>2 DEF OnItsWay
<1> QED
    BY <1>4, <1>5, <1>6, <1>7 DEF NextInv

(* What a step of one request has to establish. *)
LEMMA StepKeepsNext ==
    ASSUME IInv, NextInv, NEW r \in Requests, NEW v, Set(r, v), UNCHANGED <<file, kinds, raced>>,
           v.stat \in Past, router'.mtime \in Past,
           v.pc = "routed" => v.seen \in Versions,
           ~raced =>
              /\ router'.mtime = file /\ Kind = "good" => router'.version = file
              /\ v.pc = "built" => v.read = file
              /\ v.pc = "swap" => v.stat = v.read
              /\ v.pc = "keep" => ~(v.stat = file /\ Kind = "good")
              /\ v.begun > 0 =>
                    /\ v.begun = file /\ Kind = "good" /\ v.pc # "keep"
                    /\ \A s \in Requests \ {r} : At(s, "built") \/ At(s, "swap") => req[s].read = file
                    /\ v.pc \in {"built", "swap"} => v.read = file
                    /\ v.pc = "stat" /\ v.seen = file => router'.version = file
                    /\ v.pc = "resolve" => router'.version = file
                    /\ v.pc = "routed" => v.seen = file
              /\ (\E s \in Requests \ {r} : req[s].begun > 0) =>
                    /\ v.pc \in {"built", "swap"} => v.read = file
                    /\ router'.version \in {router.version, file}
    PROVE  NextInv'
<1>1. \A s \in Requests : req'[s] = IF s = r THEN v ELSE req[s]
    BY DEF IInv, TypeOK, Set
<1>2. Kind' = Kind /\ Past' = Past
    BY DEF Kind, Past
<1>3. MtimesPast' /\ RoutedVersion'
    BY <1>1, <1>2 DEF NextInv, MtimesPast, RoutedVersion, At
<1>4. ~raced' => CurrentRouter' /\ ReadUnraced'
    BY <1>1, <1>2 DEF NextInv, CurrentRouter, ReadUnraced, At
<1>5. ASSUME ~raced, NEW s \in Requests PROVE OnItsWay(s)'
    <2>1. CASE s = r
        BY <1>1, <1>2, <1>5, <2>1 DEF OnItsWay, At
    <2>2. CASE s # r
        BY <1>1, <1>2, <1>5, <2>2 DEF NextInv, OnItsWay, At
    <2> QED
        BY <2>1, <2>2
<1> QED
    BY <1>3, <1>4, <1>5 DEF NextInv
(* Every action keeps NextInv, as long as no edit raced a rebuild. *)
LEMMA NextInductive == IInv /\ NextInv /\ [Next]_vars => NextInv'
<1> SUFFICES ASSUME IInv, NextInv, [Next]_vars PROVE NextInv'
    OBVIOUS
<1>0. /\ router.mtime \in Past /\ router.version \in Versions /\ Missing \in Past
      /\ file \in Nat /\ Mtime \in Past /\ (Kind = "good" => Mtime = file)
      /\ (Mtime = file => Kind # "missing")
    BY ReloadAssumption DEF IInv, TypeOK, NextInv, MtimesPast, Mtime, Past, Versions
<1>1. ASSUME NEW r \in Requests
      PROVE  /\ req[r] \in RequestRecord /\ req[r].stat \in Past
             /\ ~raced => CurrentRouter /\ OnItsWay(r)
             /\ ~raced /\ At(r, "built") => req[r].read = file /\ Kind = "good"
             /\ ~raced /\ At(r, "swap") => req[r].stat = req[r].read
             /\ ~raced /\ At(r, "keep") => ~(req[r].stat = file /\ Kind = "good")
             /\ ~raced /\ (\E s \in Requests : req[s].begun > 0) =>
                   (At(r, "built") \/ At(r, "swap") => req[r].read = file)
    BY DEF IInv, TypeOK, NextInv, MtimesPast, ReadUnraced, OnItsWay, Good, Kind
<1>2. ASSUME NEW r \in Requests, Start(r) PROVE NextInv'
    <2> DEFINE b == IF Kind = "good" /\ ~Rebuilding THEN file ELSE 0
               v == [NewRequest EXCEPT !.pc = "snapshot", !.begun = b]
    <2>1. v.pc = "snapshot" /\ v.stat = Missing /\ v.begun = b
        BY DEF NewRequest
    <2>2. Set(r, v) /\ UNCHANGED <<file, kinds, router, raced>>
        BY <1>2 DEF Start
    <2> HIDE DEF v
    <2>3. b > 0 => /\ b = file /\ Kind = "good"
                   /\ \A s \in Requests : ~At(s, "built") /\ ~At(s, "swap")
        BY DEF Rebuilding
    <2> HIDE DEF b
    <2> QED
        BY <2>1, <2>2, <2>3, <1>0, <1>1, StepKeepsNext DEF CurrentRouter
<1>3. ASSUME NEW r \in Requests, Snapshot(r) PROVE NextInv'
    <2> DEFINE v == [req[r] EXCEPT !.pc = "stat", !.seen = router.mtime]
    <2>1. /\ v.pc = "stat" /\ v.stat = req[r].stat /\ v.begun = req[r].begun /\ v.seen = router.mtime
        BY <1>1 DEF RequestRecord
    <2>2. Set(r, v) /\ UNCHANGED <<file, kinds, router, raced>>
        BY <1>3 DEF Snapshot
    <2> HIDE DEF v
    <2> QED
        BY <2>1, <2>2, <1>0, <1>1, StepKeepsNext DEF CurrentRouter, OnItsWay
<1>4. ASSUME NEW r \in Requests, Stat(r) PROVE NextInv'
    <2> DEFINE l == IF Mtime = req[r].seen THEN "resolve" ELSE "load"
               v == [req[r] EXCEPT !.pc = l, !.stat = Mtime]
    <2>1. v.pc = l /\ v.stat = Mtime /\ v.begun = req[r].begun
        BY <1>1 DEF RequestRecord
    <2>2. Set(r, v) /\ UNCHANGED <<file, kinds, router, raced>> /\ At(r, "stat")
        BY <1>4 DEF Stat
    <2>3. l \in {"resolve", "load"} /\ (l = "resolve" => Mtime = req[r].seen)
        OBVIOUS
    <2> HIDE DEF v, l
    <2> QED
        BY <2>1, <2>2, <2>3, <1>0, <1>1, StepKeepsNext DEF CurrentRouter, OnItsWay
<1>5. ASSUME NEW r \in Requests, Load(r) PROVE NextInv'
    <2> DEFINE v == [req[r] EXCEPT !.pc = "built", !.read = file]
               w == [req[r] EXCEPT !.pc = "keep"]
    <2>1. /\ v.pc = "built" /\ v.read = file /\ v.stat = req[r].stat /\ v.begun = req[r].begun
          /\ w.pc = "keep" /\ w.stat = req[r].stat /\ w.begun = req[r].begun
        BY <1>1 DEF RequestRecord
    <2>2. UNCHANGED <<file, kinds, router, raced>>
        BY <1>5 DEF Load
    <2>3. CASE Kind = "good"
        <3>1. Set(r, v)
            BY <2>3, <1>5 DEF Load
        <3> HIDE DEF v
        <3> QED
            BY <3>1, <2>1, <2>2, <1>0, <1>1, StepKeepsNext DEF CurrentRouter, OnItsWay
    <2>4. CASE Kind # "good"
        <3>1. Set(r, w)
            BY <2>4, <1>5 DEF Load
        <3> HIDE DEF w
        <3> QED
            BY <3>1, <2>1, <2>2, <2>4, <1>0, <1>1, StepKeepsNext DEF CurrentRouter, OnItsWay
    <2> QED
        BY <2>3, <2>4
<1>6. ASSUME NEW r \in Requests, StatBuilt(r) PROVE NextInv'
    <2> DEFINE v == [req[r] EXCEPT !.pc = "swap", !.stat = Mtime]
    <2>1. v.pc = "swap" /\ v.read = req[r].read /\ v.stat = Mtime /\ v.begun = req[r].begun
        BY <1>1 DEF RequestRecord
    <2>2. Set(r, v) /\ UNCHANGED <<file, kinds, router, raced>> /\ At(r, "built")
        BY <1>6 DEF StatBuilt
    <2> HIDE DEF v
    <2> QED
        BY <2>1, <2>2, <1>0, <1>1, StepKeepsNext DEF CurrentRouter, OnItsWay
<1>7. ASSUME NEW r \in Requests, Swap(r) PROVE NextInv'
    <2> DEFINE v == [req[r] EXCEPT !.pc = "resolve"]
    <2>1. v.pc = "resolve" /\ v.stat = req[r].stat /\ v.begun = req[r].begun
        BY <1>1 DEF RequestRecord
    <2>2. Set(r, v) /\ UNCHANGED <<file, kinds, raced>> /\ At(r, "swap")
        BY <1>7 DEF Swap
    <2>3. router'.version = req[r].read /\ router'.mtime = req[r].stat
        BY <1>7 DEF Swap
    <2> HIDE DEF v
    <2> QED
        BY <2>1, <2>2, <2>3, <1>0, <1>1, StepKeepsNext DEF OnItsWay
<1>8. ASSUME NEW r \in Requests, KeepLastGood(r) PROVE NextInv'
    <2> DEFINE v == [req[r] EXCEPT !.pc = "resolve"]
    <2>1. v.pc = "resolve" /\ v.stat = req[r].stat /\ v.begun = req[r].begun
        BY <1>1 DEF RequestRecord
    <2>2. Set(r, v) /\ UNCHANGED <<file, kinds, raced>> /\ At(r, "keep")
        BY <1>8 DEF KeepLastGood
    <2>3. router'.version = router.version /\ router'.mtime = req[r].stat
        BY <1>8 DEF KeepLastGood, IInv, TypeOK
    <2> HIDE DEF v
    <2> QED
        BY <2>1, <2>2, <2>3, <1>0, <1>1, StepKeepsNext DEF OnItsWay
<1>9. ASSUME NEW r \in Requests, Resolve(r) PROVE NextInv'
    <2> DEFINE v == [req[r] EXCEPT !.pc = "routed", !.seen = router.version]
    <2>1. v.pc = "routed" /\ v.stat = req[r].stat /\ v.begun = req[r].begun /\ v.seen = router.version
        BY <1>1 DEF RequestRecord
    <2>2. Set(r, v) /\ UNCHANGED <<file, kinds, router, raced>> /\ At(r, "resolve")
        BY <1>9 DEF Resolve
    <2> HIDE DEF v
    <2> QED
        BY <2>1, <2>2, <1>0, <1>1, StepKeepsNext DEF CurrentRouter, OnItsWay
<1>10. ASSUME NEW r \in Requests, Finish(r) PROVE NextInv'
    <2>1. NewRequest.pc = "idle" /\ NewRequest.stat = Missing /\ NewRequest.begun = 0
        BY DEF NewRequest
    <2>2. Set(r, NewRequest) /\ UNCHANGED <<file, kinds, router, raced>>
        BY <1>10 DEF Finish
    <2> QED
        BY <2>1, <2>2, <1>0, <1>1, StepKeepsNext DEF CurrentRouter
<1>11. CASE Edit
    BY <1>11, EditKeepsNext
<1>12. CASE UNCHANGED vars
    BY <1>12 DEF vars, NextInv, MtimesPast, RoutedVersion, CurrentRouter, ReadUnraced, OnItsWay, Past, At, Kind
<1> QED
    BY <1>2, <1>3, <1>4, <1>5, <1>6, <1>7, <1>8, <1>9, <1>10, <1>11, <1>12
       DEF Next, RequestStep

(* "provider edits apply on the next request": for any number of requests   *)
(* and edits, a request that begins after an edit, with no rebuild under    *)
(* way and no edit during it, is routed by that version or a later one, as  *)
(* long as no edit fell between a rebuild's read and its second stat.       *)
THEOREM EditsReachNextRequest == Spec => []AppliesOnNextRequest
<1>1. IInv /\ NextInv => AppliesOnNextRequest
    <2> SUFFICES ASSUME IInv, NextInv, ~raced, NEW r \in Requests, At(r, "routed")
                 PROVE  req[r].seen >= req[r].begun
        BY DEF AppliesOnNextRequest
    <2>1. req[r].begun \in Nat /\ req[r].seen \in Nat
        BY ReloadAssumption DEF IInv, TypeOK, RequestRecord, NextInv, RoutedVersion, Versions
    <2>2. req[r].begun > 0 => req[r].seen = file /\ req[r].begun = file
        BY DEF NextInv, OnItsWay
    <2> QED
        BY <2>1, <2>2
<1> QED
    BY <1>1, InitGood, NextKeeps, NextInit, NextInductive, PTL DEF Spec
=============================================================================
