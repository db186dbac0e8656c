----------------------------- MODULE AccountFile -----------------------------
(***************************************************************************)
(* Several cmdcode processes on one accounts.json: the account commands    *)
(* (cli auth/mod.rs), the browser login (auth/login.rs), the proxy's       *)
(* rotation, and AccountStore.save (accounts.rs) system call by system     *)
(* call: create or truncate accounts.json.tmp, write it, rename it.        *)
(* CredentialRotation takes such a save as one step; here two saves may    *)
(* share the temporary file, and a process may die between any two calls.  *)
(* The mode bits of the file and the content of an account are left out.   *)
(***************************************************************************)
EXTENDS AccountVault, FiniteSets

CONSTANTS
    Processes,    \* running cmdcode processes
    NameOf,       \* Account::display_name; two accounts may share one
    FirstVault,   \* accounts.json at the start
    NoFile,       \* a name without a file; a process without an open file
    Blank, Torn,  \* contents that do not parse: nothing yet, two saves mixed
    MaxCommands   \* bound: commands started

Names == {NameOf[x] : x \in Accounts}
Ports == 1..Cardinality(Processes)     \* START_PORT and the ports after it
Inodes == 1..(Cardinality(Processes) + 1)

ASSUME AccountAssumption ==
    /\ IsFiniteSet(Processes) /\ NoFile \notin Inodes
    /\ FirstVault \in Vaults /\ WellFormed(FirstVault)
    /\ Blank # Torn /\ {Blank, Torn} \intersect Vaults = {}
    /\ MaxCommands \in Nat

VARIABLES
    dir,        \* the names accounts.json and accounts.json.tmp
    inode,      \* file contents
    proc,       \* the processes
    posts,      \* callbacks the studio has posted, not yet delivered
    commands,   \* commands started
    collided    \* history: two saves were under way at once

accountVars == <<dir, inode, proc, posts, commands, collided>>

NoProc == [pc |-> "idle", mem |-> EmptyVault, fd |-> NoFile, account |-> NoAccount,
           port |-> 0, token |-> 0]

AccountInit ==
    /\ dir = [file |-> 1, tmp |-> NoFile]
    /\ inode = [i \in Inodes |-> IF i = 1 THEN FirstVault ELSE Blank]
    /\ proc = [p \in Processes |-> NoProc]
    /\ posts = {}
    /\ commands = 0
    /\ collided = FALSE

PAt(p, l) == proc[p].pc = l
PSet(p, v) == proc' = [proc EXCEPT ![p] = v]
Saving(p) == proc[p].pc \in {"write", "rename"}
NoDisk == UNCHANGED <<dir, inode, collided>>
NoLogin == UNCHANGED posts

(***************************************************************************)
(* Signing in: find_available_port lets the port go again until the user   *)
(* presses Enter and the callback server binds it.                         *)
(***************************************************************************)

Bound(port) == \E p \in Processes : PAt(p, "listen") /\ proc[p].port = port

StartLogin(p) ==
    /\ PAt(p, "idle") /\ commands < MaxCommands
    /\ commands' = commands + 1
    /\ LET port == CHOOSE n \in Ports : ~Bound(n) /\ \A m \in 1..(n - 1) : Bound(m)
       IN  PSet(p, [NoProc EXCEPT !.pc = "prompt", !.port = port, !.token = commands + 1])
    /\ NoDisk /\ NoLogin

(* run_callback_server: bind, or fail.                                     *)
Listen(p) ==
    /\ PAt(p, "prompt")
    /\ PSet(p, IF Bound(proc[p].port) THEN NoProc
               ELSE [proc[p] EXCEPT !.pc = "listen"])
    /\ NoDisk /\ NoLogin /\ UNCHANGED commands

(* login_with_api_key: a pasted key, once validated, is an account.        *)
PasteKey(p) == \E x \in Accounts :
    /\ PAt(p, "prompt")
    /\ PSet(p, [NoProc EXCEPT !.pc = "load", !.account = x])
    /\ NoDisk /\ NoLogin /\ UNCHANGED commands

(* The studio posts to the port in the URL, with the state in the URL.  A  *)
(* post may reach the listener with its body apart from its headers.       *)
Authorise(p) == \E x \in Accounts, apart \in BOOLEAN :
    /\ proc[p].pc \in {"prompt", "listen"}
    /\ \A m \in posts : m.token # proc[p].token
    /\ posts' = posts \union {[port |-> proc[p].port, token |-> proc[p].token,
                               account |-> x, apart |-> apart]}
    /\ NoDisk /\ UNCHANGED <<proc, commands>>

(* Faulty variant: the state of a callback is not compared. *)
AnswerUnchecked(p, m) ==
    IF m.apart THEN proc[p] ELSE [NoProc EXCEPT !.pc = "load", !.account = m.account]

(* What a POST /callback does to the listener: the read stops at the end   *)
(* of the headers, so a body that comes apart is "Invalid JSON" and the    *)
(* wait goes on; another login's state ends it.                            *)
Answer(p, m) ==
    IF m.apart THEN proc[p]
    ELSE IF m.token # proc[p].token THEN NoProc
    ELSE [NoProc EXCEPT !.pc = "load", !.account = m.account]

Callback(p) == \E m \in posts :
    /\ PAt(p, "listen") /\ m.port = proc[p].port
    /\ PSet(p, Answer(p, m))
    /\ posts' = posts \ {m}
    /\ NoDisk /\ UNCHANGED commands

(* Nobody listens at the port: the browser shows an error.                 *)
Refused == \E m \in posts :
    /\ ~Bound(m.port)
    /\ posts' = posts \ {m}
    /\ NoDisk /\ UNCHANGED <<proc, commands>>

(* CALLBACK_TIMEOUT_SECS, or the prompt is left.                           *)
GiveUp(p) ==
    /\ proc[p].pc \in {"prompt", "listen", "ready"}
    /\ PSet(p, NoProc)
    /\ NoDisk /\ NoLogin /\ UNCHANGED commands

(***************************************************************************)
(* The account commands                                                    *)
(***************************************************************************)

Content == IF dir.file = NoFile THEN EmptyVault ELSE inode[dir.file]
Parses == Content \notin {Blank, Torn}

(* AccountStore.load at the start of use, logout, toggle and rotate; a     *)
(* file that does not parse ends the command.                              *)
StartCommand(p) ==
    /\ PAt(p, "idle") /\ commands < MaxCommands
    /\ commands' = commands + 1
    /\ PSet(p, IF Parses THEN [NoProc EXCEPT !.pc = "ready", !.mem = Content] ELSE NoProc)
    /\ NoDisk /\ NoLogin

Keep(p, v) ==
    /\ PSet(p, [proc[p] EXCEPT !.pc = "create", !.mem = v])
    /\ NoDisk /\ NoLogin /\ UNCHANGED commands

(* add_account: load, add, save; a known account is left alone.            *)
Add(p) ==
    /\ PAt(p, "load")
    /\ IF Parses /\ CanAdd(Content, proc[p].account)
       THEN Keep(p, AddAccount(Content, proc[p].account))
       ELSE PSet(p, NoProc) /\ NoDisk /\ NoLogin /\ UNCHANGED commands

(* Faulty variant: the choice is taken for a position in another list. *)
FirstAccount(v, n) == v.accounts[1]

(* The account a display name stands for: the first one shown under it.    *)
FirstNamed(v, n) == v.accounts[CHOOSE i \in DOMAIN v.accounts :
    NameOf[v.accounts[i]] = n /\ \A j \in 1..(i - 1) : NameOf[v.accounts[j]] # n]

ShownNames(v) == {NameOf[x] : x \in Ids(v)}

(* use_account: the chosen name becomes the active account.                *)
Use(p) == \E n \in ShownNames(proc[p].mem) :
    /\ PAt(p, "ready")
    /\ Keep(p, SetActive(proc[p].mem, FirstNamed(proc[p].mem, n)))

(* logout: the chosen names become ids, then one remove.                   *)
LogoutNames(p, chosen) ==
    /\ PAt(p, "ready")
    /\ Keep(p, RemoveAccounts(proc[p].mem, {FirstNamed(proc[p].mem, n) : n \in chosen}))
LogoutCommand(p) == \E chosen \in SUBSET ShownNames(proc[p].mem) \ {{}} : LogoutNames(p, chosen)

(* toggle_auto_rotate, and the proxy's rotate_to_next.                     *)
Toggle(p) == PAt(p, "ready") /\ Keep(p, [proc[p].mem EXCEPT !.auto = ~@])
Rotate(p) == PAt(p, "ready") /\ CanRotate(proc[p].mem) /\ Keep(p, RotateNext(proc[p].mem))

(***************************************************************************)
(* AccountStore.save                                                       *)
(***************************************************************************)

(* Faulty variant: accounts.json is written in place. *)
CreateInPlace(p) ==
    /\ PAt(p, "create")
    /\ inode' = [inode EXCEPT ![dir.file] = Blank]
    /\ PSet(p, [proc[p] EXCEPT !.pc = "write", !.fd = dir.file])
    /\ UNCHANGED dir
    /\ collided' = (collided \/ \E q \in Processes : Saving(q))
    /\ NoLogin /\ UNCHANGED commands

Unused == {i \in Inodes : i \notin {dir.file, dir.tmp} /\ \A q \in Processes : proc[q].fd # i}

(* fs::write opens the temporary file: a new one, or the one another save  *)
(* is still using (or a dead process left), cut to nothing.                *)
Create(p) ==
    /\ PAt(p, "create")
    /\ LET i == IF dir.tmp = NoFile THEN CHOOSE j \in Unused : TRUE ELSE dir.tmp
       IN  /\ dir' = [dir EXCEPT !.tmp = i]
           /\ inode' = [inode EXCEPT ![i] = Blank]
           /\ PSet(p, [proc[p] EXCEPT !.pc = "write", !.fd = i])
    /\ collided' = (collided \/ \E q \in Processes : Saving(q))
    /\ NoLogin /\ UNCHANGED commands

(* ... and writes it, from offset 0: over a longer text its rest remains.  *)
Write(p) == \E rest \in BOOLEAN :
    /\ PAt(p, "write")
    /\ rest => inode[proc[p].fd] \notin {Blank, proc[p].mem}
    /\ inode' = [inode EXCEPT ![proc[p].fd] = IF rest THEN Torn ELSE proc[p].mem]
    /\ PSet(p, [proc[p] EXCEPT !.pc = "rename", !.fd = NoFile])
    /\ UNCHANGED <<dir, collided>>
    /\ NoLogin /\ UNCHANGED commands

(* rename: whatever is called accounts.json.tmp by now; an error if it is  *)
(* gone.                                                                   *)
Rename(p) ==
    /\ PAt(p, "rename")
    /\ dir' = IF dir.tmp = NoFile THEN dir ELSE [file |-> dir.tmp, tmp |-> NoFile]
    /\ PSet(p, NoProc)
    /\ UNCHANGED <<inode, collided>>
    /\ NoLogin /\ UNCHANGED commands

(* The process dies; the files stay as they are.                           *)
Die(p) ==
    /\ ~PAt(p, "idle")
    /\ PSet(p, NoProc)
    /\ NoDisk /\ NoLogin /\ UNCHANGED commands

AccountNext ==
    \/ \E p \in Processes :
          \/ StartLogin(p) \/ Listen(p) \/ PasteKey(p) \/ Authorise(p) \/ Callback(p)
          \/ GiveUp(p) \/ StartCommand(p) \/ Add(p) \/ Use(p) \/ LogoutCommand(p)
          \/ Toggle(p) \/ Rotate(p) \/ Create(p) \/ Write(p) \/ Rename(p) \/ Die(p)
    \/ Refused

(***************************************************************************)
(* Properties                                                              *)
(***************************************************************************)

(* Type of the account part. *)
AccountTypeOK ==
    /\ {dir.file, dir.tmp} \subseteq Inodes \union {NoFile}
    /\ \A i \in Inodes : inode[i] \in {Blank, Torn} \/ Ids(inode[i]) \subseteq Accounts
    /\ \A p \in Processes : proc[p].fd \in Inodes \union {NoFile} /\ proc[p].port \in {0} \union Ports
    /\ commands \in 0..MaxCommands /\ collided \in BOOLEAN

(* "Save the vault atomically (write temp + rename)": as long as no two    *)
(* saves were under way at once, accounts.json parses at every moment,     *)
(* wherever a process dies; and every vault ever found in it is well       *)
(* formed, however the saves overlapped.                                   *)
SaveAtomic ==
    /\ ~collided => Parses
    /\ Parses => WellFormed(Content)

(* Logging out removes accounts under the chosen names and no other ones,  *)
(* and one account per chosen name: the choice of a name that two accounts *)
(* share is lost, but nobody else is logged out.                           *)
LogoutByName ==
    [][\A p \in Processes : \A chosen \in SUBSET Names :
          chosen \subseteq ShownNames(proc[p].mem) /\ LogoutNames(p, chosen) =>
             LET gone == Ids(proc[p].mem) \ Ids(proc'[p].mem)
             IN  /\ {NameOf[x] : x \in gone} = chosen
                 /\ Cardinality(gone) = Cardinality(chosen)]_accountVars

(* What a login adds is the account its own user authorised: a callback    *)
(* that reached it over a shared port brings nobody else's account.        *)
OwnAuthorisation ==
    [][\A p \in Processes : \A m \in posts :
          PAt(p, "listen") /\ proc'[p].pc = "load" /\ posts' = posts \ {m} /\ m \notin posts' =>
             m.token = proc[p].token]_accountVars
=============================================================================
