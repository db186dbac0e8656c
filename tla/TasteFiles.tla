------------------------------ MODULE TasteFiles ------------------------------
(***************************************************************************)
(* The taste files: cmdcode-mcp servers (cmdcode-mcp main.rs) answer their *)
(* clients one JSON-RPC message at a time and write what the upstream      *)
(* model asks for into the global taste file; the user edits the local     *)
(* one; the proxy (upstream.rs, read_taste_content) reads both behind a    *)
(* cache whose key is their modification times, in whole seconds.          *)
(* A content is the set of preferences in it; the rendering around it and  *)
(* the test for header-only files are left out.                            *)
(***************************************************************************)
EXTENDS Filtering, FiniteSets

CONSTANTS
    Servers,       \* running cmdcode-mcp processes
    Preferences,   \* what a taste call may record
    MaxMessages,   \* bound: messages to a server
    MaxTasteChanges,   \* bound: changes to the files
    MaxSeconds     \* bound: the clock

ASSUME TasteAssumption ==
    MaxMessages \in Nat /\ MaxTasteChanges \in Nat /\ MaxSeconds \in Nat \ {0}

TasteNames == {"global", "local"}

VARIABLES
    second,     \* the wall clock
    taste,      \* the two files: content, version (history), mtime; 0 is "no file"
    server,     \* the MCP servers
    reader,     \* a request of the proxy inside read_taste_content
    held,       \* CACHE: the entry of the (global, local) pair
    blind       \* history: a file changed again in the second it was read in

tasteVars == <<second, taste, server, reader, held, blind>>

NoTaste == [prefs |-> {}, version |-> 0, mtime |-> 0, readAt |-> 0]
NoServer == [pc |-> "loop", sent |-> <<>>, answers |-> <<>>, snapshot |-> {}, calls |-> {}]
NoReader == [pc |-> "idle", stat |-> [f \in TasteNames |-> 0],
             since |-> [f \in TasteNames |-> 0], got |-> [f \in TasteNames |-> 0]]
NothingHeld == [stat |-> [f \in TasteNames |-> 0], got |-> [f \in TasteNames |-> 0]]

TasteInit ==
    /\ second = 1
    /\ taste = [f \in TasteNames |-> NoTaste]
    /\ server = [s \in Servers |-> NoServer]
    /\ reader = NoReader
    /\ held = NothingHeld
    /\ blind = FALSE

(* A file gets a new content and the current second as its mtime.          *)
TasteChanges == taste["global"].version + taste["local"].version
PutTaste(f, prefs) ==
    /\ TasteChanges < MaxTasteChanges
    /\ taste' = [taste EXCEPT ![f] = [@ EXCEPT !.prefs = prefs, !.version = taste[f].version + 1, !.mtime = second]]
    /\ blind' = (blind \/ taste[f].readAt = second)

(***************************************************************************)
(* cmdcode-mcp                                                             *)
(***************************************************************************)

SSet(s, v) == server' = [server EXCEPT ![s] = v]
OnlyServer == UNCHANGED <<second, reader, held>>

(* The messages a client may send, by what main does with them: a method   *)
(* is answered, with an error if it or the tool is unknown; a notification *)
(* and a line that is not JSON are not; a taste call works.                *)
Handling == {"answered", "silent", "call"}
Answered(kind) == kind # "silent"

Ask(s, sent) == [server[s] EXCEPT !.sent = sent, !.pc = "asked", !.snapshot = taste["global"].prefs]
Reply(s) == Append(server[s].answers, Len(server[s].sent))

(* One turn of the loop; a taste call first reads the current file.        *)
Receive(s) == \E kind \in Handling :
    /\ server[s].pc = "loop" /\ Len(server[s].sent) < MaxMessages
    /\ LET sent == Append(server[s].sent, kind) IN
       SSet(s, IF kind = "call" THEN Ask(s, sent)
               ELSE [server[s] EXCEPT !.sent = sent,
                        !.answers = IF Answered(kind) THEN Append(@, Len(sent)) ELSE @])
    /\ UNCHANGED <<taste, blind>> /\ OnlyServer

(* The upstream fails, or its stream does: the error is the answer.        *)
UpstreamFails(s) ==
    /\ server[s].pc = "asked"
    /\ SSet(s, [server[s] EXCEPT !.pc = "loop", !.answers = Reply(s), !.snapshot = {}])
    /\ UNCHANGED <<taste, blind>> /\ OnlyServer

(* The model's completed write_taste_file calls: each is to add to what it *)
(* was shown.  Calls cut off, to other files or with bad arguments change  *)
(* no file modelled here.                                                  *)
ModelAnswers(s) == \E new \in SUBSET Preferences :
    /\ server[s].pc = "asked"
    /\ SSet(s, [server[s] EXCEPT !.pc = "write", !.snapshot = {},
                                 !.calls = {server[s].snapshot \union {x} : x \in new}])
    /\ UNCHANGED <<taste, blind>> /\ OnlyServer

(* execute_taste_calls: fs::write truncates, then writes, one call after   *)
(* the other, in the order of a HashMap.                                   *)
TruncateTaste(s) ==
    /\ server[s].pc = "write" /\ server[s].calls # {}
    /\ PutTaste("global", {})
    /\ SSet(s, [server[s] EXCEPT !.pc = "fill"])
    /\ OnlyServer

FillTaste(s) == \E content \in server[s].calls :
    /\ server[s].pc = "fill"
    /\ PutTaste("global", content)
    /\ SSet(s, [server[s] EXCEPT !.pc = "write", !.calls = @ \ {content}])
    /\ OnlyServer

(* mkdir or write fails: the rest of the calls is given up.                *)
WriteFails(s) ==
    /\ server[s].pc = "write" /\ server[s].calls # {}
    /\ SSet(s, [server[s] EXCEPT !.pc = "loop", !.answers = Reply(s), !.calls = {}])
    /\ UNCHANGED <<taste, blind>> /\ OnlyServer

(* Faulty variant: the answer is lost when there was nothing to write. *)
FinishCallSilently(s) ==
    /\ server[s].pc = "write" /\ server[s].calls = {}
    /\ SSet(s, [server[s] EXCEPT !.pc = "loop"])
    /\ UNCHANGED <<taste, blind>> /\ OnlyServer

FinishCall(s) ==
    /\ server[s].pc = "write" /\ server[s].calls = {}
    /\ SSet(s, [server[s] EXCEPT !.pc = "loop", !.answers = Reply(s)])
    /\ UNCHANGED <<taste, blind>> /\ OnlyServer

(* The user edits the project's own file.                                  *)
EditLocal ==
    /\ PutTaste("local", Preferences)
    /\ UNCHANGED <<second, server, reader, held>>

(***************************************************************************)
(* read_taste_content                                                      *)
(***************************************************************************)

RSet(v) == reader' = v /\ UNCHANGED <<second, server>>
NoRead == UNCHANGED <<taste, blind>>

StartRead ==
    /\ reader.pc = "idle"
    /\ RSet([NoReader EXCEPT !.pc = "stat global", !.since = [f \in TasteNames |-> taste[f].version]])
    /\ NoRead /\ UNCHANGED held

StatTaste == \E f \in TasteNames :
    /\ reader.pc = IF f = "global" THEN "stat global" ELSE "stat local"
    /\ RSet([reader EXCEPT !.pc = IF f = "global" THEN "stat local" ELSE "check",
                           !.stat[f] = taste[f].mtime])
    /\ NoRead /\ UNCHANGED held

Keyed == \E f \in TasteNames : reader.stat[f] # 0

(* Faulty variant: the key is the newer of the two times. *)
HitByNewest ==
    Keyed /\ LET newest(k) == IF k["global"] > k["local"] THEN k["global"] ELSE k["local"]
             IN  newest(held.stat) = newest(reader.stat)

Hit == Keyed /\ held.stat = reader.stat

CheckHeld ==
    /\ reader.pc = "check"
    /\ RSet([reader EXCEPT !.pc = IF Hit THEN "done" ELSE "read global",
                           !.got = IF Hit THEN held.got ELSE @])
    /\ NoRead /\ UNCHANGED held

ReadTaste == \E f \in TasteNames :
    /\ reader.pc = IF f = "global" THEN "read global" ELSE "read local"
    /\ RSet([reader EXCEPT !.pc = IF f = "global" THEN "read local" ELSE "store",
                           !.got[f] = taste[f].version])
    /\ taste' = [taste EXCEPT ![f].readAt = taste[f].mtime]
    /\ UNCHANGED <<held, blind>>

(* A pair without any file is not cached.                                  *)
StoreHeld ==
    /\ reader.pc = "store"
    /\ held' = IF Keyed THEN [stat |-> reader.stat, got |-> reader.got] ELSE held
    /\ RSet([reader EXCEPT !.pc = "done"])
    /\ NoRead

FinishRead ==
    /\ reader.pc = "done"
    /\ RSet(NoReader)
    /\ NoRead /\ UNCHANGED held

Second ==
    /\ second < MaxSeconds
    /\ second' = second + 1
    /\ UNCHANGED <<taste, server, reader, held, blind>>

TasteNext ==
    \/ \E s \in Servers : \/ Receive(s) \/ UpstreamFails(s) \/ ModelAnswers(s)
                          \/ TruncateTaste(s) \/ FillTaste(s) \/ WriteFails(s)
                          \/ FinishCall(s)
    \/ EditLocal \/ StartRead \/ StatTaste \/ CheckHeld \/ ReadTaste \/ StoreHeld
    \/ FinishRead \/ Second

(***************************************************************************)
(* Properties                                                              *)
(***************************************************************************)

(* Type of the taste part. *)
TasteTypeOK ==
    /\ second \in 1..MaxSeconds /\ blind \in BOOLEAN
    /\ \A f \in TasteNames :
          /\ taste[f].prefs \subseteq Preferences
          /\ taste[f].version \in 0..MaxTasteChanges /\ taste[f].mtime \in 0..second
    /\ \A s \in Servers : server[s].calls \subseteq SUBSET Preferences

(* "A change in either file's mtime invalidates the entry": what a request *)
(* is given was in the files at some moment of the request, whatever was   *)
(* changed between its steps, unless a file changed again in the very      *)
(* second of a content that had been read.                                 *)
TasteFresh ==
    reader.pc = "done" /\ ~blind => \A f \in TasteNames : reader.got[f] >= reader.since[f]

(* The numbers of the messages that are to be answered. *)
Expected(sent) ==
    Filter([i \in DOMAIN sent |-> i], {i \in DOMAIN sent : Answered(sent[i])})

(* A client gets one answer to each message that expects one, in the order *)
(* it sent them, also when the upstream fails or has nothing to record.    *)
AnsweredInOrder ==
    \A s \in Servers :
        IF server[s].pc = "loop" THEN server[s].answers = Expected(server[s].sent)
        ELSE Append(server[s].answers, Len(server[s].sent)) = Expected(server[s].sent)
=============================================================================
