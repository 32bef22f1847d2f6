------------------------------ MODULE DataDir ------------------------------
(***************************************************************************)
(* The data directory of a peer and the processes that use it: "mesh       *)
(* start" (cli.py cmd_start, PeerConfig.load, Identity.load_or_create,     *)
(* Ledger.__init__, Peer.start and stop) and the other commands            *)
(* (cli.py _control_request), which read runtime.json and the key and ask  *)
(* the process that runs.                                                  *)
(*                                                                         *)
(* Nothing locks the directory: processes may use it one after the other   *)
(* or at the same time, and each may be killed between any two steps.  A   *)
(* file that is written in place is empty in between.  ledger.json is      *)
(* replaced by ledger.tmp, a name that all processes share.  That a write  *)
(* fails, as on a full disk, is left to module Ledger.                     *)
(***************************************************************************)
EXTENDS Naturals

CONSTANTS
  Proc,       \* processes; also the key, the port and the records each makes
  NoProc,     \* no identity, no process
  MaxRecords, \* bound on the number of records appended to the ledger
  MaxKills    \* bound on the number of processes killed

ASSUME DirAssumption ==
  /\ NoProc \notin Proc
  /\ Proc \cap {"absent", "empty", "garbled"} = {}
  /\ MaxRecords \in Nat
  /\ MaxKills \in Nat

VARIABLES
  key,       \* ed25519.key: absent, empty, or who made it
  config,    \* config.json: accepts_tasks is what matters here
  runtime,   \* runtime.json: absent, unreadable, or whom it names
  saved,     \* ledger.json: what it is and the records it holds
  tmp,       \* ledger.tmp
  proc,      \* proc[p]: a process
  met,       \* the peers that have run at the same time as another one
  appended,  \* how many records have been appended, to any list
  posted,    \* the records whose append returned
  kills      \* how many processes have been killed

files == <<key, config, runtime>>  \* but those of the ledger
books == <<saved, tmp, appended, posted>>
vars == <<files, books, proc, met, kills>>

\* Where a peer is that runs: it accepts connections in the last three.
Serving  == {"listening", "naming", "unnamed", "up"}
Starting == {"loading", "loaded", "storing", "finding", "opening",
             "keying", "booking", "first", "binding"}
Live     == Starting \cup Serving
\* Where a command is: it finds its identity in the same way.
Pc == {"none"} \cup Live \cup {"asking"}
      \cup {"failed", "unbound", "stopped", "killed", "answered", "denied"}

Ends == {"failed", "answered", "denied"}

\* The n-th record of the directory.
Record == Proc \X (1..MaxRecords)

\* A file of records.
Absent   == [form |-> "absent", holds |-> {}]
Empty    == [form |-> "empty", holds |-> {}]
Garbled  == [form |-> "garbled", holds |-> {}]
Whole(s) == [form |-> "whole", holds |-> s]

\* Where the thread is that appends, under the lock: it has opened ledger.tmp
\* for writing, which may since have become ledger.json ("moved") or have been
\* replaced itself ("gone"), or it has written and closed the file.
Posting == {"none", "open", "moved", "gone", "written"}

\* The places where a kill leaves work half done.
Windows == {"loaded", "storing", "keying"}

\* A process that has not started.  "cut" says in which window it was killed,
\* "at" is the process a command asks, "saw" the peers up when it began, "mem"
\* the list of records and "new" the one being appended.
Unborn ==
  [ pc |-> "none", role |-> "peer", accepts |-> TRUE, id |-> NoProc,
    made |-> FALSE, mem |-> {},
    post |-> "none", new |-> {}, cut |-> "none", at |-> NoProc, saw |-> {} ]

Init ==
  /\ key = "absent"
  /\ config = "absent"
  /\ runtime = "absent"
  /\ saved = Absent
  /\ tmp = Absent
  /\ proc = [p \in Proc |-> Unborn]
  /\ met = {}
  /\ appended = 0
  /\ posted = {}
  /\ kills = 0

At(p, pc) == proc[p].pc = pc
Goes(p, pc) == proc' = [proc EXCEPT ![p].pc = pc]

Peers(pcs) == {q \in Proc : proc[q].role = "peer" /\ proc[q].pc \in pcs}

-----------------------------------------------------------------------------
(* mesh start: the configuration.                                          *)

Start(p) ==
  /\ At(p, "none")
  /\ Goes(p, "loading")
  /\ met' = IF Peers(Live) = {} THEN met ELSE met \cup Peers(Live) \cup {p}
  /\ UNCHANGED <<files, books, kills>>

\* Mutation: the file is not read.
LoadOverrides(p) ==
  /\ At(p, "loading")
  /\ \E accepts \in BOOLEAN :
       proc' = [proc EXCEPT ![p].accepts = accepts, ![p].pc = "loaded"]
  /\ UNCHANGED <<files, books, met, kills>>

\* --no-accept-tasks overrides the file; there is no option for the opposite.
\* A file that json.loads cannot read ends the process.
LoadConfig(p) ==
  /\ At(p, "loading")
  /\ IF config \in {"empty", "garbled"} THEN Goes(p, "failed")
     ELSE \E refuse \in BOOLEAN :
            proc' = [proc EXCEPT ![p].accepts = ~refuse /\ config # "refuses",
                                 ![p].pc = "loaded"]
  /\ UNCHANGED <<files, books, met, kills>>

\* write_text truncates the file and then writes from its start.  If another
\* process has written in between, a longer text of it may remain at the end.
TruncateConfig(p) ==
  /\ At(p, "loaded")
  /\ config' = "empty"
  /\ Goes(p, "storing")
  /\ UNCHANGED <<key, runtime, books, met, kills>>

Written(file, text) == IF file = "empty" THEN {text} ELSE {text, "garbled"}

WriteConfig(p) ==
  /\ At(p, "storing")
  /\ config' \in Written(config, IF proc[p].accepts THEN "accepts" ELSE "refuses")
  /\ Goes(p, "finding")
  /\ UNCHANGED <<key, runtime, books, met, kills>>

-----------------------------------------------------------------------------
(* Identity.load_or_create, called by every command.                       *)

Identified(p) == IF proc[p].role = "peer" THEN "booking" ELSE "asking"

\* Mutation: an empty file is taken as a key.
FindEmptyKey(p) ==
  /\ At(p, "finding")
  /\ \/ key = "absent" /\ proc' = [proc EXCEPT ![p].made = TRUE, ![p].pc = "opening"]
     \/ key # "absent" /\ proc' = [proc EXCEPT ![p].id = key, ![p].pc = Identified(p)]
  /\ UNCHANGED <<files, books, met, kills>>

\* Mutation: every start makes a key.
FindNoKey(p) ==
  /\ At(p, "finding")
  /\ \/ proc[p].role = "peer"
        /\ proc' = [proc EXCEPT ![p].made = TRUE, ![p].pc = "opening"]
     \/ proc[p].role = "command" /\ key \in Proc
        /\ proc' = [proc EXCEPT ![p].id = key, ![p].pc = Identified(p)]
  /\ UNCHANGED <<files, books, met, kills>>

\* SigningKey rejects an empty file.
FindKey(p) ==
  /\ At(p, "finding")
  /\ \/ key = "absent" /\ proc' = [proc EXCEPT ![p].made = TRUE, ![p].pc = "opening"]
     \/ key = "empty" /\ Goes(p, "failed")
     \/ key \in Proc /\ proc' = [proc EXCEPT ![p].id = key, ![p].pc = Identified(p)]
  /\ UNCHANGED <<files, books, met, kills>>

\* touch, which leaves a file that is there alone, and the start of write_bytes.
OpenKey(p) ==
  /\ At(p, "opening")
  /\ key' = "empty"
  /\ Goes(p, "keying")
  /\ UNCHANGED <<config, runtime, books, met, kills>>

\* All keys have the same length.
WriteKey(p) ==
  /\ At(p, "keying")
  /\ key' = p
  /\ proc' = [proc EXCEPT ![p].id = p, ![p].pc = Identified(p)]
  /\ UNCHANGED <<config, runtime, books, met, kills>>

-----------------------------------------------------------------------------
(* The rest of mesh start.                                                 *)

\* Mutation: records of earlier processes are not read.
LoadNothing(p) ==
  /\ At(p, "booking")
  /\ Goes(p, "first")
  /\ UNCHANGED <<files, books, met, kills>>

\* A file that json.loads cannot read ends the process.
LoadLedger(p) ==
  /\ At(p, "booking")
  /\ \/ saved.form = "absent" /\ Goes(p, "first")
     \/ saved.form \in {"empty", "garbled"} /\ Goes(p, "failed")
     \/ /\ saved.form = "whole"
        /\ proc' = [proc EXCEPT ![p].mem = saved.holds, ![p].pc = "binding"]
  /\ UNCHANGED <<files, books, met, kills>>

\* Ledger._append: the opening, or a record of a delegation or of work for one
\* while connections are served.  The list has it before ledger.tmp is opened,
\* and truncated if it is there.
OpenTmp(p) ==
  LET r == <<p, appended + 1>> IN
  /\ proc[p].pc \in {"first"} \cup Serving
  /\ proc[p].post = "none"
  /\ appended < MaxRecords
  /\ appended' = appended + 1
  /\ tmp' = Empty
  /\ proc' = [proc EXCEPT ![p] =
       [proc[p] EXCEPT !.mem = @ \cup {r}, !.new = {r}, !.post = "open"]]
  /\ UNCHANGED <<files, saved, posted, met, kills>>

\* As for the configuration, if another process has written to the same file.
Overwritten(file, list) ==
  IF file = Empty THEN {Whole(list)} ELSE {Whole(list), Garbled}

\* Mutation: the file is not closed, and the text is still in the buffer.
WriteLater(p) ==
  /\ proc[p].post \in {"open", "moved", "gone"}
  /\ proc' = [proc EXCEPT ![p].post = "written"]
  /\ UNCHANGED <<files, books, met, kills>>

\* The whole list is written to the file that was opened, whatever its name is.
WriteTmp(p) ==
  /\ proc[p].post \in {"open", "moved", "gone"}
  /\ IF proc[p].post = "open" THEN tmp' \in Overwritten(tmp, proc[p].mem)
                               ELSE UNCHANGED tmp
  /\ IF proc[p].post = "moved" THEN saved' \in Overwritten(saved, proc[p].mem)
                                ELSE UNCHANGED saved
  /\ proc' = [proc EXCEPT ![p].post = "written"]
  /\ UNCHANGED <<files, appended, posted, met, kills>>

\* What becomes of a file that is open when ledger.tmp replaces ledger.json.
Moved(post) == CASE post = "open"  -> "moved"
                 [] post = "moved" -> "gone"
                 [] OTHER          -> post

\* Whatever has the name ledger.tmp becomes ledger.json.
Replace(p) ==
  /\ proc[p].post = "written"
  /\ tmp # Absent
  /\ saved' = tmp
  /\ tmp' = Absent
  /\ posted' = posted \cup proc[p].new
  /\ proc' = [q \in Proc |->
       IF q = p THEN [proc[p] EXCEPT !.post = "none", !.new = {},
                        !.pc = IF @ = "first" THEN "binding" ELSE @]
       ELSE [proc[q] EXCEPT !.post = Moved(@)]]
  /\ UNCHANGED <<files, appended, met, kills>>

\* There is no ledger.tmp: the call fails, its record stays in the list, and a
\* start is over.
ReplaceFails(p) ==
  /\ proc[p].post = "written"
  /\ tmp = Absent
  /\ proc' = [proc EXCEPT ![p] =
       [proc[p] EXCEPT !.post = "none", !.new = {},
                       !.pc = IF @ = "first" THEN "failed" ELSE @]]
  /\ UNCHANGED <<files, books, met, kills>>

\* The TCP port, and then the UDP port, may be taken by any program.
Bind(p) ==
  /\ At(p, "binding")
  /\ \E pc \in {"listening", "unbound"} : Goes(p, pc)
  /\ UNCHANGED <<files, books, met, kills>>

\* Mutation: a runtime.json that is there stays.
KeepRuntime(p) ==
  /\ At(p, "listening")
  /\ IF runtime = "absent" THEN runtime' = "empty" /\ Goes(p, "naming")
     ELSE Goes(p, "up") /\ UNCHANGED runtime
  /\ UNCHANGED <<key, config, books, met, kills>>

TruncateRuntime(p) ==
  /\ At(p, "listening")
  /\ runtime' = "empty"
  /\ Goes(p, "naming")
  /\ UNCHANGED <<key, config, books, met, kills>>

WriteRuntime(p) ==
  /\ At(p, "naming")
  /\ runtime' \in Written(runtime, p)
  /\ Goes(p, "up")
  /\ UNCHANGED <<key, config, books, met, kills>>

\* The file that p has opened is no longer in the directory.
WriteUnlinked(p) ==
  /\ At(p, "unnamed")
  /\ Goes(p, "up")
  /\ UNCHANGED <<files, books, met, kills>>

\* The memory of the process is gone, and a write that it had begun is over.
Over(p, pc) == [proc[p] EXCEPT !.pc = pc, !.mem = {}, !.post = "none", !.new = {}]

\* Mutation: runtime.json stays.
StopOnly(p) ==
  /\ At(p, "up")
  /\ proc' = [proc EXCEPT ![p] = Over(p, "stopped")]
  /\ UNCHANGED <<files, books, met, kills>>

\* Peer.stop, after an interrupt of run_forever.  Whoever has the file open
\* writes to one that is gone.
Stop(p) ==
  /\ At(p, "up")
  /\ runtime' = "absent"
  /\ proc' = [q \in Proc |->
       CASE q = p           -> Over(p, "stopped")
         [] At(q, "naming") -> [proc[q] EXCEPT !.pc = "unnamed"]
         [] OTHER           -> proc[q]]
  /\ UNCHANGED <<key, config, books, met, kills>>

\* The process is killed, or interrupted before run_forever waits.
Kill(p) ==
  /\ proc[p].pc \in Live
  /\ kills < MaxKills
  /\ kills' = kills + 1
  /\ LET cut == IF proc[p].pc \in Windows THEN proc[p].pc ELSE "none"
     IN  proc' = [proc EXCEPT ![p] = [Over(p, "killed") EXCEPT !.cut = cut]]
  /\ UNCHANGED <<files, books, met>>

-----------------------------------------------------------------------------
(* mesh peers, mesh ledger, mesh delegate.                                 *)

\* runtime.json is read first.
Command(c) ==
  /\ At(c, "none")
  /\ proc' = [proc EXCEPT ![c] =
       [@ EXCEPT !.role = "command", !.saw = Peers({"up"}),
                 !.at = IF runtime \in Proc THEN runtime ELSE NoProc,
                 !.pc = IF runtime \in Proc THEN "finding" ELSE "failed"]]
  /\ UNCHANGED <<files, books, met, kills>>

\* s, a peer of this directory, has the port that was read.  A configured
\* port passes to the next process.
HasPort(s, t) == s \in Peers(Serving) /\ (s = t \/ t \notin Peers(Serving))

\* A request is honoured from the peer's own key only.
Ask(c) ==
  /\ At(c, "asking")
  /\ \E s \in Proc :
       /\ HasPort(s, proc[c].at)
       /\ Goes(c, IF proc[s].id = proc[c].id THEN "answered" ELSE "denied")
  /\ UNCHANGED <<files, books, met, kills>>

\* Nobody listens there any more, or a peer of another directory does.
AskNobody(c) ==
  /\ At(c, "asking")
  /\ proc[c].at \notin Peers(Serving)
  /\ \E end \in {"failed", "denied"} : Goes(c, end)
  /\ UNCHANGED <<files, books, met, kills>>

-----------------------------------------------------------------------------
Run(p) ==
  \/ LoadConfig(p) \/ TruncateConfig(p) \/ WriteConfig(p)
  \/ FindKey(p) \/ OpenKey(p) \/ WriteKey(p)
  \/ LoadLedger(p) \/ Bind(p)
  \/ OpenTmp(p) \/ WriteTmp(p) \/ Replace(p) \/ ReplaceFails(p)
  \/ TruncateRuntime(p) \/ WriteRuntime(p) \/ WriteUnlinked(p)
  \/ Ask(p) \/ AskNobody(p)

Next == \E p \in Proc : Start(p) \/ Command(p) \/ Run(p) \/ Stop(p) \/ Kill(p)

Spec == Init /\ [][Next]_vars
-----------------------------------------------------------------------------
(* Properties.                                                             *)

(* Every variable has its type.                                            *)
TypeOK ==
  /\ key \in Proc \cup {"absent", "empty"}
  /\ config \in {"absent", "empty", "garbled", "accepts", "refuses"}
  /\ runtime \in Proc \cup {"absent", "empty", "garbled"}
  /\ \A file \in {saved, tmp} :
       \/ file \in {Absent, Empty, Garbled}
       \/ \E s \in SUBSET Record : file = Whole(s)
  /\ proc \in [Proc ->
       [ pc : Pc, role : {"peer", "command"}, accepts : BOOLEAN,
         id : Proc \cup {NoProc}, made : BOOLEAN, mem : SUBSET Record,
         post : Posting, new : SUBSET Record,
         cut : {"none"} \cup Windows, at : Proc \cup {NoProc}, saw : SUBSET Proc ]]
  /\ met \subseteq Proc
  /\ appended \in 0..MaxRecords
  /\ posted \subseteq Record
  /\ kills \in 0..MaxKills

CutIn(pcs) == \E q \in Proc : proc[q].cut \in pcs

(* "An Ed25519 keypair is generated per peer on first run" (README.md:35): *)
(* whatever is killed or started again, every process of the directory has *)
(* the identity that the key file holds, unless two first starts made a    *)
(* key at the same time (identity.py:58-65).                               *)
IdentityIsShared ==
  \A p \in Proc : proc[p].id \notin {NoProc, key} =>
    \E q, r \in met : q # r /\ proc[q].made /\ proc[r].made

(* "restarts are safe" (CONTRIBUTING.md:16): a start finds files it can    *)
(* read, whatever was appended and killed, unless two peers have ever run  *)
(* at the same time, or one was killed while it rewrote config.json or     *)
(* wrote its key (peer.py:66, identity.py:63-64).  A port that another     *)
(* program has is no matter of the directory ("unbound").                  *)
StartFailsForCause ==
  Peers({"failed"}) # {} => met # {} \/ CutIn({"storing", "keying"})

(* runtime.json names a peer that is up or was killed, never one that has  *)
(* stopped (peer.py:113, 130).                                             *)
RuntimeIsTrue == runtime \in Proc => runtime \in Peers({"up", "killed"})

(* A command is answered by the peer that was up when it began, as long as *)
(* that peer stays up and no other has run in its time (cli.py:37-54,      *)
(* peer.py:343).                                                           *)
AloneIsReachable ==
  \A c \in Proc : proc[c].role = "command" /\ proc[c].pc \in Ends =>
    \A p \in (proc[c].saw \cap Peers({"up"})) \ met : proc[c].pc = "answered"

(* Processes that run at the same time share ledger.tmp and may leave      *)
(* ledger.json unreadable, even after one that ran alone (ledger.py:76-78).*)
(* Where the file can be read, a record whose append returned is missing   *)
(* only if the process that appended it ran at the same time as another,   *)
(* which writes its own list over the file (ledger.py:48-49).              *)
LostOnlyByOverlap ==
  \A r \in posted : r \notin saved.holds =>
    IF saved.form = "whole" THEN r[1] \in met ELSE met # {}

(* The configuration persists (peer.py:40): a peer once started with       *)
(* --no-accept-tasks never accepts tasks again, unless two starts overlap  *)
(* and one writes back what it read before (peer.py:58-66).                *)
RefusalIsKept ==
  met = {} => \A p, q \in Proc :
    /\ ~proc[q].accepts /\ q \notin Peers({"loaded", "storing"})
    /\ proc[q].cut \notin {"loaded", "storing"}
    /\ p \in Peers(Serving)
    => config = "refuses" /\ ~proc[p].accepts
=============================================================================
