--------------------------- MODULE DataDirProofs ---------------------------
(***************************************************************************)
(* What holds of a data directory for any number of processes, records and *)
(* kills.  Most of it rests on two facts: two processes that run at the    *)
(* same time are both noted in met, and the key file, once there, is never *)
(* removed.                                                                *)
(***************************************************************************)
EXTENDS DataDir, TLAPS

Process ==
  [ pc : Pc, role : {"peer", "command"}, accepts : BOOLEAN,
    id : Proc \cup {NoProc}, made : BOOLEAN, mem : SUBSET Record,
    post : Posting, new : SUBSET Record,
    cut : {"none"} \cup Windows, at : Proc \cup {NoProc}, saw : SUBSET Proc ]

\* Before, and after, a process has its identity.
Nameless == {"none", "loading", "loaded", "storing", "finding", "opening", "keying"}
Named    == {"booking", "first", "binding", "asking"} \cup Serving
\* After the configuration is written, and after the ledger is read.
Past   == Live \ {"loading", "loaded", "storing"}
Booked == {"first", "binding"} \cup Serving

-----------------------------------------------------------------------------
(* The inductive invariant.                                                *)

(* What the place of a process says of it.                                 *)
Shape(x) ==
  /\ x.role = "command" => x.pc \in {"finding", "asking", "killed"} \cup Ends
  /\ x.role = "peer" => x.pc \notin {"asking", "answered", "denied"}
  /\ x.pc = "none" => x.role = "peer"
  /\ x.pc # "killed" => x.cut = "none"
  /\ x.pc \in {"none", "loading"} => x.accepts
  /\ x.pc \in Nameless => x.id = NoProc
  /\ x.pc \in Named => x.id # NoProc
  /\ x.pc \in {"opening", "keying"} => x.made

Shapes == \A p \in Proc : Shape(proc[p])

(* Peers that run at the same time are noted.                              *)
Overlap == \A p, q \in Peers(Live) : p # q => p \in met

(* Nobody has an identity, and nobody is named, before there is a key.     *)
NoKey ==
  key = "absent" =>
    /\ runtime \notin Proc
    /\ \A p \in Proc : /\ proc[p].id = NoProc
                       /\ proc[p].pc \notin Named \cup {"keying"}
                       /\ proc[p].role = "command" => proc[p].pc # "finding"

(* Two keys were made at the same time.                                    *)
TwoKeys == \E q, r \in met : q # r /\ proc[q].made /\ proc[r].made

(* A key is made once, or two processes make it at the same time.          *)
OneKey ==
  \A p \in Proc :
    \/ TwoKeys
    \/ /\ proc[p].pc = "opening" => key = "absent"
       /\ proc[p].pc = "keying" => key = "empty"
       /\ proc[p].id \in {NoProc, key}

(* Why a file is empty or garbled.                                         *)
EmptyKey ==
  key = "empty" => met # {} \/ CutIn({"keying"}) \/ \E p \in Proc : At(p, "keying")

EmptyConfig ==
  met = {} =>
    /\ config # "garbled"
    /\ config = "empty" => CutIn({"storing"}) \/ \E p \in Proc : At(p, "storing")
    /\ \A p \in Proc : At(p, "storing") => config = "empty"

(* Once a process has written that it refuses, nothing else is written.    *)
Refused(x) ==
  /\ ~x.accepts
  /\ ~(x.role = "peer" /\ x.pc \in {"loaded", "storing"})
  /\ x.cut \notin {"loaded", "storing"}

Refusals ==
  met = {} =>
    /\ \A p \in Peers(Past) : config = IF proc[p].accepts THEN "accepts" ELSE "refuses"
    /\ \A q \in Proc : Refused(proc[q]) =>
         /\ config \in {"refuses", "empty"}
         /\ \A p \in Peers({"loaded", "storing"}) : ~proc[p].accepts

(* An append is under way only while the process is there for it.  If the  *)
(* process runs alone, ledger.tmp is what it makes of it.                  *)
Appends ==
  \A p \in Proc :
    /\ proc[p].post # "none" => proc[p].pc \in {"first"} \cup Serving
    /\ proc[p].post = "none" => proc[p].new = {}
    /\ \A r \in proc[p].new : r[1] = p /\ r \in proc[p].mem
    /\ proc[p].post # "none" /\ p \notin met =>
         \/ proc[p].post = "open" /\ tmp = Empty
         \/ proc[p].post = "written" /\ tmp = Whole(proc[p].mem)

(* Only two processes make ledger.json unreadable.                         *)
Readable == saved.form \in {"empty", "garbled"} => met # {}

(* A record of a process that ran alone is in the file, in every list that *)
(* was read and in every file that may replace the file, if there is       *)
(* anything to read in them.                                               *)
Records ==
  \A r \in posted : r[1] \notin met =>
    /\ saved # Absent
    /\ saved.form = "whole" => r \in saved.holds
    /\ \A p \in Proc :
         /\ proc[p].pc \in Booked => r \in proc[p].mem
         /\ proc[p].post # "none" /\ tmp.form = "whole" => r \in tmp.holds

Kept == Appends /\ Readable /\ Records

(* A peer that runs alone finds its own files.                             *)
Alone ==
  \A p \in Peers(Live) \ met :
    /\ proc[p].id # NoProc => key = proc[p].id
    /\ At(p, "naming") => runtime = "empty"
    /\ At(p, "up") => runtime = p
    /\ ~At(p, "unnamed")

(* A command asks the peer that it saw, if that one runs alone.            *)
Asked ==
  \A c, p \in Proc : p \in proc[c].saw =>
    /\ p \in Peers({"up", "stopped", "killed"})
    /\ proc[c].role = "command" /\ At(p, "up") /\ p \notin met =>
         /\ proc[c].pc \in {"finding", "asking", "answered", "killed"}
         /\ proc[c].at = p
         /\ At(c, "asking") => proc[c].id = proc[p].id

IInv ==
  /\ TypeOK /\ Shapes /\ Overlap
  /\ NoKey /\ OneKey /\ EmptyKey
  /\ EmptyConfig /\ StartFailsForCause /\ Refusals
  /\ Kept /\ RuntimeIsTrue /\ Alone /\ Asked

-----------------------------------------------------------------------------
(* Facts for every step.                                                   *)

\* q may have got to another place, and have begun or ended an append.
Bare(q) ==
  /\ proc'[q].role = proc[q].role /\ proc'[q].accepts = proc[q].accepts
  /\ proc'[q].id = proc[q].id /\ proc'[q].made = proc[q].made
  /\ proc'[q].cut = proc[q].cut /\ proc'[q].at = proc[q].at
  /\ proc'[q].saw = proc[q].saw

\* Only p changes, but for a file that another has open.
Only(p) == \A q \in Proc : q # p => proc'[q].pc = proc[q].pc /\ Bare(q)

\* p is a peer, and whoever runs meanwhile is noted.
Noted(p) ==
  /\ proc[p].role = "peer"
  /\ \A q \in Peers(Live) : q # p => p \in met /\ q \in met

LEMMA ProcFacts ==
  ASSUME IInv, NEW p \in Proc
  PROVE  /\ proc \in [Proc -> Process] /\ proc[p] \in Process
         /\ Shape(proc[p]) /\ proc[p].role \in {"peer", "command"}
BY DEF IInv, TypeOK, Process, Shapes

LEMMA Together ==
  ASSUME IInv, NEW p \in Proc, proc[p].role = "peer", proc[p].pc \in Live
  PROVE  Noted(p)
BY DEF IInv, Overlap, Peers, Noted

\* Two peers that make keys at the same time.
LEMMA MakeTwoKeys ==
  ASSUME IInv, NEW p \in Proc, NEW q \in Proc, p # q,
         proc[p].pc \in {"opening", "keying"}, proc[q].pc \in {"opening", "keying"}
  PROVE  TwoKeys
<1>1. /\ proc[p].role = "peer" /\ proc[p].made /\ proc[p].pc \in Live
      /\ proc[q].role = "peer" /\ proc[q].made /\ proc[q].pc \in Live
  BY ProcFacts DEF Shape, Ends, Live, Starting
<1>2. p \in met /\ q \in met
  BY <1>1, Together DEF Noted, Peers
<1> QED
  BY <1>1, <1>2 DEF TwoKeys

LEMMA TwoKeysStay ==
  ASSUME IInv, TwoKeys, met \subseteq met',
         \A p \in Proc : proc[p].made => proc'[p].made
  PROVE  TwoKeys'
BY DEF IInv, TypeOK, TwoKeys

\* A step that leaves the key alone, and neither makes nor finds one.
LEMMA KeysStay ==
  ASSUME IInv, NEW p \in Proc, Only(p), key' = key, met \subseteq met',
         proc'[p].made = proc[p].made, proc'[p].id = proc[p].id,
         proc'[p].role = proc[p].role \/ key # "absent",
         proc'[p].pc = proc[p].pc \/ proc'[p].pc \notin {"opening", "keying"},
         proc[p].pc = "keying" => proc'[p].pc = "keying" \/ proc'[p].cut = "keying",
         proc[p].cut = "keying" => proc'[p].cut = "keying",
         key = "absent" =>
           /\ runtime' \notin Proc
           /\ proc'[p].pc \notin Named \cup {"keying"}
           /\ proc[p].role = "command" => proc'[p].pc # "finding"
  PROVE  NoKey' /\ OneKey' /\ EmptyKey'
<1>1. NoKey /\ OneKey /\ EmptyKey /\ met \subseteq Proc
  BY DEF IInv, TypeOK
<1>2. \A q \in Proc : q # p =>
        /\ proc'[q].pc = proc[q].pc /\ proc'[q].role = proc[q].role
        /\ proc'[q].accepts = proc[q].accepts /\ proc'[q].id = proc[q].id
        /\ proc'[q].made = proc[q].made /\ proc'[q].cut = proc[q].cut
  BY DEF Only, Bare
<1>3. NoKey'
  BY <1>1, <1>2 DEF NoKey
<1>4. OneKey'
  <2>1. TwoKeys => TwoKeys'
    BY <1>2, TwoKeysStay
  <2> SUFFICES ASSUME NEW q \in Proc, ~TwoKeys
               PROVE  /\ proc'[q].pc = "opening" => key = "absent"
                      /\ proc'[q].pc = "keying" => key = "empty"
                      /\ proc'[q].id \in {NoProc, key}
    BY <2>1 DEF OneKey
  <2> QED
    BY <1>1, <1>2 DEF OneKey
<1>5. EmptyKey'
  <2> SUFFICES ASSUME key = "empty", met = {}
               PROVE  CutIn({"keying"})' \/ \E q \in Proc : proc'[q].pc = "keying"
    BY DEF EmptyKey, At
  <2>1. PICK q \in Proc : proc[q].cut = "keying" \/ proc[q].pc = "keying"
    BY <1>1 DEF EmptyKey, CutIn, At
  <2>2. proc'[q].cut = "keying" \/ proc'[q].pc = "keying"
    BY <1>2, <2>1
  <2> QED
    BY <2>2 DEF CutIn
<1> QED
  BY <1>3, <1>4, <1>5

\* A step that leaves the configuration alone, of a process that is not
\* concerned with it.
LEMMA ConfigStays ==
  ASSUME IInv, NEW p \in Proc, Only(p), config' = config, met \subseteq met',
         proc'[p].accepts = proc[p].accepts, proc'[p].cut = proc[p].cut,
         proc'[p].role = proc[p].role \/ proc[p].accepts,
         proc[p].pc \notin {"loaded", "storing"},
         proc'[p].pc \notin {"loaded", "storing"},
         met' = {} /\ proc'[p].role = "peer" /\ proc'[p].pc \in Past =>
           proc[p].role = "peer" /\ proc[p].pc \in Past,
         proc'[p].role = "peer" /\ proc'[p].pc = "failed" =>
           \/ proc[p].role = "peer" /\ proc[p].pc = "failed"
           \/ met # {} \/ CutIn({"storing", "keying"})
  PROVE  EmptyConfig' /\ StartFailsForCause' /\ Refusals'
<1>1. EmptyConfig /\ StartFailsForCause /\ Refusals
  BY DEF IInv
<1>2. \A q \in Proc : q # p =>
        /\ proc'[q].pc = proc[q].pc /\ proc'[q].role = proc[q].role
        /\ proc'[q].accepts = proc[q].accepts /\ proc'[q].id = proc[q].id
        /\ proc'[q].made = proc[q].made /\ proc'[q].cut = proc[q].cut
  BY DEF Only, Bare
<1>3. \A pcs : CutIn(pcs) => CutIn(pcs)'
  BY <1>2 DEF CutIn
<1>4. (\E q \in Proc : At(q, "storing")) => (\E q \in Proc : At(q, "storing"))'
  BY <1>2 DEF At
<1>5. EmptyConfig'
  BY <1>1, <1>2, <1>3, <1>4 DEF EmptyConfig, At
<1>6. StartFailsForCause'
  BY <1>1, <1>2, <1>3 DEF StartFailsForCause, Peers
<1>7. Refusals'
  BY <1>1, <1>2 DEF Refusals, Refused, Peers
<1> QED
  BY <1>5, <1>6, <1>7

\* What a step that is not one of an append does to a process.
Steady(q) ==
  /\ proc'[q].mem = proc[q].mem
  /\ proc'[q].post = proc[q].post
  /\ proc'[q].new = proc[q].new
  /\ proc[q].pc \in {"first"} \cup Serving => proc'[q].pc \in {"first"} \cup Serving
  /\ proc'[q].pc \in Booked => proc[q].pc \in Booked

Ended(q) ==
  proc'[q].post = "none" /\ proc'[q].new = {} /\ proc'[q].pc \notin Booked

LEMMA KeptStays ==
  ASSUME IInv, UNCHANGED <<saved, tmp, posted>>, met \subseteq met',
         \A q \in Proc : proc'[q] = proc[q] \/ Steady(q) \/ Ended(q)
  PROVE  Kept'
<1>1. Appends /\ Readable /\ Records /\ met \subseteq Proc
  BY DEF IInv, Kept, TypeOK
<1>2. ASSUME NEW q \in Proc
      PROVE  Steady(q) \/ Ended(q)
  BY DEF Steady
<1>3. Appends'
  BY <1>1, <1>2 DEF Appends, Steady, Ended
<1>4. Readable'
  BY <1>1 DEF Readable
<1>5. Records'
  BY <1>1, <1>2 DEF Records, Steady, Ended
<1> QED
  BY <1>3, <1>4, <1>5 DEF Kept

LEMMA OverFacts ==
  ASSUME IInv, NEW p \in Proc, NEW pc \in Pc
  PROVE  LET x == proc[p]
             z == Over(p, pc)
         IN  /\ z \in Process /\ z.pc = pc /\ z.mem = {} /\ z.post = "none" /\ z.new = {}
             /\ z.role = x.role /\ z.accepts = x.accepts /\ z.id = x.id
             /\ z.made = x.made /\ z.cut = x.cut /\ z.at = x.at /\ z.saw = x.saw
<1>1. proc[p] \in Process
  BY ProcFacts
<1>2. {} \in SUBSET Record /\ "none" \in Posting
  BY DEF Posting
<1> QED
  BY <1>1, <1>2 DEF Over, Process

LEMMA InitIInv == Init => IInv
<1> SUFFICES ASSUME Init PROVE IInv
  OBVIOUS
<1>1. Unborn \in Process /\ Shape(Unborn)
  BY DEF Unborn, Process, Shape, Pc, Posting, Windows, Nameless, Named, Serving, Ends
<1>2. \A p \in Proc : proc[p] = Unborn /\ proc[p].pc = "none" /\ proc[p].accepts
  BY DEF Init, Unborn
<1>3. TypeOK
  <2>1. 0 \in 0..MaxKills /\ 0 \in 0..MaxRecords
    BY DirAssumption
  <2> QED
    BY <1>1, <2>1 DEF Init, TypeOK, Process
<1>4. Shapes /\ Overlap /\ Asked
  BY <1>1, <1>2
  DEF Init, Shapes, Overlap, Asked, Peers, Live, Serving, Starting, Unborn
<1>5. NoKey /\ OneKey /\ EmptyKey
  BY <1>2, DirAssumption DEF Init, NoKey, OneKey, EmptyKey, Named, Serving, Unborn
<1>6. EmptyConfig /\ StartFailsForCause /\ Refusals
  BY <1>2 DEF Init, EmptyConfig, StartFailsForCause, Refusals, Refused, Peers, Past, Live,
              Serving, Starting, At
<1>7. Kept /\ RuntimeIsTrue /\ Alone
  BY <1>2, DirAssumption DEF Init, Kept, Appends, Readable, Records, Absent, RuntimeIsTrue,
                             Alone, Peers, Live, Serving, Starting, Unborn
<1> QED
  BY <1>1, <1>2, <1>3, <1>4, <1>5, <1>6, <1>7 DEF IInv

-----------------------------------------------------------------------------
(* Steps that write no file.                                               *)

LEMMA LoadConfigIInv ==
  ASSUME IInv, NEW p \in Proc, LoadConfig(p)
  PROVE  IInv'
<1> DEFINE x == proc[p]
           y == proc'[p]
<1>1. /\ proc \in [Proc -> Process] /\ x \in Process
      /\ Shape(x) /\ x.role \in {"peer", "command"}
      /\ TypeOK /\ Shapes /\ Overlap /\ NoKey /\ OneKey /\ EmptyKey
      /\ EmptyConfig /\ StartFailsForCause /\ Refusals /\ Kept /\ RuntimeIsTrue
      /\ Alone /\ Asked
  BY ProcFacts DEF IInv
<1>2. /\ UNCHANGED <<key, config, runtime, saved, tmp, appended, posted, met, kills>>
      /\ \A q \in Proc : q # p => proc'[q] = proc[q]
      /\ x.pc = "loading"
      /\ \/ y.pc = "failed" /\ config \in {"empty", "garbled"} /\ y.accepts = x.accepts
         \/ /\ y.pc = "loaded" /\ config \notin {"empty", "garbled"}
            /\ config = "refuses" => ~y.accepts
      /\ y.role = x.role /\ y.id = x.id /\ y.made = x.made
      /\ y.mem = x.mem /\ y.post = x.post /\ y.new = x.new
      /\ y.cut = x.cut /\ y.at = x.at /\ y.saw = x.saw
  <2>1. CASE config \in {"empty", "garbled"}
    BY <1>1, <2>1 DEF LoadConfig, At, Goes, Process, files, books
  <2>2. CASE config \notin {"empty", "garbled"}
    <3>1. PICK refuse \in BOOLEAN :
            proc' = [proc EXCEPT ![p].accepts = ~refuse /\ config # "refuses",
                                 ![p].pc = "loaded"]
      BY <2>2 DEF LoadConfig
    <3> DEFINE a == ~refuse /\ config # "refuses"
    <3>2. y = [x EXCEPT !.accepts = a, !.pc = "loaded"]
      BY <1>1, <3>1
    <3>3. y.pc = "loaded" /\ (config = "refuses" => ~y.accepts)
      BY <1>1, <3>2 DEF Process
    <3> QED
      BY <1>1, <2>2, <3>1, <3>2, <3>3 DEF LoadConfig, At, Process, files, books
  <2> QED
    BY <2>1, <2>2
<1>3. x.role = "peer" /\ \A q \in Peers(Live) : q # p => p \in met /\ q \in met
  <2>1. x.role = "peer" /\ x.pc \in Live
    BY <1>1, <1>2 DEF Shape, Ends, Live, Serving, Starting
  <2> QED
    BY <2>1, Together DEF Noted
<1>4. TypeOK'
  <2>1. proc' \in [Proc -> Process]
    <3>1. CASE config \in {"empty", "garbled"}
      BY <1>1, <1>2, <3>1 DEF LoadConfig, Goes, Process, Pc, Ends
    <3>2. CASE config \notin {"empty", "garbled"}
      <4>1. PICK refuse \in BOOLEAN :
              proc' = [proc EXCEPT ![p].accepts = ~refuse /\ config # "refuses",
                                   ![p].pc = "loaded"]
        BY <3>2 DEF LoadConfig
      <4>2. \A a \in BOOLEAN : [x EXCEPT !.accepts = a, !.pc = "loaded"] \in Process
        BY <1>1 DEF Process, Pc, Live, Starting
      <4>3. proc' = [proc EXCEPT ![p] =
                       [x EXCEPT !.accepts = ~refuse /\ config # "refuses", !.pc = "loaded"]]
        BY <1>1, <4>1
      <4> QED
        BY <1>1, <4>2, <4>3
    <3> QED
      BY <3>1, <3>2
  <2> QED
    BY <1>1, <1>2, <2>1 DEF TypeOK, Process
<1>5. Shapes' /\ Overlap'
  BY <1>1, <1>2, <1>3
  DEF Shapes, Shape, Overlap, Peers, Live, Serving, Starting, Nameless, Named, Ends
<1>6. NoKey' /\ OneKey' /\ EmptyKey'
  BY <1>1, <1>2, <1>3, KeysStay DEF Only, Bare, NoKey, Named, Live, Serving, Starting
<1>7. EmptyConfig' /\ StartFailsForCause' /\ Refusals'
  <2>1. EmptyConfig'
    BY <1>1, <1>2, <1>3 DEF EmptyConfig, CutIn, At, Peers, Live, Serving, Starting
  <2>2. StartFailsForCause'
    <3>1. CutIn({"storing", "keying"}) => CutIn({"storing", "keying"})'
      BY <1>1, <1>2 DEF CutIn
    <3>2. ASSUME met = {}, config \in {"empty", "garbled"}
          PROVE  CutIn({"storing", "keying"})
      <4>1. CASE CutIn({"storing"})
        BY <4>1 DEF CutIn
      <4>2. ASSUME NEW q \in Proc, At(q, "storing")
            PROVE  FALSE
        <5>1. proc[q].pc = "storing" /\ proc[q].role = "peer" /\ q # p
          BY <1>2, <4>2, ProcFacts DEF At, Shape, Ends
        <5> QED
          BY <1>3, <3>2, <5>1 DEF Peers, Live, Serving, Starting
      <4> QED
        BY <1>1, <3>2, <4>1, <4>2 DEF EmptyConfig
    <3> QED
      BY <1>1, <1>2, <3>1, <3>2 DEF StartFailsForCause, Peers
  <2>3. Refusals'
    BY <1>1, <1>2, <1>3
    DEF Refusals, Refused, Shape, EmptyConfig, At, Peers, Past, Live, Serving, Starting
  <2> QED
    BY <2>1, <2>2, <2>3
<1>8. Kept'
  BY <1>1, <1>2, <1>3, KeptStays DEF Steady, Booked, Live, Serving, Starting
<1>9. RuntimeIsTrue' /\ Alone'
  BY <1>1, <1>2, <1>3, DirAssumption
  DEF RuntimeIsTrue, Alone, At, Peers, Live, Serving, Starting
<1>10. Asked'
  BY <1>1, <1>2, <1>3 DEF Asked, At, Peers, Live, Serving, Starting
<1> QED
  BY <1>1, <1>2, <1>4, <1>5, <1>6, <1>7, <1>8, <1>9, <1>10 DEF IInv

LEMMA FindKeyIInv ==
  ASSUME IInv, NEW p \in Proc, FindKey(p)
  PROVE  IInv'
<1> DEFINE x == proc[p]
           y == proc'[p]
<1>1. /\ proc \in [Proc -> Process] /\ x \in Process
      /\ Shape(x) /\ x.role \in {"peer", "command"}
      /\ TypeOK /\ Shapes /\ Overlap /\ NoKey /\ OneKey /\ EmptyKey
      /\ EmptyConfig /\ StartFailsForCause /\ Refusals /\ Kept /\ RuntimeIsTrue
      /\ Alone /\ Asked
  BY ProcFacts DEF IInv
<1>2. /\ UNCHANGED <<key, config, runtime, saved, tmp, appended, posted, met, kills>>
      /\ \A q \in Proc : q # p => proc'[q] = proc[q]
      /\ x.pc = "finding"
      /\ \/ key = "absent" /\ y.pc = "opening" /\ y.made /\ y.id = x.id
         \/ key = "empty" /\ y.pc = "failed" /\ y.made = x.made /\ y.id = x.id
         \/ /\ key \in Proc /\ y.pc = IF x.role = "peer" THEN "booking" ELSE "asking"
            /\ y.made = x.made /\ y.id = key
      /\ y.role = x.role /\ y.accepts = x.accepts
      /\ y.mem = x.mem /\ y.post = x.post /\ y.new = x.new
      /\ y.cut = x.cut
      /\ y.at = x.at /\ y.saw = x.saw
  BY <1>1 DEF FindKey, At, Goes, Process, Identified, files, books
<1>3. x.role = "peer" => \A q \in Peers(Live) : q # p => p \in met /\ q \in met
  BY <1>2, Together DEF Noted, Live, Serving, Starting
<1>3a. /\ key = "absent" => x.role = "peer"
       /\ y.pc \in {"opening", "failed", "booking", "asking"}
       /\ y.pc = "asking" => x.role = "command"
       /\ y.pc \in {"booking", "opening"} => x.role = "peer"
       /\ x.id = NoProc
  BY <1>1, <1>2 DEF NoKey, Shape, Nameless
<1>4. TypeOK'
  <2>1. proc' \in [Proc -> Process]
    BY <1>1, <1>2
    DEF FindKey, At, Goes, Process, Pc, Live, Serving, Starting, Ends, Identified
  <2> QED
    BY <1>1, <1>2, <2>1 DEF TypeOK, Process
<1>5. Shapes' /\ Overlap'
  <2>1. Shape(y)
    BY <1>1, <1>2, <1>3a, DirAssumption DEF Shape, Ends, Nameless, Named, Serving
  <2> QED
    BY <1>1, <1>2, <2>1 DEF Shapes, Overlap, Peers, Live, Serving, Starting
<1>6. NoKey' /\ OneKey' /\ EmptyKey'
  <2>1. NoKey'
    BY <1>1, <1>2, <1>3a, DirAssumption DEF NoKey, Named, Serving
  <2>2. OneKey'
    <3>1. TwoKeys => TwoKeys'
      BY <1>2, TwoKeysStay
    <3>2. TwoKeys \/ ((y.pc = "opening" => key = "absent") /\ y.id \in {NoProc, key})
      BY <1>2, <1>3a
    <3> QED
      BY <1>1, <1>2, <1>3a, <3>1, <3>2 DEF OneKey
  <2>3. EmptyKey'
    BY <1>1, <1>2, <1>3a DEF EmptyKey, CutIn, At
  <2> QED
    BY <2>1, <2>2, <2>3
<1>7. EmptyConfig' /\ StartFailsForCause' /\ Refusals'
  <2>1. ASSUME key = "empty", x.role = "peer"
        PROVE  met # {} \/ CutIn({"storing", "keying"})
    <3>1. CASE CutIn({"keying"})
      BY <3>1 DEF CutIn
    <3>2. ASSUME NEW q \in Proc, At(q, "keying")
          PROVE  met # {}
      <4>1. proc[q].pc = "keying" /\ proc[q].role = "peer" /\ q # p
        BY <1>2, <3>2, ProcFacts DEF At, Shape, Ends
      <4> QED
        BY <1>3, <2>1, <4>1 DEF Peers, Live, Serving, Starting
    <3> QED
      BY <1>1, <2>1, <3>1, <3>2 DEF EmptyKey
  <2>2. y.pc = "failed" => key = "empty"
    BY <1>2
  <2> QED
    BY <1>2, <1>3a, <2>1, <2>2, ConfigStays DEF Only, Bare, Past, Live, Serving, Starting
<1>8. Kept'
  BY <1>1, <1>2, <1>3a, KeptStays DEF Steady, Booked, Live, Serving, Starting
<1>9. RuntimeIsTrue' /\ Alone'
  BY <1>1, <1>2, <1>3a DEF RuntimeIsTrue, Alone, At, Peers, Live, Serving, Starting
<1>10. Asked'
  <2> SUFFICES ASSUME NEW c \in Proc, NEW q \in Proc, q \in proc'[c].saw
               PROVE  /\ q \in Peers({"up", "stopped", "killed"})'
                      /\ proc'[c].role = "command" /\ At(q, "up")' /\ q \notin met' =>
                           /\ proc'[c].pc \in {"finding", "asking", "answered", "killed"}
                           /\ proc'[c].at = q
                           /\ At(c, "asking")' => proc'[c].id = proc'[q].id
    BY DEF Asked
  <2>1. q \in proc[c].saw
    BY <1>2
  <2>2. q # p /\ proc[q].pc \in {"up", "stopped", "killed"} /\ proc[q].role = "peer"
    BY <1>1, <1>2, <2>1 DEF Asked, Peers
  <2>3. CASE c # p
    BY <1>1, <1>2, <2>1, <2>2, <2>3 DEF Asked, At, Peers
  <2>4. ASSUME c = p, x.role = "command", proc[q].pc = "up", q \notin met
        PROVE  y.at = q /\ y.pc = "asking" /\ y.id = proc[q].id
    <3>1. x.at = q
      BY <1>1, <2>1, <2>4 DEF Asked, At
    <3>2. key = proc[q].id
      <4>1. proc[q].id # NoProc
        BY <2>4, ProcFacts DEF Shape, Named, Serving
      <4> QED
        BY <1>1, <2>2, <2>4, <4>1 DEF Alone, Peers, Live, Serving
    <3>3. key \in Proc
      <4>1. proc[q] \in Process /\ proc[q].id # NoProc
        BY <2>4, ProcFacts DEF Shape, Named, Serving
      <4> QED
        BY <3>2, <4>1 DEF Process
    <3> QED
      BY <1>2, <2>4, <3>1, <3>2, <3>3, DirAssumption
  <2> QED
    BY <1>2, <2>1, <2>2, <2>3, <2>4 DEF At, Peers
<1> QED
  BY <1>1, <1>2, <1>4, <1>5, <1>6, <1>7, <1>8, <1>9, <1>10 DEF IInv

LEMMA LoadLedgerIInv ==
  ASSUME IInv, NEW p \in Proc, LoadLedger(p)
  PROVE  IInv'
<1> DEFINE x == proc[p]
           y == proc'[p]
<1>1. /\ proc \in [Proc -> Process] /\ x \in Process
      /\ Shape(x) /\ x.role \in {"peer", "command"}
      /\ TypeOK /\ Shapes /\ Overlap /\ NoKey /\ OneKey /\ EmptyKey
      /\ EmptyConfig /\ StartFailsForCause /\ Refusals /\ Kept /\ RuntimeIsTrue
      /\ Alone /\ Asked
  BY ProcFacts DEF IInv
<1>2. /\ UNCHANGED <<key, config, runtime, saved, tmp, appended, posted, met, kills>>
      /\ \A q \in Proc : q # p => proc'[q] = proc[q]
      /\ x.pc = "booking"
      /\ \/ y.pc = "first" /\ saved.form = "absent" /\ y.mem = x.mem
         \/ y.pc = "failed" /\ saved.form \in {"empty", "garbled"} /\ y.mem = x.mem
         \/ y.pc = "binding" /\ saved.form = "whole" /\ y.mem = saved.holds
      /\ y.post = x.post /\ y.new = x.new
      /\ y.role = x.role /\ y.accepts = x.accepts /\ y.id = x.id /\ y.made = x.made
      /\ y.cut = x.cut /\ y.at = x.at /\ y.saw = x.saw
  BY <1>1 DEF LoadLedger, At, Goes, Process, files, books
<1>3. x.role = "peer" /\ \A q \in Peers(Live) : q # p => p \in met /\ q \in met
  <2>1. x.role = "peer" /\ x.pc \in Live
    BY <1>1, <1>2 DEF Shape, Ends, Live, Serving, Starting
  <2> QED
    BY <2>1, Together DEF Noted
<1>4. TypeOK'
  <2>1. saved.form = "whole" => saved.holds \subseteq Record
    BY <1>1 DEF TypeOK, Absent, Empty, Garbled, Whole
  <2>2. proc' \in [Proc -> Process]
    <3>1. CASE saved.form = "whole"
      <4>1. [x EXCEPT !.mem = saved.holds, !.pc = "binding"] \in Process
        BY <1>1, <2>1, <3>1 DEF Process, Pc, Live, Starting
      <4>2. proc' = [proc EXCEPT ![p] = [x EXCEPT !.mem = saved.holds, !.pc = "binding"]]
        BY <1>1, <3>1 DEF LoadLedger
      <4> QED
        BY <1>1, <4>1, <4>2
    <3>2. CASE saved.form # "whole"
      BY <1>1, <3>2 DEF LoadLedger, Goes, Process, Pc, Live, Starting
    <3> QED
      BY <3>1, <3>2
  <2> QED
    BY <1>1, <1>2, <2>2 DEF TypeOK, Process
<1>5. Shapes' /\ Overlap'
  BY <1>1, <1>2, <1>3
  DEF Shapes, Shape, Overlap, Peers, Live, Serving, Starting, Nameless, Named, Ends
<1>6. NoKey' /\ OneKey' /\ EmptyKey'
  BY <1>1, <1>2, <1>3, KeysStay DEF Only, Bare, NoKey, Named, Live, Serving, Starting
<1>7. EmptyConfig' /\ StartFailsForCause' /\ Refusals'
  <2>1. y.pc = "failed" => met # {}
    BY <1>1, <1>2 DEF Kept, Readable
  <2> QED
    BY <1>1, <1>2, <1>3, <2>1, ConfigStays DEF Only, Bare, Past, Live, Serving, Starting
<1>8. Kept'
  <2>1. Appends /\ Readable /\ Records
    BY <1>1 DEF Kept
  <2>2. x.post = "none" /\ y.post = "none"
    BY <1>2, <2>1 DEF Appends, Serving
  <2>3. Appends'
    <3>1. \A r \in y.new : r[1] = p /\ r \in y.mem
      <4> SUFFICES x.new = {}
        BY <1>2
      <4> QED
        BY <2>1, <2>2 DEF Appends
    <3> QED
      BY <1>2, <2>1, <2>2, <3>1 DEF Appends
  <2>4. Records'
    <3> SUFFICES ASSUME NEW r \in posted, r[1] \notin met, y.pc \in Booked
                 PROVE  r \in y.mem
      BY <1>2, <2>1, <2>2 DEF Records
    <3>1. saved # Absent /\ (saved.form = "whole" => r \in saved.holds)
      BY <2>1 DEF Records
    <3>2. saved.form # "absent"
      BY <1>1, <3>1 DEF TypeOK, Absent, Empty, Garbled, Whole
    <3> QED
      BY <1>2, <3>1, <3>2 DEF Booked, Serving
  <2> QED
    BY <1>2, <2>1, <2>3, <2>4 DEF Kept, Readable
<1>9. RuntimeIsTrue' /\ Alone'
  BY <1>1, <1>2, <1>3, DirAssumption
  DEF RuntimeIsTrue, Alone, At, Peers, Live, Serving, Starting
<1>10. Asked'
  BY <1>1, <1>2, <1>3 DEF Asked, At, Peers, Live, Serving, Starting
<1> QED
  BY <1>1, <1>2, <1>4, <1>5, <1>6, <1>7, <1>8, <1>9, <1>10 DEF IInv

LEMMA BindIInv ==
  ASSUME IInv, NEW p \in Proc, Bind(p)
  PROVE  IInv'
<1> DEFINE x == proc[p]
           y == proc'[p]
<1>1. /\ proc \in [Proc -> Process] /\ x \in Process
      /\ Shape(x) /\ x.role \in {"peer", "command"}
      /\ TypeOK /\ Shapes /\ Overlap /\ NoKey /\ OneKey /\ EmptyKey
      /\ EmptyConfig /\ StartFailsForCause /\ Refusals /\ Kept /\ RuntimeIsTrue
      /\ Alone /\ Asked
  BY ProcFacts DEF IInv
<1>2. /\ UNCHANGED <<key, config, runtime, saved, tmp, appended, posted, met, kills>>
      /\ \A q \in Proc : q # p => proc'[q] = proc[q]
      /\ x.pc = "binding"
      /\ y.pc \in {"listening", "unbound"}
      /\ y.role = x.role /\ y.accepts = x.accepts /\ y.id = x.id /\ y.made = x.made
      /\ y.mem = x.mem /\ y.post = x.post /\ y.new = x.new
      /\ y.cut = x.cut /\ y.at = x.at /\ y.saw = x.saw
  BY <1>1 DEF Bind, At, Goes, Process, files, books
<1>3. x.role = "peer" /\ \A q \in Peers(Live) : q # p => p \in met /\ q \in met
  <2>1. x.role = "peer" /\ x.pc \in Live
    BY <1>1, <1>2 DEF Shape, Ends, Live, Serving, Starting
  <2> QED
    BY <2>1, Together DEF Noted
<1>4. TypeOK'
  <2>1. proc' \in [Proc -> Process]
    BY <1>1, <1>2 DEF Bind, At, Goes, Process, Pc, Live, Serving, Starting, Ends
  <2> QED
    BY <1>1, <1>2, <2>1 DEF TypeOK, Process
<1>5. Shapes' /\ Overlap'
  BY <1>1, <1>2, <1>3
  DEF Shapes, Shape, Overlap, Peers, Live, Serving, Starting, Nameless, Named, Ends
<1>6. NoKey' /\ OneKey' /\ EmptyKey'
  BY <1>1, <1>2, <1>3, KeysStay DEF Only, Bare, NoKey, Named, Live, Serving, Starting
<1>7. EmptyConfig' /\ StartFailsForCause' /\ Refusals'
  BY <1>1, <1>2, <1>3, ConfigStays DEF Only, Bare, Past, Live, Serving, Starting
<1>8. Kept'
  BY <1>1, <1>2, <1>3, KeptStays DEF Steady, Booked, Live, Serving, Starting
<1>9. RuntimeIsTrue' /\ Alone'
  BY <1>1, <1>2, <1>3, DirAssumption
  DEF RuntimeIsTrue, Alone, At, Peers, Live, Serving, Starting
<1>10. Asked'
  BY <1>1, <1>2, <1>3 DEF Asked, At, Peers, Live, Serving, Starting
<1> QED
  BY <1>1, <1>2, <1>4, <1>5, <1>6, <1>7, <1>8, <1>9, <1>10 DEF IInv

LEMMA WriteUnlinkedIInv ==
  ASSUME IInv, NEW p \in Proc, WriteUnlinked(p)
  PROVE  IInv'
<1> DEFINE x == proc[p]
           y == proc'[p]
<1>1. /\ proc \in [Proc -> Process] /\ x \in Process
      /\ Shape(x) /\ x.role \in {"peer", "command"}
      /\ TypeOK /\ Shapes /\ Overlap /\ NoKey /\ OneKey /\ EmptyKey
      /\ EmptyConfig /\ StartFailsForCause /\ Refusals /\ Kept /\ RuntimeIsTrue
      /\ Alone /\ Asked
  BY ProcFacts DEF IInv
<1>2. /\ UNCHANGED <<key, config, runtime, saved, tmp, appended, posted, met, kills>>
      /\ \A q \in Proc : q # p => proc'[q] = proc[q]
      /\ x.pc = "unnamed" /\ y.pc = "up"
      /\ y.role = x.role /\ y.accepts = x.accepts /\ y.id = x.id /\ y.made = x.made
      /\ y.mem = x.mem /\ y.post = x.post /\ y.new = x.new
      /\ y.cut = x.cut /\ y.at = x.at /\ y.saw = x.saw
  BY <1>1 DEF WriteUnlinked, At, Goes, Process, files, books
<1>3. x.role = "peer" /\ \A q \in Peers(Live) : q # p => p \in met /\ q \in met
  <2>1. x.role = "peer" /\ x.pc \in Live
    BY <1>1, <1>2 DEF Shape, Ends, Live, Serving, Starting
  <2> QED
    BY <2>1, Together DEF Noted
<1>4. TypeOK'
  <2>1. proc' \in [Proc -> Process]
    BY <1>1, <1>2 DEF WriteUnlinked, At, Goes, Process, Pc, Live, Serving, Starting, Ends
  <2> QED
    BY <1>1, <1>2, <2>1 DEF TypeOK, Process
<1>5. Shapes' /\ Overlap'
  BY <1>1, <1>2, <1>3
  DEF Shapes, Shape, Overlap, Peers, Live, Serving, Starting, Nameless, Named, Ends
<1>6. NoKey' /\ OneKey' /\ EmptyKey'
  BY <1>1, <1>2, <1>3, KeysStay DEF Only, Bare, NoKey, Named, Live, Serving, Starting
<1>7. EmptyConfig' /\ StartFailsForCause' /\ Refusals'
  BY <1>1, <1>2, <1>3, ConfigStays DEF Only, Bare, Past, Live, Serving, Starting
<1>8. Kept'
  BY <1>1, <1>2, <1>3, KeptStays DEF Steady, Booked, Live, Serving, Starting
<1>9. RuntimeIsTrue' /\ Alone'
  BY <1>1, <1>2, <1>3, DirAssumption
  DEF RuntimeIsTrue, Alone, At, Peers, Live, Serving, Starting
<1>10. Asked'
  BY <1>1, <1>2, <1>3 DEF Asked, At, Peers, Live, Serving, Starting
<1> QED
  BY <1>1, <1>2, <1>4, <1>5, <1>6, <1>7, <1>8, <1>9, <1>10 DEF IInv

LEMMA KillIInv ==
  ASSUME IInv, NEW p \in Proc, Kill(p)
  PROVE  IInv'
<1> DEFINE x == proc[p]
           y == proc'[p]
<1>1. /\ proc \in [Proc -> Process] /\ x \in Process
      /\ Shape(x) /\ x.role \in {"peer", "command"}
      /\ TypeOK /\ Shapes /\ Overlap /\ NoKey /\ OneKey /\ EmptyKey
      /\ EmptyConfig /\ StartFailsForCause /\ Refusals /\ Kept /\ RuntimeIsTrue
      /\ Alone /\ Asked
  BY ProcFacts DEF IInv
<1>2. /\ UNCHANGED <<key, config, runtime, saved, tmp, appended, posted, met>>
      /\ \A q \in Proc : q # p => proc'[q] = proc[q]
      /\ x.pc \in Live /\ y.pc = "killed"
      /\ kills' = kills + 1 /\ kills < MaxKills
      /\ y.cut = IF x.pc \in Windows THEN x.pc ELSE "none"
      /\ y.role = x.role /\ y.accepts = x.accepts /\ y.id = x.id /\ y.made = x.made
      /\ y.at = x.at /\ y.saw = x.saw
      /\ y.mem = {} /\ y.post = "none" /\ y.new = {}
  BY <1>1 DEF Kill, Over, Process, files, books
<1>4. TypeOK'
  <2>1. proc' \in [Proc -> Process]
    <3> DEFINE z == [Over(p, "killed")
                       EXCEPT !.cut = IF x.pc \in Windows THEN x.pc ELSE "none"]
    <3>1. Over(p, "killed") \in Process
      BY OverFacts DEF Pc
    <3>2. z \in Process
      BY <1>2, <3>1 DEF Process, Windows
    <3>3. proc' = [proc EXCEPT ![p] = z]
      BY <1>1 DEF Kill
    <3> QED
      BY <1>1, <3>2, <3>3
  <2>2. kills' \in 0..MaxKills
    BY <1>1, <1>2, DirAssumption DEF TypeOK
  <2> QED
    BY <1>1, <1>2, <2>1, <2>2 DEF TypeOK, Process
<1>5. Shapes' /\ Overlap'
  BY <1>1, <1>2
  DEF Shapes, Shape, Overlap, Peers, Live, Serving, Starting, Nameless, Named, Ends
<1>6. NoKey' /\ OneKey' /\ EmptyKey'
  <2>1. x.cut # "keying" /\ (x.pc = "keying" => y.cut = "keying")
    BY <1>1, <1>2 DEF Shape, Live, Starting, Serving, Windows
  <2> QED
    BY <1>1, <1>2, <2>1, KeysStay DEF Only, Bare, NoKey, Named, Serving
<1>7. EmptyConfig' /\ StartFailsForCause' /\ Refusals'
  <2>1. x.cut = "none" /\ (x.pc = "storing" => y.cut = "storing")
    BY <1>1, <1>2 DEF Shape, Live, Starting, Serving, Windows
  <2>2. \A pcs : CutIn(pcs) /\ "none" \notin pcs => CutIn(pcs)'
    BY <1>2, <2>1 DEF CutIn
  <2>3. EmptyConfig'
    <3> SUFFICES ASSUME met = {}, config = "empty"
                 PROVE  CutIn({"storing"})' \/ (\E q \in Proc : At(q, "storing"))'
      BY <1>1, <1>2 DEF EmptyConfig, At
    <3>1. CASE CutIn({"storing"})
      BY <2>2, <3>1
    <3>2. ASSUME NEW q \in Proc, At(q, "storing")
          PROVE  CutIn({"storing"})' \/ At(q, "storing")'
      BY <1>2, <2>1, <3>2 DEF At, CutIn
    <3> QED
      BY <1>1, <3>1, <3>2 DEF EmptyConfig
  <2>4. StartFailsForCause'
    <3>1. Peers({"failed"})' \subseteq Peers({"failed"})
      BY <1>2 DEF Peers
    <3>2. CutIn({"storing", "keying"}) => CutIn({"storing", "keying"})'
      BY <2>2
    <3> QED
      BY <1>1, <1>2, <3>1, <3>2 DEF StartFailsForCause
  <2>5. Refusals'
    <3>1. Refused(y) => Refused(x)
      BY <1>1, <1>2, <2>1 DEF Refused, Windows
    <3>2. /\ Peers(Past)' \subseteq Peers(Past)
          /\ Peers({"loaded", "storing"})' \subseteq Peers({"loaded", "storing"})
      BY <1>2 DEF Peers, Past, Live, Serving, Starting
    <3>3. \A q \in Proc : proc'[q].accepts = proc[q].accepts
      BY <1>2
    <3>4. Peers(Past) \subseteq Proc /\ Peers({"loaded", "storing"}) \subseteq Proc
      BY DEF Peers
    <3>5. \A q \in Proc : Refused(proc'[q]) => Refused(proc[q])
      BY <1>2, <3>1
    <3> QED
      BY <1>1, <1>2, <3>2, <3>3, <3>4, <3>5 DEF Refusals
  <2> QED
    BY <2>3, <2>4, <2>5
<1>8. Kept'
  BY <1>1, <1>2, KeptStays DEF Ended, Booked, Live, Serving, Starting
<1>9. RuntimeIsTrue' /\ Alone'
  BY <1>1, <1>2, DirAssumption
  DEF RuntimeIsTrue, Alone, At, Peers, Live, Serving, Starting
<1>10. Asked'
  BY <1>1, <1>2 DEF Asked, At, Peers, Live, Serving, Starting
<1> QED
  BY <1>1, <1>2, <1>4, <1>5, <1>6, <1>7, <1>8, <1>9, <1>10 DEF IInv

LEMMA AskIInv ==
  ASSUME IInv, NEW p \in Proc, Ask(p)
  PROVE  IInv'
<1> DEFINE x == proc[p]
           y == proc'[p]
<1>1. /\ proc \in [Proc -> Process] /\ x \in Process
      /\ Shape(x) /\ x.role \in {"peer", "command"}
      /\ TypeOK /\ Shapes /\ Overlap /\ NoKey /\ OneKey /\ EmptyKey
      /\ EmptyConfig /\ StartFailsForCause /\ Refusals /\ Kept /\ RuntimeIsTrue
      /\ Alone /\ Asked
  BY ProcFacts DEF IInv
<1>2. /\ UNCHANGED <<key, config, runtime, saved, tmp, appended, posted, met, kills>>
      /\ \A q \in Proc : q # p => proc'[q] = proc[q]
      /\ x.pc = "asking" /\ y.pc \in {"answered", "denied"}
      /\ \E s \in Proc : /\ HasPort(s, x.at)
                        /\ y.pc = IF proc[s].id = x.id THEN "answered" ELSE "denied"
      /\ y.role = x.role /\ y.accepts = x.accepts /\ y.id = x.id /\ y.made = x.made
      /\ y.mem = x.mem /\ y.post = x.post /\ y.new = x.new
      /\ y.cut = x.cut /\ y.at = x.at /\ y.saw = x.saw
  BY <1>1 DEF Ask, At, Goes, Process, files, books
<1>4. TypeOK'
  <2>1. proc' \in [Proc -> Process]
    BY <1>1, <1>2 DEF Ask, At, Goes, Process, Pc, Live, Serving, Starting, Ends
  <2> QED
    BY <1>1, <1>2, <2>1 DEF TypeOK, Process
<1>5. Shapes' /\ Overlap'
  BY <1>1, <1>2
  DEF Shapes, Shape, Overlap, Peers, Live, Serving, Starting, Nameless, Named, Ends
<1>6. NoKey' /\ OneKey' /\ EmptyKey'
  BY <1>1, <1>2, KeysStay DEF Only, Bare, NoKey, Named, Live, Serving, Starting
<1>7. EmptyConfig' /\ StartFailsForCause' /\ Refusals'
  BY <1>1, <1>2, ConfigStays DEF Only, Bare, Past, Live, Serving, Starting
<1>8. Kept'
  BY <1>1, <1>2, KeptStays DEF Steady, Booked, Live, Serving, Starting
<1>9. RuntimeIsTrue' /\ Alone'
  BY <1>1, <1>2, DirAssumption
  DEF RuntimeIsTrue, Alone, At, Peers, Live, Serving, Starting
<1>10. Asked'
  <2> SUFFICES ASSUME NEW c \in Proc, NEW q \in Proc, q \in proc'[c].saw
               PROVE  /\ q \in Peers({"up", "stopped", "killed"})'
                      /\ proc'[c].role = "command" /\ At(q, "up")' /\ q \notin met' =>
                           /\ proc'[c].pc \in {"finding", "asking", "answered", "killed"}
                           /\ proc'[c].at = q
                           /\ At(c, "asking")' => proc'[c].id = proc'[q].id
    BY DEF Asked
  <2>1. q \in proc[c].saw
    BY <1>2
  <2>2. q # p /\ proc[q].pc \in {"up", "stopped", "killed"} /\ proc[q].role = "peer"
    BY <1>1, <1>2, <2>1 DEF Asked, Peers
  <2>3. CASE c # p
    BY <1>1, <1>2, <2>1, <2>2, <2>3 DEF Asked, At, Peers
  <2>4. ASSUME c = p, x.role = "command", proc[q].pc = "up", q \notin met
        PROVE  x.at = q /\ y.pc = "answered"
    <3>1. x.at = q /\ x.id = proc[q].id
      BY <1>1, <1>2, <2>1, <2>4 DEF Asked, At
    <3>2. q \in Peers(Serving)
      BY <2>2, <2>4 DEF Peers, Serving
    <3> QED
      BY <1>2, <3>1, <3>2 DEF HasPort
  <2> QED
    BY <1>2, <2>1, <2>2, <2>3, <2>4 DEF At, Peers
<1> QED
  BY <1>1, <1>2, <1>4, <1>5, <1>6, <1>7, <1>8, <1>9, <1>10 DEF IInv

LEMMA AskNobodyIInv ==
  ASSUME IInv, NEW p \in Proc, AskNobody(p)
  PROVE  IInv'
<1> DEFINE x == proc[p]
           y == proc'[p]
<1>1. /\ proc \in [Proc -> Process] /\ x \in Process
      /\ Shape(x) /\ x.role \in {"peer", "command"}
      /\ TypeOK /\ Shapes /\ Overlap /\ NoKey /\ OneKey /\ EmptyKey
      /\ EmptyConfig /\ StartFailsForCause /\ Refusals /\ Kept /\ RuntimeIsTrue
      /\ Alone /\ Asked
  BY ProcFacts DEF IInv
<1>2. /\ UNCHANGED <<key, config, runtime, saved, tmp, appended, posted, met, kills>>
      /\ \A q \in Proc : q # p => proc'[q] = proc[q]
      /\ x.pc = "asking" /\ y.pc \in {"failed", "denied"}
      /\ x.at \notin Peers(Serving)
      /\ y.role = x.role /\ y.accepts = x.accepts /\ y.id = x.id /\ y.made = x.made
      /\ y.mem = x.mem /\ y.post = x.post /\ y.new = x.new
      /\ y.cut = x.cut /\ y.at = x.at /\ y.saw = x.saw
  BY <1>1 DEF AskNobody, At, Goes, Process, files, books
<1>4. TypeOK'
  <2>1. proc' \in [Proc -> Process]
    BY <1>1, <1>2 DEF AskNobody, At, Goes, Process, Pc, Live, Serving, Starting, Ends
  <2> QED
    BY <1>1, <1>2, <2>1 DEF TypeOK, Process
<1>5. Shapes' /\ Overlap'
  BY <1>1, <1>2
  DEF Shapes, Shape, Overlap, Peers, Live, Serving, Starting, Nameless, Named, Ends
<1>6. NoKey' /\ OneKey' /\ EmptyKey'
  BY <1>1, <1>2, KeysStay DEF Only, Bare, NoKey, Named, Live, Serving, Starting
<1>7. EmptyConfig' /\ StartFailsForCause' /\ Refusals'
  <2>1. x.role = "command"
    BY <1>1, <1>2 DEF Shape
  <2> QED
    BY <1>1, <1>2, <2>1, ConfigStays DEF Only, Bare, Past, Live, Serving, Starting
<1>8. Kept'
  BY <1>1, <1>2, KeptStays DEF Steady, Booked, Live, Serving, Starting
<1>9. RuntimeIsTrue' /\ Alone'
  BY <1>1, <1>2, DirAssumption
  DEF RuntimeIsTrue, Alone, At, Peers, Live, Serving, Starting
<1>10. Asked'
  BY <1>1, <1>2 DEF Asked, At, Peers, Live, Serving, Starting
<1> QED
  BY <1>1, <1>2, <1>4, <1>5, <1>6, <1>7, <1>8, <1>9, <1>10 DEF IInv

-----------------------------------------------------------------------------
(* Steps that write a file.                                                *)

LEMMA TruncateConfigIInv ==
  ASSUME IInv, NEW p \in Proc, TruncateConfig(p)
  PROVE  IInv'
<1> DEFINE x == proc[p]
           y == proc'[p]
<1>1. /\ proc \in [Proc -> Process] /\ x \in Process
      /\ Shape(x) /\ x.role \in {"peer", "command"}
      /\ TypeOK /\ Shapes /\ Overlap /\ NoKey /\ OneKey /\ EmptyKey
      /\ EmptyConfig /\ StartFailsForCause /\ Refusals /\ Kept /\ RuntimeIsTrue
      /\ Alone /\ Asked
  BY ProcFacts DEF IInv
<1>2. /\ UNCHANGED <<key, runtime, saved, tmp, appended, posted, met, kills>>
      /\ \A q \in Proc : q # p => proc'[q] = proc[q]
      /\ x.pc = "loaded" /\ y.pc = "storing"
      /\ config' = "empty"
      /\ y.role = x.role /\ y.accepts = x.accepts /\ y.id = x.id /\ y.made = x.made
      /\ y.mem = x.mem /\ y.post = x.post /\ y.new = x.new
      /\ y.cut = x.cut /\ y.at = x.at /\ y.saw = x.saw
  BY <1>1 DEF TruncateConfig, At, Goes, Process, files, books
<1>3. x.role = "peer" /\ \A q \in Peers(Live) : q # p => p \in met /\ q \in met
  <2>1. x.role = "peer" /\ x.pc \in Live
    BY <1>1, <1>2 DEF Shape, Ends, Live, Serving, Starting
  <2> QED
    BY <2>1, Together DEF Noted
<1>4. TypeOK'
  <2>1. proc' \in [Proc -> Process]
    BY <1>1, <1>2 DEF TruncateConfig, At, Goes, Process, Pc, Live, Serving, Starting, Ends
  <2> QED
    BY <1>1, <1>2, <2>1 DEF TypeOK, Process
<1>5. Shapes' /\ Overlap'
  BY <1>1, <1>2, <1>3
  DEF Shapes, Shape, Overlap, Peers, Live, Serving, Starting, Nameless, Named, Ends
<1>6. NoKey' /\ OneKey' /\ EmptyKey'
  BY <1>1, <1>2, <1>3, KeysStay DEF Only, Bare, NoKey, Named, Live, Serving, Starting
<1>7. EmptyConfig' /\ StartFailsForCause' /\ Refusals'
  <2>1. EmptyConfig'
    BY <1>1, <1>2, <1>3 DEF EmptyConfig, CutIn, At, Peers, Live, Serving, Starting
  <2>2. StartFailsForCause'
    BY <1>1, <1>2, <1>3
    DEF StartFailsForCause, EmptyConfig, CutIn, At, Peers, Live, Serving, Starting
  <2>3. Refusals'
    BY <1>1, <1>2, <1>3
    DEF Refusals, Refused, Shape, EmptyConfig, At, Peers, Past, Live, Serving, Starting
  <2> QED
    BY <2>1, <2>2, <2>3
<1>8. Kept'
  BY <1>1, <1>2, <1>3, KeptStays DEF Steady, Booked, Live, Serving, Starting
<1>9. RuntimeIsTrue' /\ Alone'
  BY <1>1, <1>2, <1>3, DirAssumption
  DEF RuntimeIsTrue, Alone, At, Peers, Live, Serving, Starting
<1>10. Asked'
  BY <1>1, <1>2, <1>3 DEF Asked, At, Peers, Live, Serving, Starting
<1> QED
  BY <1>1, <1>2, <1>4, <1>5, <1>6, <1>7, <1>8, <1>9, <1>10 DEF IInv

LEMMA WriteConfigIInv ==
  ASSUME IInv, NEW p \in Proc, WriteConfig(p)
  PROVE  IInv'
<1> DEFINE x == proc[p]
           y == proc'[p]
<1>1. /\ proc \in [Proc -> Process] /\ x \in Process
      /\ Shape(x) /\ x.role \in {"peer", "command"}
      /\ TypeOK /\ Shapes /\ Overlap /\ NoKey /\ OneKey /\ EmptyKey
      /\ EmptyConfig /\ StartFailsForCause /\ Refusals /\ Kept /\ RuntimeIsTrue
      /\ Alone /\ Asked
  BY ProcFacts DEF IInv
<1>2. /\ UNCHANGED <<key, runtime, saved, tmp, appended, posted, met, kills>>
      /\ \A q \in Proc : q # p => proc'[q] = proc[q]
      /\ x.pc = "storing" /\ y.pc = "finding"
      /\ config' \in Written(config, IF x.accepts THEN "accepts" ELSE "refuses")
      /\ y.role = x.role /\ y.accepts = x.accepts /\ y.id = x.id /\ y.made = x.made
      /\ y.mem = x.mem /\ y.post = x.post /\ y.new = x.new
      /\ y.cut = x.cut /\ y.at = x.at /\ y.saw = x.saw
  BY <1>1 DEF WriteConfig, At, Goes, Process, files, books
<1>3. x.role = "peer" /\ \A q \in Peers(Live) : q # p => p \in met /\ q \in met
  <2>1. x.role = "peer" /\ x.pc \in Live
    BY <1>1, <1>2 DEF Shape, Ends, Live, Serving, Starting
  <2> QED
    BY <2>1, Together DEF Noted
<1>4. TypeOK'
  <2>1. proc' \in [Proc -> Process]
    BY <1>1, <1>2 DEF WriteConfig, Goes, Process, Pc, Live, Serving, Starting
  <2> QED
    BY <1>1, <1>2, <2>1 DEF TypeOK, Process, Written
<1>5. Shapes' /\ Overlap'
  BY <1>1, <1>2, <1>3
  DEF Shapes, Shape, Overlap, Peers, Live, Serving, Starting, Nameless, Named, Ends
<1>6. NoKey' /\ OneKey' /\ EmptyKey'
  BY <1>1, <1>2, <1>3, KeysStay DEF Only, Bare, NoKey, Named, Live, Serving, Starting
<1>7. EmptyConfig' /\ StartFailsForCause' /\ Refusals'
  <2>1. EmptyConfig'
    <3> SUFFICES ASSUME met = {}
                 PROVE  config' \notin {"empty", "garbled"} /\ \A q \in Proc : ~At(q, "storing")'
      BY <1>2 DEF EmptyConfig
    <3>1. config = "empty"
      BY <1>1, <1>2 DEF EmptyConfig, At
    <3>2. config' \in {"accepts", "refuses"}
      BY <1>2, <3>1 DEF Written
    <3>3. ASSUME NEW q \in Proc, At(q, "storing")'
          PROVE  FALSE
      <4>1. q # p /\ proc[q].pc = "storing" /\ proc[q].role = "peer"
        BY <1>2, <3>3, ProcFacts DEF At, Shape, Ends
      <4> QED
        BY <1>3, <4>1 DEF Peers, Live, Serving, Starting
    <3> QED
      BY <3>2, <3>3
  <2>2. StartFailsForCause'
    BY <1>1, <1>2, <1>3
    DEF StartFailsForCause, EmptyConfig, Written, CutIn, At, Peers, Live, Serving, Starting
  <2>3. Refusals'
    BY <1>1, <1>2, <1>3
    DEF Refusals, Refused, Shape, EmptyConfig, Written, At, Peers, Past, Live, Serving, Starting
  <2> QED
    BY <2>1, <2>2, <2>3
<1>8. Kept'
  BY <1>1, <1>2, <1>3, KeptStays DEF Steady, Booked, Live, Serving, Starting
<1>9. RuntimeIsTrue' /\ Alone'
  BY <1>1, <1>2, <1>3, DirAssumption
  DEF RuntimeIsTrue, Alone, At, Peers, Live, Serving, Starting
<1>10. Asked'
  BY <1>1, <1>2, <1>3 DEF Asked, At, Peers, Live, Serving, Starting
<1> QED
  BY <1>1, <1>2, <1>4, <1>5, <1>6, <1>7, <1>8, <1>9, <1>10 DEF IInv

LEMMA OpenKeyIInv ==
  ASSUME IInv, NEW p \in Proc, OpenKey(p)
  PROVE  IInv'
<1> DEFINE x == proc[p]
           y == proc'[p]
<1>1. /\ proc \in [Proc -> Process] /\ x \in Process
      /\ Shape(x) /\ x.role \in {"peer", "command"}
      /\ TypeOK /\ Shapes /\ Overlap /\ NoKey /\ OneKey /\ EmptyKey
      /\ EmptyConfig /\ StartFailsForCause /\ Refusals /\ Kept /\ RuntimeIsTrue
      /\ Alone /\ Asked
  BY ProcFacts DEF IInv
<1>2. /\ UNCHANGED <<config, runtime, saved, tmp, appended, posted, met, kills>>
      /\ \A q \in Proc : q # p => proc'[q] = proc[q]
      /\ x.pc = "opening" /\ y.pc = "keying"
      /\ key' = "empty"
      /\ y.role = x.role /\ y.accepts = x.accepts /\ y.id = x.id /\ y.made = x.made
      /\ y.mem = x.mem /\ y.post = x.post /\ y.new = x.new
      /\ y.cut = x.cut /\ y.at = x.at /\ y.saw = x.saw
  BY <1>1 DEF OpenKey, At, Goes, Process, files, books
<1>3. x.role = "peer" /\ \A q \in Peers(Live) : q # p => p \in met /\ q \in met
  <2>1. x.role = "peer" /\ x.pc \in Live
    BY <1>1, <1>2 DEF Shape, Ends, Live, Serving, Starting
  <2> QED
    BY <2>1, Together DEF Noted
<1>4. TypeOK'
  <2>1. proc' \in [Proc -> Process]
    BY <1>1, <1>2 DEF OpenKey, At, Goes, Process, Pc, Live, Serving, Starting, Ends
  <2> QED
    BY <1>1, <1>2, <2>1 DEF TypeOK, Process
<1>5. Shapes' /\ Overlap'
  <2>1. Shape(y)
    BY <1>1, <1>2, <1>3, DirAssumption DEF Shape, Ends, Nameless, Named, Serving
  <2> QED
    BY <1>1, <1>2, <2>1 DEF Shapes, Overlap, Peers, Live, Serving, Starting
<1>6. NoKey' /\ OneKey' /\ EmptyKey'
  <2>1. NoKey'
    BY <1>1, <1>2, <1>3, DirAssumption DEF NoKey
  <2>2. OneKey'
    <3> SUFFICES ASSUME NEW q \in Proc, ~TwoKeys'
                 PROVE  /\ proc'[q].pc = "opening" => key' = "absent"
                        /\ proc'[q].pc = "keying" => key' = "empty"
                        /\ proc'[q].id \in {NoProc, key'}
      BY DEF OneKey
    <3>1. ~TwoKeys
      BY <1>2, TwoKeysStay
    <3>2. q # p => proc[q].pc \notin {"opening", "keying"}
      BY <1>2, <3>1, MakeTwoKeys
    <3>3. proc[q] \in Process
      BY <1>1
    <3> QED
      BY <1>1, <1>2, <3>1, <3>2, <3>3 DEF OneKey, NoKey
  <2>3. EmptyKey'
    BY <1>2 DEF EmptyKey, At
  <2> QED
    BY <2>1, <2>2, <2>3
<1>7. EmptyConfig' /\ StartFailsForCause' /\ Refusals'
  BY <1>1, <1>2, <1>3, ConfigStays DEF Only, Bare, Past, Live, Serving, Starting
<1>8. Kept'
  BY <1>1, <1>2, <1>3, KeptStays DEF Steady, Booked, Live, Serving, Starting
<1>9. RuntimeIsTrue' /\ Alone'
  <2>1. RuntimeIsTrue'
    BY <1>1, <1>2 DEF RuntimeIsTrue, Peers
  <2>2. Alone'
    <3>1. ASSUME NEW q \in Peers(Live)' \ met', q # p
          PROVE  FALSE
      BY <1>2, <1>3, <3>1 DEF Peers
    <3>2. y.id # NoProc => key' = y.id
      BY <1>1, <1>2 DEF Shape, Nameless
    <3> QED
      BY <1>2, <1>3, <3>1, <3>2 DEF Alone, At, Peers
  <2> QED
    BY <2>1, <2>2
<1>10. Asked'
  BY <1>1, <1>2, <1>3 DEF Asked, At, Peers, Live, Serving, Starting
<1> QED
  BY <1>1, <1>2, <1>4, <1>5, <1>6, <1>7, <1>8, <1>9, <1>10 DEF IInv

LEMMA WriteKeyIInv ==
  ASSUME IInv, NEW p \in Proc, WriteKey(p)
  PROVE  IInv'
<1> DEFINE x == proc[p]
           y == proc'[p]
<1>1. /\ proc \in [Proc -> Process] /\ x \in Process
      /\ Shape(x) /\ x.role \in {"peer", "command"}
      /\ TypeOK /\ Shapes /\ Overlap /\ NoKey /\ OneKey /\ EmptyKey
      /\ EmptyConfig /\ StartFailsForCause /\ Refusals /\ Kept /\ RuntimeIsTrue
      /\ Alone /\ Asked
  BY ProcFacts DEF IInv
<1>2. /\ UNCHANGED <<config, runtime, saved, tmp, appended, posted, met, kills>>
      /\ \A q \in Proc : q # p => proc'[q] = proc[q]
      /\ x.pc = "keying" /\ y.pc = IF x.role = "peer" THEN "booking" ELSE "asking"
      /\ key' = p /\ y.id = p
      /\ y.role = x.role /\ y.accepts = x.accepts /\ y.made = x.made
      /\ y.mem = x.mem /\ y.post = x.post /\ y.new = x.new
      /\ y.cut = x.cut /\ y.at = x.at /\ y.saw = x.saw
  BY <1>1 DEF WriteKey, At, Goes, Process, Identified, files, books
<1>3. x.role = "peer" /\ \A q \in Peers(Live) : q # p => p \in met /\ q \in met
  <2>1. x.role = "peer" /\ x.pc \in Live
    BY <1>1, <1>2 DEF Shape, Ends, Live, Serving, Starting
  <2> QED
    BY <2>1, Together DEF Noted
<1>4. TypeOK'
  <2>1. proc' \in [Proc -> Process]
    BY <1>1, <1>2
    DEF WriteKey, At, Goes, Process, Pc, Live, Serving, Starting, Ends, Identified
  <2> QED
    BY <1>1, <1>2, <2>1 DEF TypeOK, Process
<1>5. Shapes' /\ Overlap'
  <2>1. Shape(y)
    BY <1>1, <1>2, <1>3, DirAssumption DEF Shape, Ends, Nameless, Named, Serving
  <2> QED
    BY <1>1, <1>2, <2>1 DEF Shapes, Overlap, Peers, Live, Serving, Starting
<1>6. NoKey' /\ OneKey' /\ EmptyKey'
  <2>1. NoKey'
    BY <1>1, <1>2, <1>3, DirAssumption DEF NoKey
  <2>2. OneKey'
    <3> SUFFICES ASSUME NEW q \in Proc, ~TwoKeys'
                 PROVE  /\ proc'[q].pc = "opening" => key' = "absent"
                        /\ proc'[q].pc = "keying" => key' = "empty"
                        /\ proc'[q].id \in {NoProc, key'}
      BY DEF OneKey
    <3>1. ~TwoKeys
      BY <1>2, TwoKeysStay
    <3>2. q # p => proc[q].pc \notin {"opening", "keying"}
      BY <1>2, <3>1, MakeTwoKeys
    <3>3. proc[q] \in Process
      BY <1>1
    <3> QED
      BY <1>1, <1>2, <1>3, <3>1, <3>2, <3>3, DirAssumption DEF OneKey, Process
  <2>3. EmptyKey'
    BY <1>2, DirAssumption DEF EmptyKey
  <2> QED
    BY <2>1, <2>2, <2>3
<1>7. EmptyConfig' /\ StartFailsForCause' /\ Refusals'
  BY <1>1, <1>2, <1>3, ConfigStays DEF Only, Bare, Past, Live, Serving, Starting
<1>8. Kept'
  BY <1>1, <1>2, <1>3, KeptStays DEF Steady, Booked, Live, Serving, Starting
<1>9. RuntimeIsTrue' /\ Alone'
  <2>1. RuntimeIsTrue'
    BY <1>1, <1>2 DEF RuntimeIsTrue, Peers
  <2>2. Alone'
    <3>1. ASSUME NEW q \in Peers(Live)' \ met', q # p
          PROVE  FALSE
      BY <1>2, <1>3, <3>1 DEF Peers
    <3>2. y.id # NoProc => key' = y.id
      BY <1>1, <1>2 DEF Shape, Nameless
    <3> QED
      BY <1>2, <1>3, <3>1, <3>2 DEF Alone, At, Peers
  <2> QED
    BY <2>1, <2>2
<1>10. Asked'
  BY <1>1, <1>2, <1>3 DEF Asked, At, Peers, Live, Serving, Starting
<1> QED
  BY <1>1, <1>2, <1>4, <1>5, <1>6, <1>7, <1>8, <1>9, <1>10 DEF IInv

LEMMA TruncateRuntimeIInv ==
  ASSUME IInv, NEW p \in Proc, TruncateRuntime(p)
  PROVE  IInv'
<1> DEFINE x == proc[p]
           y == proc'[p]
<1>1. /\ proc \in [Proc -> Process] /\ x \in Process
      /\ Shape(x) /\ x.role \in {"peer", "command"}
      /\ TypeOK /\ Shapes /\ Overlap /\ NoKey /\ OneKey /\ EmptyKey
      /\ EmptyConfig /\ StartFailsForCause /\ Refusals /\ Kept /\ RuntimeIsTrue
      /\ Alone /\ Asked
  BY ProcFacts DEF IInv
<1>2. /\ UNCHANGED <<key, config, saved, tmp, appended, posted, met, kills>>
      /\ \A q \in Proc : q # p => proc'[q] = proc[q]
      /\ x.pc = "listening" /\ y.pc = "naming"
      /\ runtime' = "empty"
      /\ y.role = x.role /\ y.accepts = x.accepts /\ y.id = x.id /\ y.made = x.made
      /\ y.mem = x.mem /\ y.post = x.post /\ y.new = x.new
      /\ y.cut = x.cut /\ y.at = x.at /\ y.saw = x.saw
  BY <1>1 DEF TruncateRuntime, At, Goes, Process, files, books
<1>3. x.role = "peer" /\ \A q \in Peers(Live) : q # p => p \in met /\ q \in met
  <2>1. x.role = "peer" /\ x.pc \in Live
    BY <1>1, <1>2 DEF Shape, Ends, Live, Serving, Starting
  <2> QED
    BY <2>1, Together DEF Noted
<1>4. TypeOK'
  <2>1. proc' \in [Proc -> Process]
    BY <1>1, <1>2
    DEF TruncateRuntime, At, Goes, Process, Pc, Live, Serving, Starting, Ends
  <2> QED
    BY <1>1, <1>2, <2>1 DEF TypeOK, Process
<1>5. Shapes' /\ Overlap'
  BY <1>1, <1>2, <1>3
  DEF Shapes, Shape, Overlap, Peers, Live, Serving, Starting, Nameless, Named, Ends
<1>6. NoKey' /\ OneKey' /\ EmptyKey'
  BY <1>1, <1>2, <1>3, KeysStay DEF Only, Bare, NoKey, Named, Live, Serving, Starting
<1>7. EmptyConfig' /\ StartFailsForCause' /\ Refusals'
  BY <1>1, <1>2, <1>3, ConfigStays DEF Only, Bare, Past, Live, Serving, Starting
<1>8. Kept'
  BY <1>1, <1>2, <1>3, KeptStays DEF Steady, Booked, Live, Serving, Starting
<1>9. RuntimeIsTrue' /\ Alone'
  BY <1>1, <1>2, <1>3, DirAssumption
  DEF RuntimeIsTrue, Alone, At, Peers, Live, Serving, Starting
<1>10. Asked'
  BY <1>1, <1>2, <1>3 DEF Asked, At, Peers, Live, Serving, Starting
<1> QED
  BY <1>1, <1>2, <1>4, <1>5, <1>6, <1>7, <1>8, <1>9, <1>10 DEF IInv

LEMMA WriteRuntimeIInv ==
  ASSUME IInv, NEW p \in Proc, WriteRuntime(p)
  PROVE  IInv'
<1> DEFINE x == proc[p]
           y == proc'[p]
<1>1. /\ proc \in [Proc -> Process] /\ x \in Process
      /\ Shape(x) /\ x.role \in {"peer", "command"}
      /\ TypeOK /\ Shapes /\ Overlap /\ NoKey /\ OneKey /\ EmptyKey
      /\ EmptyConfig /\ StartFailsForCause /\ Refusals /\ Kept /\ RuntimeIsTrue
      /\ Alone /\ Asked
  BY ProcFacts DEF IInv
<1>2. /\ UNCHANGED <<key, config, saved, tmp, appended, posted, met, kills>>
      /\ \A q \in Proc : q # p => proc'[q] = proc[q]
      /\ x.pc = "naming" /\ y.pc = "up"
      /\ runtime' \in Written(runtime, p)
      /\ y.role = x.role /\ y.accepts = x.accepts /\ y.id = x.id /\ y.made = x.made
      /\ y.mem = x.mem /\ y.post = x.post /\ y.new = x.new
      /\ y.cut = x.cut /\ y.at = x.at /\ y.saw = x.saw
  BY <1>1 DEF WriteRuntime, At, Goes, Process, files, books
<1>3. x.role = "peer" /\ \A q \in Peers(Live) : q # p => p \in met /\ q \in met
  <2>1. x.role = "peer" /\ x.pc \in Live
    BY <1>1, <1>2 DEF Shape, Ends, Live, Serving, Starting
  <2> QED
    BY <2>1, Together DEF Noted
<1>4. TypeOK'
  <2>1. proc' \in [Proc -> Process]
    BY <1>1, <1>2 DEF WriteRuntime, Goes, Process, Pc, Live, Serving, Starting
  <2> QED
    BY <1>1, <1>2, <2>1 DEF TypeOK, Process, Written
<1>5. Shapes' /\ Overlap'
  BY <1>1, <1>2, <1>3
  DEF Shapes, Shape, Overlap, Peers, Live, Serving, Starting, Nameless, Named, Ends
<1>6. NoKey' /\ OneKey' /\ EmptyKey'
  BY <1>1, <1>2, <1>3, KeysStay DEF Only, Bare, NoKey, Named, Live, Serving, Starting
<1>7. EmptyConfig' /\ StartFailsForCause' /\ Refusals'
  BY <1>1, <1>2, <1>3, ConfigStays DEF Only, Bare, Past, Live, Serving, Starting
<1>8. Kept'
  BY <1>1, <1>2, <1>3, KeptStays DEF Steady, Booked, Live, Serving, Starting
<1>9. RuntimeIsTrue' /\ Alone'
  <2>1. runtime' \in Proc => runtime' = p
    BY <1>2, DirAssumption DEF Written
  <2>2. RuntimeIsTrue'
    BY <1>2, <1>3, <2>1 DEF RuntimeIsTrue, Peers
  <2>3. p \notin met => runtime' = p
    BY <1>1, <1>2, <1>3 DEF Alone, At, Peers, Live, Serving, Starting, Written
  <2>4. Alone'
    BY <1>1, <1>2, <1>3, <2>3 DEF Alone, At, Peers, Live, Serving, Starting
  <2> QED
    BY <2>2, <2>4
<1>10. Asked'
  BY <1>1, <1>2, <1>3 DEF Asked, At, Peers, Live, Serving, Starting
<1> QED
  BY <1>1, <1>2, <1>4, <1>5, <1>6, <1>7, <1>8, <1>9, <1>10 DEF IInv

-----------------------------------------------------------------------------
(* The steps of an append.                                                 *)

\* They leave all but the files and the lists of records alone.
LEMMA AppendStep ==
  ASSUME IInv, NEW p \in Proc, Only(p), Bare(p), UNCHANGED <<files, met, kills>>,
         proc[p].pc \in {"first"} \cup Serving,
         \/ proc'[p].pc = proc[p].pc
         \/ proc[p].pc = "first" /\ proc'[p].pc \in {"binding", "failed"},
         proc'[p].pc = "failed" => met # {},
         TypeOK', Kept'
  PROVE  IInv'
<1> DEFINE x == proc[p]
           y == proc'[p]
<1>1. /\ Shape(x) /\ x.role \in {"peer", "command"}
      /\ Shapes /\ Overlap /\ NoKey /\ OneKey /\ EmptyKey
      /\ RuntimeIsTrue /\ Alone /\ Asked
  BY ProcFacts DEF IInv
<1>2. /\ key' = key /\ config' = config /\ runtime' = runtime /\ met' = met
      /\ \A q \in Proc : Bare(q) /\ (q # p => proc'[q].pc = proc[q].pc)
  BY DEF Only, files
<1>3. x.pc \in Live /\ x.role = "peer"
  BY <1>1 DEF Shape, Ends, Live, Serving, Starting
<1>4. \A q \in Peers(Live) : q # p => p \in met /\ q \in met
  BY <1>3, Together DEF Noted
<1>5. Shapes' /\ Overlap'
  <2>1. Shape(y)
    BY <1>1, <1>2, <1>3 DEF Shape, Bare, Serving, Nameless, Named, Ends
  <2>2. \A q \in Proc : q # p => Shape(proc'[q])
    BY <1>1, <1>2 DEF Shapes, Shape, Bare
  <2>3. Peers(Live)' \subseteq Peers(Live)
    BY <1>2, <1>3 DEF Peers, Bare
  <2> QED
    BY <1>1, <1>2, <2>1, <2>2, <2>3 DEF Shapes, Overlap
<1>6. NoKey' /\ OneKey' /\ EmptyKey'
  <2>1. x.pc \notin {"opening", "keying"} /\ y.pc \notin {"opening", "keying"}
    BY DEF Serving
  <2>2. key # "absent"
    <3>1. x.id # NoProc
      BY <1>1 DEF Shape, Named
    <3> QED
      BY <1>1, <3>1 DEF NoKey
  <2> QED
    BY <1>2, <2>1, <2>2, KeysStay DEF Bare
<1>7. EmptyConfig' /\ StartFailsForCause' /\ Refusals'
  BY <1>2, <1>3, ConfigStays DEF Bare, Past, Live, Serving, Starting
<1>8. RuntimeIsTrue' /\ Alone'
  <2>1. RuntimeIsTrue'
    BY <1>1, <1>2 DEF RuntimeIsTrue, Peers, Bare
  <2>2. ASSUME NEW q \in Peers(Live)' \ met'
        PROVE  /\ q \in Peers(Live) \ met /\ proc'[q].id = proc[q].id
               /\ \A pc \in {"naming", "up", "unnamed"} : proc'[q].pc = pc => proc[q].pc = pc
    BY <1>2, <1>3, <2>2 DEF Peers, Bare
  <2> QED
    BY <1>1, <1>2, <2>1, <2>2 DEF Alone, At
<1>9. Asked'
  <2> SUFFICES ASSUME NEW c \in Proc, NEW q \in Proc, q \in proc[c].saw
               PROVE  /\ q \in Peers({"up", "stopped", "killed"})'
                      /\ proc[c].role = "command" /\ proc'[q].pc = "up" /\ q \notin met =>
                           /\ proc'[c].pc \in {"finding", "asking", "answered", "killed"}
                           /\ proc[c].at = q
                           /\ proc'[c].pc = "asking" => proc[c].id = proc[q].id
    BY <1>2 DEF Asked, At, Bare
  <2>1. q \in Peers({"up", "stopped", "killed"})
    BY <1>1 DEF Asked
  <2>2. q \in Peers({"up", "stopped", "killed"})'
    BY <1>2, <2>1 DEF Peers, Bare
  <2>3. (proc[c].role = "command" => c # p) /\ (proc'[q].pc = "up" => proc[q].pc = "up")
    BY <1>2, <1>3
  <2> QED
    BY <1>1, <1>2, <2>1, <2>2, <2>3 DEF Asked, At
<1> QED
  BY <1>5, <1>6, <1>7, <1>8, <1>9 DEF IInv

\* Whoever appends runs; if it does so alone, nobody else has read the file.
LEMMA Appending ==
  ASSUME IInv, NEW p \in Proc, proc[p].pc \in {"first"} \cup Serving
  PROVE  /\ proc \in [Proc -> Process] /\ proc[p] \in Process /\ proc[p].pc \in Booked
         /\ \A q \in Proc : q # p /\ proc[q].pc \in Booked => p \in met /\ q \in met
         /\ Appends /\ Readable /\ Records /\ TypeOK
<1>1. proc[p].role = "peer" /\ proc[p].pc \in Live
  BY ProcFacts DEF Shape, Ends, Live, Serving, Starting
<1>2. ASSUME NEW q \in Proc, q # p, proc[q].pc \in Booked
      PROVE  p \in met /\ q \in met
  <2>1. proc[q].role = "peer" /\ proc[q].pc \in Live
    BY <1>2, ProcFacts DEF Shape, Ends, Booked, Live, Serving, Starting
  <2> QED
    BY <1>1, <1>2, <2>1, Together DEF Noted, Peers
<1> QED
  BY <1>2, ProcFacts DEF IInv, Kept, Booked

LEMMA OpenTmpIInv ==
  ASSUME IInv, NEW p \in Proc, OpenTmp(p)
  PROVE  IInv'
<1> DEFINE x == proc[p]
           y == proc'[p]
           r == <<p, appended + 1>>
<1>1. /\ x.pc \in {"first"} \cup Serving /\ x.post = "none"
      /\ appended < MaxRecords /\ appended' = appended + 1 /\ tmp' = Empty
      /\ UNCHANGED <<files, saved, posted, met, kills>>
  BY DEF OpenTmp
<1>2. /\ proc \in [Proc -> Process] /\ x \in Process /\ x.pc \in Booked
      /\ \A q \in Proc : q # p /\ proc[q].pc \in Booked => p \in met /\ q \in met
      /\ Appends /\ Readable /\ Records /\ TypeOK
  BY <1>1, Appending
<1>3. /\ proc' = [proc EXCEPT ![p] =
                    [x EXCEPT !.mem = @ \cup {r}, !.new = {r}, !.post = "open"]]
      /\ y = [x EXCEPT !.mem = @ \cup {r}, !.new = {r}, !.post = "open"]
      /\ \A q \in Proc : q # p => proc'[q] = proc[q]
  <2>1. proc' = [proc EXCEPT ![p] =
                   [x EXCEPT !.mem = @ \cup {r}, !.new = {r}, !.post = "open"]]
    BY DEF OpenTmp
  <2> QED
    BY <1>2, <2>1
<1>4. /\ y.pc = x.pc /\ y.role = x.role /\ y.accepts = x.accepts /\ y.id = x.id
      /\ y.made = x.made /\ y.cut = x.cut /\ y.at = x.at /\ y.saw = x.saw
      /\ y.mem = x.mem \cup {r} /\ y.new = {r} /\ y.post = "open"
  BY <1>2, <1>3 DEF Process
<1>5. r \in Record /\ appended' \in 0..MaxRecords
  BY <1>1, <1>2, DirAssumption DEF TypeOK, Record
<1>6. TypeOK'
  <2>1. y \in Process
    <3> HIDE DEF r
    <3> QED
      BY <1>2, <1>3, <1>5 DEF Process, Posting
  <2>2. proc' \in [Proc -> Process]
    BY <1>2, <1>3, <2>1
  <2> QED
    BY <1>1, <1>2, <1>5, <2>2 DEF TypeOK, Process, files
<1>7. Appends'
  <2>1. ASSUME NEW q \in Proc, q # p, proc[q].post # "none"
        PROVE  q \in met
    BY <1>2, <2>1 DEF Appends, Booked
  <2> QED
    BY <1>1, <1>2, <1>3, <1>4, <2>1 DEF Appends
<1>8. Records'
  BY <1>1, <1>2, <1>3, <1>4 DEF Records, Empty
<1>9. Kept'
  BY <1>1, <1>2, <1>7, <1>8 DEF Kept, Readable
<1> QED
  BY <1>1, <1>3, <1>4, <1>6, <1>9, AppendStep DEF Only, Bare, Serving

LEMMA WriteTmpIInv ==
  ASSUME IInv, NEW p \in Proc, WriteTmp(p)
  PROVE  IInv'
<1> DEFINE x == proc[p]
           y == proc'[p]
<1>1. /\ x.post \in {"open", "moved", "gone"}
      /\ IF x.post = "open" THEN tmp' \in Overwritten(tmp, x.mem) ELSE tmp' = tmp
      /\ IF x.post = "moved" THEN saved' \in Overwritten(saved, x.mem) ELSE saved' = saved
      /\ UNCHANGED <<files, appended, posted, met, kills>>
  BY DEF WriteTmp
<1>2. x.pc \in {"first"} \cup Serving
  BY <1>1 DEF IInv, Kept, Appends
<1>3. /\ proc \in [Proc -> Process] /\ x \in Process /\ x.pc \in Booked
      /\ \A q \in Proc : q # p /\ proc[q].pc \in Booked => p \in met /\ q \in met
      /\ Appends /\ Readable /\ Records /\ TypeOK
  BY <1>2, Appending
<1>4. /\ proc' = [proc EXCEPT ![p].post = "written"]
      /\ \A q \in Proc : q # p => proc'[q] = proc[q]
      /\ y.pc = x.pc /\ y.role = x.role /\ y.accepts = x.accepts /\ y.id = x.id
      /\ y.made = x.made /\ y.cut = x.cut /\ y.at = x.at /\ y.saw = x.saw
      /\ y.mem = x.mem /\ y.new = x.new /\ y.post = "written"
  BY <1>3 DEF WriteTmp, Process
<1>5. p \notin met => x.post = "open" /\ tmp = Empty
  BY <1>1, <1>3 DEF Appends
<1>6. /\ tmp' \in {tmp, Whole(x.mem), Garbled}
      /\ saved' \in {saved, Whole(x.mem), Garbled}
      /\ p \notin met => tmp' = Whole(x.mem) /\ saved' = saved
  BY <1>1, <1>5 DEF Overwritten
<1>7. TypeOK'
  <2>1. proc' \in [Proc -> Process]
    BY <1>3, <1>4 DEF Process, Posting
  <2>2. x.mem \in SUBSET Record
    BY <1>3 DEF Process
  <2>3. \A file \in {saved', tmp'} :
          file \in {Absent, Empty, Garbled} \/ \E s \in SUBSET Record : file = Whole(s)
    BY <1>3, <1>6, <2>2 DEF TypeOK
  <2> QED
    BY <1>1, <1>3, <2>1, <2>3 DEF TypeOK, Process, files
<1>8. Appends'
  <2>1. ASSUME NEW q \in Proc, q # p, proc[q].post # "none"
        PROVE  q \in met
    BY <1>3, <2>1 DEF Appends, Booked
  <2> QED
    BY <1>1, <1>2, <1>3, <1>4, <1>6, <2>1 DEF Appends
<1>9. Readable'
  BY <1>1, <1>3, <1>6 DEF Readable
<1>10. Records'
  <2> SUFFICES ASSUME NEW r \in posted, r[1] \notin met
               PROVE  /\ saved' # Absent
                      /\ saved'.form = "whole" => r \in saved'.holds
                      /\ \A q \in Proc :
                           /\ proc'[q].pc \in Booked => r \in proc'[q].mem
                           /\ proc'[q].post # "none" /\ tmp'.form = "whole" => r \in tmp'.holds
    BY <1>1 DEF Records
  <2>1. /\ saved # Absent /\ (saved.form = "whole" => r \in saved.holds)
        /\ r \in x.mem
        /\ \A q \in Proc : proc[q].pc \in Booked => r \in proc[q].mem
    BY <1>3 DEF Records
  <2>2. saved' # Absent /\ (saved'.form = "whole" => r \in saved'.holds)
    BY <1>6, <2>1 DEF Whole, Garbled, Absent
  <2>3. ASSUME NEW q \in Proc, proc'[q].post # "none", tmp'.form = "whole"
        PROVE  r \in tmp'.holds
    <3>1. proc[q].post # "none"
      BY <1>1, <1>4, <2>3
    <3>2. CASE x.post = "open"
      BY <1>1, <2>1, <2>3, <3>2 DEF Overwritten, Whole, Garbled
    <3>3. CASE x.post # "open"
      BY <1>1, <1>3, <2>3, <3>1, <3>3 DEF Records
    <3> QED
      BY <3>2, <3>3
  <2> QED
    BY <1>4, <2>1, <2>2, <2>3
<1>11. Kept'
  BY <1>8, <1>9, <1>10 DEF Kept
<1> QED
  BY <1>1, <1>2, <1>4, <1>7, <1>11, AppendStep DEF Only, Bare, Serving

LEMMA ReplaceIInv ==
  ASSUME IInv, NEW p \in Proc, Replace(p)
  PROVE  IInv'
<1> DEFINE x == proc[p]
           y == proc'[p]
           pc == IF x.pc = "first" THEN "binding" ELSE x.pc
<1>1. /\ x.post = "written" /\ tmp # Absent /\ saved' = tmp /\ tmp' = Absent
      /\ posted' = posted \cup x.new
      /\ UNCHANGED <<files, appended, met, kills>>
  BY DEF Replace
<1>2. x.pc \in {"first"} \cup Serving
  BY <1>1 DEF IInv, Kept, Appends
<1>3. /\ proc \in [Proc -> Process] /\ x \in Process /\ x.pc \in Booked
      /\ \A q \in Proc : q # p /\ proc[q].pc \in Booked => p \in met /\ q \in met
      /\ Appends /\ Readable /\ Records /\ TypeOK
  BY <1>2, Appending
<1>4. /\ proc' = [q \in Proc |->
                    IF q = p THEN [x EXCEPT !.post = "none", !.new = {}, !.pc = pc]
                    ELSE [proc[q] EXCEPT !.post = Moved(@)]]
      /\ pc \in {"binding"} \cup Serving
  BY <1>2, <1>3 DEF Replace, Process
<1>5. /\ y.pc = pc /\ y.role = x.role /\ y.accepts = x.accepts /\ y.id = x.id
      /\ y.made = x.made /\ y.cut = x.cut /\ y.at = x.at /\ y.saw = x.saw
      /\ y.mem = x.mem /\ y.new = {} /\ y.post = "none"
      /\ y \in Process
  <2>1. y = [x EXCEPT !.post = "none", !.new = {}, !.pc = pc]
    BY <1>4
  <2>2. pc \in Pc
    BY <1>4 DEF Pc, Live, Starting
  <2> HIDE DEF pc
  <2> QED
    BY <1>3, <2>1, <2>2 DEF Process, Posting
<1>6. ASSUME NEW q \in Proc, q # p
      PROVE  /\ proc'[q].pc = proc[q].pc /\ Bare(q)
             /\ proc'[q].mem = proc[q].mem /\ proc'[q].new = proc[q].new
             /\ proc'[q].post = "none" <=> proc[q].post = "none"
             /\ proc'[q] \in Process
  <2>1. proc[q] \in Process /\ proc'[q] = [proc[q] EXCEPT !.post = Moved(@)]
    BY <1>3, <1>4, <1>6
  <2>2. /\ Moved(proc[q].post) \in Posting
        /\ Moved(proc[q].post) = "none" <=> proc[q].post = "none"
    BY <2>1 DEF Process, Posting, Moved
  <2> QED
    BY <2>1, <2>2 DEF Process, Bare
<1>7. x.new \subseteq Record
  BY <1>3 DEF Process
<1>8. TypeOK'
  <2>1. proc' \in [Proc -> Process]
    BY <1>4, <1>5, <1>6
  <2> QED
    BY <1>1, <1>3, <1>7, <2>1 DEF TypeOK, Process, files
<1>9. Appends'
  <2>1. ASSUME NEW q \in Proc, q # p, proc[q].post # "none"
        PROVE  q \in met
    BY <1>3, <2>1 DEF Appends, Booked
  <2> QED
    BY <1>1, <1>3, <1>5, <1>6, <2>1 DEF Appends
<1>10. p \notin met => saved' = Whole(x.mem)
  BY <1>1, <1>3 DEF Appends
<1>11. Readable'
  BY <1>1, <1>10 DEF Readable, Whole
<1>12. Records'
  <2> SUFFICES ASSUME NEW r \in posted', r[1] \notin met
               PROVE  /\ saved' # Absent
                      /\ saved'.form = "whole" => r \in saved'.holds
                      /\ \A q \in Proc : proc'[q].pc \in Booked => r \in proc'[q].mem
    BY <1>1 DEF Records, Absent
  <2>1. CASE r \in posted
    BY <1>1, <1>3, <1>5, <1>6, <2>1 DEF Records
  <2>2. CASE r \in x.new
    <3>1. r[1] = p /\ r \in x.mem
      BY <1>3, <2>2 DEF Appends
    <3>2. saved' = Whole(x.mem)
      BY <1>10, <3>1
    <3>3. \A q \in Proc : q # p => proc[q].pc \notin Booked
      BY <1>3, <3>1
    <3> QED
      BY <1>1, <1>5, <1>6, <3>1, <3>2, <3>3 DEF Whole
  <2> QED
    BY <1>1, <2>1, <2>2
<1>13. Kept'
  BY <1>9, <1>11, <1>12 DEF Kept
<1> QED
  <2>1. y.pc = x.pc \/ (x.pc = "first" /\ y.pc = "binding")
    BY <1>5
  <2>2. y.pc # "failed"
    BY <1>2, <2>1 DEF Serving
  <2>3. Only(p) /\ Bare(p)
    BY <1>5, <1>6 DEF Only, Bare
  <2> QED
    BY <1>1, <1>2, <1>8, <1>13, <2>1, <2>2, <2>3, AppendStep

LEMMA ReplaceFailsIInv ==
  ASSUME IInv, NEW p \in Proc, ReplaceFails(p)
  PROVE  IInv'
<1> DEFINE x == proc[p]
           y == proc'[p]
           pc == IF x.pc = "first" THEN "failed" ELSE x.pc
<1>1. x.post = "written" /\ tmp = Absent /\ UNCHANGED <<files, books, met, kills>>
  BY DEF ReplaceFails
<1>2. x.pc \in {"first"} \cup Serving
  BY <1>1 DEF IInv, Kept, Appends
<1>3. /\ proc \in [Proc -> Process] /\ x \in Process /\ x.pc \in Booked
      /\ Appends /\ TypeOK
  BY <1>2, Appending
<1>4. /\ proc' = [proc EXCEPT ![p] = [x EXCEPT !.post = "none", !.new = {}, !.pc = pc]]
      /\ pc \in {"failed"} \cup Serving
  <2>1. proc' = [proc EXCEPT ![p] = [x EXCEPT !.post = "none", !.new = {},
                                    !.pc = IF @ = "first" THEN "failed" ELSE @]]
    BY DEF ReplaceFails
  <2>2. [x EXCEPT !.post = "none", !.new = {}, !.pc = IF @ = "first" THEN "failed" ELSE @]
          = [x EXCEPT !.post = "none", !.new = {}, !.pc = pc]
    BY <1>3 DEF Process
  <2> QED
    BY <1>2, <2>1, <2>2
<1>5. /\ y.pc = pc /\ y.role = x.role /\ y.accepts = x.accepts /\ y.id = x.id
      /\ y.made = x.made /\ y.cut = x.cut /\ y.at = x.at /\ y.saw = x.saw
      /\ y.mem = x.mem /\ y.new = {} /\ y.post = "none"
      /\ y \in Process
      /\ \A q \in Proc : q # p => proc'[q] = proc[q]
  <2>1. y = [x EXCEPT !.post = "none", !.new = {}, !.pc = pc]
    BY <1>3, <1>4
  <2>2. pc \in Pc
    BY <1>4 DEF Pc, Live
  <2> HIDE DEF pc
  <2> QED
    BY <1>3, <1>4, <2>1, <2>2 DEF Process, Posting
\* Alone, p would find the file that it has written.
<1>6. p \in met
  BY <1>1, <1>3 DEF Appends, Whole, Absent
<1>7. TypeOK'
  <2>1. proc' \in [Proc -> Process]
    BY <1>3, <1>4, <1>5
  <2> QED
    BY <1>1, <1>3, <2>1 DEF TypeOK, Process, files, books
<1>8. Kept'
  <2>1. Appends /\ Readable /\ Records
    BY DEF IInv, Kept
  <2>2. y.pc \in Booked => x.pc \in Booked
    BY <1>3
  <2>3. Appends'
    BY <1>1, <1>5, <2>1 DEF Appends, books
  <2>4. Records'
    BY <1>1, <1>5, <2>1, <2>2 DEF Records, books
  <2> QED
    BY <1>1, <2>1, <2>3, <2>4 DEF Kept, Readable, books
<1> QED
  <2>1. y.pc = x.pc \/ (x.pc = "first" /\ y.pc = "failed")
    BY <1>5
  <2>2. Only(p) /\ Bare(p)
    BY <1>5 DEF Only, Bare
  <2> QED
    BY <1>1, <1>2, <1>6, <1>7, <1>8, <2>1, <2>2, AppendStep

\* Peer.stop: one process ends, another may lose the file it has open.
LEMMA StopIInv ==
  ASSUME IInv, NEW p \in Proc, Stop(p)
  PROVE  IInv'
<1>1. /\ proc \in [Proc -> Process]
      /\ \A q \in Proc : proc[q] \in Process /\ Shape(proc[q])
      /\ TypeOK /\ Shapes /\ Overlap /\ NoKey /\ OneKey /\ EmptyKey
      /\ EmptyConfig /\ StartFailsForCause /\ Refusals /\ Kept /\ RuntimeIsTrue
      /\ Alone /\ Asked
  BY ProcFacts DEF IInv
<1>2. /\ UNCHANGED <<key, config, saved, tmp, appended, posted, met, kills>>
      /\ runtime' = "absent"
      /\ proc[p].pc = "up" /\ proc'[p].pc = "stopped"
  <2>1. proc[p].pc = "up" /\ ~At(p, "naming")
    BY DEF Stop, At, files, books
  <2>2. proc'[p] = Over(p, "stopped")
    BY <2>1 DEF Stop
  <2>3. proc'[p].pc = "stopped"
    BY <1>1, <2>2 DEF Over, Process
  <2> QED
    BY <2>1, <2>3 DEF Stop, books
<1>3. ASSUME NEW q \in Proc
      PROVE  /\ \/ q = p
                \/ q # p /\ proc[q].pc = "naming" /\ proc'[q].pc = "unnamed"
                \/ q # p /\ proc[q].pc # "naming" /\ proc'[q].pc = proc[q].pc
             /\ q # p => /\ proc'[q].mem = proc[q].mem /\ proc'[q].new = proc[q].new
                          /\ proc'[q].post = proc[q].post
             /\ q = p => proc'[q].post = "none" /\ proc'[q].new = {}
             /\ proc'[q].role = proc[q].role /\ proc'[q].accepts = proc[q].accepts
             /\ proc'[q].id = proc[q].id /\ proc'[q].made = proc[q].made
             /\ proc'[q].cut = proc[q].cut /\ proc'[q].at = proc[q].at
             /\ proc'[q].saw = proc[q].saw
             /\ proc'[q] \in Process
  <2>1. proc'[q] = CASE q = p           -> Over(p, "stopped")
                     [] At(q, "naming") -> [proc[q] EXCEPT !.pc = "unnamed"]
                     [] OTHER           -> proc[q]
    BY DEF Stop
  <2>2. proc[q] \in Process
    BY <1>1
  <2>3. CASE q = p
    <3>1. ~At(q, "naming")
      BY <1>2, <2>3 DEF At
    <3>2. proc'[q] = Over(p, "stopped")
      BY <2>1, <2>3, <3>1
    <3> QED
      BY <2>2, <2>3, <3>2, OverFacts DEF Pc
  <2>4. CASE q # p /\ At(q, "naming")
    BY <2>1, <2>2, <2>4 DEF Process, Pc, Live, Serving, At
  <2>5. CASE q # p /\ ~At(q, "naming")
    BY <2>1, <2>2, <2>5 DEF At
  <2> QED
    BY <2>3, <2>4, <2>5
<1>4. proc[p].role = "peer" /\ \A q \in Peers(Live) : q # p => p \in met /\ q \in met
  <2>1. proc[p].role = "peer" /\ proc[p].pc \in Live
    BY <1>2, ProcFacts DEF Shape, Ends, Live, Serving
  <2> QED
    BY <2>1, Together DEF Noted
<1>5. TypeOK'
  <2>1. proc' \in [Proc -> Process]
    BY <1>3 DEF Stop
  <2> QED
    BY <1>1, <1>2, <2>1 DEF TypeOK, Process
<1>6. Shapes'
  BY <1>1, <1>2, <1>3 DEF Shapes, Shape, Nameless, Named, Serving, Ends
<1>7. Overlap'
  <2>1. Peers(Live)' \subseteq Peers(Live)
    BY <1>2, <1>3 DEF Peers, Live, Serving, Starting
  <2> QED
    BY <1>1, <1>2, <2>1 DEF Overlap
<1>8. NoKey' /\ OneKey' /\ EmptyKey'
  <2>1. NoKey'
    BY <1>1, <1>2, <1>3, DirAssumption DEF NoKey, Named, Serving
  <2>2. TwoKeys => TwoKeys'
    BY <1>2, <1>3, TwoKeysStay
  <2>3. OneKey'
    BY <1>1, <1>2, <1>3, <2>2 DEF OneKey
  <2>4. EmptyKey'
    <3>1. CutIn({"keying"}) => CutIn({"keying"})'
      BY <1>3 DEF CutIn
    <3>2. ASSUME NEW q \in Proc, At(q, "keying") PROVE At(q, "keying")'
      BY <1>2, <1>3, <3>2 DEF At
    <3> QED
      BY <1>1, <1>2, <3>1, <3>2 DEF EmptyKey
  <2> QED
    BY <2>1, <2>3, <2>4
<1>9. EmptyConfig' /\ StartFailsForCause' /\ Refusals'
  <2>1. /\ CutIn({"storing"}) => CutIn({"storing"})'
        /\ CutIn({"storing", "keying"}) => CutIn({"storing", "keying"})'
    BY <1>3 DEF CutIn
  <2>2. \A q \in Proc : At(q, "storing")' <=> At(q, "storing")
    BY <1>2, <1>3 DEF At
  <2>3. EmptyConfig'
    BY <1>1, <1>2, <2>1, <2>2 DEF EmptyConfig
  <2>4. StartFailsForCause'
    <3>1. Peers({"failed"})' \subseteq Peers({"failed"})
      BY <1>2, <1>3 DEF Peers
    <3> QED
      BY <1>1, <1>2, <2>1, <3>1 DEF StartFailsForCause
  <2>5. Refusals'
    <3>1. /\ Peers(Past)' \subseteq Peers(Past)
          /\ Peers({"loaded", "storing"})' \subseteq Peers({"loaded", "storing"})
          /\ Peers(Past) \subseteq Proc /\ Peers({"loaded", "storing"}) \subseteq Proc
      BY <1>2, <1>3 DEF Peers, Past, Live, Serving, Starting
    <3>2. \A q \in Proc : /\ proc'[q].accepts = proc[q].accepts
                          /\ Refused(proc'[q]) => Refused(proc[q])
      BY <1>2, <1>3 DEF Refused
    <3> QED
      BY <1>1, <1>2, <3>1, <3>2 DEF Refusals
  <2> QED
    BY <2>3, <2>4, <2>5
<1>10. Kept'
  <2>1. \A q \in Proc : Steady(q) \/ Ended(q)
    BY <1>2, <1>3 DEF Steady, Ended, Booked, Serving
  <2> QED
    BY <1>2, <2>1, KeptStays
<1>11. RuntimeIsTrue' /\ Alone'
  <2>1. \A q \in Proc : q \in Peers(Live)' => q # p /\ q \in Peers(Live)
    BY <1>2, <1>3 DEF Peers, Live, Serving, Starting
  <2>2. Alone'
    BY <1>2, <1>4, <2>1 DEF Alone, Peers
  <2> QED
    BY <1>2, <2>2, DirAssumption DEF RuntimeIsTrue
<1>12. Asked'
  <2> SUFFICES ASSUME NEW c \in Proc, NEW q \in Proc, q \in proc[c].saw
               PROVE  /\ q \in Peers({"up", "stopped", "killed"})'
                      /\ proc[c].role = "command" /\ proc'[q].pc = "up" /\ q \notin met =>
                           /\ proc'[c].pc \in {"finding", "asking", "answered", "killed"}
                           /\ proc[c].at = q
                           /\ proc'[c].pc = "asking" => proc[c].id = proc[q].id
    BY <1>2, <1>3 DEF Asked, At
  <2>1. q \in Peers({"up", "stopped", "killed"})'
    BY <1>1, <1>2, <1>3 DEF Asked, Peers
  <2>2. ASSUME proc[c].role = "command"
        PROVE  proc'[c].pc = proc[c].pc
    BY <1>1, <1>3, <1>4, <2>2 DEF Shape, Ends
  <2>3. proc'[q].pc = "up" => proc[q].pc = "up"
    BY <1>2, <1>3
  <2> QED
    BY <1>1, <2>1, <2>2, <2>3 DEF Asked, At
<1> QED
  BY <1>5, <1>6, <1>7, <1>8, <1>9, <1>10, <1>11, <1>12 DEF IInv

-----------------------------------------------------------------------------
(* New processes.                                                          *)

LEMMA StartIInv ==
  ASSUME IInv, NEW p \in Proc, Start(p)
  PROVE  IInv'
<1> DEFINE x == proc[p]
           y == proc'[p]
<1>1. /\ proc \in [Proc -> Process] /\ x \in Process
      /\ Shape(x) /\ x.role \in {"peer", "command"}
      /\ TypeOK /\ Shapes /\ Overlap /\ NoKey /\ OneKey /\ EmptyKey
      /\ EmptyConfig /\ StartFailsForCause /\ Refusals /\ Kept /\ RuntimeIsTrue
      /\ Alone /\ Asked
  BY ProcFacts DEF IInv
<1>2. /\ UNCHANGED <<key, config, runtime, saved, tmp, appended, posted, kills>>
      /\ met' = IF Peers(Live) = {} THEN met ELSE met \cup Peers(Live) \cup {p}
      /\ \A q \in Proc : q # p => proc'[q] = proc[q]
      /\ x.pc = "none" /\ y.pc = "loading"
      /\ y.role = x.role /\ y.accepts = x.accepts /\ y.id = x.id /\ y.made = x.made
      /\ y.mem = x.mem /\ y.post = x.post /\ y.new = x.new
      /\ y.cut = x.cut /\ y.at = x.at /\ y.saw = x.saw
  BY <1>1 DEF Start, At, Goes, Process, files, books
<1>3. /\ x.role = "peer" /\ x.accepts /\ x.id = NoProc
      /\ met \subseteq met'
      /\ \A q \in Peers(Live) : p \in met' /\ q \in met'
  BY <1>1, <1>2 DEF Shape, Nameless
<1>4. TypeOK'
  <2>1. proc' \in [Proc -> Process]
    BY <1>1 DEF Start, Goes, Process, Pc, Live, Starting
  <2>2. met' \subseteq Proc
    BY <1>1, <1>2 DEF TypeOK, Peers
  <2> QED
    BY <1>1, <1>2, <2>1, <2>2 DEF TypeOK, Process
<1>5. Shapes' /\ Overlap'
  <2>1. Shapes'
    <3>1. Shape(y)
      BY <1>1, <1>2, <1>3 DEF Shape, Nameless, Named, Serving
    <3> QED
      BY <1>1, <1>2, <3>1 DEF Shapes
  <2>2. ASSUME NEW a \in Peers(Live)', NEW b \in Peers(Live)', a # b
        PROVE  a \in met'
    BY <1>1, <1>2, <1>3, <2>2 DEF Overlap, Peers
  <2> QED
    BY <2>1, <2>2 DEF Overlap
<1>6. NoKey' /\ OneKey' /\ EmptyKey'
  BY <1>1, <1>2, <1>3, KeysStay DEF Only, Bare, NoKey, Named, Serving
<1>7. EmptyConfig' /\ StartFailsForCause' /\ Refusals'
  BY <1>1, <1>2, <1>3, ConfigStays DEF Only, Bare, Past, Live, Starting
<1>8. Kept'
  BY <1>1, <1>2, <1>3, KeptStays DEF Steady, Booked, Live, Serving, Starting
<1>9. RuntimeIsTrue' /\ Alone'
  BY <1>1, <1>2, <1>3 DEF RuntimeIsTrue, Alone, At, Peers, Live, Serving, Starting
<1>10. Asked'
  BY <1>1, <1>2, <1>3 DEF Asked, At, Peers
<1> QED
  BY <1>1, <1>2, <1>4, <1>5, <1>6, <1>7, <1>8, <1>9, <1>10 DEF IInv

LEMMA CommandIInv ==
  ASSUME IInv, NEW p \in Proc, Command(p)
  PROVE  IInv'
<1> DEFINE x == proc[p]
           y == proc'[p]
<1>1. /\ proc \in [Proc -> Process] /\ x \in Process
      /\ Shape(x) /\ x.role \in {"peer", "command"}
      /\ TypeOK /\ Shapes /\ Overlap /\ NoKey /\ OneKey /\ EmptyKey
      /\ EmptyConfig /\ StartFailsForCause /\ Refusals /\ Kept /\ RuntimeIsTrue
      /\ Alone /\ Asked
  BY ProcFacts DEF IInv
<1>2. /\ UNCHANGED <<key, config, runtime, saved, tmp, appended, posted, met, kills>>
      /\ \A q \in Proc : q # p => proc'[q] = proc[q]
      /\ x.pc = "none" /\ y.role = "command" /\ y.saw = Peers({"up"})
      /\ IF runtime \in Proc THEN y.at = runtime /\ y.pc = "finding"
         ELSE y.at = NoProc /\ y.pc = "failed"
      /\ y.accepts = x.accepts /\ y.id = x.id /\ y.made = x.made
      /\ y.mem = x.mem /\ y.post = x.post /\ y.new = x.new
      /\ y.cut = x.cut
  BY <1>1 DEF Command, At, Process, files, books
<1>3. x.role = "peer" /\ x.accepts /\ x.id = NoProc
  BY <1>1, <1>2 DEF Shape, Nameless
<1>4. TypeOK'
  <2>1. Peers({"up"}) \subseteq Proc
    BY DEF Peers
  <2>2. y \in Process
    <3> DEFINE z(at, pc) == [x EXCEPT !.role = "command", !.saw = Peers({"up"}),
                                      !.at = at, !.pc = pc]
    <3>1. ASSUME NEW at \in Proc \cup {NoProc}, NEW pc \in {"finding", "failed"}
          PROVE  z(at, pc) \in Process
      BY <1>1, <2>1 DEF Process, Pc, Live, Starting
    <3> HIDE DEF z
    <3>2. CASE runtime \in Proc
      <4>1. y = z(runtime, "finding")
        BY <1>1, <3>2 DEF Command, z
      <4> QED
        BY <3>1, <3>2, <4>1
    <3>3. CASE runtime \notin Proc
      <4>1. y = z(NoProc, "failed")
        BY <1>1, <3>3 DEF Command, z
      <4> QED
        BY <3>1, <4>1
    <3> QED
      BY <3>2, <3>3
  <2>3. proc' \in [Proc -> Process]
    BY <1>1, <1>2, <2>2 DEF Command
  <2> QED
    BY <1>1, <1>2, <2>3 DEF TypeOK, Process
<1>5. Shapes' /\ Overlap'
  BY <1>1, <1>2, <1>3
  DEF Shapes, Shape, Overlap, Peers, Live, Serving, Starting, Nameless, Named, Ends
<1>6. NoKey' /\ OneKey' /\ EmptyKey'
  <2>1. NoKey'
    BY <1>1, <1>2, <1>3 DEF NoKey, Named, Serving
  <2>2. TwoKeys => TwoKeys'
    BY <1>2, TwoKeysStay
  <2>3. OneKey'
    BY <1>1, <1>2, <2>2 DEF OneKey
  <2>4. EmptyKey'
    <3>1. CutIn({"keying"}) => CutIn({"keying"})'
      BY <1>2 DEF CutIn
    <3>2. ASSUME NEW q \in Proc, At(q, "keying") PROVE At(q, "keying")'
      BY <1>2, <3>2 DEF At
    <3> QED
      BY <1>1, <1>2, <3>1, <3>2 DEF EmptyKey
  <2> QED
    BY <2>1, <2>3, <2>4
<1>7. EmptyConfig' /\ StartFailsForCause' /\ Refusals'
  <2>1. y.role # "peer" /\ x.pc \notin {"loaded", "storing"} /\ y.pc \notin {"loaded", "storing"}
    BY <1>2
  <2> QED
    BY <1>2, <1>3, <2>1, ConfigStays DEF Only, Bare
<1>8. Kept'
  BY <1>1, <1>2, KeptStays DEF Steady, Booked, Live, Serving, Starting
<1>9. RuntimeIsTrue' /\ Alone'
  BY <1>1, <1>2 DEF RuntimeIsTrue, Alone, At, Peers, Live, Serving, Starting
<1>10. Asked'
  <2> SUFFICES ASSUME NEW c \in Proc, NEW q \in Proc, q \in proc'[c].saw
               PROVE  /\ q \in Peers({"up", "stopped", "killed"})'
                      /\ proc'[c].role = "command" /\ At(q, "up")' /\ q \notin met' =>
                           /\ proc'[c].pc \in {"finding", "asking", "answered", "killed"}
                           /\ proc'[c].at = q
                           /\ At(c, "asking")' => proc'[c].id = proc'[q].id
    BY DEF Asked
  <2>1. CASE c # p
    <3>1. q \in proc[c].saw /\ q \in Peers({"up", "stopped", "killed"}) /\ q # p
      BY <1>1, <1>2, <2>1 DEF Asked, Peers
    <3> QED
      BY <1>1, <1>2, <2>1, <3>1 DEF Asked, At, Peers
  <2>2. CASE c = p
    <3>1. proc[q].role = "peer" /\ proc[q].pc = "up" /\ q # p
      BY <1>2, <2>2 DEF Peers
    <3>2. q \notin met => runtime = q
      BY <1>1, <3>1 DEF Alone, At, Peers, Live, Serving
    <3> QED
      BY <1>2, <2>2, <3>1, <3>2 DEF At, Peers
  <2> QED
    BY <2>1, <2>2
<1> QED
  BY <1>1, <1>2, <1>4, <1>5, <1>6, <1>7, <1>8, <1>9, <1>10 DEF IInv

-----------------------------------------------------------------------------
(* The theorems.                                                           *)

LEMMA NextIInv ==
  ASSUME IInv, [Next]_vars
  PROVE  IInv'
<1>1. ASSUME NEW p \in Proc, Start(p) \/ Command(p) \/ Stop(p) \/ Kill(p)
      PROVE  IInv'
  BY <1>1, StartIInv, CommandIInv, StopIInv, KillIInv
<1>2. ASSUME NEW p \in Proc, Run(p)
      PROVE  IInv'
  <2>1. CASE LoadConfig(p) \/ TruncateConfig(p) \/ WriteConfig(p)
    BY <2>1, LoadConfigIInv, TruncateConfigIInv, WriteConfigIInv
  <2>2. CASE FindKey(p) \/ OpenKey(p) \/ WriteKey(p)
    BY <2>2, FindKeyIInv, OpenKeyIInv, WriteKeyIInv
  <2>3. CASE LoadLedger(p) \/ Bind(p)
    BY <2>3, LoadLedgerIInv, BindIInv
  <2>4. CASE TruncateRuntime(p) \/ WriteRuntime(p) \/ WriteUnlinked(p)
    BY <2>4, TruncateRuntimeIInv, WriteRuntimeIInv, WriteUnlinkedIInv
  <2>5. CASE Ask(p) \/ AskNobody(p)
    BY <2>5, AskIInv, AskNobodyIInv
  <2>6. CASE OpenTmp(p) \/ WriteTmp(p) \/ Replace(p) \/ ReplaceFails(p)
    BY <2>6, OpenTmpIInv, WriteTmpIInv, ReplaceIInv, ReplaceFailsIInv
  <2> QED
    BY <1>2, <2>1, <2>2, <2>3, <2>4, <2>5, <2>6 DEF Run
<1>3. CASE UNCHANGED vars
  BY <1>3
  DEF vars, IInv, TypeOK, Shapes, Shape, Overlap, NoKey, OneKey, TwoKeys, EmptyKey, EmptyConfig,
      StartFailsForCause, CutIn, Refusals, Refused, Kept, Appends, Readable, Records,
      RuntimeIsTrue, Alone, Asked, At, Peers, files, books
<1> QED
  BY <1>1, <1>2, <1>3 DEF Next

(* The invariant holds always.                                             *)
THEOREM DataDirInvariant == Spec => []IInv
<1>1. IInv /\ [Next]_vars => IInv'
  BY NextIInv
<1> QED
  BY <1>1, InitIInv, PTL DEF Spec

(* Every variable has its type, for any number of processes on the         *)
(* directory, of records and of kills (peer.py:40-66, identity.py:53-66).  *)
THEOREM DataDirTypeCorrect == Spec => []TypeOK
<1>1. IInv => TypeOK
  BY DEF IInv
<1> QED
  BY <1>1, DataDirInvariant, PTL

(* However many processes start on one directory, and wherever they are    *)
(* killed, they share the identity in the key file unless two of them made *)
(* a key at the same time (identity.py:53-66).                             *)
THEOREM OneIdentity == Spec => []IdentityIsShared
<1>1. IInv => IdentityIsShared
  <2> SUFFICES ASSUME IInv, NEW p \in Proc, proc[p].id \notin {NoProc, key}
               PROVE  TwoKeys
    BY DEF IdentityIsShared, TwoKeys
  <2> QED
    BY DEF IInv, OneKey
<1> QED
  BY <1>1, DataDirInvariant, PTL

(* A start that does not find what it can read was disturbed: two peers    *)
(* have run at the same time, or one was killed while it wrote             *)
(* config.json or its key in place.  A kill between the steps of an append *)
(* is no cause (peer.py:66, identity.py:63-64, ledger.py:76-78).           *)
THEOREM RestartsAreSafe == Spec => []StartFailsForCause
<1>1. IInv => StartFailsForCause
  BY DEF IInv
<1> QED
  BY <1>1, DataDirInvariant, PTL

(* runtime.json never names a peer that has stopped (peer.py:113, 130).    *)
THEOREM RuntimeNamesTheLiving == Spec => []RuntimeIsTrue
<1>1. IInv => RuntimeIsTrue
  BY DEF IInv
<1> QED
  BY <1>1, DataDirInvariant, PTL

(* A command reaches the peer that was up when it began and still is, if   *)
(* that one has run alone (cli.py:37-54, peer.py:343).                     *)
THEOREM CommandsAreAnswered == Spec => []AloneIsReachable
<1>1. IInv => AloneIsReachable
  <2> SUFFICES ASSUME IInv, NEW c \in Proc, proc[c].role = "command", proc[c].pc \in Ends,
                      NEW p \in (proc[c].saw \cap Peers({"up"})) \ met
               PROVE  proc[c].pc = "answered"
    BY DEF AloneIsReachable
  <2>1. p \in Proc /\ p \in proc[c].saw /\ At(p, "up") /\ p \notin met
    BY DEF Peers, At
  <2>2. proc[c].pc \in {"finding", "asking", "answered", "killed"}
    BY <2>1 DEF IInv, Asked
  <2> QED
    BY <2>2 DEF Ends
<1> QED
  BY <1>1, DataDirInvariant, PTL

(* A record whose append returned, in a process that has run alone, is in  *)
(* the file whenever that can be read, whatever starts and dies before and *)
(* after; and it can be read unless two processes have run at the same     *)
(* time (ledger.py:48-49, 74-78).                                          *)
THEOREM RecordsSurvive == Spec => []LostOnlyByOverlap
<1>1. IInv => LostOnlyByOverlap
  <2> SUFFICES ASSUME IInv, NEW r \in posted, r \notin saved.holds
               PROVE  IF saved.form = "whole" THEN r[1] \in met ELSE met # {}
    BY DEF LostOnlyByOverlap
  <2>1. TypeOK /\ Readable /\ Records
    BY DEF IInv, Kept
  <2>2. saved.form # "whole" => saved = Absent \/ saved.form \in {"empty", "garbled"}
    BY <2>1 DEF TypeOK, Absent, Empty, Garbled, Whole
  <2> QED
    BY <2>1, <2>2 DEF Readable, Records
<1> QED
  BY <1>1, DataDirInvariant, PTL

(* As long as no two peers run at the same time, one start that refuses    *)
(* tasks binds every later one (peer.py:58-66).                            *)
THEOREM RefusalPersists == Spec => []RefusalIsKept
<1>1. IInv => RefusalIsKept
  <2> SUFFICES ASSUME IInv, met = {}, NEW p \in Proc, NEW q \in Proc,
                      ~proc[q].accepts, q \notin Peers({"loaded", "storing"}),
                      proc[q].cut \notin {"loaded", "storing"}, p \in Peers(Serving)
               PROVE  config = "refuses" /\ ~proc[p].accepts
    BY DEF RefusalIsKept
  <2>1. Refused(proc[q])
    BY DEF Refused, Peers
  <2>2. p \in Peers(Past)
    BY DEF Peers, Past, Live, Serving
  <2>3. config \in {"refuses", "empty"}
    BY <2>1 DEF IInv, Refusals
  <2>4. config = IF proc[p].accepts THEN "accepts" ELSE "refuses"
    BY <2>2 DEF IInv, Refusals
  <2> QED
    BY <2>3, <2>4
<1> QED
  BY <1>1, DataDirInvariant, PTL
=============================================================================
