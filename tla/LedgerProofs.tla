---------------------------- MODULE LedgerProofs ----------------------------
(***************************************************************************)
(* What holds of Ledger for every set of jobs and peers, every opening     *)
(* balance and every length of the ledger; and that it implements          *)
(* EscrowAccount.                                                          *)
(***************************************************************************)
EXTENDS Ledger, LedgerLemmas

USE DEF Phase

(* Where the copies of the records stand to each other: a process that     *)
(* runs has at least its opening record, what it has in memory continues   *)
(* what is in the file, and ledger.tmp, once written, is a complete copy.  *)
CopiesAgree ==
  /\ up => records # <<>> /\ Continues(records, disk)
  /\ ~up => records = <<>> /\ phase = "free"
  /\ phase = "written" => tmp = records

(* A job has at most one escrow record.                                    *)
EscrowedOnce(rs) ==
  \A i, k \in DOMAIN rs :
    rs[i].kind = "escrow" /\ rs[k].kind = "escrow" /\ rs[i].job = rs[k].job => i = k

(* The balances that records give.                                         *)
Sound(rs) ==
  /\ Balance(rs, "self") >= 0
  /\ EscrowedOnce(rs)
  /\ Balance(rs, "escrow") = JobPrice * Cardinality(OpenEntries(rs))

(* The inductive invariant.                                                *)
IInv ==
  /\ TypeOK
  /\ CopiesAgree
  /\ Sound(records) /\ Sound(disk)
  /\ ReturnedIsDurable

-----------------------------------------------------------------------------
(* Continuation of sequences.                                              *)

LEMMA NoRecords == <<>> \in Seq(Record)
OBVIOUS

LEMMA ContinuesReflexive ==
  ASSUME NEW rs \in Seq(Record)
  PROVE  Continues(rs, rs)
BY DEF Continues

LEMMA ContinuesAppend ==
  ASSUME NEW rs \in Seq(Record), NEW old \in Seq(Record), NEW r \in Record,
         Continues(rs, old)
  PROVE  Continues(Append(rs, r), old)
BY DEF Continues

LEMMA ContinuesEmpty ==
  ASSUME NEW rs \in Seq(Record)
  PROVE  Continues(rs, <<>>)
BY DEF Continues
-----------------------------------------------------------------------------
(* The open entries when a record is appended.                             *)

LEMMA OpenEntriesFinite ==
  ASSUME NEW rs \in Seq(Record)
  PROVE  IsFiniteSet(OpenEntries(rs)) /\ Cardinality(OpenEntries(rs)) \in Nat
<1>1. OpenEntries(rs) \in SUBSET DOMAIN rs
  BY DEF OpenEntries
<1> QED
  BY <1>1, PositionsFinite

LEMMA SoundEmpty == Sound(<<>>)
<1>1. OpenEntries(<<>>) = {}
  BY DEF OpenEntries
<1>2. Cardinality({}) = 0
  BY FS_EmptySet
<1>3. Balance(<<>>, "self") = 0 /\ Balance(<<>>, "escrow") = 0
  BY BalanceEmpty
<1>4. EscrowedOnce(<<>>)
  BY DEF EscrowedOnce
<1> QED
  BY <1>1, <1>2, <1>3, <1>4 DEF Sound, JobPrice

LEMMA SoundOpening == Sound(<<Opening>>)
<1>1. DOMAIN <<Opening>> = {1} /\ <<Opening>>[1].kind = "opening"
  BY DEF Opening, Transfer
<1>2. OpenEntries(<<Opening>>) = {}
  BY <1>1 DEF OpenEntries
<1>3. Cardinality({}) = 0
  BY FS_EmptySet
<1>4. EscrowedOnce(<<Opening>>)
  BY <1>1 DEF EscrowedOnce
<1> QED
  BY <1>2, <1>3, <1>4, BalanceOpening, LedgerAssumption DEF Sound, JobPrice

(* The positions of escrow records, and whether a job is open, after one   *)
(* more record.                                                            *)
LEMMA SoundEscrow ==
  ASSUME NEW rs \in Seq(Record), NEW j \in Job, Sound(rs), CanEscrow(rs, j)
  PROVE  Sound(Append(rs, EscrowRecord(j)))
<1> DEFINE r == EscrowRecord(j)
           new == Append(rs, r)
           n == Len(rs) + 1
<1>1. /\ r \in Record /\ r.kind = "escrow" /\ r.job = j
      /\ r.from = "self" /\ r.to = "escrow"
  BY RecordTypes DEF EscrowRecord, Transfer
<1>2. /\ DOMAIN new = DOMAIN rs \cup {n} /\ n \notin DOMAIN rs
      /\ new[n] = r /\ \A i \in DOMAIN rs : new[i] = rs[i]
  BY <1>1, AppendFacts
<1>3. \A i \in DOMAIN rs : rs[i].job # j
  BY DEF CanEscrow, KindsOf
<1>4. KindsOf(rs, j) = {}
  BY DEF CanEscrow
<1>5. \A k : KindsOf(new, k) = IF k = j THEN {"escrow"} ELSE KindsOf(rs, k)
  BY <1>1, <1>4, KindsAppend
<1> HIDE DEF r, new, n
<1>6. OpenEntries(new) = OpenEntries(rs) \cup {n}
  <2>1. ASSUME NEW i \in DOMAIN rs
        PROVE  i \in OpenEntries(new) <=> i \in OpenEntries(rs)
    BY <1>2, <1>3, <1>5 DEF OpenEntries, IsOpen
  <2>2. n \in OpenEntries(new)
    BY <1>1, <1>2, <1>5 DEF OpenEntries, IsOpen
  <2>3. OpenEntries(new) \subseteq DOMAIN rs \cup {n} /\ OpenEntries(rs) \subseteq DOMAIN rs
    BY <1>2 DEF OpenEntries
  <2> QED
    BY <2>1, <2>2, <2>3
<1>7. Cardinality(OpenEntries(new)) = Cardinality(OpenEntries(rs)) + 1
  <2>1. n \notin OpenEntries(rs)
    BY <1>2 DEF OpenEntries
  <2> QED
    BY <1>6, <2>1, OpenEntriesFinite, FS_AddElement
<1>8. /\ Balance(new, "self") = Balance(rs, "self") - 1
      /\ Balance(new, "escrow") = Balance(rs, "escrow") + 1
  BY <1>1, BalanceAppend, BalanceType DEF new, r
<1>9. EscrowedOnce(new)
  BY <1>1, <1>2, <1>3 DEF EscrowedOnce, Sound
<1>10. /\ Balance(rs, "self") \in Int /\ Balance(rs, "self") >= 1
       /\ Balance(rs, "escrow") \in Int
       /\ Cardinality(OpenEntries(rs)) \in Nat
  BY BalanceType, OpenEntriesFinite DEF CanEscrow, CanOffer, JobPrice
<1>11. Sound(new)
  BY <1>7, <1>8, <1>9, <1>10 DEF Sound, JobPrice
<1> QED
  BY <1>11 DEF new, r

(* Closing an open escrow, either way.                                     *)
LEMMA SoundClose ==
  ASSUME NEW rs \in Seq(Record), NEW j \in Job, Sound(rs), IsOpen(rs, j),
         NEW r \in Record, r.kind \in {"settle", "refund"}, r.job = j,
         r.from = "escrow", r.to # "escrow"
  PROVE  Sound(Append(rs, r))
<1> DEFINE new == Append(rs, r)
           n == Len(rs) + 1
<1>1. /\ DOMAIN new = DOMAIN rs \cup {n} /\ n \notin DOMAIN rs
      /\ new[n] = r /\ \A i \in DOMAIN rs : new[i] = rs[i]
  BY AppendFacts
<1>2. \A k : KindsOf(new, k) = IF k = j THEN KindsOf(rs, k) \cup {r.kind} ELSE KindsOf(rs, k)
  BY KindsAppend
<1>3. PICK e \in DOMAIN rs : rs[e].kind = "escrow" /\ rs[e].job = j
  BY DEF IsOpen, KindsOf
<1> HIDE DEF new, n
<1>4. e \in OpenEntries(rs)
  BY <1>3 DEF OpenEntries
<1>5. OpenEntries(new) = OpenEntries(rs) \ {e}
  <2>1. ASSUME NEW i \in DOMAIN rs, i # e
        PROVE  i \in OpenEntries(new) <=> i \in OpenEntries(rs)
    <3>1. rs[i].kind = "escrow" => rs[i].job # j
      BY <1>3, <2>1 DEF Sound, EscrowedOnce
    <3> QED
      BY <1>1, <1>2, <3>1 DEF OpenEntries, IsOpen
  <2>2. e \notin OpenEntries(new)
    BY <1>1, <1>2, <1>3 DEF OpenEntries, IsOpen
  <2>3. n \notin OpenEntries(new)
    BY <1>1 DEF OpenEntries
  <2>4. OpenEntries(new) \subseteq DOMAIN rs \cup {n} /\ OpenEntries(rs) \subseteq DOMAIN rs
    BY <1>1 DEF OpenEntries
  <2> QED
    BY <2>1, <2>2, <2>3, <2>4
<1>6. Cardinality(OpenEntries(new)) = Cardinality(OpenEntries(rs)) - 1
  <2>1. IsFiniteSet(OpenEntries(rs))
    BY OpenEntriesFinite
  <2>2. Cardinality(OpenEntries(rs) \ {e}) = Cardinality(OpenEntries(rs)) - 1
    BY <1>4, <2>1, FS_RemoveElement
  <2> QED
    BY <1>5, <2>2
<1>7. /\ Balance(new, "self") = Balance(rs, "self") + (IF r.to = "self" THEN 1 ELSE 0)
      /\ Balance(new, "escrow") = Balance(rs, "escrow") - 1
  BY BalanceAppend, BalanceType DEF new
<1>8. EscrowedOnce(new)
  BY <1>1 DEF EscrowedOnce, Sound
<1>9. /\ Balance(rs, "self") \in Int /\ Balance(rs, "escrow") \in Int
      /\ Cardinality(OpenEntries(rs)) \in Nat
  BY BalanceType, OpenEntriesFinite
<1>10. Sound(new)
  BY <1>6, <1>7, <1>8, <1>9 DEF Sound, JobPrice
<1> QED
  BY <1>10 DEF new

(* Earning a credit leaves the escrow account alone.                       *)
LEMMA SoundWork ==
  ASSUME NEW rs \in Seq(Record), NEW j \in Job, NEW p \in Peer, Sound(rs)
  PROVE  Sound(Append(rs, WorkRecord(j, p)))
<1> DEFINE r == WorkRecord(j, p)
           new == Append(rs, r)
           n == Len(rs) + 1
<1>1. /\ r \in Record /\ r.kind = "work" /\ r.job = j /\ r.from = p /\ r.to = "self"
      /\ p # "self" /\ p # "escrow"
  BY RecordTypes, LedgerAssumption DEF WorkRecord, Transfer
<1>2. /\ DOMAIN new = DOMAIN rs \cup {n} /\ n \notin DOMAIN rs
      /\ new[n] = r /\ \A i \in DOMAIN rs : new[i] = rs[i]
  BY <1>1, AppendFacts
<1>3. \A k : KindsOf(new, k) = IF k = j THEN KindsOf(rs, k) \cup {"work"} ELSE KindsOf(rs, k)
  BY <1>1, KindsAppend
<1> HIDE DEF r, new, n
<1>4. \A k : IsOpen(new, k) <=> IsOpen(rs, k)
  BY <1>3 DEF IsOpen
<1>5. OpenEntries(new) = OpenEntries(rs)
  BY <1>1, <1>2, <1>4 DEF OpenEntries
<1>6. /\ Balance(new, "self") = Balance(rs, "self") + 1
      /\ Balance(new, "escrow") = Balance(rs, "escrow")
  BY <1>1, BalanceAppend, BalanceType DEF new
<1>7. EscrowedOnce(new)
  BY <1>1, <1>2 DEF EscrowedOnce, Sound
<1>8. Balance(rs, "self") \in Int
  BY BalanceType
<1>9. Sound(new)
  BY <1>5, <1>6, <1>7, <1>8 DEF Sound
<1> QED
  BY <1>9 DEF new, r
-----------------------------------------------------------------------------
(* The invariant.                                                          *)

LEMMA InitIInv == Init => IInv
<1> SUFFICES ASSUME Init PROVE IInv
  OBVIOUS
<1>1. TypeOK
  BY NoRecords DEF Init, TypeOK
<1>2. CopiesAgree
  BY DEF Init, CopiesAgree
<1>3. Sound(records) /\ Sound(disk)
  BY SoundEmpty DEF Init
<1>4. ReturnedIsDurable
  BY DEF Init, ReturnedIsDurable
<1> QED
  BY <1>1, <1>2, <1>3, <1>4 DEF IInv

(* What every operation of the ledger does to the invariant, given that    *)
(* its record leaves the balances sound.                                   *)
LEMMA PostIInv ==
  ASSUME IInv, NEW r \in Record, Post(r), Sound(Append(records, r))
  PROVE  IInv'
<1> USE DEF IInv, Post
<1>1. TypeOK'
  BY AppendFacts DEF TypeOK
<1>2. CopiesAgree'
  BY AppendFacts, ContinuesAppend DEF TypeOK, CopiesAgree
<1>3. ReturnedIsDurable'
  BY DEF ReturnedIsDurable
<1> QED
  BY <1>1, <1>2, <1>3

LEMMA NextIInv == IInv /\ [Next]_vars => IInv'
<1> SUFFICES ASSUME IInv, [Next]_vars PROVE IInv'
  OBVIOUS
<1> USE DEF IInv
<1>1. CASE Open
  <2>1. CASE disk = <<>>
    <3>1. records' = <<Opening>> /\ <<Opening>> \in Seq(Record) /\ <<Opening>> # <<>>
      BY <1>1, <2>1, RecordTypes DEF Open
    <3>2. TypeOK'
      BY <1>1, <2>1, <3>1 DEF Open, TypeOK
    <3>3. CopiesAgree'
      BY <1>1, <2>1, <3>1, ContinuesEmpty DEF Open, CopiesAgree
    <3>4. Sound(records)' /\ Sound(disk)' /\ ReturnedIsDurable'
      BY <1>1, <3>1, SoundOpening DEF Open, ReturnedIsDurable
    <3> QED
      BY <3>2, <3>3, <3>4
  <2>2. CASE disk # <<>>
    <3>1. TypeOK'
      BY <1>1, <2>2 DEF Open, TypeOK
    <3>2. CopiesAgree'
      BY <1>1, <2>2, ContinuesReflexive DEF Open, CopiesAgree, TypeOK
    <3>3. Sound(records)' /\ Sound(disk)' /\ ReturnedIsDurable'
      BY <1>1, <2>2 DEF Open, ReturnedIsDurable
    <3> QED
      BY <3>1, <3>2, <3>3
  <2> QED
    BY <2>1, <2>2
<1>2. ASSUME NEW j \in Job, Escrow(j) PROVE IInv'
  <2>1. EscrowRecord(j) \in Record /\ records \in Seq(Record)
    BY RecordTypes DEF TypeOK
  <2> QED
    BY <1>2, <2>1, SoundEscrow, PostIInv DEF Escrow
<1>3. ASSUME NEW j \in Job, NEW p \in Peer, Settle(j, p) PROVE IInv'
  <2>1. SettleRecord(j, p) \in Record /\ records \in Seq(Record)
    BY RecordTypes DEF TypeOK
  <2>2. /\ SettleRecord(j, p).kind = "settle" /\ SettleRecord(j, p).job = j
        /\ SettleRecord(j, p).from = "escrow" /\ SettleRecord(j, p).to # "escrow"
    BY LedgerAssumption DEF SettleRecord, Transfer
  <2> QED
    BY <1>3, <2>1, <2>2, SoundClose, PostIInv DEF Settle
<1>4. ASSUME NEW j \in Job, Refund(j) PROVE IInv'
  <2>1. RefundRecord(j) \in Record /\ records \in Seq(Record)
    BY RecordTypes DEF TypeOK
  <2>2. /\ RefundRecord(j).kind = "refund" /\ RefundRecord(j).job = j
        /\ RefundRecord(j).from = "escrow" /\ RefundRecord(j).to # "escrow"
    BY DEF RefundRecord, Transfer
  <2> QED
    BY <1>4, <2>1, <2>2, SoundClose, PostIInv DEF Refund
<1>5. ASSUME NEW j \in Job, NEW p \in Peer, CreditForWork(j, p) PROVE IInv'
  <2>1. WorkRecord(j, p) \in Record /\ records \in Seq(Record)
    BY RecordTypes DEF TypeOK
  <2> QED
    BY <1>5, <2>1, SoundWork, PostIInv DEF CreditForWork
<1>6. CASE WriteTmp
  <2>1. TypeOK'
    BY <1>6 DEF WriteTmp, TypeOK
  <2>2. CopiesAgree'
    BY <1>6 DEF WriteTmp, CopiesAgree
  <2> QED
    BY <1>6, <2>1, <2>2 DEF WriteTmp, ReturnedIsDurable
<1>7. CASE Replace
  <2>1. /\ up /\ records # <<>> /\ records \in Seq(Record) /\ disk \in Seq(Record)
        /\ disk' = records /\ records' = records /\ Continues(records, disk)
    BY <1>7 DEF Replace, CopiesAgree, TypeOK
  <2>2. Len(records) \in DOMAIN records /\ records[Len(records)] \in Record
    BY <2>1
  <2>3. TypeOK'
    BY <1>7, <2>1, <2>2 DEF Replace, TypeOK
  <2>4. CopiesAgree'
    BY <1>7, <2>1, ContinuesReflexive DEF Replace, CopiesAgree
  <2>5. ReturnedIsDurable'
    <3> SUFFICES ASSUME NEW r \in returned'
                 PROVE  \E i \in DOMAIN records : records[i] = r
      BY <2>1 DEF ReturnedIsDurable
    <3>1. CASE r = records[Len(records)]
      BY <2>2, <3>1
    <3>2. CASE r \in returned
      <4>1. PICK i \in DOMAIN disk : disk[i] = r
        BY <3>2 DEF ReturnedIsDurable
      <4> QED
        BY <2>1, <4>1 DEF Continues
    <3> QED
      BY <1>7, <3>1, <3>2 DEF Replace
  <2> QED
    BY <2>1, <2>3, <2>4, <2>5
<1>8. CASE WriteFails
  <2>1. Sound(records)' /\ Sound(disk)' /\ ReturnedIsDurable'
    BY <1>8, SoundEmpty DEF WriteFails, ReturnedIsDurable
  <2>2. TypeOK'
    <3>1. tmp' \in {tmp, Torn} /\ records' \in {records, <<>>} /\ phase' = "free"
      BY <1>8 DEF WriteFails
    <3> QED
      BY <1>8, <3>1, NoRecords DEF WriteFails, TypeOK
  <2>3. CopiesAgree'
    BY <1>8 DEF WriteFails, CopiesAgree
  <2> QED
    BY <2>1, <2>2, <2>3
<1>9. CASE Crash
  <2>1. Sound(records)' /\ Sound(disk)' /\ ReturnedIsDurable'
    BY <1>9, SoundEmpty DEF Crash, ReturnedIsDurable
  <2>2. TypeOK'
    <3>1. tmp' \in {tmp, Torn} /\ records' \in {records, <<>>} /\ phase' = "free"
      BY <1>9 DEF Crash
    <3> QED
      BY <1>9, <3>1, NoRecords DEF Crash, TypeOK
  <2>3. CopiesAgree'
    BY <1>9 DEF Crash, CopiesAgree
  <2> QED
    BY <2>1, <2>2, <2>3
<1>10. CASE UNCHANGED vars
  BY <1>10 DEF vars, TypeOK, CopiesAgree, ReturnedIsDurable
<1> QED
  BY <1>1, <1>2, <1>3, <1>4, <1>5, <1>6, <1>7, <1>8, <1>9, <1>10 DEF Next

(* The conjuncts of the invariant always hold.                             *)
THEOREM LedgerInvariant == Spec => []IInv
BY InitIInv, NextIInv, PTL DEF Spec

(* Every variable always has its type; ledger.json can always be read.     *)
THEOREM LedgerTypeCorrect == Spec => []TypeOK
<1>1. IInv => TypeOK
  BY DEF IInv
<1> QED
  BY <1>1, LedgerInvariant, PTL

(* No sequence of calls, failures, crashes and reloads overdraws.          *)
THEOREM LedgerNeverOverdrawn == Spec => []SpendableNonNegative
<1>1. IInv => SpendableNonNegative
  BY DEF IInv, Sound, SpendableNonNegative
<1> QED
  BY <1>1, LedgerInvariant, PTL

(* What the escrow account holds is what the open jobs have set aside.     *)
THEOREM LedgerEscrowBacked == Spec => []EscrowBacked
<1>1. IInv => EscrowBacked
  BY DEF IInv, Sound, EscrowBacked
<1> QED
  BY <1>1, LedgerInvariant, PTL

(* The record of a call that returned is never lost.                       *)
THEOREM LedgerDurable == Spec => []ReturnedIsDurable
<1>1. IInv => ReturnedIsDurable
  BY DEF IInv
<1> QED
  BY <1>1, LedgerInvariant, PTL

(* The file only ever grows at its end.                                    *)
THEOREM LedgerAppendOnly == Spec => AppendOnly
<1>1. IInv /\ [Next]_vars => [Continues(disk', disk)]_vars
  <2> SUFFICES ASSUME IInv, Next
               PROVE  Continues(disk', disk)
    BY DEF vars
  <2>1. disk \in Seq(Record)
    BY DEF IInv, TypeOK
  <2>2. CASE Replace
    BY <2>2 DEF Replace, IInv, CopiesAgree
  <2>3. CASE disk' = disk
    BY <2>1, <2>3, ContinuesReflexive
  <2> QED
    BY <2>2, <2>3 DEF Next, Open, Escrow, Settle, Refund, CreditForWork, Post,
       WriteTmp, WriteFails, Crash
<1> QED
  BY <1>1, LedgerInvariant, PTL DEF Spec, AppendOnly

-----------------------------------------------------------------------------
(* The ledger implements the escrow account: seen through Promise's        *)
(* refinement mapping, every step of Ledger is a step of EscrowAccount or  *)
(* changes nothing.                                                        *)

Live == View(IF up THEN records ELSE disk)
Saved == View(disk)

-----------------------------------------------------------------------------
(* What the view shows of some records.                                    *)

LEMMA ViewFields ==
  ASSUME NEW rs
  PROVE  /\ View(rs).spendable =
              IF rs = <<>> THEN OpeningBalance ELSE Balance(rs, "self")
         /\ View(rs).escrow = [j \in Job |-> EscrowView(rs, j)]
         /\ \A j \in Job : View(rs).escrow[j] = EscrowView(rs, j)
         /\ View(rs).earned = {j \in Job : "work" \in KindsOf(rs, j)}
BY DEF View

LEMMA SpendableInt ==
  ASSUME NEW rs \in Seq(Record), rs # <<>>
  PROVE  View(rs).spendable = Balance(rs, "self") /\ View(rs).spendable \in Int
<1>1. View(rs).spendable = Balance(rs, "self")
  BY ViewFields
<1> QED
  BY <1>1, BalanceType

LEMMA ViewEqual ==
  ASSUME NEW rs, NEW spendable, NEW escrow, NEW earned,
         View(rs).spendable = spendable,
         View(rs).escrow = escrow,
         View(rs).earned = earned
  PROVE  View(rs) = [spendable |-> spendable, escrow |-> escrow, earned |-> earned]
BY DEF View

(* The view of no file and that of the opening record are the fresh        *)
(* account.                                                                *)
LEMMA ViewFresh ==
  /\ View(<<>>) = Promise!Fresh
  /\ View(<<Opening>>) = Promise!Fresh
<1>1. \A j \in Job : KindsOf(<<>>, j) = {}
  BY DEF KindsOf
<1>2. \A j \in Job : KindsOf(<<Opening>>, j) = {}
  BY LedgerAssumption DEF KindsOf, Opening, Transfer
<1>3. ASSUME NEW rs, \A j \in Job : KindsOf(rs, j) = {}
      PROVE  /\ View(rs).escrow = [j \in Job |-> "none"]
             /\ View(rs).earned = {}
  <2>1. \A j \in Job : EscrowView(rs, j) = "none"
    BY <1>3 DEF EscrowView
  <2>2. [j \in Job |-> EscrowView(rs, j)] = [j \in Job |-> "none"]
    BY <2>1, Zenon
  <2>3. {j \in Job : "work" \in KindsOf(rs, j)} = {}
    BY <1>3
  <2> QED
    BY <2>2, <2>3, ViewFields
<1>4. View(<<>>).spendable = OpeningBalance
  BY ViewFields
<1>5. View(<<Opening>>).spendable = OpeningBalance
  BY ViewFields, BalanceOpening
<1>6. View(<<>>) = Promise!Fresh
  BY <1>1, <1>3, <1>4, ViewEqual DEF Promise!Fresh
<1>7. View(<<Opening>>) = Promise!Fresh
  <2>1. /\ View(<<Opening>>).escrow = [j \in Job |-> "none"]
        /\ View(<<Opening>>).earned = {}
    BY <1>2, <1>3
  <2> QED
    BY <1>5, <2>1, ViewEqual, SMTT(20) DEF Promise!Fresh
<1> QED
  BY <1>6, <1>7

(* What one more record does to the view.                                  *)
LEMMA ViewAppend ==
  ASSUME NEW rs \in Seq(Record), rs # <<>>, NEW r \in Record, r.kind # "opening",
         NEW j \in Job, r.job = j
  PROVE  /\ View(Append(rs, r)).spendable = View(rs).spendable
              + (IF r.to = "self" THEN 1 ELSE 0) - (IF r.from = "self" THEN 1 ELSE 0)
         /\ \A k \in Job \ {j} : View(Append(rs, r)).escrow[k] = View(rs).escrow[k]
         /\ View(Append(rs, r)).escrow[j] = EscrowView(Append(rs, r), j)
         /\ View(Append(rs, r)).earned =
              IF r.kind = "work" THEN View(rs).earned \cup {j} ELSE View(rs).earned
<1> DEFINE new == Append(rs, r)
<1>1. new # <<>>
  BY AppendFacts
<1>2. \A k : KindsOf(new, k) = IF k = j THEN KindsOf(rs, k) \cup {r.kind} ELSE KindsOf(rs, k)
  BY KindsAppend
<1>3. Balance(new, "self") = Balance(rs, "self")
        + (IF r.to = "self" THEN 1 ELSE 0) - (IF r.from = "self" THEN 1 ELSE 0)
  BY BalanceAppend
<1> HIDE DEF new
<1>4. View(new).spendable = View(rs).spendable
        + (IF r.to = "self" THEN 1 ELSE 0) - (IF r.from = "self" THEN 1 ELSE 0)
  BY <1>1, <1>3, ViewFields
<1>5. \A k \in Job \ {j} : EscrowView(new, k) = EscrowView(rs, k)
  <2> SUFFICES ASSUME NEW k \in Job \ {j}
               PROVE  EscrowView(new, k) = EscrowView(rs, k)
    OBVIOUS
  <2>1. KindsOf(new, k) = KindsOf(rs, k)
    BY <1>2
  <2> QED
    BY <2>1 DEF EscrowView, IsOpen
<1>6. /\ \A k \in Job \ {j} : View(new).escrow[k] = View(rs).escrow[k]
      /\ View(new).escrow[j] = EscrowView(new, j)
  <2>1. \A k \in Job : View(new).escrow[k] = EscrowView(new, k)
    BY ViewFields
  <2>2. \A k \in Job : View(rs).escrow[k] = EscrowView(rs, k)
    BY ViewFields
  <2> QED
    BY <1>5, <2>1, <2>2
<1>7. View(new).earned =
        IF r.kind = "work" THEN View(rs).earned \cup {j} ELSE View(rs).earned
  <2>1. \A k \in Job : "work" \in KindsOf(new, k)
                        <=> "work" \in KindsOf(rs, k) \/ (k = j /\ r.kind = "work")
    BY <1>2
  <2>2. {k \in Job : "work" \in KindsOf(new, k)} =
          IF r.kind = "work" THEN {k \in Job : "work" \in KindsOf(rs, k)} \cup {j}
                             ELSE {k \in Job : "work" \in KindsOf(rs, k)}
    BY <2>1
  <2>3. /\ View(new).earned = {k \in Job : "work" \in KindsOf(new, k)}
        /\ View(rs).earned = {k \in Job : "work" \in KindsOf(rs, k)}
    BY ViewFields
  <2> QED
    BY <2>2, <2>3
<1> QED
  BY <1>4, <1>6, <1>7 DEF new

(* The escrow component after a change of one job.                         *)
LEMMA EscrowUpdate ==
  ASSUME NEW rs, NEW new, NEW j \in Job, NEW state,
         \A k \in Job \ {j} : View(new).escrow[k] = View(rs).escrow[k],
         View(new).escrow[j] = state
  PROVE  View(new).escrow = [View(rs).escrow EXCEPT ![j] = state]
<1> DEFINE f == View(new).escrow
           g == View(rs).escrow
<1>1. /\ f = [k \in Job |-> f[k]]
      /\ g = [k \in Job |-> g[k]]
  BY DEF View
<1>2. (\A k \in Job \ {j} : f[k] = g[k]) /\ f[j] = state
  OBVIOUS
<1> HIDE DEF f, g
<1>3. f = [g EXCEPT ![j] = state]
  BY <1>1, <1>2
<1> QED
  BY <1>3 DEF f, g

-----------------------------------------------------------------------------
(* The steps.                                                              *)

(* A step that appends r while the file stays as it is.                    *)
LEMMA PostView ==
  ASSUME IInv, NEW r \in Record, Post(r)
  PROVE  /\ Live = View(records) /\ Live' = View(Append(records, r))
         /\ Saved' = Saved
         /\ records \in Seq(Record) /\ records # <<>>
BY DEF Post, Live, Saved, IInv, TypeOK, CopiesAgree, View

LEMMA HoldStep ==
  ASSUME IInv, NEW j \in Job, Escrow(j)
  PROVE  Promise!Hold(j)
<1> DEFINE r == EscrowRecord(j)
           new == Append(records, r)
<1>1. /\ r \in Record /\ r.kind = "escrow" /\ r.job = j
      /\ r.from = "self" /\ r.to = "escrow"
  BY RecordTypes DEF EscrowRecord, Transfer
<1>2. /\ Live = View(records) /\ Live' = View(new) /\ Saved' = Saved
      /\ records \in Seq(Record) /\ records # <<>>
  BY <1>1, PostView DEF Escrow
<1>3. /\ Balance(records, "self") >= 1 /\ Balance(records, "self") \in Int
      /\ KindsOf(records, j) = {}
  BY <1>2, BalanceType DEF Escrow, CanEscrow, CanOffer, JobPrice
<1>4. KindsOf(new, j) = {"escrow"}
  BY <1>1, <1>2, <1>3, KindsAppend
<1>5. EscrowView(new, j) = "held"
  BY <1>4 DEF EscrowView, IsOpen
<1>6. /\ View(new).spendable = View(records).spendable - 1
      /\ \A k \in Job \ {j} : View(new).escrow[k] = View(records).escrow[k]
      /\ View(new).escrow[j] = "held"
      /\ View(new).earned = View(records).earned
  <2>1. View(records).spendable \in Int
    BY <1>2, SpendableInt
  <2> HIDE DEF r
  <2>3. /\ View(new).spendable = View(records).spendable
             + (IF r.to = "self" THEN 1 ELSE 0) - (IF r.from = "self" THEN 1 ELSE 0)
        /\ \A k \in Job \ {j} : View(new).escrow[k] = View(records).escrow[k]
        /\ View(new).escrow[j] = EscrowView(new, j)
        /\ View(new).earned =
             IF r.kind = "work" THEN View(records).earned \cup {j} ELSE View(records).earned
    BY <1>1, <1>2, ViewAppend
  <2> HIDE DEF new
  <2> QED
    BY <1>1, <1>5, <2>1, <2>3
<1>7. /\ View(records).spendable >= 1
      /\ View(records).escrow[j] = "none"
      /\ j \notin View(records).earned
  <2>1. View(records).spendable >= 1
    BY <1>2, <1>3, SpendableInt
  <2>2. EscrowView(records, j) = "none"
    BY <1>3 DEF EscrowView
  <2>3. View(records).escrow[j] = "none"
    BY <2>2, ViewFields
  <2>4. j \notin View(records).earned
    BY <1>3, ViewFields
  <2> QED
    BY <2>1, <2>3, <2>4
<1> HIDE DEF new, r
<1>8. View(new) = [View(records) EXCEPT !.spendable = @ - 1, !.escrow[j] = "held"]
  <2>1. View(new).escrow = [View(records).escrow EXCEPT ![j] = "held"]
    BY <1>6, EscrowUpdate
  <2> QED
    BY <1>6, <2>1 DEF View
<1> QED
  BY <1>2, <1>7, <1>8 DEF Promise!Hold, Live, Saved

LEMMA PayStep ==
  ASSUME IInv, NEW j \in Job, NEW p \in Peer, Settle(j, p)
  PROVE  Promise!Pay(j)
<1> DEFINE r == SettleRecord(j, p)
           new == Append(records, r)
<1>1. /\ r \in Record /\ r.kind = "settle" /\ r.job = j
      /\ r.from # "self" /\ r.to # "self"
  BY RecordTypes, LedgerAssumption DEF SettleRecord, Transfer
<1>2. /\ Live = View(records) /\ Live' = View(new) /\ Saved' = Saved
      /\ records \in Seq(Record) /\ records # <<>>
  BY <1>1, PostView DEF Settle
<1>3. IsOpen(records, j)
  BY DEF Settle
<1>4. KindsOf(new, j) = KindsOf(records, j) \cup {"settle"}
  BY <1>1, <1>2, KindsAppend
<1>5. EscrowView(new, j) = "paid" /\ EscrowView(records, j) = "held"
  BY <1>3, <1>4 DEF EscrowView, IsOpen
<1>6. /\ View(new).spendable = View(records).spendable
      /\ \A k \in Job \ {j} : View(new).escrow[k] = View(records).escrow[k]
      /\ View(new).escrow[j] = "paid"
      /\ View(new).earned = View(records).earned
  <2>1. View(records).spendable \in Int
    BY <1>2, SpendableInt
  <2> HIDE DEF r
  <2>3. /\ View(new).spendable = View(records).spendable
             + (IF r.to = "self" THEN 1 ELSE 0) - (IF r.from = "self" THEN 1 ELSE 0)
        /\ \A k \in Job \ {j} : View(new).escrow[k] = View(records).escrow[k]
        /\ View(new).escrow[j] = EscrowView(new, j)
        /\ View(new).earned =
             IF r.kind = "work" THEN View(records).earned \cup {j} ELSE View(records).earned
    BY <1>1, <1>2, ViewAppend
  <2> HIDE DEF new
  <2> QED
    BY <1>1, <1>5, <2>1, <2>3
<1>7. View(records).escrow[j] = "held"
  BY <1>5, ViewFields
<1> HIDE DEF new, r
<1>8. View(new) = [View(records) EXCEPT !.escrow[j] = "paid"]
  <2>1. View(new).escrow = [View(records).escrow EXCEPT ![j] = "paid"]
    BY <1>6, EscrowUpdate
  <2> QED
    BY <1>6, <2>1 DEF View
<1> QED
  BY <1>2, <1>7, <1>8 DEF Promise!Pay, Live, Saved

LEMMA ReturnStep ==
  ASSUME IInv, NEW j \in Job, Refund(j)
  PROVE  Promise!Return(j)
<1> DEFINE r == RefundRecord(j)
           new == Append(records, r)
<1>1. /\ r \in Record /\ r.kind = "refund" /\ r.job = j
      /\ r.from # "self" /\ r.to = "self"
  BY RecordTypes DEF RefundRecord, Transfer
<1>2. /\ Live = View(records) /\ Live' = View(new) /\ Saved' = Saved
      /\ records \in Seq(Record) /\ records # <<>>
  BY <1>1, PostView DEF Refund
<1>3. IsOpen(records, j)
  BY DEF Refund
<1>4. KindsOf(new, j) = KindsOf(records, j) \cup {"refund"}
  BY <1>1, <1>2, KindsAppend
<1>5. EscrowView(new, j) = "returned" /\ EscrowView(records, j) = "held"
  BY <1>3, <1>4 DEF EscrowView, IsOpen
<1>6. /\ View(new).spendable = View(records).spendable + 1
      /\ \A k \in Job \ {j} : View(new).escrow[k] = View(records).escrow[k]
      /\ View(new).escrow[j] = "returned"
      /\ View(new).earned = View(records).earned
  <2>1. View(records).spendable \in Int
    BY <1>2, SpendableInt
  <2> HIDE DEF r
  <2>3. /\ View(new).spendable = View(records).spendable
             + (IF r.to = "self" THEN 1 ELSE 0) - (IF r.from = "self" THEN 1 ELSE 0)
        /\ \A k \in Job \ {j} : View(new).escrow[k] = View(records).escrow[k]
        /\ View(new).escrow[j] = EscrowView(new, j)
        /\ View(new).earned =
             IF r.kind = "work" THEN View(records).earned \cup {j} ELSE View(records).earned
    BY <1>1, <1>2, ViewAppend
  <2> HIDE DEF new
  <2> QED
    BY <1>1, <1>5, <2>1, <2>3
<1>7. View(records).escrow[j] = "held"
  BY <1>5, ViewFields
<1> HIDE DEF new, r
<1>8. View(new) = [View(records) EXCEPT !.spendable = @ + 1, !.escrow[j] = "returned"]
  <2>1. View(new).escrow = [View(records).escrow EXCEPT ![j] = "returned"]
    BY <1>6, EscrowUpdate
  <2> QED
    BY <1>6, <2>1 DEF View
<1> QED
  BY <1>2, <1>7, <1>8 DEF Promise!Return, Live, Saved

LEMMA EarnStep ==
  ASSUME IInv, NEW j \in Job, NEW p \in Peer, CreditForWork(j, p)
  PROVE  Promise!Earn(j)
<1> DEFINE r == WorkRecord(j, p)
           new == Append(records, r)
<1>1. /\ r \in Record /\ r.kind = "work" /\ r.job = j
      /\ r.from # "self" /\ r.to = "self"
  BY RecordTypes, LedgerAssumption DEF WorkRecord, Transfer
<1>2. /\ Live = View(records) /\ Live' = View(new) /\ Saved' = Saved
      /\ records \in Seq(Record) /\ records # <<>>
  BY <1>1, PostView DEF CreditForWork
<1>3. KindsOf(new, j) = KindsOf(records, j) \cup {"work"}
  BY <1>1, <1>2, KindsAppend
<1>4. EscrowView(new, j) = EscrowView(records, j)
  BY <1>3 DEF EscrowView, IsOpen
<1>5. /\ View(new).spendable = View(records).spendable + 1
      /\ \A k \in Job \ {j} : View(new).escrow[k] = View(records).escrow[k]
      /\ View(new).escrow[j] = View(records).escrow[j]
      /\ View(new).earned = View(records).earned \cup {j}
  <2>1. View(records).spendable \in Int
    BY <1>2, SpendableInt
  <2>2. View(records).escrow[j] = EscrowView(records, j)
    BY ViewFields
  <2> HIDE DEF r
  <2>3. /\ View(new).spendable = View(records).spendable
             + (IF r.to = "self" THEN 1 ELSE 0) - (IF r.from = "self" THEN 1 ELSE 0)
        /\ \A k \in Job \ {j} : View(new).escrow[k] = View(records).escrow[k]
        /\ View(new).escrow[j] = EscrowView(new, j)
        /\ View(new).earned =
             IF r.kind = "work" THEN View(records).earned \cup {j} ELSE View(records).earned
    BY <1>1, <1>2, ViewAppend
  <2> HIDE DEF new
  <2> QED
    BY <1>1, <1>4, <2>1, <2>2, <2>3
<1>6. j \notin View(records).earned
  BY ViewFields DEF CreditForWork, CanCredit
<1> HIDE DEF new, r
<1>7. View(new) = [View(records) EXCEPT !.spendable = @ + 1, !.earned = @ \cup {j}]
  <2>1. View(new).escrow = [View(records).escrow EXCEPT ![j] = View(records).escrow[j]]
    BY <1>5, EscrowUpdate
  <2>2. View(new).escrow = View(records).escrow
    BY <2>1, ViewFields
  <2> QED
    BY <1>5, <2>2 DEF View
<1> QED
  BY <1>2, <1>6, <1>7 DEF Promise!Earn, Live, Saved

(* The initial states and the steps that append nothing.                   *)
LEMMA StepRefines == IInv /\ [Next]_vars => [Promise!Next]_(Promise!vars)
<1> SUFFICES ASSUME IInv, [Next]_vars
             PROVE  Promise!Next \/ (Live' = Live /\ Saved' = Saved)
  BY DEF Promise!vars, Live, Saved
<1> USE DEF Live, Saved
<1>1. CASE Open
  <2>1. ~up /\ up' /\ disk' = disk /\ records' = IF disk = <<>> THEN <<Opening>> ELSE disk
    BY <1>1 DEF Open
  <2>2. View(records') = View(disk)
    BY <2>1, ViewFresh
  <2> QED
    BY <2>1, <2>2 DEF View
<1>2. ASSUME NEW j \in Job, Escrow(j) PROVE Promise!Next
  BY <1>2, HoldStep DEF Promise!Next
<1>3. ASSUME NEW j \in Job, NEW p \in Peer, Settle(j, p) PROVE Promise!Next
  BY <1>3, PayStep DEF Promise!Next
<1>4. ASSUME NEW j \in Job, Refund(j) PROVE Promise!Next
  BY <1>4, ReturnStep DEF Promise!Next
<1>5. ASSUME NEW j \in Job, NEW p \in Peer, CreditForWork(j, p) PROVE Promise!Next
  BY <1>5, EarnStep DEF Promise!Next
<1>6. CASE WriteTmp
  BY <1>6 DEF WriteTmp, View
<1>7. CASE Replace
  <2>1. up /\ up' = up /\ records' = records /\ disk' = records
    BY <1>7 DEF Replace, IInv, CopiesAgree
  <2>2. Live' = Live /\ Saved' = Live
    BY <2>1 DEF View
  <2> QED
    BY <2>2 DEF Promise!Next, Promise!Save
<1>8. CASE WriteFails
  <2>1. up /\ disk' = disk /\ disk \in Seq(Record) /\ Continues(records, disk)
    BY <1>8 DEF WriteFails, IInv, CopiesAgree, TypeOK
  <2>2. CASE records = <<Opening>>
    <3>1. disk = <<>> \/ disk = <<Opening>>
      BY <2>1, <2>2 DEF Continues
    <3>2. up' = FALSE
      BY <1>8, <2>2 DEF WriteFails
    <3> QED
      BY <2>1, <2>2, <3>1, <3>2, ViewFresh DEF View
  <2>3. CASE records # <<Opening>>
    BY <1>8, <2>1, <2>3 DEF WriteFails, View
  <2> QED
    BY <2>2, <2>3
<1>9. CASE Crash
  <2>1. Live' = Saved /\ Saved' = Saved
    BY <1>9 DEF Crash, View
  <2> QED
    BY <2>1 DEF Promise!Next, Promise!Stop
<1>10. CASE UNCHANGED vars
  BY <1>10 DEF vars, View
<1> QED
  BY <1>1, <1>2, <1>3, <1>4, <1>5, <1>6, <1>7, <1>8, <1>9, <1>10 DEF Next

(* Scanning a list of records through failed writes, renames and crashes   *)
(* is, for its callers, an account with one escrow per job.                *)
THEOREM LedgerImplementsEscrowAccount == Spec => ImplementsEscrowAccount
<1>1. Init => Promise!Init
  BY ViewFresh DEF Init, Promise!Init
<1> QED
  BY <1>1, StepRefines, LedgerInvariant, PTL
  DEF Spec, ImplementsEscrowAccount, Promise!Spec
=============================================================================
