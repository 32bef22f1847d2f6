---------------------------- MODULE LedgerLemmas ----------------------------
(***************************************************************************)
(* Facts about records, balances and the guards of LedgerRecords when one  *)
(* record is appended.  The proofs about Ledger and Delegation rest on     *)
(* them.                                                                   *)
(***************************************************************************)
EXTENDS LedgerRecords, FiniteSetTheorems, TLAPS

(* Every record that the operations write is a Record.                     *)
LEMMA RecordTypes ==
  /\ Opening \in Record
  /\ \A j \in Job : EscrowRecord(j) \in Record /\ RefundRecord(j) \in Record
  /\ \A j \in Job : \A p \in Peer :
       SettleRecord(j, p) \in Record /\ WorkRecord(j, p) \in Record
BY DEF Opening, EscrowRecord, RefundRecord, SettleRecord, WorkRecord,
       Transfer, Record, Kind, Account

(* Appending keeps the old records in place and adds one at the end.       *)
LEMMA AppendFacts ==
  ASSUME NEW rs \in Seq(Record), NEW r \in Record
  PROVE  /\ Append(rs, r) \in Seq(Record)
         /\ Append(rs, r) # <<>>
         /\ Len(rs) \in Nat
         /\ Len(rs) + 1 \notin DOMAIN rs
         /\ Len(Append(rs, r)) = Len(rs) + 1
         /\ DOMAIN Append(rs, r) = DOMAIN rs \cup {Len(rs) + 1}
         /\ \A i \in DOMAIN rs : Append(rs, r)[i] = rs[i]
         /\ Append(rs, r)[Len(rs) + 1] = r
OBVIOUS

(* Any set of positions in a sequence is finite.                           *)
LEMMA PositionsFinite ==
  ASSUME NEW rs \in Seq(Record), NEW S \in SUBSET DOMAIN rs
  PROVE  IsFiniteSet(S) /\ Cardinality(S) \in Nat
<1>1. Len(rs) \in Int /\ 1 \in Int /\ DOMAIN rs = 1..Len(rs)
  OBVIOUS
<1>2. IsFiniteSet(DOMAIN rs)
  BY <1>1, FS_Interval
<1> QED
  BY <1>2, FS_Subset, FS_CardinalityType

LEMMA CreditsDebitsTypes ==
  ASSUME NEW rs \in Seq(Record), NEW a, NEW kinds
  PROVE  /\ IsFiniteSet(Credits(rs, a, kinds))
         /\ IsFiniteSet(Debits(rs, a, kinds))
         /\ Cardinality(Credits(rs, a, kinds)) \in Nat
         /\ Cardinality(Debits(rs, a, kinds)) \in Nat
         /\ Net(rs, a, kinds) \in Int
<1>1. Credits(rs, a, kinds) \in SUBSET DOMAIN rs /\ Debits(rs, a, kinds) \in SUBSET DOMAIN rs
  BY DEF Credits, Debits
<1> QED
  BY <1>1, PositionsFinite DEF Net

(* A balance is an integer.                                                *)
LEMMA BalanceType ==
  ASSUME NEW rs \in Seq(Record), NEW a
  PROVE  Balance(rs, a) \in Int
BY CreditsDebitsTypes, LedgerAssumption DEF Balance, JobPrice

(* How one record moves the net count of an account.                       *)
LEMMA NetAppend ==
  ASSUME NEW rs \in Seq(Record), NEW r \in Record, NEW a, NEW kinds
  PROVE  Net(Append(rs, r), a, kinds) =
           Net(rs, a, kinds)
             + (IF r.kind \in kinds /\ r.to = a THEN 1 ELSE 0)
             - (IF r.kind \in kinds /\ r.from = a THEN 1 ELSE 0)
<1> DEFINE n == Len(rs) + 1
           C == Credits(rs, a, kinds)
           D == Debits(rs, a, kinds)
<1>1. n \notin C /\ n \notin D
  BY AppendFacts DEF Credits, Debits
<1>2. Credits(Append(rs, r), a, kinds) =
        IF r.kind \in kinds /\ r.to = a THEN C \cup {n} ELSE C
  BY AppendFacts DEF Credits
<1>3. Debits(Append(rs, r), a, kinds) =
        IF r.kind \in kinds /\ r.from = a THEN D \cup {n} ELSE D
  BY AppendFacts DEF Debits
<1>4. /\ IsFiniteSet(C) /\ Cardinality(C) \in Nat
      /\ IsFiniteSet(D) /\ Cardinality(D) \in Nat
  BY CreditsDebitsTypes
<1>5. Cardinality(C \cup {n}) = Cardinality(C) + 1
  BY <1>1, <1>4, FS_AddElement
<1>6. Cardinality(D \cup {n}) = Cardinality(D) + 1
  BY <1>1, <1>4, FS_AddElement
<1>7. Cardinality(Credits(Append(rs, r), a, kinds)) =
        Cardinality(C) + (IF r.kind \in kinds /\ r.to = a THEN 1 ELSE 0)
  BY <1>2, <1>4, <1>5
<1>8. Cardinality(Debits(Append(rs, r), a, kinds)) =
        Cardinality(D) + (IF r.kind \in kinds /\ r.from = a THEN 1 ELSE 0)
  BY <1>3, <1>4, <1>6
<1> HIDE DEF C, D, n
<1> QED
  BY <1>4, <1>7, <1>8 DEF Net, C, D

(* A record other than the opening one moves one credit.                   *)
LEMMA BalanceAppend ==
  ASSUME NEW rs \in Seq(Record), NEW r \in Record, r.kind # "opening", NEW a
  PROVE  Balance(Append(rs, r), a) =
           Balance(rs, a) + (IF r.to = a THEN 1 ELSE 0) - (IF r.from = a THEN 1 ELSE 0)
<1> DEFINE others == Kind \ {"opening"}
<1>1. r.kind \in others /\ r.kind \notin {"opening"}
  BY DEF Record
<1>2. Net(Append(rs, r), a, {"opening"}) = Net(rs, a, {"opening"})
  BY <1>1, NetAppend, CreditsDebitsTypes
<1>3. Net(Append(rs, r), a, others) =
        Net(rs, a, others) + (IF r.to = a THEN 1 ELSE 0) - (IF r.from = a THEN 1 ELSE 0)
  BY <1>1, NetAppend
<1>4. Net(rs, a, others) \in Int /\ OpeningBalance * Net(rs, a, {"opening"}) \in Int
  BY CreditsDebitsTypes, LedgerAssumption
<1> HIDE DEF others
<1>5. Balance(Append(rs, r), a) =
        OpeningBalance * Net(rs, a, {"opening"}) + Net(Append(rs, r), a, others)
  BY <1>2, <1>3, <1>4 DEF Balance, JobPrice, others
<1>6. Balance(rs, a) = OpeningBalance * Net(rs, a, {"opening"}) + Net(rs, a, others)
  BY <1>4 DEF Balance, JobPrice, others
<1> DEFINE base == OpeningBalance * Net(rs, a, {"opening"})
<1>7. base \in Int
  BY <1>4
<1>8. Balance(Append(rs, r), a) = base + Net(Append(rs, r), a, others)
  BY <1>5
<1>9. Balance(rs, a) = base + Net(rs, a, others)
  BY <1>6
<1> HIDE DEF base
<1> QED
  BY <1>3, <1>4, <1>7, <1>8, <1>9

(* A ledger without records has no credits; one with its opening record    *)
(* has the opening balance to spend and nothing in escrow.                 *)
LEMMA BalanceEmpty ==
  ASSUME NEW a
  PROVE  Balance(<<>>, a) = 0
<1>1. \A kinds : Credits(<<>>, a, kinds) = {} /\ Debits(<<>>, a, kinds) = {}
  BY DEF Credits, Debits
<1>2. Cardinality({}) = 0
  BY FS_EmptySet
<1>3. \A kinds : Net(<<>>, a, kinds) = 0
  <2> SUFFICES ASSUME NEW kinds
               PROVE  Net(<<>>, a, kinds) = 0
    OBVIOUS
  <2>1. /\ Cardinality(Credits(<<>>, a, kinds)) = 0
        /\ Cardinality(Debits(<<>>, a, kinds)) = 0
    BY <1>1, <1>2, Zenon
  <2> QED
    BY <2>1 DEF Net
<1> QED
  BY <1>3, LedgerAssumption DEF Balance, JobPrice

LEMMA BalanceOpening ==
  /\ Balance(<<Opening>>, "self") = OpeningBalance
  /\ Balance(<<Opening>>, "escrow") = 0
<1>1. /\ DOMAIN <<Opening>> = {1}
      /\ <<Opening>>[1].kind = "opening"
      /\ <<Opening>>[1].to = "self"
      /\ <<Opening>>[1].from = "genesis"
  BY DEF Opening, Transfer
<1>2. /\ Credits(<<Opening>>, "self", {"opening"}) = {1}
      /\ Debits(<<Opening>>, "self", {"opening"}) = {}
      /\ Credits(<<Opening>>, "escrow", {"opening"}) = {}
      /\ Debits(<<Opening>>, "escrow", {"opening"}) = {}
      /\ \A a : Credits(<<Opening>>, a, Kind \ {"opening"}) = {}
      /\ \A a : Debits(<<Opening>>, a, Kind \ {"opening"}) = {}
  BY <1>1 DEF Credits, Debits
<1>3. Cardinality({}) = 0 /\ Cardinality({1}) = 1
  BY FS_EmptySet, FS_Singleton
<1>4. /\ Net(<<Opening>>, "self", {"opening"}) = 1
      /\ Net(<<Opening>>, "escrow", {"opening"}) = 0
      /\ Net(<<Opening>>, "self", Kind \ {"opening"}) = 0
      /\ Net(<<Opening>>, "escrow", Kind \ {"opening"}) = 0
  BY <1>2, <1>3 DEF Net
<1> QED
  BY <1>4, LedgerAssumption DEF Balance, JobPrice
-----------------------------------------------------------------------------
(* Appending a record adds its kind to its job and to no other.            *)
LEMMA KindsAppend ==
  ASSUME NEW rs \in Seq(Record), NEW r \in Record, NEW j
  PROVE  KindsOf(Append(rs, r), j) =
           IF r.job = j THEN KindsOf(rs, j) \cup {r.kind} ELSE KindsOf(rs, j)
<1> DEFINE n == Len(rs) + 1
           at(s) == {k \in DOMAIN s : s[k].job = j}
<1>1. \A i \in at(rs) : i \in at(Append(rs, r)) /\ Append(rs, r)[i] = rs[i]
  BY AppendFacts
<1>2. \A i \in at(Append(rs, r)) :
        \/ i \in at(rs) /\ Append(rs, r)[i] = rs[i]
        \/ i = n /\ r.job = j
  BY AppendFacts
<1>3. r.job = j => n \in at(Append(rs, r))
  BY AppendFacts
<1>4. Append(rs, r)[n] = r
  BY AppendFacts
<1>5. \A x : x \in KindsOf(rs, j) <=> \E i \in at(rs) : x = rs[i].kind
  BY DEF KindsOf
<1>6. \A x : x \in KindsOf(Append(rs, r), j)
               <=> \E i \in at(Append(rs, r)) : x = Append(rs, r)[i].kind
  BY DEF KindsOf
<1> HIDE DEF at, n
<1>7. ASSUME NEW x, x \in KindsOf(Append(rs, r), j)
      PROVE  x \in KindsOf(rs, j) \/ (r.job = j /\ x = r.kind)
  <2>1. PICK i \in at(Append(rs, r)) : x = Append(rs, r)[i].kind
    BY <1>6, <1>7
  <2> QED
    BY <1>2, <1>4, <1>5, <2>1
<1>8. ASSUME NEW x, x \in KindsOf(rs, j)
      PROVE  x \in KindsOf(Append(rs, r), j)
  <2>1. PICK i \in at(rs) : x = rs[i].kind
    BY <1>5, <1>8
  <2> QED
    BY <1>1, <1>6, <2>1
<1>9. r.job = j => r.kind \in KindsOf(Append(rs, r), j)
  BY <1>3, <1>4, <1>6
<1> QED
  BY <1>7, <1>8, <1>9
=============================================================================
