-------------------------- MODULE DelegationProofs --------------------------
(***************************************************************************)
(* What holds of Delegation for every set of jobs and peers, every opening *)
(* balance and every number of crashes.                                    *)
(***************************************************************************)
EXTENDS Delegation, LedgerLemmas

\* The positions of the records that close job j.
Closing(rs, j) ==
  {i \in DOMAIN rs : rs[i].job = j /\ rs[i].kind \in {"settle", "refund"}}

\* rs holds record r.
In(rs, r) == \E i \in DOMAIN rs : rs[i] = r

(* What the requester's records say of job j when delegate is at pc.       *)
Books(rs, j, pc, worker) ==
  /\ pc \in {"chosen", "refused"} => KindsOf(rs, j) = {}
  /\ pc \in Active => IsOpen(rs, j) /\ In(rs, EscrowRecord(j))
  /\ pc = "ok" =>
       \E i \in Closing(rs, j) : Closing(rs, j) = {i} /\ rs[i] = SettleRecord(j, worker)
  /\ pc \in {"rejected", "reported", "failed"} =>
       \E i \in Closing(rs, j) : Closing(rs, j) = {i} /\ rs[i] = RefundRecord(j)
  /\ pc \in {"raised", "lost"} => Closing(rs, j) = {}

\* No connection has been made for job j.
Early == {"idle", "chosen", "escrowed", "refused"}

(* Nobody knows a job before it is called.                                 *)
Unknown(j) ==
  req[j].pc = "idle" =>
    /\ req[j].me = NoPeer
    /\ \A p \in Peer : KindsOf(ledger[p], j) = {}

(* A call is between two peers, and its records say where it is.           *)
Called(j) ==
  req[j].pc # "idle" =>
    /\ req[j].me \in Peer
    /\ req[j].worker \in Peer
    /\ req[j].worker # req[j].me
    /\ Books(ledger[req[j].me], j, req[j].pc, req[j].worker)

(* Connections and messages come after the escrow.                         *)
Connected(j) ==
  /\ req[j].pc \in Early => srv[j].pc = "none" /\ out[j] = <<>>
  /\ srv[j].pc # "none" =>
       srv[j].at \in Peer /\ In(ledger[req[j].me], EscrowRecord(j))

(* Only the chosen worker gets an offer, or executes one.                  *)
Offered(j) ==
  \/ srv[j].pc \in {"executing", "crediting"}
  \/ \E i \in DOMAIN out[j] : out[j][i] = "TASK_OFFER"
  => srv[j].at = req[j].worker

JobInv(j) == Unknown(j) /\ Called(j) /\ Connected(j) /\ Offered(j)

(* The inductive invariant.                                                *)
IInv ==
  /\ TypeOK
  /\ NoOverdraft
  /\ \A j \in Job : JobInv(j)

-----------------------------------------------------------------------------
(* Records of a job when one record is appended.                           *)

LEMMA InAppend ==
  ASSUME NEW rs \in Seq(Record), NEW r \in Record, NEW s
  PROVE  In(Append(rs, r), s) <=> In(rs, s) \/ s = r
BY AppendFacts DEF In

(* A record of another job changes nothing for j.                          *)
LEMMA OtherRecord ==
  ASSUME NEW rs \in Seq(Record), NEW r \in Record, NEW j \in Job, r.job # j,
         NEW pc, NEW worker
  PROVE  /\ KindsOf(Append(rs, r), j) = KindsOf(rs, j)
         /\ Books(rs, j, pc, worker) => Books(Append(rs, r), j, pc, worker)
<1>1. KindsOf(Append(rs, r), j) = KindsOf(rs, j)
  BY KindsAppend
<1>2. IsOpen(Append(rs, r), j) <=> IsOpen(rs, j)
  BY <1>1 DEF IsOpen
<1>3. Closing(Append(rs, r), j) = Closing(rs, j)
  BY AppendFacts DEF Closing
<1>4. \A i \in Closing(rs, j) : Append(rs, r)[i] = rs[i]
  BY AppendFacts DEF Closing
<1>5. In(rs, EscrowRecord(j)) => In(Append(rs, r), EscrowRecord(j))
  BY InAppend
<1>6. ASSUME Books(rs, j, pc, worker)
      PROVE  Books(Append(rs, r), j, pc, worker)
  BY <1>1, <1>2, <1>3, <1>4, <1>5, <1>6 DEF Books
<1> QED
  BY <1>1, <1>6

(* An open job has no closing record, nor has one without records.         *)
LEMMA NothingClosed ==
  ASSUME NEW rs \in Seq(Record), NEW j \in Job,
         IsOpen(rs, j) \/ KindsOf(rs, j) = {}
  PROVE  Closing(rs, j) = {}
<1>1. \A i \in Closing(rs, j) : rs[i].kind \in KindsOf(rs, j) \cap {"settle", "refund"}
  BY DEF Closing, KindsOf
<1> QED
  BY <1>1 DEF IsOpen

LEMMA EscrowOpens ==
  ASSUME NEW rs \in Seq(Record), NEW j \in Job, KindsOf(rs, j) = {}
  PROVE  /\ IsOpen(Append(rs, EscrowRecord(j)), j)
         /\ In(Append(rs, EscrowRecord(j)), EscrowRecord(j))
<1>1. /\ EscrowRecord(j) \in Record
      /\ EscrowRecord(j).kind = "escrow" /\ EscrowRecord(j).job = j
  BY RecordTypes DEF EscrowRecord, Transfer
<1>2. KindsOf(Append(rs, EscrowRecord(j)), j) = {"escrow"}
  BY <1>1, KindsAppend
<1> QED
  BY <1>1, <1>2, InAppend DEF IsOpen
-----------------------------------------------------------------------------
(* The effect of a record on a ledger.                                     *)

(* A record is added to one ledger; the balance moves only by what it      *)
(* takes from or gives to the peer itself.                                 *)
LEMMA LedgerStep ==
  ASSUME TypeOK, NoOverdraft, NEW p \in Peer, NEW r \in Record, r.kind # "opening",
         r.from = "self" => r.to # "self" /\ Balance(ledger[p], "self") >= 1,
         Record1(p, r)
  PROVE  /\ ledger' \in [Peer -> Seq(Record)]
         /\ ledger'[p] = Append(ledger[p], r)
         /\ \A q \in Peer : q # p => ledger'[q] = ledger[q]
         /\ NoOverdraft'
<1>1. ledger \in [Peer -> Seq(Record)] /\ ledger[p] \in Seq(Record)
  BY DEF TypeOK
<1>2. ledger' = [ledger EXCEPT ![p] = Append(ledger[p], r)]
  BY DEF Record1
<1>3. Append(ledger[p], r) \in Seq(Record)
  BY <1>1, AppendFacts
<1>4. /\ ledger' \in [Peer -> Seq(Record)]
      /\ ledger'[p] = Append(ledger[p], r)
      /\ \A q \in Peer : q # p => ledger'[q] = ledger[q]
  BY <1>1, <1>2, <1>3
<1>5. /\ Balance(ledger[p], "self") \in Int
      /\ Balance(ledger[p], "self") >= 0
  BY <1>1, BalanceType DEF NoOverdraft
<1>6. Balance(Append(ledger[p], r), "self") =
        Balance(ledger[p], "self") + (IF r.to = "self" THEN 1 ELSE 0)
                                   - (IF r.from = "self" THEN 1 ELSE 0)
  BY <1>1, BalanceAppend
<1>7. Balance(Append(ledger[p], r), "self") >= 0
  BY <1>5, <1>6
<1>8. NoOverdraft'
  <2> SUFFICES ASSUME NEW q \in Peer PROVE Balance(ledger'[q], "self") >= 0
    BY DEF NoOverdraft
  <2> QED
    BY <1>4, <1>7 DEF NoOverdraft
<1> QED
  BY <1>4, <1>8

\* A step of job j leaves the threads and the offers of job k alone.
Apart(k) == req'[k] = req[k] /\ srv'[k] = srv[k] /\ out'[k] = out[k]

(* A step of one job that writes a record of that job, or none, keeps what *)
(* is said of the others.                                                  *)
LEMMA OtherJob ==
  ASSUME IInv, NEW k \in Job, Apart(k),
         \/ UNCHANGED ledger
         \/ \E p \in Peer : \E r \in Record :
              /\ r.job # k
              /\ ledger'[p] = Append(ledger[p], r)
              /\ \A q \in Peer : q # p => ledger'[q] = ledger[q]
  PROVE  JobInv(k)'
<1> USE DEF Apart
<1>1. JobInv(k) /\ ledger \in [Peer -> Seq(Record)]
  BY DEF IInv, TypeOK
<1>2. CASE UNCHANGED ledger
  BY <1>1, <1>2 DEF JobInv, Unknown, Called, Connected, Offered
<1>3. ASSUME NEW p \in Peer, NEW r \in Record, r.job # k,
             ledger'[p] = Append(ledger[p], r),
             \A q \in Peer : q # p => ledger'[q] = ledger[q]
      PROVE  JobInv(k)'
  <2>1. ASSUME NEW q \in Peer
        PROVE  /\ KindsOf(ledger'[q], k) = KindsOf(ledger[q], k)
               /\ \A pc, w : Books(ledger[q], k, pc, w) => Books(ledger'[q], k, pc, w)
               /\ In(ledger[q], EscrowRecord(k)) => In(ledger'[q], EscrowRecord(k))
    <3>1. CASE q # p
      BY <1>3, <3>1
    <3>2. CASE q = p
      <4>1. ledger[q] \in Seq(Record) /\ ledger'[q] = Append(ledger[q], r)
        BY <1>1, <1>3, <3>2
      <4>2. /\ KindsOf(Append(ledger[q], r), k) = KindsOf(ledger[q], k)
            /\ \A pc, w : Books(ledger[q], k, pc, w) => Books(Append(ledger[q], r), k, pc, w)
        BY <1>3, <4>1, OtherRecord
      <4>3. In(ledger[q], EscrowRecord(k)) => In(Append(ledger[q], r), EscrowRecord(k))
        BY <4>1, InAppend
      <4> QED
        BY <4>1, <4>2, <4>3
    <3> QED
      BY <3>1, <3>2
  <2>2. Unknown(k)'
    BY <1>1, <2>1 DEF JobInv, Unknown
  <2>3. Called(k)'
    BY <1>1, <2>1 DEF JobInv, Called
  <2>4. Connected(k)'
    <3>1. req[k].pc # "idle" \/ srv[k].pc = "none"
      BY <1>1 DEF JobInv, Connected, Early
    <3> QED
      BY <1>1, <2>1, <3>1 DEF JobInv, Connected, Called
  <2>5. Offered(k)'
    BY <1>1 DEF JobInv, Offered
  <2> QED
    BY <2>2, <2>3, <2>4, <2>5 DEF JobInv
<1> QED
  BY <1>2, <1>3
-----------------------------------------------------------------------------
(* The invariant holds at first.                                           *)

LEMMA InitIInv == Init => IInv
<1> SUFFICES ASSUME Init PROVE IInv
  OBVIOUS
<1>1. <<Opening>> \in Seq(Record)
  BY RecordTypes
<1>2. TypeOK
  BY <1>1, DelegationAssumption DEF Init, TypeOK, ReqPc, SrvPc
<1>3. NoOverdraft
  BY BalanceOpening, LedgerAssumption DEF Init, NoOverdraft
<1>4. \A j \in Job : KindsOf(<<Opening>>, j) = {}
  BY LedgerAssumption DEF KindsOf, Opening, Transfer
<1>5. \A j \in Job : JobInv(j)
  BY <1>4 DEF Init, JobInv, Unknown, Called, Connected, Offered, Early
<1> QED
  BY <1>2, <1>3, <1>5 DEF IInv

(* Sending adds one message; taking removes one and adds none.             *)
LEMMA SentFacts ==
  ASSUME NEW ch \in [Job -> Seq(Message)], NEW j \in Job, NEW m \in Message
  PROVE  /\ Sent(ch, j, m) \in [Job -> Seq(Message)]
         /\ \A k \in Job : k # j => Sent(ch, j, m)[k] = ch[k]
         /\ \A i \in DOMAIN Sent(ch, j, m)[j] :
              Sent(ch, j, m)[j][i] = m \/ \E n \in DOMAIN ch[j] : Sent(ch, j, m)[j][i] = ch[j][n]
<1>1. ch[j] \in Seq(Message) /\ Sent(ch, j, m) = [ch EXCEPT ![j] = Append(ch[j], m)]
  BY DEF Sent
<1>2. /\ Append(ch[j], m) \in Seq(Message)
      /\ \A i \in DOMAIN Append(ch[j], m) :
           Append(ch[j], m)[i] = m \/ \E n \in DOMAIN ch[j] : Append(ch[j], m)[i] = ch[j][n]
  BY <1>1
<1> QED
  BY <1>1, <1>2

LEMMA TakenFacts ==
  ASSUME NEW ch \in [Job -> Seq(Message)], NEW j \in Job, ch[j] # <<>>
  PROVE  /\ Taken(ch, j) \in [Job -> Seq(Message)]
         /\ \A k \in Job : k # j => Taken(ch, j)[k] = ch[k]
         /\ \A i \in DOMAIN Taken(ch, j)[j] :
              \E n \in DOMAIN ch[j] : Taken(ch, j)[j][i] = ch[j][n]
<1>1. ch[j] \in Seq(Message) /\ Taken(ch, j) = [ch EXCEPT ![j] = Tail(ch[j])]
  BY DEF Taken
<1>2. /\ Tail(ch[j]) \in Seq(Message)
      /\ Len(Tail(ch[j])) = Len(ch[j]) - 1
      /\ \A i \in 1..Len(Tail(ch[j])) : Tail(ch[j])[i] = ch[j][i + 1]
  BY <1>1
<1>3. \A i \in DOMAIN Tail(ch[j]) : i + 1 \in DOMAIN ch[j]
  BY <1>1, <1>2
<1> QED
  BY <1>1, <1>2, <1>3
-----------------------------------------------------------------------------
(* What the steps of a thread have in common.                              *)

LEMMA ReqFacts ==
  ASSUME TypeOK, NEW j \in Job, NEW pc \in ReqPc, ReqGoes(j, pc)
  PROVE  /\ req' \in [Job -> [pc : ReqPc, me : Peer \cup {NoPeer}, worker : Peer \cup {NoPeer}]]
         /\ req'[j].pc = pc /\ req'[j].me = req[j].me /\ req'[j].worker = req[j].worker
         /\ \A k \in Job : k # j => req'[k] = req[k]
BY DEF TypeOK, ReqGoes

LEMMA SrvFacts ==
  ASSUME TypeOK, NEW j \in Job, NEW pc \in SrvPc, SrvGoes(j, pc)
  PROVE  /\ srv' \in [Job -> [pc : SrvPc, at : Peer \cup {NoPeer}]]
         /\ srv'[j].pc = pc /\ srv'[j].at = srv[j].at
         /\ \A k \in Job : k # j => srv'[k] = srv[k]
BY DEF TypeOK, SrvGoes

(* A step of job j that writes no record.                                  *)
LEMMA QuietStep ==
  ASSUME IInv, NEW j \in Job, \A k \in Job : k # j => Apart(k), UNCHANGED ledger,
         TypeOK', JobInv(j)'
  PROVE  IInv'
<1>1. NoOverdraft'
  BY DEF IInv, NoOverdraft
<1>2. \A k \in Job : JobInv(k)'
  BY OtherJob
<1> QED
  BY <1>1, <1>2 DEF IInv

(* A step of job j that writes one.                                        *)
LEMMA RecordStep ==
  ASSUME IInv, NEW j \in Job, \A k \in Job : k # j => Apart(k),
         NEW p \in Peer, NEW r \in Record, r.job = j, r.kind # "opening", Record1(p, r),
         r.from = "self" => r.to # "self" /\ Balance(ledger[p], "self") >= 1,
         ledger' \in [Peer -> Seq(Record)] => TypeOK',
         /\ ledger'[p] = Append(ledger[p], r)
         /\ \A q \in Peer : q # p => ledger'[q] = ledger[q]
         => JobInv(j)'
  PROVE  IInv'
<1>1. /\ ledger' \in [Peer -> Seq(Record)]
      /\ ledger'[p] = Append(ledger[p], r)
      /\ \A q \in Peer : q # p => ledger'[q] = ledger[q]
      /\ NoOverdraft'
  BY LedgerStep DEF IInv
<1>2. \A k \in Job : k # j => JobInv(k)'
  BY <1>1, OtherJob
<1> QED
  BY <1>1, <1>2 DEF IInv

(* What is said of job j when its requester moves on, without a record,    *)
(* among the states in which the escrow is open.                           *)
LEMMA StaysActive ==
  ASSUME IInv, NEW j \in Job, req[j].pc \in Active, NEW pc \in Active,
         ReqGoes(j, pc), UNCHANGED ledger
  PROVE  Unknown(j)' /\ Called(j)'
<1>1. JobInv(j)
  BY DEF IInv
<1>2. req'[j].pc = pc /\ req'[j].me = req[j].me /\ req'[j].worker = req[j].worker
  BY ReqFacts DEF IInv, ReqPc
<1> QED
  BY <1>1, <1>2 DEF JobInv, Unknown, Called, Books, Active

(* Closing the escrow of job j.  It is open, so nothing raises.            *)
LEMMA CloseStep ==
  ASSUME IInv, NEW j \in Job, req[j].pc \in Active, NEW r, NEW outcome,
         \/ r = SettleRecord(j, req[j].worker) /\ outcome = "ok"
         \/ r = RefundRecord(j) /\ outcome \in {"rejected", "reported", "failed"},
         Close(j, r, outcome),
         UNCHANGED <<up, srv, out, crashes>>,
         in' = in \/ (in[j] # <<>> /\ in' = Taken(in, j))
  PROVE  IInv'
<1>1. JobInv(j) /\ TypeOK
  BY DEF IInv
<1>2. /\ req[j].pc # "idle" /\ req[j].me \in Peer /\ req[j].worker \in Peer
      /\ req[j].worker # req[j].me
      /\ IsOpen(ledger[req[j].me], j)
      /\ In(ledger[req[j].me], EscrowRecord(j))
  BY <1>1 DEF JobInv, Called, Books, Active
<1>3. Record1(req[j].me, r) /\ ReqGoes(j, outcome)
  BY <1>2 DEF Close
<1>4. /\ r \in Record /\ r.job = j /\ r.kind \in {"settle", "refund"} /\ r.from = "escrow"
  BY <1>2, RecordTypes DEF SettleRecord, RefundRecord, Transfer
<1>5. /\ req' \in [Job -> [pc : ReqPc, me : Peer \cup {NoPeer}, worker : Peer \cup {NoPeer}]]
      /\ req'[j].pc = outcome /\ req'[j].me = req[j].me /\ req'[j].worker = req[j].worker
      /\ \A k \in Job : k # j => req'[k] = req[k]
  <2>1. outcome \in ReqPc
    BY DEF ReqPc, Ended
  <2> QED
    BY <1>1, <1>3, <2>1, ReqFacts
<1>6. in' \in [Job -> Seq(Message)]
  <2>1. in \in [Job -> Seq(Message)]
    BY <1>1 DEF TypeOK
  <2> QED
    BY <2>1, TakenFacts
<1>7. ASSUME ledger' \in [Peer -> Seq(Record)] PROVE TypeOK'
  BY <1>1, <1>5, <1>6, <1>7 DEF TypeOK
<1>8. ASSUME ledger'[req[j].me] = Append(ledger[req[j].me], r)
      PROVE  JobInv(j)'
  <2>1. ledger[req[j].me] \in Seq(Record)
    BY <1>1, <1>2 DEF TypeOK
  <2>2. Books(Append(ledger[req[j].me], r), j, outcome, req[j].worker)
    <3>1. /\ Closing(Append(ledger[req[j].me], r), j) = {Len(ledger[req[j].me]) + 1}
          /\ Append(ledger[req[j].me], r)[Len(ledger[req[j].me]) + 1] = r
      <4>1. Closing(ledger[req[j].me], j) = {}
        BY <1>2, <2>1, NothingClosed
      <4> QED
        BY <1>4, <2>1, <4>1, AppendFacts DEF Closing
    <3>2. outcome \in {"ok", "rejected", "reported", "failed"}
      OBVIOUS
    <3> QED
      BY <3>1, <3>2 DEF Books, Active
  <2>3. Unknown(j)' /\ Called(j)'
    BY <1>2, <1>5, <1>8, <2>2 DEF Unknown, Called
  <2>4. Connected(j)'
    <3>1. In(Append(ledger[req[j].me], r), EscrowRecord(j))
      BY <1>2, <1>4, <2>1, InAppend
    <3>2. outcome \notin Early
      BY DEF Early
    <3> QED
      BY <1>1, <1>5, <1>8, <3>1, <3>2 DEF JobInv, Connected
  <2>5. Offered(j)'
    BY <1>1, <1>5 DEF JobInv, Offered
  <2> QED
    BY <2>3, <2>4, <2>5 DEF JobInv
<1>9. \A k \in Job : k # j => Apart(k)
  BY <1>5 DEF Apart
<1> QED
  BY <1>2, <1>3, <1>4, <1>7, <1>8, <1>9, RecordStep
-----------------------------------------------------------------------------
(* Every step preserves the invariant: the requester.                      *)

LEMMA CallIInv ==
  ASSUME IInv, NEW j \in Job, NEW me \in Peer, NEW worker \in Peer, Call(j, me, worker)
  PROVE  IInv'
<1> DEFINE pc == IF CanOffer(ledger[me]) THEN "chosen" ELSE "refused"
<1>1. JobInv(j) /\ TypeOK
  BY DEF IInv
<1>2. /\ req' = [req EXCEPT ![j] = [pc |-> pc, me |-> me, worker |-> worker]]
      /\ req[j].pc = "idle" /\ worker # me
      /\ UNCHANGED <<up, ledger, srv, out, in, crashes>>
  BY DEF Call
<1>3. pc \in {"chosen", "refused"} /\ pc \in ReqPc
  BY DEF ReqPc, Ended
<1> HIDE DEF pc
<1>4. /\ req' \in [Job -> [pc : ReqPc, me : Peer \cup {NoPeer}, worker : Peer \cup {NoPeer}]]
      /\ req'[j] = [pc |-> pc, me |-> me, worker |-> worker]
      /\ \A k \in Job : k # j => req'[k] = req[k]
  BY <1>1, <1>2, <1>3 DEF TypeOK
<1>5. TypeOK'
  BY <1>1, <1>2, <1>4 DEF TypeOK
<1>6. KindsOf(ledger[me], j) = {} /\ srv[j].pc = "none" /\ out[j] = <<>>
  BY <1>1, <1>2 DEF JobInv, Unknown, Connected, Early
<1>7. JobInv(j)'
  BY <1>2, <1>3, <1>4, <1>6
  DEF JobInv, Unknown, Called, Connected, Offered, Books, Active, Early
<1>8. \A k \in Job : k # j => Apart(k)
  BY <1>2, <1>4 DEF Apart
<1> QED
  BY <1>2, <1>5, <1>7, <1>8, QuietStep

LEMMA EscrowIInv ==
  ASSUME IInv, NEW j \in Job, Escrow(j)
  PROVE  IInv'
<1> DEFINE me == req[j].me
           r == EscrowRecord(j)
<1>1. JobInv(j) /\ TypeOK
  BY DEF IInv
<1>2. /\ req[j].pc = "chosen" /\ me \in Peer /\ req[j].worker \in Peer
      /\ req[j].worker # me /\ KindsOf(ledger[me], j) = {}
      /\ UNCHANGED <<up, srv, out, in, crashes>>
  BY <1>1 DEF Escrow, JobInv, Called, Books
<1>3. srv[j].pc = "none" /\ out[j] = <<>>
  BY <1>1, <1>2 DEF JobInv, Connected, Early
<1>4. ledger[me] \in Seq(Record)
  BY <1>1, <1>2 DEF TypeOK
<1>5. CASE CanEscrow(ledger[me], j)
  <2>1. Record1(me, r) /\ ReqGoes(j, "escrowed")
    BY <1>5 DEF Escrow
  <2>2. /\ req' \in [Job -> [pc : ReqPc, me : Peer \cup {NoPeer}, worker : Peer \cup {NoPeer}]]
        /\ req'[j].pc = "escrowed" /\ req'[j].me = me /\ req'[j].worker = req[j].worker
        /\ \A k \in Job : k # j => req'[k] = req[k]
    BY <1>1, <2>1, ReqFacts DEF ReqPc, Active
  <2>3. /\ r \in Record /\ r.job = j /\ r.kind = "escrow"
        /\ r.from = "self" /\ r.to = "escrow"
    BY RecordTypes DEF EscrowRecord, Transfer
  <2>4. Balance(ledger[me], "self") >= 1
    BY <1>5 DEF CanEscrow, CanOffer, JobPrice
  <2>5. IsOpen(Append(ledger[me], r), j) /\ In(Append(ledger[me], r), r)
    BY <1>2, <1>4, EscrowOpens
  <2>6. ASSUME ledger' \in [Peer -> Seq(Record)] PROVE TypeOK'
    BY <1>1, <1>2, <2>2, <2>6 DEF TypeOK
  <2>7. ASSUME ledger'[me] = Append(ledger[me], r) PROVE JobInv(j)'
    BY <1>2, <1>3, <2>2, <2>5, <2>7
    DEF JobInv, Unknown, Called, Connected, Offered, Books, Active, Early
  <2>8. \A k \in Job : k # j => Apart(k)
    BY <1>2, <2>2 DEF Apart
  <2> HIDE DEF me, r
  <2> QED
    BY <1>2, <2>1, <2>3, <2>4, <2>6, <2>7, <2>8, RecordStep
<1>6. CASE ~CanEscrow(ledger[me], j)
  <2>1. ReqGoes(j, "raised") /\ UNCHANGED ledger
    BY <1>6 DEF Escrow
  <2>2. /\ req' \in [Job -> [pc : ReqPc, me : Peer \cup {NoPeer}, worker : Peer \cup {NoPeer}]]
        /\ req'[j].pc = "raised" /\ req'[j].me = me /\ req'[j].worker = req[j].worker
        /\ \A k \in Job : k # j => req'[k] = req[k]
    BY <1>1, <2>1, ReqFacts DEF ReqPc, Ended
  <2>3. Closing(ledger[me], j) = {}
    BY <1>2, <1>4, NothingClosed
  <2>4. TypeOK'
    BY <1>1, <1>2, <2>1, <2>2 DEF TypeOK
  <2>5. JobInv(j)'
    BY <1>2, <1>3, <2>1, <2>2, <2>3
    DEF JobInv, Unknown, Called, Connected, Offered, Books, Active, Early
  <2>6. \A k \in Job : k # j => Apart(k)
    BY <1>2, <2>2 DEF Apart
  <2> QED
    BY <2>1, <2>4, <2>5, <2>6, QuietStep
<1> QED
  BY <1>5, <1>6

LEMMA ConnectIInv ==
  ASSUME IInv, NEW j \in Job, NEW at \in Peer, Connect(j, at)
  PROVE  IInv'
<1>1. JobInv(j) /\ TypeOK
  BY DEF IInv
<1>2. /\ req[j].pc = "escrowed" /\ ReqGoes(j, "connected")
      /\ srv' = [srv EXCEPT ![j] = [pc |-> "queued", at |-> at]]
      /\ UNCHANGED <<up, ledger, out, in, crashes>>
  BY DEF Connect
<1>3. out[j] = <<>> /\ In(ledger[req[j].me], EscrowRecord(j))
  BY <1>1, <1>2 DEF JobInv, Called, Books, Connected, Early, Active
<1>4. /\ req' \in [Job -> [pc : ReqPc, me : Peer \cup {NoPeer}, worker : Peer \cup {NoPeer}]]
      /\ req'[j].pc = "connected" /\ req'[j].me = req[j].me
      /\ \A k \in Job : k # j => req'[k] = req[k]
  BY <1>1, <1>2, ReqFacts DEF ReqPc, Active
<1>5. /\ srv' \in [Job -> [pc : SrvPc, at : Peer \cup {NoPeer}]]
      /\ srv'[j] = [pc |-> "queued", at |-> at]
      /\ \A k \in Job : k # j => srv'[k] = srv[k]
  BY <1>1, <1>2 DEF TypeOK, SrvPc
<1>6. TypeOK'
  BY <1>1, <1>2, <1>4, <1>5 DEF TypeOK
<1>7. Unknown(j)' /\ Called(j)'
  BY <1>2, StaysActive DEF Active
<1>8. Connected(j)' /\ Offered(j)'
  BY <1>2, <1>3, <1>4, <1>5 DEF Connected, Offered, Early
<1>9. \A k \in Job : k # j => Apart(k)
  BY <1>2, <1>4, <1>5 DEF Apart
<1> QED
  BY <1>2, <1>6, <1>7, <1>8, <1>9, QuietStep DEF JobInv

LEMMA NameLostIInv ==
  ASSUME IInv, NEW j \in Job, NameLost(j)
  PROVE  IInv'
<1>1. JobInv(j) /\ TypeOK
  BY DEF IInv
<1>2. /\ req[j].pc = "connected" /\ ReqGoes(j, "raised")
      /\ UNCHANGED <<up, ledger, srv, out, in, crashes>>
  BY DEF NameLost
<1>3. req[j].me \in Peer /\ IsOpen(ledger[req[j].me], j)
  BY <1>1, <1>2 DEF JobInv, Called, Books, Active
<1>4. Closing(ledger[req[j].me], j) = {}
  BY <1>1, <1>3, NothingClosed DEF TypeOK
<1>5. /\ req' \in [Job -> [pc : ReqPc, me : Peer \cup {NoPeer}, worker : Peer \cup {NoPeer}]]
      /\ req'[j].pc = "raised" /\ req'[j].me = req[j].me /\ req'[j].worker = req[j].worker
      /\ \A k \in Job : k # j => req'[k] = req[k]
  BY <1>1, <1>2, ReqFacts DEF ReqPc, Ended
<1>6. TypeOK'
  BY <1>1, <1>2, <1>5 DEF TypeOK
<1>7. JobInv(j)'
  BY <1>1, <1>2, <1>4, <1>5
  DEF JobInv, Unknown, Called, Connected, Offered, Books, Active, Early
<1>8. \A k \in Job : k # j => Apart(k)
  BY <1>2, <1>5 DEF Apart
<1> QED
  BY <1>2, <1>6, <1>7, <1>8, QuietStep

LEMMA GreetIInv ==
  ASSUME IInv, NEW j \in Job, Greet(j)
  PROVE  IInv'
<1>1. JobInv(j) /\ TypeOK
  BY DEF IInv
<1>2. /\ req[j].pc = "connected" /\ ReqGoes(j, "greeting")
      /\ out' = Sent(out, j, "HANDSHAKE")
      /\ UNCHANGED <<up, ledger, srv, in, crashes>>
  BY DEF Greet
<1>3. /\ req' \in [Job -> [pc : ReqPc, me : Peer \cup {NoPeer}, worker : Peer \cup {NoPeer}]]
      /\ req'[j].pc = "greeting" /\ req'[j].me = req[j].me /\ req'[j].worker = req[j].worker
      /\ \A k \in Job : k # j => req'[k] = req[k]
  BY <1>1, <1>2, ReqFacts DEF ReqPc, Active
<1>4. /\ out' \in [Job -> Seq(Message)]
      /\ \A k \in Job : k # j => out'[k] = out[k]
      /\ \A i \in DOMAIN out'[j] :
           out'[j][i] = "HANDSHAKE" \/ \E n \in DOMAIN out[j] : out'[j][i] = out[j][n]
  <2>1. out \in [Job -> Seq(Message)] /\ "HANDSHAKE" \in Message
    BY <1>1 DEF TypeOK, Message
  <2> QED
    BY <1>2, <2>1, SentFacts
<1>5. TypeOK'
  BY <1>1, <1>2, <1>3, <1>4 DEF TypeOK
<1>6. Unknown(j)' /\ Called(j)'
  BY <1>2, StaysActive DEF Active
<1>7. Connected(j)' /\ Offered(j)'
  BY <1>1, <1>2, <1>3, <1>4 DEF JobInv, Connected, Offered, Early
<1>8. \A k \in Job : k # j => Apart(k)
  BY <1>2, <1>3, <1>4 DEF Apart
<1> QED
  BY <1>2, <1>5, <1>6, <1>7, <1>8, QuietStep DEF JobInv

LEMMA OfferIInv ==
  ASSUME IInv, NEW j \in Job, Offer(j)
  PROVE  IInv'
<1>1. JobInv(j) /\ TypeOK
  BY DEF IInv
<1>2. /\ req[j].pc = "greeting" /\ ReqGoes(j, "offered")
      /\ in[j] # <<>> /\ in' = Taken(in, j) /\ out' = Sent(out, j, "TASK_OFFER")
      /\ srv[j].at = req[j].worker
      /\ UNCHANGED <<up, ledger, srv, crashes>>
  BY DEF Offer, Next1
<1>3. /\ req' \in [Job -> [pc : ReqPc, me : Peer \cup {NoPeer}, worker : Peer \cup {NoPeer}]]
      /\ req'[j].pc = "offered" /\ req'[j].me = req[j].me /\ req'[j].worker = req[j].worker
      /\ \A k \in Job : k # j => req'[k] = req[k]
  BY <1>1, <1>2, ReqFacts DEF ReqPc, Active
<1>4. /\ "TASK_OFFER" \in Message
      /\ out \in [Job -> Seq(Message)] /\ in \in [Job -> Seq(Message)]
  BY <1>1 DEF TypeOK, Message
<1>5. /\ out' \in [Job -> Seq(Message)]
      /\ \A k \in Job : k # j => out'[k] = out[k]
      /\ in' \in [Job -> Seq(Message)]
  <2>1. out' \in [Job -> Seq(Message)] /\ \A k \in Job : k # j => out'[k] = out[k]
    BY <1>2, <1>4, SentFacts
  <2>2. in' \in [Job -> Seq(Message)]
    BY <1>2, <1>4, TakenFacts
  <2> QED
    BY <2>1, <2>2
<1>6. TypeOK'
  BY <1>1, <1>2, <1>3, <1>5 DEF TypeOK
<1>7. Unknown(j)' /\ Called(j)'
  BY <1>2, StaysActive DEF Active
<1>8. Connected(j)' /\ Offered(j)'
  BY <1>1, <1>2, <1>3 DEF JobInv, Connected, Offered, Early
<1>9. \A k \in Job : k # j => Apart(k)
  BY <1>2, <1>3, <1>5 DEF Apart
<1> QED
  BY <1>2, <1>6, <1>7, <1>8, <1>9, QuietStep DEF JobInv

LEMMA AcceptedIInv ==
  ASSUME IInv, NEW j \in Job, Accepted(j)
  PROVE  IInv'
<1>1. JobInv(j) /\ TypeOK
  BY DEF IInv
<1>2. /\ req[j].pc = "offered" /\ ReqGoes(j, "waiting")
      /\ in[j] # <<>> /\ in' = Taken(in, j)
      /\ UNCHANGED <<up, ledger, srv, out, crashes>>
  BY DEF Accepted, Next1
<1>3. /\ req' \in [Job -> [pc : ReqPc, me : Peer \cup {NoPeer}, worker : Peer \cup {NoPeer}]]
      /\ req'[j].pc = "waiting" /\ req'[j].me = req[j].me /\ req'[j].worker = req[j].worker
      /\ \A k \in Job : k # j => req'[k] = req[k]
  BY <1>1, <1>2, ReqFacts DEF ReqPc, Active
<1>4. in \in [Job -> Seq(Message)]
  BY <1>1 DEF TypeOK
<1>5. in' \in [Job -> Seq(Message)]
  BY <1>2, <1>4, TakenFacts
<1>6. TypeOK'
  BY <1>1, <1>2, <1>3, <1>5 DEF TypeOK
<1>7. Unknown(j)' /\ Called(j)'
  BY <1>2, StaysActive DEF Active
<1>8. Connected(j)' /\ Offered(j)'
  BY <1>1, <1>2, <1>3 DEF JobInv, Connected, Offered, Early
<1>9. \A k \in Job : k # j => Apart(k)
  BY <1>2, <1>3 DEF Apart
<1> QED
  BY <1>2, <1>6, <1>7, <1>8, <1>9, QuietStep DEF JobInv

LEMMA ReturnIInv ==
  ASSUME IInv, NEW j \in Job, Rejected(j) \/ Reported(j) \/ Settle(j) \/ Fail(j)
  PROVE  IInv'
<1>1. CASE Rejected(j)
  BY <1>1, CloseStep DEF Rejected, Next1, Active
<1>2. CASE Reported(j)
  BY <1>2, CloseStep DEF Reported, Next1, Active
<1>3. CASE Settle(j)
  BY <1>3, CloseStep DEF Settle, Next1, Active
<1>4. CASE Fail(j)
  BY <1>4, CloseStep DEF Fail
<1> QED
  BY <1>1, <1>2, <1>3, <1>4
-----------------------------------------------------------------------------
(* The worker.                                                             *)

(* A step of the worker that writes no record.  It executes only what was  *)
(* offered.                                                                *)
LEMMA ServeStep ==
  ASSUME IInv, NEW j \in Job, NEW pc \in SrvPc \ {"none"}, SrvGoes(j, pc), srv[j].pc # "none",
         UNCHANGED <<up, ledger, req, crashes>>,
         out' = out \/ (out[j] # <<>> /\ out' = Taken(out, j)),
         in' = in \/ \E m \in Message : in' = Sent(in, j, m),
         pc \in {"executing", "crediting"} =>
           \/ srv[j].pc \in {"executing", "crediting"}
           \/ \E i \in DOMAIN out[j] : out[j][i] = "TASK_OFFER"
  PROVE  IInv'
<1>1. JobInv(j) /\ TypeOK
  BY DEF IInv
<1>2. /\ srv' \in [Job -> [pc : SrvPc, at : Peer \cup {NoPeer}]]
      /\ srv'[j].pc = pc /\ srv'[j].at = srv[j].at
      /\ \A k \in Job : k # j => srv'[k] = srv[k]
  BY <1>1, SrvFacts
<1>3. out \in [Job -> Seq(Message)] /\ in \in [Job -> Seq(Message)]
  BY <1>1 DEF TypeOK
<1>4. in' \in [Job -> Seq(Message)]
  <2>1. CASE in' = in
    BY <1>3, <2>1
  <2>2. ASSUME NEW m \in Message, in' = Sent(in, j, m)
        PROVE  in' \in [Job -> Seq(Message)]
    BY <1>3, <2>2, SentFacts
  <2> QED
    BY <2>1, <2>2
<1>5. /\ out' \in [Job -> Seq(Message)]
      /\ \A k \in Job : k # j => out'[k] = out[k]
      /\ \A i \in DOMAIN out'[j] : \E n \in DOMAIN out[j] : out'[j][i] = out[j][n]
  <2>1. CASE out' = out
    BY <1>3, <2>1
  <2>2. CASE out[j] # <<>> /\ out' = Taken(out, j)
    <3>1. /\ Taken(out, j) \in [Job -> Seq(Message)]
          /\ \A k \in Job : k # j => Taken(out, j)[k] = out[k]
          /\ \A i \in DOMAIN Taken(out, j)[j] :
               \E n \in DOMAIN out[j] : Taken(out, j)[j][i] = out[j][n]
      BY <1>3, <2>2, TakenFacts
    <3> QED
      BY <2>2, <3>1
  <2> QED
    BY <2>1, <2>2
<1>6. TypeOK'
  BY <1>1, <1>2, <1>4, <1>5 DEF TypeOK
<1>7. Unknown(j)' /\ Called(j)'
  BY <1>1 DEF JobInv, Unknown, Called
<1>8. Connected(j)' /\ Offered(j)'
  BY <1>1, <1>2, <1>5 DEF JobInv, Connected, Offered
<1>9. \A k \in Job : k # j => Apart(k)
  BY <1>2, <1>5 DEF Apart
<1> QED
  BY <1>6, <1>7, <1>8, <1>9, QuietStep DEF JobInv

LEMMA CreditForWorkIInv ==
  ASSUME IInv, NEW j \in Job, CreditForWork(j)
  PROVE  IInv'
<1> DEFINE p == srv[j].at
           r == WorkRecord(j, req[j].me)
<1>1. JobInv(j) /\ TypeOK
  BY DEF IInv
<1>2. /\ srv[j].pc = "crediting" /\ SrvGoes(j, "closed")
      /\ UNCHANGED <<up, req, out, in, crashes>>
  BY DEF CreditForWork
<1>3. /\ p \in Peer /\ p = req[j].worker /\ p # req[j].me /\ req[j].me \in Peer
  BY <1>1, <1>2 DEF JobInv, Connected, Offered, Called, Early
<1>4. /\ srv' \in [Job -> [pc : SrvPc, at : Peer \cup {NoPeer}]]
      /\ srv'[j].pc = "closed" /\ srv'[j].at = srv[j].at
      /\ \A k \in Job : k # j => srv'[k] = srv[k]
  BY <1>1, <1>2, SrvFacts DEF SrvPc
<1>5. CASE CanCredit(ledger[p], j)
  <2>1. Record1(p, r)
    BY <1>5 DEF CreditForWork
  <2>2. r \in Record /\ r.job = j /\ r.kind = "work" /\ r.from # "self"
    BY <1>3, RecordTypes, LedgerAssumption DEF WorkRecord, Transfer
  <2>3. ASSUME ledger' \in [Peer -> Seq(Record)] PROVE TypeOK'
    BY <1>1, <1>2, <1>4, <2>3 DEF TypeOK
  <2>4. ASSUME \A q \in Peer : q # p => ledger'[q] = ledger[q] PROVE JobInv(j)'
    <3>1. ledger'[req[j].me] = ledger[req[j].me]
      BY <1>3, <2>4
    <3> QED
      BY <1>1, <1>2, <1>4, <3>1 DEF JobInv, Unknown, Called, Connected, Offered, Early
  <2>5. \A k \in Job : k # j => Apart(k)
    BY <1>2, <1>4 DEF Apart
  <2> HIDE DEF p, r
  <2> QED
    BY <1>3, <2>1, <2>2, <2>3, <2>4, <2>5, RecordStep
<1>6. CASE ~CanCredit(ledger[p], j)
  BY <1>2, <1>6, ServeStep DEF CreditForWork, SrvPc
<1> QED
  BY <1>5, <1>6

LEMMA ServeIInv ==
  ASSUME IInv, NEW j \in Job, Accept(j) \/ ServeConnection(j)
  PROVE  IInv'
<1>1. CASE Accept(j)
  BY <1>1, ServeStep DEF Accept, SrvPc, Serving
<1>2. CASE HandshakeInbound(j)
  BY <1>2, ServeStep DEF HandshakeInbound, SrvPc, Serving, Next1, Message
<1>3. CASE HandleTaskOffer(j)
  <2>1. /\ out[j] # <<>> /\ Head(out[j]) = "TASK_OFFER"
        /\ out \in [Job -> Seq(Message)]
    BY <1>3 DEF HandleTaskOffer, Next1, IInv, TypeOK
  <2>2. \E i \in DOMAIN out[j] : out[j][i] = "TASK_OFFER"
    BY <2>1
  <2>3. \E pc \in {"closed", "executing"} : SrvGoes(j, pc)
    BY <1>3 DEF HandleTaskOffer
  <2>4. \E m \in Message : in' = Sent(in, j, m)
    BY <1>3 DEF HandleTaskOffer, Message
  <2> QED
    BY <1>3, <2>1, <2>2, <2>3, <2>4, ServeStep DEF HandleTaskOffer, SrvPc, Serving
<1>4. CASE SendResult(j)
  <2>1. \E pc \in {"closed", "crediting"} : SrvGoes(j, pc)
    BY <1>4 DEF SendResult
  <2>2. \E m \in Message : in' = Sent(in, j, m)
    BY <1>4 DEF SendResult, Message
  <2> QED
    BY <1>4, <2>1, <2>2, ServeStep DEF SendResult, SrvPc, Serving
<1>5. CASE CreditForWork(j)
  BY <1>5, CreditForWorkIInv
<1>6. CASE ServeFails(j)
  BY <1>6, ServeStep DEF ServeFails, SrvPc, Serving
<1> QED
  BY <1>1, <1>2, <1>3, <1>4, <1>5, <1>6 DEF ServeConnection
-----------------------------------------------------------------------------
(* Processes stop and start.                                               *)

LEMMA CrashIInv ==
  ASSUME IInv, NEW p \in Peer, Crash(p)
  PROVE  IInv'
<1>1. TypeOK /\ NoOverdraft /\ \A j \in Job : JobInv(j)
  BY DEF IInv
<1>2. UNCHANGED <<ledger, out, in>>
  BY DEF Crash
<1>3. ASSUME NEW j \in Job
      PROVE  /\ req'[j].me = req[j].me /\ req'[j].worker = req[j].worker
             /\ \/ req'[j].pc = req[j].pc
                \/ req[j].me = p /\ req[j].pc \notin Ended /\ req'[j].pc = "lost"
             /\ req'[j] \in [pc : ReqPc, me : Peer \cup {NoPeer}, worker : Peer \cup {NoPeer}]
  <2>1. req[j] \in [pc : ReqPc, me : Peer \cup {NoPeer}, worker : Peer \cup {NoPeer}]
    BY <1>1 DEF TypeOK
  <2>2. req'[j] = IF req[j].me = p /\ req[j].pc \notin Ended
                  THEN [req[j] EXCEPT !.pc = "lost"] ELSE req[j]
    BY DEF Crash
  <2>3. "lost" \in ReqPc
    BY DEF ReqPc, Ended
  <2> QED
    BY <2>1, <2>2, <2>3
<1>4. ASSUME NEW j \in Job
      PROVE  /\ srv'[j].at = srv[j].at
             /\ srv'[j].pc = srv[j].pc \/ (srv[j].pc # "none" /\ srv'[j].pc \in {"reset", "killed"})
             /\ srv'[j] \in [pc : SrvPc, at : Peer \cup {NoPeer}]
  <2>1. srv[j] \in [pc : SrvPc, at : Peer \cup {NoPeer}]
    BY <1>1 DEF TypeOK
  <2>2. \/ srv'[j] = srv[j]
        \/ srv[j].pc # "none" /\ \E pc \in {"reset", "killed"} : srv'[j] = [srv[j] EXCEPT !.pc = pc]
    BY DEF Crash, Serving
  <2>3. "reset" \in SrvPc /\ "killed" \in SrvPc
    BY DEF SrvPc
  <2> QED
    BY <2>1, <2>2, <2>3
<1>5. TypeOK'
  <2>1. /\ req' = [j \in Job |-> req'[j]] /\ srv' = [j \in Job |-> srv'[j]]
    BY DEF Crash
  <2>2. /\ up' \in [Peer -> BOOLEAN] /\ crashes' \in 0..MaxCrashes
    BY <1>1, DelegationAssumption DEF Crash, TypeOK
  <2> QED
    BY <1>1, <1>2, <1>3, <1>4, <2>1, <2>2 DEF TypeOK
<1>6. NoOverdraft'
  BY <1>1, <1>2 DEF NoOverdraft
<1>7. ASSUME NEW j \in Job PROVE JobInv(j)'
  <2>1. JobInv(j)
    BY <1>1
  <2>2. req'[j].pc = "idle" <=> req[j].pc = "idle"
    BY <1>3, <2>1, DelegationAssumption DEF JobInv, Unknown
  <2>3. Unknown(j)'
    BY <1>2, <1>3, <2>1, <2>2 DEF JobInv, Unknown
  <2>4. Called(j)'
    <3>1. CASE req'[j].pc = req[j].pc
      BY <1>2, <1>3, <2>1, <3>1 DEF JobInv, Called
    <3>2. CASE req[j].me = p /\ req[j].pc \notin Ended /\ req'[j].pc = "lost"
      <4>1. req[j].pc # "idle" /\ req[j].pc \in ReqPc
        BY <1>1, <2>2, <3>2 DEF TypeOK
      <4>2. ledger[p] \in Seq(Record)
        BY <1>1 DEF TypeOK
      <4>3. Closing(ledger[p], j) = {}
        BY <2>1, <3>2, <4>1, <4>2, NothingClosed DEF JobInv, Called, Books, ReqPc
      <4>4. Books(ledger[p], j, "lost", req[j].worker)
        BY <4>3 DEF Books, Active
      <4> QED
        BY <1>2, <1>3, <2>1, <3>2, <4>1, <4>4 DEF JobInv, Called
    <3> QED
      BY <1>3, <3>1, <3>2
  <2>5. Connected(j)'
    BY <1>2, <1>3, <1>4, <2>1 DEF JobInv, Connected, Early
  <2>6. Offered(j)'
    BY <1>2, <1>3, <1>4, <2>1 DEF JobInv, Offered
  <2> QED
    BY <2>3, <2>4, <2>5, <2>6 DEF JobInv
<1> QED
  BY <1>5, <1>6, <1>7 DEF IInv

LEMMA RestartIInv ==
  ASSUME IInv, NEW p \in Peer, Restart(p)
  PROVE  IInv'
<1>1. up' \in [Peer -> BOOLEAN] /\ UNCHANGED <<ledger, req, srv, out, in, crashes>>
  BY DEF Restart, IInv, TypeOK
<1>2. TypeOK'
  BY <1>1 DEF IInv, TypeOK
<1> QED
  BY <1>1, <1>2
  DEF IInv, NoOverdraft, JobInv, Unknown, Called, Connected, Offered
-----------------------------------------------------------------------------
LEMMA NextIInv == IInv /\ [Next]_vars => IInv'
<1> SUFFICES ASSUME IInv, [Next]_vars PROVE IInv'
  OBVIOUS
<1>1. ASSUME NEW j \in Job, NEW me \in Peer, NEW worker \in Peer, Call(j, me, worker)
      PROVE  IInv'
  BY <1>1, CallIInv
<1>2. ASSUME NEW j \in Job, Delegate(j)
      PROVE  IInv'
  BY <1>2, EscrowIInv, ConnectIInv, NameLostIInv, GreetIInv, OfferIInv, AcceptedIInv,
     ReturnIInv DEF Delegate
<1>3. ASSUME NEW j \in Job, Accept(j) \/ ServeConnection(j)
      PROVE  IInv'
  BY <1>3, ServeIInv
<1>4. ASSUME NEW p \in Peer, Crash(p) \/ Restart(p)
      PROVE  IInv'
  BY <1>4, CrashIInv, RestartIInv
<1>5. CASE UNCHANGED vars
  BY <1>5 DEF vars, IInv, TypeOK, NoOverdraft, JobInv, Unknown, Called, Connected, Offered
<1> QED
  BY <1>1, <1>2, <1>3, <1>4, <1>5 DEF Next

(* The conjuncts of the invariant always hold.                             *)
THEOREM DelegationInvariant == Spec => []IInv
BY InitIInv, NextIInv, PTL DEF Spec

(* Every variable always has its type.                                     *)
THEOREM DelegationTypeCorrect == Spec => []TypeOK
<1>1. IInv => TypeOK
  BY DEF IInv
<1> QED
  BY <1>1, DelegationInvariant, PTL

(* No peer overdraws, however many calls of delegate it runs at once.      *)
THEOREM DelegationNeverOverdraws == Spec => []NoOverdraft
<1>1. IInv => NoOverdraft
  BY DEF IInv
<1> QED
  BY <1>1, DelegationInvariant, PTL

(* A delegation that reports "refunded" or "ok" has closed its escrow that *)
(* way, once; one that is under way has it open.                           *)
THEOREM DelegationMatchesEscrow == Spec => []EscrowMatchesDelegation
<1>1. IInv => EscrowMatchesDelegation
  <2> SUFFICES ASSUME IInv, NEW j \in Job, req[j].pc # "idle"
               PROVE  Books(ledger[req[j].me], j, req[j].pc, req[j].worker)
    BY DEF EscrowMatchesDelegation, Books, Closing
  <2> QED
    BY DEF IInv, JobInv, Called
<1> QED
  BY <1>1, DelegationInvariant, PTL

(* Nobody executes a job without a credit set aside for it, and nobody but *)
(* the peer that was chosen.                                               *)
THEOREM DelegationExecutionIsBacked == Spec => []ExecutionIsBacked
<1>1. IInv => ExecutionIsBacked
  <2> SUFFICES ASSUME IInv, NEW j \in Job, srv[j].pc \in {"executing", "crediting"}
               PROVE  srv[j].at = req[j].worker /\ Holds(req[j].me, EscrowRecord(j))
    BY DEF ExecutionIsBacked
  <2> QED
    BY DEF IInv, JobInv, Connected, Offered, In, Holds
<1> QED
  BY <1>1, DelegationInvariant, PTL
=============================================================================
