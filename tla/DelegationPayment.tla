-------------------------- MODULE DelegationPayment --------------------------
(***************************************************************************)
(* Paying and earning, for every set of jobs and peers: a worker is paid   *)
(* only for work that it finished and earns only what was agreed, and the  *)
(* two ledgers together keep the contract of module HireContract.          *)
(***************************************************************************)
EXTENDS DelegationProofs

\* Message m is under way.
Has(ch, m) == \E i \in DOMAIN ch : ch[i] = m

\* The result has reached the requester, or is under way.
Delivered(j) == Has(in[j], "RESULT_OK") \/ req[j].pc = "ok"

\* So has a refusal, or the report of a failure.
Refused(j) ==
  \/ Has(in[j], "TASK_REJECT") \/ Has(in[j], "RESULT_ERROR")
  \/ req[j].pc \in {"rejected", "reported"}

\* A worker has a record of the work.
Earned(j) == \E p \in Peer : "work" \in KindsOf(ledger[p], j)

\* The job has been offered.
Past == {"offered", "waiting", "ok", "rejected", "reported", "failed", "lost"}

(* Nothing comes back before the connection, nor an answer before the      *)
(* offer.                                                                  *)
Committed(j) ==
  /\ srv[j].pc = "none" => in[j] = <<>>
  /\ \/ srv[j].pc \in {"executing", "crediting"}
     \/ Has(out[j], "TASK_OFFER")
     \/ Delivered(j) \/ Refused(j)
     => req[j].pc \in Past

(* The worker sends one answer, and credits itself after a result only.    *)
Answer(j) ==
  /\ Delivered(j) =>
       srv[j].at = req[j].worker /\ (srv[j].pc \in {"crediting", "killed"} \/ Earned(j))
  /\ Refused(j) => srv[j].pc = "closed" /\ ~Earned(j)
  /\ srv[j].pc = "crediting" => Delivered(j)

\* What the ledger of the requester may hold of a job.
ClaimKinds == {{}, {"escrow"}, {"escrow", "settle"}, {"escrow", "refund"}}

\* The work on j is done for nobody but this requester.
OwnWork(rs, j, me) ==
  \A i \in DOMAIN rs : rs[i].job = j /\ rs[i].kind = "work" => rs[i] = WorkRecord(j, me)

(* Only the requester has records of the credit, and only the worker one   *)
(* of the work.                                                            *)
Kept(j) ==
  \A p \in Peer :
    /\ KindsOf(ledger[p], j) \in IF p = req[j].me THEN ClaimKinds ELSE {{}, {"work"}}
    /\ "work" \in KindsOf(ledger[p], j) =>
         p = req[j].worker /\ srv[j].at = p /\ srv[j].pc = "closed" /\ Delivered(j)
    /\ OwnWork(ledger[p], j, req[j].me)

PayInv(j) == Committed(j) /\ Answer(j) /\ Kept(j)

(* The inductive invariant, beside that of module DelegationProofs.        *)
PInv == \A j \in Job : PayInv(j)

(* What a step may do to the contract of job j.                            *)
HireStep(j) ==
  \/ Claim(j)' = Claim(j) /\ Work(j)' = Work(j)
  \/ Claim(j) = "none" /\ Claim(j)' = "held" /\ Work(j)' = Work(j)
  \/ Claim(j) # "none" /\ Claim(j)' = Claim(j) /\ Work(j) = "none" /\ Work(j)' = "finished"
  \/ Claim(j)' = Claim(j) /\ Work(j) = "finished" /\ Work(j)' = "earned"
  \/ Claim(j) = "held" /\ Claim(j)' = "paid" /\ Work(j) # "none" /\ Work(j)' = Work(j)
  \/ Claim(j) = "held" /\ Claim(j)' = "returned" /\ Work(j)' = Work(j)

\* The work in terms of the invariant.
LEMMA WorkIs ==
  ASSUME NEW j
  PROVE  Work(j) = IF Earned(j) THEN "earned" ELSE IF Delivered(j) THEN "finished" ELSE "none"
BY DEF Work, Earned, Delivered, Has

-----------------------------------------------------------------------------
(* Messages.                                                               *)

LEMMA HasAppend ==
  ASSUME NEW ch \in Seq(Message), NEW m \in Message, NEW x
  PROVE  Has(Append(ch, m), x) <=> Has(ch, x) \/ x = m
<1>1. /\ DOMAIN Append(ch, m) = DOMAIN ch \cup {Len(ch) + 1}
      /\ \A i \in DOMAIN ch : Append(ch, m)[i] = ch[i]
      /\ Append(ch, m)[Len(ch) + 1] = m
  OBVIOUS
<1> QED
  BY <1>1 DEF Has

LEMMA HasTail ==
  ASSUME NEW ch \in Seq(Message), ch # <<>>, NEW x
  PROVE  Has(ch, x) <=> Has(Tail(ch), x) \/ x = Head(ch)
<1>1. \A i \in DOMAIN Tail(ch) : i + 1 \in DOMAIN ch /\ Tail(ch)[i] = ch[i + 1]
  OBVIOUS
<1>2. 1 \in DOMAIN ch /\ Head(ch) = ch[1]
  OBVIOUS
<1>3. \A i \in DOMAIN ch : i = 1 \/ (i - 1 \in DOMAIN Tail(ch) /\ ch[i] = Tail(ch)[i - 1])
  OBVIOUS
<1>4. Has(Tail(ch), x) => Has(ch, x)
  BY <1>1 DEF Has
<1>5. x = Head(ch) => Has(ch, x)
  BY <1>2 DEF Has
<1>6. Has(ch, x) => Has(Tail(ch), x) \/ x = Head(ch)
  BY <1>2, <1>3 DEF Has
<1> QED
  BY <1>4, <1>5, <1>6

(* On the channel of job j.                                                *)
LEMMA HasSent ==
  ASSUME NEW ch \in [Job -> Seq(Message)], NEW j \in Job, NEW m \in Message
  PROVE  /\ \A x : Has(Sent(ch, j, m)[j], x) <=> Has(ch[j], x) \/ x = m
         /\ \A k \in Job : k # j => Sent(ch, j, m)[k] = ch[k]
<1>1. ch[j] \in Seq(Message) /\ Sent(ch, j, m) = [ch EXCEPT ![j] = Append(ch[j], m)]
  BY DEF Sent
<1>2. Sent(ch, j, m)[j] = Append(ch[j], m)
  BY <1>1
<1>3. \A x : Has(Append(ch[j], m), x) <=> Has(ch[j], x) \/ x = m
  BY <1>1, HasAppend
<1> QED
  BY <1>1, <1>2, <1>3

LEMMA HasTaken ==
  ASSUME NEW ch \in [Job -> Seq(Message)], NEW j \in Job, ch[j] # <<>>
  PROVE  /\ \A x : Has(ch[j], x) <=> Has(Taken(ch, j)[j], x) \/ x = Head(ch[j])
         /\ \A k \in Job : k # j => Taken(ch, j)[k] = ch[k]
<1>1. ch[j] \in Seq(Message) /\ Taken(ch, j) = [ch EXCEPT ![j] = Tail(ch[j])]
  BY DEF Taken
<1>2. Taken(ch, j)[j] = Tail(ch[j])
  BY <1>1
<1>3. \A x : Has(ch[j], x) <=> Has(Tail(ch[j]), x) \/ x = Head(ch[j])
  BY <1>1, HasTail
<1> QED
  BY <1>1, <1>2, <1>3

-----------------------------------------------------------------------------
(* Records.                                                                *)

\* The ledgers say the same of job k as before.
SameRecords(k) ==
  \A p \in Peer :
    /\ KindsOf(ledger[p], k)' = KindsOf(ledger[p], k)
    /\ \A me : OwnWork(ledger[p], k, me) => OwnWork(ledger'[p], k, me)

LEMMA OtherRecords ==
  ASSUME TypeOK, NEW k, NEW p \in Peer, NEW r \in Record, r.job # k, Record1(p, r)
  PROVE  SameRecords(k)
<1> SUFFICES ASSUME NEW q \in Peer
             PROVE  /\ KindsOf(ledger'[q], k) = KindsOf(ledger[q], k)
                    /\ \A me : OwnWork(ledger[q], k, me) => OwnWork(ledger'[q], k, me)
  BY DEF SameRecords, KindsOf
<1>1. ledger \in [Peer -> Seq(Record)] /\ ledger[q] \in Seq(Record)
  BY DEF TypeOK
<1>2. CASE q = p
  <2>1. ledger'[q] = Append(ledger[q], r)
    BY <1>1, <1>2 DEF Record1
  <2>2. KindsOf(Append(ledger[q], r), k) = KindsOf(ledger[q], k)
    BY <1>1, KindsAppend
  <2>3. \A me : OwnWork(ledger[q], k, me) => OwnWork(Append(ledger[q], r), k, me)
    BY <1>1, AppendFacts DEF OwnWork
  <2> QED
    BY <2>1, <2>2, <2>3
<1>3. CASE q # p
  BY <1>1, <1>3 DEF Record1
<1> QED
  BY <1>2, <1>3

(* A record of job j.                                                      *)
LEMMA OwnRecord ==
  ASSUME TypeOK, NEW j, NEW p \in Peer, NEW r \in Record, r.job = j, Record1(p, r)
  PROVE  /\ KindsOf(ledger'[p], j) = KindsOf(ledger[p], j) \cup {r.kind}
         /\ \A q \in Peer : q # p => ledger'[q] = ledger[q]
         /\ \A me : OwnWork(ledger[p], j, me) /\ (r.kind # "work" \/ r = WorkRecord(j, me))
                    => OwnWork(ledger'[p], j, me)
<1>1. ledger \in [Peer -> Seq(Record)] /\ ledger[p] \in Seq(Record)
  BY DEF TypeOK
<1>2. ledger'[p] = Append(ledger[p], r) /\ \A q \in Peer : q # p => ledger'[q] = ledger[q]
  BY <1>1 DEF Record1
<1>3. KindsOf(Append(ledger[p], r), j) = KindsOf(ledger[p], j) \cup {r.kind}
  BY <1>1, KindsAppend
<1>4. \A me : OwnWork(ledger[p], j, me) /\ (r.kind # "work" \/ r = WorkRecord(j, me))
              => OwnWork(Append(ledger[p], r), j, me)
  BY <1>1, AppendFacts DEF OwnWork
<1> QED
  BY <1>2, <1>3, <1>4

(* What the requester's ledger says of the credit.                         *)
LEMMA ClaimSame ==
  ASSUME TypeOK, NEW k \in Job, req'[k].me = req[k].me,
         \A p \in Peer : KindsOf(ledger'[p], k) = KindsOf(ledger[p], k)
  PROVE  Claim(k)' = Claim(k)
<1>1. req[k].me \in Peer \/ req[k].me = NoPeer
  BY DEF TypeOK
<1>2. CASE req[k].me = NoPeer
  BY <1>2 DEF Claim
<1>3. CASE req[k].me \in Peer
  BY <1>3 DEF Claim
<1> QED
  BY <1>1, <1>2, <1>3

(* A job that a step leaves alone.                                         *)
LEMMA OtherJobPays ==
  ASSUME TypeOK, NEW k \in Job, PayInv(k), SameRecords(k), Apart(k), in'[k] = in[k]
  PROVE  PayInv(k)' /\ Claim(k)' = Claim(k) /\ Work(k)' = Work(k)
<1>1. \A p \in Peer : KindsOf(ledger'[p], k) = KindsOf(ledger[p], k)
  BY DEF SameRecords, KindsOf
<1>2. req'[k] = req[k] /\ srv'[k] = srv[k] /\ out'[k] = out[k] /\ in'[k] = in[k]
  BY DEF Apart
<1>3. Earned(k)' <=> Earned(k)
  BY <1>1 DEF Earned
<1>4. (Delivered(k)' <=> Delivered(k)) /\ (Refused(k)' <=> Refused(k))
  BY <1>2 DEF Delivered, Refused, Has
<1>5. Committed(k)'
  BY <1>2, <1>4 DEF PayInv, Committed, Has
<1>6. Answer(k)'
  BY <1>2, <1>3, <1>4 DEF PayInv, Answer
<1>7. Kept(k)'
  BY <1>1, <1>2, <1>4 DEF PayInv, Kept, SameRecords
<1>8. Work(k)' = Work(k)
  BY <1>1, <1>2 DEF Work
<1>9. Claim(k)' = Claim(k)
  BY <1>1, <1>2, ClaimSame
<1> QED
  BY <1>5, <1>6, <1>7, <1>8, <1>9 DEF PayInv

-----------------------------------------------------------------------------
(* The requester.                                                          *)

\* Only these change what the invariant says of job j.
LEMMA SameWork ==
  ASSUME TypeOK, NEW j \in Job, req'[j].me = req[j].me,
         \A p \in Peer : KindsOf(ledger'[p], j) = KindsOf(ledger[p], j),
         Delivered(j)' <=> Delivered(j)
  PROVE  /\ Earned(j)' <=> Earned(j)
         /\ Claim(j)' = Claim(j) /\ Work(j)' = Work(j)
<1>1. Earned(j)' <=> Earned(j)
  BY DEF Earned
<1>2. Claim(j)' = Claim(j)
  BY ClaimSame
<1>3. Work(j)' = Work(j)
  <2>1. Work(j) = IF Earned(j) THEN "earned" ELSE IF Delivered(j) THEN "finished" ELSE "none"
    BY WorkIs
  <2>2. Work(j)' = IF Earned(j)' THEN "earned"
                   ELSE IF Delivered(j)' THEN "finished" ELSE "none"
    BY DEF Work, Earned, Delivered, Has
  <2> QED
    BY <1>1, <2>1, <2>2
<1> QED
  BY <1>1, <1>2, <1>3

(* A step of delegate that writes no record.                               *)
LEMMA CallerStep ==
  ASSUME TypeOK, NEW j \in Job, PayInv(j), UNCHANGED ledger,
         req'[j].me = req[j].me, req'[j].worker = req[j].worker,
         \/ srv'[j] = srv[j]
         \/ srv[j].pc = "none" /\ srv'[j].pc = "queued" /\ in'[j] = in[j],
         Delivered(j)' <=> Delivered(j),
         Refused(j)' => Refused(j),
         in[j] = <<>> => in'[j] = <<>>,
         req[j].pc \in Past => req'[j].pc \in Past,
         Has(out'[j], "TASK_OFFER") => Has(out[j], "TASK_OFFER") \/ req'[j].pc \in Past
  PROVE  PayInv(j)' /\ HireStep(j)
<1>1. /\ Earned(j)' <=> Earned(j)
      /\ Claim(j)' = Claim(j) /\ Work(j)' = Work(j)
  BY SameWork
<1>2. srv[j].pc = "none" => ~Delivered(j) /\ ~Refused(j) /\ ~Earned(j)
  BY DEF PayInv, Answer, Kept, Earned
<1>3. Committed(j)'
  BY <1>2 DEF PayInv, Committed
<1>4. Answer(j)'
  BY <1>1, <1>2 DEF PayInv, Answer
<1>5. Kept(j)'
  BY <1>2 DEF PayInv, Kept, Earned
<1> QED
  BY <1>1, <1>3, <1>4, <1>5 DEF PayInv, HireStep

(* What delegate does to the call itself.                                  *)
LEMMA CallerFacts ==
  ASSUME TypeOK, NEW j \in Job, NEW pc \in ReqPc, ReqGoes(j, pc)
  PROVE  /\ req'[j].pc = pc /\ req'[j].me = req[j].me /\ req'[j].worker = req[j].worker
         /\ \A k \in Job : k # j => req'[k] = req[k]
BY ReqFacts

LEMMA CallPays ==
  ASSUME IInv, NEW j \in Job, PayInv(j), NEW me \in Peer, NEW worker \in Peer,
         Call(j, me, worker)
  PROVE  PayInv(j)' /\ HireStep(j)
<1>1. JobInv(j) /\ TypeOK
  BY DEF IInv
<1>2. req[j].pc = "idle" /\ UNCHANGED <<ledger, srv, out, in>>
  BY DEF Call
<1>3. /\ req'[j].me = me /\ req'[j].worker = worker
      /\ req'[j].pc \in {"chosen", "refused"}
  BY <1>1 DEF Call, TypeOK
<1>4. /\ req[j].me = NoPeer /\ \A p \in Peer : KindsOf(ledger[p], j) = {}
      /\ srv[j].pc = "none" /\ out[j] = <<>>
  BY <1>1, <1>2 DEF JobInv, Unknown, Connected, Early
<1>5. ~Delivered(j) /\ ~Refused(j) /\ ~Earned(j)
  BY <1>4 DEF PayInv, Answer, Kept, Earned
<1>6. ~Delivered(j)' /\ ~Refused(j)' /\ ~Earned(j)'
  BY <1>2, <1>3, <1>5 DEF Delivered, Refused, Earned, Has
<1>7. Committed(j)' /\ Answer(j)'
  BY <1>2, <1>4, <1>6 DEF PayInv, Committed, Answer, Has
<1>8. Kept(j)'
  <2>1. \A p \in Peer : OwnWork(ledger[p], j, me)
    BY <1>4 DEF OwnWork, KindsOf
  <2>2. \A p \in Peer : OwnWork(ledger'[p], j, me)
    BY <1>2, <2>1
  <2> QED
    BY <1>2, <1>3, <1>4, <2>2 DEF Kept, ClaimKinds
<1>9. Claim(j) = "none" /\ Claim(j)' = "none"
  <2>1. KindsOf(ledger'[me], j) = {}
    BY <1>2, <1>4
  <2> QED
    BY <1>3, <1>4, <2>1 DEF Claim
<1>10. Work(j) = "none" /\ Work(j)' = "none"
  <2>1. Work(j) = IF Earned(j) THEN "earned" ELSE IF Delivered(j) THEN "finished" ELSE "none"
    BY WorkIs
  <2>2. Work(j)' = IF Earned(j)' THEN "earned"
                   ELSE IF Delivered(j)' THEN "finished" ELSE "none"
    BY DEF Work, Earned, Delivered, Has
  <2> QED
    BY <1>5, <1>6, <2>1, <2>2
<1> QED
  BY <1>7, <1>8, <1>9, <1>10 DEF PayInv, HireStep

LEMMA EscrowPays ==
  ASSUME IInv, NEW j \in Job, PayInv(j), Escrow(j)
  PROVE  PayInv(j)' /\ HireStep(j)
<1> DEFINE me == req[j].me
<1>1. JobInv(j) /\ TypeOK
  BY DEF IInv
<1>2. req[j].pc = "chosen" /\ UNCHANGED <<srv, out, in>>
  BY DEF Escrow
<1>3. /\ me \in Peer /\ me # NoPeer /\ KindsOf(ledger[me], j) = {}
      /\ srv[j].pc = "none" /\ out[j] = <<>>
  BY <1>1, <1>2, DelegationAssumption DEF JobInv, Called, Books, Connected, Early
<1>4. ~Delivered(j) /\ ~Refused(j) /\ ~Earned(j)
  BY <1>3 DEF PayInv, Answer, Kept, Earned
<1>5. CASE CanEscrow(ledger[me], j)
  <2>1. Record1(me, EscrowRecord(j)) /\ ReqGoes(j, "escrowed")
    BY <1>5 DEF Escrow
  <2>2. req'[j].pc = "escrowed" /\ req'[j].me = me /\ req'[j].worker = req[j].worker
    BY <1>1, <2>1, CallerFacts DEF ReqPc, Active
  <2>3. EscrowRecord(j) \in Record /\ EscrowRecord(j).job = j /\ EscrowRecord(j).kind = "escrow"
    BY RecordTypes DEF EscrowRecord, Transfer
  <2>4. /\ KindsOf(ledger'[me], j) = {"escrow"}
        /\ \A q \in Peer : q # me => ledger'[q] = ledger[q]
        /\ OwnWork(ledger[me], j, me) => OwnWork(ledger'[me], j, me)
    <3>1. PICK r \in Record : r.job = j /\ r.kind = "escrow" /\ Record1(me, r)
      BY <2>1, <2>3
    <3>2. /\ KindsOf(ledger'[me], j) = KindsOf(ledger[me], j) \cup {r.kind}
          /\ \A q \in Peer : q # me => ledger'[q] = ledger[q]
          /\ OwnWork(ledger[me], j, me) => OwnWork(ledger'[me], j, me)
      <4>1. TypeOK /\ me \in Peer /\ r.kind # "work"
        BY <1>1, <1>3, <3>1
      <4> QED
        BY <3>1, <4>1, OwnRecord
    <3> QED
      BY <1>3, <3>1, <3>2
  <2>5. ~Delivered(j)' /\ ~Refused(j)' /\ ~Earned(j)'
    BY <1>2, <1>4, <2>2, <2>4 DEF Delivered, Refused, Earned, Has
  <2>6. Committed(j)' /\ Answer(j)'
    BY <1>2, <1>3, <2>5 DEF PayInv, Committed, Answer, Has
  <2>7. Kept(j)'
    BY <1>2, <1>3, <1>4, <2>2, <2>4 DEF PayInv, Kept, ClaimKinds, Earned
  <2>8. Claim(j) = "none" /\ Claim(j)' = "held"
    BY <1>3, <2>2, <2>4 DEF Claim
  <2>9. Work(j)' = Work(j)
    <3>1. Work(j) = IF Earned(j) THEN "earned" ELSE IF Delivered(j) THEN "finished" ELSE "none"
      BY WorkIs
    <3>2. Work(j)' = IF Earned(j)' THEN "earned"
                     ELSE IF Delivered(j)' THEN "finished" ELSE "none"
      BY DEF Work, Earned, Delivered, Has
    <3> QED
      BY <1>4, <2>5, <3>1, <3>2
  <2> QED
    BY <2>6, <2>7, <2>8, <2>9 DEF PayInv, HireStep
<1>6. CASE ~CanEscrow(ledger[me], j)
  <2>1. ReqGoes(j, "raised") /\ UNCHANGED ledger
    BY <1>6 DEF Escrow
  <2>2. req'[j].pc = "raised" /\ req'[j].me = me /\ req'[j].worker = req[j].worker
    BY <1>1, <2>1, CallerFacts DEF ReqPc, Ended
  <2>3. (Delivered(j)' <=> Delivered(j)) /\ (Refused(j)' => Refused(j))
    BY <1>2, <2>2 DEF Delivered, Refused, Has
  <2> QED
    BY <1>1, <1>2, <2>1, <2>2, <2>3, CallerStep DEF Past
<1> QED
  BY <1>5, <1>6

LEMMA ConnectPays ==
  ASSUME IInv, NEW j \in Job, PayInv(j), NEW at \in Peer, Connect(j, at)
  PROVE  PayInv(j)' /\ HireStep(j)
<1>1. JobInv(j) /\ TypeOK
  BY DEF IInv
<1>2. req[j].pc = "escrowed" /\ ReqGoes(j, "connected") /\ UNCHANGED <<ledger, out, in>>
  BY DEF Connect
<1>3. srv[j].pc = "none" /\ srv'[j].pc = "queued"
  BY <1>1, <1>2 DEF JobInv, Connected, Early, Connect, TypeOK
<1>4. req'[j].pc = "connected" /\ req'[j].me = req[j].me /\ req'[j].worker = req[j].worker
  BY <1>1, <1>2, CallerFacts DEF ReqPc, Active
<1>5. (Delivered(j)' <=> Delivered(j)) /\ (Refused(j)' => Refused(j))
  BY <1>2, <1>4 DEF Delivered, Refused, Has
<1> QED
  BY <1>1, <1>2, <1>3, <1>4, <1>5, CallerStep DEF Past

LEMMA NameLostPays ==
  ASSUME IInv, NEW j \in Job, PayInv(j), NameLost(j)
  PROVE  PayInv(j)' /\ HireStep(j)
<1>1. TypeOK
  BY DEF IInv
<1>2. req[j].pc = "connected" /\ ReqGoes(j, "raised") /\ UNCHANGED <<ledger, srv, out, in>>
  BY DEF NameLost
<1>3. req'[j].pc = "raised" /\ req'[j].me = req[j].me /\ req'[j].worker = req[j].worker
  BY <1>1, <1>2, CallerFacts DEF ReqPc, Ended
<1>4. (Delivered(j)' <=> Delivered(j)) /\ (Refused(j)' => Refused(j))
  BY <1>2, <1>3 DEF Delivered, Refused, Has
<1> QED
  BY <1>1, <1>2, <1>3, <1>4, CallerStep DEF Past

LEMMA GreetPays ==
  ASSUME IInv, NEW j \in Job, PayInv(j), Greet(j)
  PROVE  PayInv(j)' /\ HireStep(j)
<1>1. TypeOK /\ out \in [Job -> Seq(Message)] /\ "HANDSHAKE" \in Message
  BY DEF IInv, TypeOK, Message
<1>2. /\ req[j].pc = "connected" /\ ReqGoes(j, "greeting")
      /\ out' = Sent(out, j, "HANDSHAKE") /\ UNCHANGED <<ledger, srv, in>>
  BY DEF Greet
<1>3. req'[j].pc = "greeting" /\ req'[j].me = req[j].me /\ req'[j].worker = req[j].worker
  BY <1>1, <1>2, CallerFacts DEF ReqPc, Active
<1>4. (Delivered(j)' <=> Delivered(j)) /\ (Refused(j)' => Refused(j))
  BY <1>2, <1>3 DEF Delivered, Refused, Has
<1>5. Has(out'[j], "TASK_OFFER") => Has(out[j], "TASK_OFFER")
  BY <1>1, <1>2, HasSent
<1> QED
  BY <1>1, <1>2, <1>3, <1>4, <1>5, CallerStep DEF Past

(* Reading a message that is no answer, and going on.                      *)
LEMMA ReadStep ==
  ASSUME IInv, NEW j \in Job, PayInv(j), NEW pc \in {"offered", "waiting"},
         req[j].pc \in {"greeting", "offered"}, ReqGoes(j, pc),
         in[j] # <<>>, in' = Taken(in, j),
         Head(in[j]) \notin {"TASK_REJECT", "RESULT_ERROR", "RESULT_OK"},
         UNCHANGED <<ledger, srv>>
  PROVE  PayInv(j)' /\ HireStep(j)
<1>1. TypeOK /\ in \in [Job -> Seq(Message)]
  BY DEF IInv, TypeOK
<1>2. req'[j].pc = pc /\ req'[j].me = req[j].me /\ req'[j].worker = req[j].worker
  BY <1>1, CallerFacts DEF ReqPc, Active
<1>3. \A x \in {"TASK_REJECT", "RESULT_ERROR", "RESULT_OK"} : Has(in'[j], x) <=> Has(in[j], x)
  BY <1>1, HasTaken
<1>4. (Delivered(j)' <=> Delivered(j)) /\ (Refused(j)' => Refused(j))
  <2>1. (Has(in'[j], "RESULT_OK") \/ req'[j].pc = "ok") <=> (Has(in[j], "RESULT_OK") \/ req[j].pc = "ok")
    BY <1>2, <1>3
  <2>2. Delivered(j)' <=> Has(in'[j], "RESULT_OK") \/ req'[j].pc = "ok"
    BY DEF Delivered, Has
  <2>3. Refused(j)' <=> \/ Has(in'[j], "TASK_REJECT") \/ Has(in'[j], "RESULT_ERROR")
                        \/ req'[j].pc \in {"rejected", "reported"}
    BY DEF Refused, Has
  <2>4. Refused(j)' => Refused(j)
    BY <1>2, <1>3, <2>3 DEF Refused
  <2> QED
    BY <2>1, <2>2, <2>4 DEF Delivered
<1>5. pc \in Past
  BY DEF Past
<1> QED
  BY <1>1, <1>2, <1>4, <1>5, CallerStep

LEMMA OfferPays ==
  ASSUME IInv, NEW j \in Job, PayInv(j), Offer(j) \/ Accepted(j)
  PROVE  PayInv(j)' /\ HireStep(j)
BY ReadStep DEF Offer, Accepted, Next1

\* Where the work of job j stands, before and after a step.
LEMMA WorkBeforeAndAfter ==
  ASSUME NEW j
  PROVE  /\ Work(j) = IF Earned(j) THEN "earned" ELSE IF Delivered(j) THEN "finished" ELSE "none"
         /\ Work(j)' = IF Earned(j)' THEN "earned"
                       ELSE IF Delivered(j)' THEN "finished" ELSE "none"
<1>1. Work(j)' = IF Earned(j)' THEN "earned" ELSE IF Delivered(j)' THEN "finished" ELSE "none"
  BY DEF Work, Earned, Delivered, Has
<1> QED
  BY <1>1, WorkIs

(* Closing the escrow.  It is open, so nothing raises.                     *)
LEMMA ClosePays ==
  ASSUME IInv, NEW j \in Job, PayInv(j), req[j].pc \in Active, NEW r, NEW outcome,
         \/ r = SettleRecord(j, req[j].worker) /\ outcome = "ok" /\ Delivered(j)
         \/ r = RefundRecord(j) /\ outcome = "failed"
         \/ r = RefundRecord(j) /\ outcome \in {"rejected", "reported"} /\ Refused(j),
         Close(j, r, outcome),
         UNCHANGED <<srv, out>>,
         Has(in[j], "RESULT_OK") => Has(in'[j], "RESULT_OK") \/ outcome = "ok",
         \A x : Has(in'[j], x) => Has(in[j], x),
         in[j] = <<>> => in'[j] = <<>>
  PROVE  PayInv(j)' /\ HireStep(j)
<1> DEFINE me == req[j].me
<1>1. JobInv(j) /\ TypeOK
  BY DEF IInv
<1>2. /\ me \in Peer /\ me # NoPeer /\ req[j].worker \in Peer /\ req[j].worker # me
      /\ IsOpen(ledger[me], j)
  BY <1>1, DelegationAssumption DEF JobInv, Called, Books, Active
<1>3. KindsOf(ledger[me], j) = {"escrow"}
  BY <1>2 DEF PayInv, Kept, ClaimKinds, IsOpen
<1>4. Record1(me, r) /\ ReqGoes(j, outcome)
  BY <1>2 DEF Close
<1>5. r \in Record /\ r.job = j /\ r.kind = IF outcome = "ok" THEN "settle" ELSE "refund"
  BY <1>2, RecordTypes DEF SettleRecord, RefundRecord, Transfer
<1>6. req'[j].pc = outcome /\ req'[j].me = me /\ req'[j].worker = req[j].worker
  <2>1. outcome \in ReqPc
    BY DEF ReqPc, Ended
  <2> QED
    BY <1>1, <1>4, <2>1, CallerFacts
<1>7. /\ KindsOf(ledger'[me], j) = {"escrow", r.kind}
      /\ \A q \in Peer : q # me => ledger'[q] = ledger[q]
      /\ OwnWork(ledger[me], j, me) => OwnWork(ledger'[me], j, me)
  <2>1. /\ KindsOf(ledger'[me], j) = KindsOf(ledger[me], j) \cup {r.kind}
        /\ \A q \in Peer : q # me => ledger'[q] = ledger[q]
        /\ \A who : OwnWork(ledger[me], j, who) => OwnWork(ledger'[me], j, who)
    BY <1>1, <1>2, <1>4, <1>5, OwnRecord, ZenonT(40)
  <2> QED
    BY <1>3, <2>1
<1>8. Delivered(j)' <=> Delivered(j)
  <2>1. Delivered(j)' <=> Has(in'[j], "RESULT_OK") \/ req'[j].pc = "ok"
    BY DEF Delivered, Has
  <2>2. req[j].pc # "ok"
    BY DEF Active
  <2> QED
    BY <1>6, <2>1, <2>2 DEF Delivered
<1>9. Refused(j)' => Refused(j)
  <2>1. Refused(j)' <=> \/ Has(in'[j], "TASK_REJECT") \/ Has(in'[j], "RESULT_ERROR")
                        \/ req'[j].pc \in {"rejected", "reported"}
    BY DEF Refused, Has
  <2> QED
    BY <1>6, <2>1 DEF Refused
<1>10. Earned(j)' <=> Earned(j)
  <2>1. \A q \in Peer : "work" \in KindsOf(ledger'[q], j) <=> "work" \in KindsOf(ledger[q], j)
    BY <1>3, <1>5, <1>7
  <2> QED
    BY <2>1 DEF Earned
<1>11. outcome \in Past
  BY DEF Past
<1>12. Committed(j)'
  BY <1>6, <1>8, <1>9, <1>11 DEF PayInv, Committed
<1>13. Answer(j)'
  BY <1>6, <1>8, <1>9, <1>10 DEF PayInv, Answer
<1>14. Kept(j)'
  <2>1. KindsOf(ledger'[me], j) \in ClaimKinds /\ "work" \notin KindsOf(ledger'[me], j)
    BY <1>5, <1>7 DEF ClaimKinds
  <2> QED
    BY <1>6, <1>7, <1>8, <2>1 DEF PayInv, Kept
<1>15. Work(j)' = Work(j)
  BY <1>8, <1>10, WorkBeforeAndAfter
<1>16. Claim(j) = "held"
  BY <1>2, <1>3 DEF Claim
<1>17. Claim(j)' = IF outcome = "ok" THEN "paid" ELSE "returned"
  <2>1. CASE outcome = "ok"
    <3>1. KindsOf(ledger'[me], j) = {"escrow", "settle"}
      BY <1>5, <1>7, <2>1
    <3> QED
      BY <1>2, <1>6, <2>1, <3>1 DEF Claim
  <2>2. CASE outcome # "ok"
    <3>1. KindsOf(ledger'[me], j) = {"escrow", "refund"}
      BY <1>5, <1>7, <2>2
    <3> QED
      BY <1>2, <1>6, <2>2, <3>1 DEF Claim
  <2> QED
    BY <2>1, <2>2
<1>18. outcome = "ok" => Work(j) # "none"
  BY WorkBeforeAndAfter
<1> QED
  BY <1>12, <1>13, <1>14, <1>15, <1>16, <1>17, <1>18 DEF PayInv, HireStep

LEMMA ReturnPays ==
  ASSUME IInv, NEW j \in Job, PayInv(j), Rejected(j) \/ Reported(j) \/ Settle(j)
  PROVE  PayInv(j)' /\ HireStep(j)
<1>1. in \in [Job -> Seq(Message)] /\ in[j] # <<>> /\ in' = Taken(in, j)
      /\ UNCHANGED <<srv, out>> /\ req[j].pc \in Active
  BY DEF IInv, TypeOK, Rejected, Reported, Settle, Next1, Active
<1>2. \A x : Has(in[j], x) <=> Has(in'[j], x) \/ x = Head(in[j])
  BY <1>1, HasTaken
<1>3. CASE Rejected(j)
  <2>1. Head(in[j]) = "TASK_REJECT" /\ Close(j, RefundRecord(j), "rejected")
    BY <1>3 DEF Rejected, Next1
  <2>2. Refused(j)
    BY <1>2, <2>1 DEF Refused
  <2> QED
    BY <1>1, <1>2, <2>1, <2>2, ClosePays
<1>4. CASE Reported(j)
  <2>1. Head(in[j]) = "RESULT_ERROR" /\ Close(j, RefundRecord(j), "reported")
    BY <1>4 DEF Reported, Next1
  <2>2. Refused(j)
    BY <1>2, <2>1 DEF Refused
  <2> QED
    BY <1>1, <1>2, <2>1, <2>2, ClosePays
<1>5. CASE Settle(j)
  <2>1. Head(in[j]) = "RESULT_OK" /\ Close(j, SettleRecord(j, req[j].worker), "ok")
    BY <1>5 DEF Settle, Next1
  <2>2. Delivered(j)
    BY <1>2, <2>1 DEF Delivered
  <2> QED
    BY <1>1, <1>2, <2>1, <2>2, ClosePays
<1> QED
  BY <1>3, <1>4, <1>5

LEMMA FailPays ==
  ASSUME IInv, NEW j \in Job, PayInv(j), Fail(j)
  PROVE  PayInv(j)' /\ HireStep(j)
<1>1. req[j].pc \in Active /\ Close(j, RefundRecord(j), "failed") /\ UNCHANGED <<srv, out, in>>
  BY DEF Fail
<1> QED
  BY <1>1, ClosePays

-----------------------------------------------------------------------------
(* The worker.                                                             *)

\* Until the worker has an answer there is none.
LEMMA NoAnswerYet ==
  ASSUME NEW j \in Job, PayInv(j),
         srv[j].pc \in {"queued", "accepted", "greeted", "executing"}
  PROVE  ~Delivered(j) /\ ~Refused(j) /\ ~Earned(j)
BY DEF PayInv, Answer, Kept, Earned

(* A step of the worker that writes no record.                             *)
LEMMA WorkerStep ==
  ASSUME IInv, NEW j \in Job, PayInv(j), NEW pc \in SrvPc \ {"none"}, SrvGoes(j, pc),
         srv[j].pc \in {"queued", "accepted", "greeted", "executing"},
         UNCHANGED <<ledger, req>>,
         Has(out'[j], "TASK_OFFER") => Has(out[j], "TASK_OFFER"),
         Delivered(j)' <=> pc = "crediting",
         Refused(j)' => pc = "closed",
         pc \in {"executing", "crediting"} \/ Refused(j)'
           => srv[j].pc = "executing" \/ Has(out[j], "TASK_OFFER")
  PROVE  PayInv(j)' /\ HireStep(j)
<1>1. JobInv(j) /\ TypeOK
  BY DEF IInv
<1>2. srv'[j].pc = pc /\ srv'[j].at = srv[j].at
  BY <1>1, SrvFacts
<1>3. ~Delivered(j) /\ ~Refused(j) /\ ~Earned(j)
  BY NoAnswerYet
<1>4. ~Earned(j)'
  BY <1>3 DEF Earned
<1>5. Committed(j)'
  BY <1>2 DEF PayInv, Committed
<1>6. Answer(j)'
  <2>1. srv[j].pc = "executing" \/ Has(out[j], "TASK_OFFER") => srv[j].at = req[j].worker
    BY <1>1 DEF JobInv, Offered, Has
  <2> QED
    BY <1>2, <1>4, <2>1 DEF Answer
<1>7. Kept(j)'
  BY <1>2, <1>3 DEF PayInv, Kept, Earned
<1>8. Claim(j)' = Claim(j)
  BY <1>1, ClaimSame
<1>9. Claim(j) # "none"
  <2>1. req[j].me \in Peer /\ req[j].me # NoPeer /\ In(ledger[req[j].me], EscrowRecord(j))
    BY <1>1, DelegationAssumption DEF JobInv, Connected, Called, Early
  <2>2. "escrow" \in KindsOf(ledger[req[j].me], j)
    BY <2>1 DEF In, KindsOf, EscrowRecord, Transfer
  <2>3. KindsOf(ledger[req[j].me], j) \in {{"escrow"}, {"escrow", "settle"}, {"escrow", "refund"}}
    BY <2>1, <2>2 DEF PayInv, Kept, ClaimKinds
  <2> QED
    BY <2>1, <2>3 DEF Claim
<1>10. Work(j) = "none" /\ Work(j)' \in {"none", "finished"}
  BY <1>3, <1>4, WorkBeforeAndAfter
<1> QED
  BY <1>5, <1>6, <1>7, <1>8, <1>9, <1>10 DEF PayInv, HireStep

LEMMA AcceptPays ==
  ASSUME IInv, NEW j \in Job, PayInv(j), Accept(j) \/ ServeFails(j)
  PROVE  PayInv(j)' /\ HireStep(j)
<1>1. PICK pc \in {"accepted", "closed"} : SrvGoes(j, pc)
  BY DEF Accept, ServeFails
<1>2. srv[j].pc \in {"queued", "accepted", "greeted", "executing"}
      /\ UNCHANGED <<ledger, req, out, in>>
  BY DEF Accept, ServeFails
<1>3. ~Delivered(j) /\ ~Refused(j)
  BY <1>2, NoAnswerYet
<1>4. ~Delivered(j)' /\ ~Refused(j)'
  BY <1>2, <1>3 DEF Delivered, Refused, Has
<1>5. pc \in SrvPc \ {"none"}
  BY DEF SrvPc, Serving
<1> QED
  BY <1>1, <1>2, <1>4, <1>5, WorkerStep

(* A worker's step that sends a message, and may have read one.            *)
LEMMA SendStep ==
  ASSUME IInv, NEW j \in Job, PayInv(j), NEW pc \in SrvPc \ {"none"}, SrvGoes(j, pc),
         srv[j].pc \in {"accepted", "greeted", "executing"},
         UNCHANGED <<ledger, req>>,
         out' = out \/ (out[j] # <<>> /\ out' = Taken(out, j)),
         NEW m \in Message, in' = Sent(in, j, m),
         m = "RESULT_OK" <=> pc = "crediting",
         m \in {"TASK_REJECT", "RESULT_ERROR"} => pc = "closed",
         pc \in {"executing", "crediting", "closed"}
           => srv[j].pc = "executing" \/ Has(out[j], "TASK_OFFER")
  PROVE  PayInv(j)' /\ HireStep(j)
<1>1. in \in [Job -> Seq(Message)] /\ out \in [Job -> Seq(Message)]
  BY DEF IInv, TypeOK
<1>2. ~Delivered(j) /\ ~Refused(j)
  BY NoAnswerYet
<1>3. \A x : Has(in'[j], x) <=> Has(in[j], x) \/ x = m
  BY <1>1, HasSent
<1>4. Delivered(j)' <=> m = "RESULT_OK"
  <2>1. Delivered(j)' <=> Has(in'[j], "RESULT_OK") \/ req'[j].pc = "ok"
    BY DEF Delivered, Has
  <2> QED
    BY <1>2, <1>3, <2>1 DEF Delivered
<1>5. Refused(j)' => m \in {"TASK_REJECT", "RESULT_ERROR"}
  <2>1. Refused(j)' <=> \/ Has(in'[j], "TASK_REJECT") \/ Has(in'[j], "RESULT_ERROR")
                        \/ req'[j].pc \in {"rejected", "reported"}
    BY DEF Refused, Has
  <2> QED
    BY <1>2, <1>3, <2>1 DEF Refused
<1>6. Has(out'[j], "TASK_OFFER") => Has(out[j], "TASK_OFFER")
  <2>1. CASE out' = out
    BY <2>1
  <2>2. CASE out[j] # <<>> /\ out' = Taken(out, j)
    BY <1>1, <2>2, HasTaken
  <2> QED
    BY <2>1, <2>2
<1> QED
  BY <1>4, <1>5, <1>6, WorkerStep

LEMMA SendPays ==
  ASSUME IInv, NEW j \in Job, PayInv(j),
         HandshakeInbound(j) \/ HandleTaskOffer(j) \/ SendResult(j)
  PROVE  PayInv(j)' /\ HireStep(j)
<1> USE DEF SrvPc, Serving, Message
<1>1. CASE HandshakeInbound(j)
  BY <1>1, SendStep DEF HandshakeInbound, Next1
<1>2. CASE HandleTaskOffer(j)
  <2>1. /\ srv[j].pc = "greeted" /\ out[j] # <<>> /\ out' = Taken(out, j)
        /\ Head(out[j]) = "TASK_OFFER" /\ UNCHANGED <<ledger, req>>
    BY <1>2 DEF HandleTaskOffer, Next1
  <2>2. out \in [Job -> Seq(Message)]
    BY DEF IInv, TypeOK
  <2>3. Has(out[j], "TASK_OFFER")
    BY <2>1, <2>2, HasTaken
  <2>4. \/ SrvGoes(j, "closed") /\ in' = Sent(in, j, "TASK_REJECT")
        \/ SrvGoes(j, "executing") /\ in' = Sent(in, j, "TASK_ACCEPT")
    BY <1>2 DEF HandleTaskOffer
  <2> QED
    BY <2>1, <2>3, <2>4, SendStep
<1>3. CASE SendResult(j)
  <2>1. srv[j].pc = "executing" /\ UNCHANGED <<ledger, req, out>>
    BY <1>3 DEF SendResult
  <2>2. \/ SrvGoes(j, "crediting") /\ in' = Sent(in, j, "RESULT_OK")
        \/ SrvGoes(j, "closed") /\ in' = Sent(in, j, "RESULT_ERROR")
    BY <1>3 DEF SendResult
  <2> QED
    BY <2>1, <2>2, SendStep
<1> QED
  BY <1>1, <1>2, <1>3

LEMMA CreditPays ==
  ASSUME IInv, NEW j \in Job, PayInv(j), CreditForWork(j)
  PROVE  PayInv(j)' /\ HireStep(j)
<1> DEFINE p == srv[j].at
           me == req[j].me
<1>1. JobInv(j) /\ TypeOK
  BY DEF IInv
<1>2. /\ srv[j].pc = "crediting" /\ SrvGoes(j, "closed") /\ UNCHANGED <<req, out, in>>
  BY DEF CreditForWork
<1>3. /\ p \in Peer /\ p = req[j].worker /\ p # me /\ me \in Peer
  BY <1>1, <1>2 DEF JobInv, Connected, Offered, Called, Early
<1>4. srv'[j].pc = "closed" /\ srv'[j].at = p
  BY <1>1, <1>2, SrvFacts DEF SrvPc
<1>5. Delivered(j) /\ ~Refused(j) /\ ~Earned(j) /\ req[j].pc \in Past
  BY <1>2 DEF PayInv, Committed, Answer, Kept, Earned
<1>6. KindsOf(ledger[p], j) = {}
  BY <1>3, <1>5 DEF PayInv, Kept, Earned
<1>7. Record1(p, WorkRecord(j, me))
  BY <1>6 DEF CreditForWork, CanCredit
<1>8. /\ KindsOf(ledger'[p], j) = {"work"}
      /\ \A q \in Peer : q # p => ledger'[q] = ledger[q]
      /\ OwnWork(ledger[p], j, me) => OwnWork(ledger'[p], j, me)
  <2>1. PICK r \in Record : /\ r.job = j /\ r.kind = "work" /\ r = WorkRecord(j, me)
                            /\ Record1(p, r)
    BY <1>3, <1>7, RecordTypes DEF WorkRecord, Transfer
  <2>2. /\ KindsOf(ledger'[p], j) = KindsOf(ledger[p], j) \cup {r.kind}
        /\ \A q \in Peer : q # p => ledger'[q] = ledger[q]
        /\ OwnWork(ledger[p], j, me) => OwnWork(ledger'[p], j, me)
    <3>1. TypeOK /\ p \in Peer
      BY <1>1, <1>3
    <3> HIDE DEF p, me
    <3> QED
      BY <2>1, <3>1, OwnRecord
  <2> QED
    BY <1>6, <2>1, <2>2
<1>9. Delivered(j)' /\ ~Refused(j)'
  BY <1>2, <1>5 DEF Delivered, Refused, Has
<1>10. Earned(j)'
  BY <1>3, <1>8 DEF Earned
<1>11. Committed(j)'
  BY <1>2, <1>4, <1>5, <1>9 DEF PayInv, Committed, Has
<1>12. Answer(j)'
  BY <1>2, <1>3, <1>4, <1>9, <1>10 DEF Answer
<1>13. Kept(j)'
  <2>1. /\ KindsOf(ledger'[p], j) = {"work"} /\ p # me /\ p = req'[j].worker
        /\ srv'[j].at = p /\ req'[j].me = me
    BY <1>2, <1>3, <1>4, <1>8
  <2>2. ASSUME NEW q \in Peer, q # p
        PROVE  ledger'[q] = ledger[q] /\ "work" \notin KindsOf(ledger[q], j)
    BY <1>5, <1>8, <2>2 DEF Earned
  <2> QED
    BY <1>4, <1>8, <1>9, <2>1, <2>2 DEF PayInv, Kept
<1>14. Claim(j)' = Claim(j)
  <2>1. ledger'[me] = ledger[me] /\ req'[j].me = me
    BY <1>2, <1>3, <1>8
  <2> QED
    BY <2>1 DEF Claim
<1>15. Work(j) = "finished" /\ Work(j)' = "earned"
  BY <1>5, <1>10, WorkBeforeAndAfter
<1> QED
  BY <1>11, <1>12, <1>13, <1>14, <1>15 DEF PayInv, HireStep

-----------------------------------------------------------------------------
(* Processes stop and start, whatever they were doing.                     *)

LEMMA CrashPays ==
  ASSUME IInv, NEW p \in Peer, Crash(p) \/ Restart(p), NEW j \in Job, PayInv(j)
  PROVE  PayInv(j)' /\ Claim(j)' = Claim(j) /\ Work(j)' = Work(j)
<1>1. TypeOK /\ UNCHANGED <<ledger, out, in>>
  BY DEF IInv, Crash, Restart
<1>2. /\ req'[j].me = req[j].me /\ req'[j].worker = req[j].worker
      /\ req'[j].pc = req[j].pc \/ (req[j].pc \notin Ended /\ req'[j].pc = "lost")
  <2>1. req[j] \in [pc : ReqPc, me : Peer \cup {NoPeer}, worker : Peer \cup {NoPeer}]
    BY <1>1 DEF TypeOK
  <2>2. \/ req'[j] = req[j]
        \/ req[j].pc \notin Ended /\ req'[j] = [req[j] EXCEPT !.pc = "lost"]
    BY DEF Crash, Restart
  <2> QED
    BY <2>1, <2>2
<1>3. /\ srv'[j].at = srv[j].at
      /\ \/ srv'[j].pc = srv[j].pc
         \/ srv[j].pc = "queued" /\ srv'[j].pc = "reset"
         \/ srv[j].pc \in Serving /\ srv'[j].pc = "killed"
  <2>1. srv[j] \in [pc : SrvPc, at : Peer \cup {NoPeer}]
    BY <1>1 DEF TypeOK
  <2>2. \/ srv'[j] = srv[j]
        \/ srv[j].pc = "queued" /\ srv'[j] = [srv[j] EXCEPT !.pc = "reset"]
        \/ srv[j].pc \in Serving /\ srv'[j] = [srv[j] EXCEPT !.pc = "killed"]
    BY DEF Crash, Restart
  <2> QED
    BY <2>1, <2>2
<1>4. (Delivered(j)' <=> Delivered(j)) /\ (Refused(j)' <=> Refused(j))
  BY <1>1, <1>2 DEF Delivered, Refused, Has, Ended
<1>5. /\ Earned(j)' <=> Earned(j)
      /\ Claim(j)' = Claim(j) /\ Work(j)' = Work(j)
  BY <1>1, <1>2, <1>4, SameWork
<1>6. Committed(j)'
  BY <1>1, <1>2, <1>3, <1>4 DEF PayInv, Committed, Past, Serving, Has
<1>7. Answer(j)'
  BY <1>2, <1>3, <1>4, <1>5 DEF PayInv, Answer, Serving
<1>8. Kept(j)'
  BY <1>1, <1>2, <1>3, <1>4 DEF PayInv, Kept, Serving
<1> QED
  BY <1>5, <1>6, <1>7, <1>8 DEF PayInv

-----------------------------------------------------------------------------
(* A step of one job leaves the others alone.                              *)

LEMMA NoRecord ==
  ASSUME UNCHANGED ledger, NEW k
  PROVE  SameRecords(k)
BY DEF SameRecords

LEMMA CallerElsewhere ==
  ASSUME IInv, NEW j \in Job, Delegate(j), NEW k \in Job, k # j
  PROVE  Apart(k) /\ in'[k] = in[k] /\ SameRecords(k)
<1> USE DEF Apart, Sent, Taken, ReqGoes
<1>1. JobInv(j) /\ TypeOK
  BY DEF IInv
<1>2. /\ req \in [Job -> [pc : ReqPc, me : Peer \cup {NoPeer}, worker : Peer \cup {NoPeer}]]
      /\ srv \in [Job -> [pc : SrvPc, at : Peer \cup {NoPeer}]]
      /\ out \in [Job -> Seq(Message)] /\ in \in [Job -> Seq(Message)]
  BY <1>1 DEF TypeOK
<1>3. CASE Escrow(j)
  <2>1. Apart(k) /\ in'[k] = in[k]
    BY <1>2, <1>3 DEF Escrow
  <2>2. req[j].me \in Peer
    BY <1>1, <1>3 DEF JobInv, Called, Escrow
  <2>3. EscrowRecord(j) \in Record /\ EscrowRecord(j).job # k
    BY RecordTypes DEF EscrowRecord, Transfer
  <2>4. Record1(req[j].me, EscrowRecord(j)) \/ UNCHANGED ledger
    BY <1>3 DEF Escrow
  <2> QED
    BY <1>1, <2>1, <2>2, <2>3, <2>4, OtherRecords, NoRecord
<1>4. CASE \/ \E at \in Peer : Connect(j, at)
           \/ NameLost(j) \/ Greet(j) \/ Offer(j) \/ Accepted(j)
  <2>1. Apart(k) /\ in'[k] = in[k]
    BY <1>2, <1>4 DEF Connect, NameLost, Greet, Offer, Accepted
  <2>2. UNCHANGED ledger
    BY <1>4 DEF Connect, NameLost, Greet, Offer, Accepted
  <2> QED
    BY <2>1, <2>2, NoRecord
<1>5. CASE Rejected(j) \/ Reported(j) \/ Settle(j) \/ Fail(j)
  <2>1. Apart(k) /\ in'[k] = in[k]
    BY <1>2, <1>5 DEF Rejected, Reported, Settle, Fail, Close
  <2>2. req[j].me \in Peer /\ req[j].worker \in Peer
    BY <1>1, <1>5 DEF JobInv, Called, Rejected, Reported, Settle, Fail, Active
  <2>3. \/ Record1(req[j].me, RefundRecord(j))
        \/ Record1(req[j].me, SettleRecord(j, req[j].worker))
        \/ UNCHANGED ledger
    BY <1>5 DEF Rejected, Reported, Settle, Fail, Close
  <2>4. /\ RefundRecord(j) \in Record /\ RefundRecord(j).job # k
        /\ SettleRecord(j, req[j].worker) \in Record
        /\ SettleRecord(j, req[j].worker).job # k
    BY <2>2, RecordTypes DEF RefundRecord, SettleRecord, Transfer
  <2> QED
    BY <1>1, <2>1, <2>2, <2>3, <2>4, OtherRecords, NoRecord
<1> QED
  BY <1>3, <1>4, <1>5 DEF Delegate

LEMMA WorkerElsewhere ==
  ASSUME IInv, NEW j \in Job, Accept(j) \/ ServeConnection(j), NEW k \in Job, k # j
  PROVE  Apart(k) /\ in'[k] = in[k] /\ SameRecords(k)
<1> USE DEF Apart, Sent, Taken, SrvGoes
<1>1. JobInv(j) /\ TypeOK
  BY DEF IInv
<1>2. /\ srv \in [Job -> [pc : SrvPc, at : Peer \cup {NoPeer}]]
      /\ out \in [Job -> Seq(Message)] /\ in \in [Job -> Seq(Message)]
  BY <1>1 DEF TypeOK
<1>3. CASE Accept(j) \/ HandshakeInbound(j) \/ HandleTaskOffer(j) \/ SendResult(j) \/ ServeFails(j)
  <2>1. Apart(k) /\ in'[k] = in[k]
    BY <1>2, <1>3 DEF Accept, HandshakeInbound, HandleTaskOffer, SendResult, ServeFails
  <2>2. UNCHANGED ledger
    BY <1>3 DEF Accept, HandshakeInbound, HandleTaskOffer, SendResult, ServeFails
  <2> QED
    BY <2>1, <2>2, NoRecord
<1>4. CASE CreditForWork(j)
  <2>1. Apart(k) /\ in'[k] = in[k]
    BY <1>2, <1>4 DEF CreditForWork
  <2>2. srv[j].at \in Peer /\ req[j].me \in Peer
    BY <1>1, <1>4 DEF JobInv, Connected, Called, Early, CreditForWork
  <2>3. WorkRecord(j, req[j].me) \in Record /\ WorkRecord(j, req[j].me).job # k
    BY <2>2, RecordTypes DEF WorkRecord, Transfer
  <2>4. Record1(srv[j].at, WorkRecord(j, req[j].me)) \/ UNCHANGED ledger
    BY <1>4 DEF CreditForWork
  <2> QED
    BY <1>1, <2>1, <2>2, <2>3, <2>4, OtherRecords, NoRecord
<1> QED
  BY <1>3, <1>4 DEF ServeConnection

LEMMA CallElsewhere ==
  ASSUME IInv, NEW j \in Job, NEW me, NEW worker, Call(j, me, worker), NEW k \in Job, k # j
  PROVE  Apart(k) /\ in'[k] = in[k] /\ SameRecords(k)
<1>1. UNCHANGED <<ledger, srv, out, in>> /\ req'[k] = req[k]
  BY DEF IInv, TypeOK, Call
<1> QED
  BY <1>1, NoRecord DEF Apart

-----------------------------------------------------------------------------
(* The invariant and the contract together.                                *)

(* What every step does.                                                   *)
PayStep ==
  /\ PInv'
  /\ \/ \A k \in Job : Claim(k)' = Claim(k) /\ Work(k)' = Work(k)
     \/ \E j \in Job : /\ HireStep(j)
                       /\ \A k \in Job : k # j => Claim(k)' = Claim(k) /\ Work(k)' = Work(k)

LEMMA InitPInv == Init => PInv
<1> SUFFICES ASSUME Init, NEW j \in Job PROVE PayInv(j)
  BY DEF PInv
<1>1. \A p \in Peer : KindsOf(ledger[p], j) = {}
  BY LedgerAssumption DEF Init, KindsOf, Opening, Transfer
<1>2. \A p \in Peer : \A me : OwnWork(ledger[p], j, me)
  BY LedgerAssumption DEF Init, OwnWork, Opening, Transfer
<1>3. ~Delivered(j) /\ ~Refused(j) /\ ~Earned(j)
  BY <1>1 DEF Init, Delivered, Refused, Earned, Has
<1>4. Committed(j) /\ Answer(j)
  BY <1>3 DEF Init, Committed, Answer, Has
<1>5. Kept(j)
  BY <1>1, <1>2, DelegationAssumption DEF Init, Kept, ClaimKinds
<1> QED
  BY <1>4, <1>5 DEF PayInv

\* The step of one job, with the others left alone.
LEMMA OneJob ==
  ASSUME IInv, PInv, NEW j \in Job, PayInv(j)' /\ HireStep(j),
         \A k \in Job : k # j => Apart(k) /\ in'[k] = in[k] /\ SameRecords(k)
  PROVE  PayStep
<1>1. TypeOK
  BY DEF IInv
<1>2. ASSUME NEW k \in Job, k # j
      PROVE  PayInv(k)' /\ Claim(k)' = Claim(k) /\ Work(k)' = Work(k)
  <2>1. PayInv(k)
    BY DEF PInv
  <2> QED
    BY <1>1, <1>2, <2>1, OtherJobPays
<1>3. PInv'
  BY <1>2 DEF PInv
<1> QED
  BY <1>2, <1>3 DEF PayStep

LEMMA NextPays ==
  ASSUME IInv, PInv, [Next]_vars
  PROVE  PayStep
<1>1. ASSUME NEW j \in Job, NEW me \in Peer, NEW worker \in Peer, Call(j, me, worker)
      PROVE  PayStep
  <2>1. PayInv(j)' /\ HireStep(j)
    BY <1>1, CallPays DEF PInv
  <2>2. \A k \in Job : k # j => Apart(k) /\ in'[k] = in[k] /\ SameRecords(k)
    BY <1>1, CallElsewhere
  <2> QED
    BY <2>1, <2>2, OneJob
<1>2. ASSUME NEW j \in Job, Delegate(j)
      PROVE  PayStep
  <2>1. PayInv(j)
    BY DEF PInv
  <2>2. PayInv(j)' /\ HireStep(j)
    BY <1>2, <2>1, EscrowPays, ConnectPays, NameLostPays, GreetPays, OfferPays,
       ReturnPays, FailPays DEF Delegate
  <2>3. \A k \in Job : k # j => Apart(k) /\ in'[k] = in[k] /\ SameRecords(k)
    BY <1>2, CallerElsewhere
  <2> QED
    BY <2>2, <2>3, OneJob
<1>3. ASSUME NEW j \in Job, Accept(j) \/ ServeConnection(j)
      PROVE  PayStep
  <2>1. PayInv(j)
    BY DEF PInv
  <2>2. PayInv(j)' /\ HireStep(j)
    BY <1>3, <2>1, AcceptPays, SendPays, CreditPays DEF ServeConnection
  <2>3. \A k \in Job : k # j => Apart(k) /\ in'[k] = in[k] /\ SameRecords(k)
    BY <1>3, WorkerElsewhere
  <2> QED
    BY <2>2, <2>3, OneJob
<1>4. ASSUME NEW p \in Peer, Crash(p) \/ Restart(p)
      PROVE  PayStep
  <2>1. \A j \in Job : PayInv(j)' /\ Claim(j)' = Claim(j) /\ Work(j)' = Work(j)
    BY <1>4, CrashPays DEF PInv
  <2> QED
    BY <2>1 DEF PayStep, PInv
<1>5. CASE UNCHANGED vars
  <2>1. ASSUME NEW k \in Job
        PROVE  PayInv(k)' /\ Claim(k)' = Claim(k) /\ Work(k)' = Work(k)
    <3>1. Apart(k) /\ in'[k] = in[k] /\ UNCHANGED ledger
      BY <1>5 DEF vars, Apart
    <3>2. SameRecords(k)
      BY <3>1, NoRecord
    <3>3. PayInv(k) /\ TypeOK
      BY DEF PInv, IInv
    <3> QED
      BY <3>1, <3>2, <3>3, OtherJobPays
  <2> QED
    BY <2>1 DEF PayStep, PInv
<1> QED
  BY <1>1, <1>2, <1>3, <1>4, <1>5 DEF Next

-----------------------------------------------------------------------------
(* The theorems.                                                           *)

(* Both invariants hold always.                                            *)
THEOREM PaymentInvariant == Spec => [](IInv /\ PInv)
<1>1. Init => IInv /\ PInv
  BY InitIInv, InitPInv
<1>2. (IInv /\ PInv) /\ [Next]_vars => (IInv /\ PInv)'
  BY NextIInv, NextPays DEF PayStep
<1> QED
  BY <1>1, <1>2, PTL DEF Spec

(* No worker is paid for work that it did not finish, whatever crashes and *)
(* whatever is lost (peer.py:218-221, 308).                                *)
THEOREM PaymentIsEarned == Spec => []PaidIsEarned
<1>1. IInv /\ PInv => PaidIsEarned
  <2> SUFFICES ASSUME IInv, PInv, NEW j \in Job, NEW r \in Peer, NEW w \in Peer,
                      Holds(r, SettleRecord(j, w))
               PROVE  \/ Holds(w, WorkRecord(j, r))
                      \/ srv[j].at = w /\ srv[j].pc \in {"crediting", "killed"}
    BY DEF PaidIsEarned
  <2>1. JobInv(j) /\ TypeOK /\ PayInv(j)
    BY DEF IInv, PInv
  <2>2. PICK i \in DOMAIN ledger[r] : ledger[r][i] = SettleRecord(j, w)
    BY DEF Holds
  <2>3. /\ ledger[r][i].job = j /\ ledger[r][i].kind = "settle" /\ ledger[r][i].to = w
        /\ i \in Closing(ledger[r], j) /\ "settle" \in KindsOf(ledger[r], j)
    BY <2>2 DEF SettleRecord, Transfer, Closing, KindsOf
  <2>4. r = req[j].me
    BY <2>1, <2>3 DEF PayInv, Kept
  <2>5. req[j].pc # "idle" /\ req[j].pc \in ReqPc
    BY <2>1, <2>3 DEF JobInv, Unknown, TypeOK
  <2>6. Books(ledger[r], j, req[j].pc, req[j].worker)
    BY <2>1, <2>4, <2>5 DEF JobInv, Called
  <2>7. req[j].pc = "ok" /\ w = req[j].worker
    <3>1. req[j].pc \notin {"chosen", "refused", "raised", "lost"} \cup Active
      BY <2>3, <2>6 DEF Books, IsOpen
    <3>2. req[j].pc \notin {"rejected", "reported", "failed"}
      BY <2>3, <2>6 DEF Books, RefundRecord, Transfer
    <3>3. req[j].pc = "ok"
      BY <2>5, <3>1, <3>2 DEF ReqPc, Ended
    <3>4. ledger[r][i] = SettleRecord(j, req[j].worker)
      BY <2>3, <2>6, <3>3 DEF Books
    <3>5. ledger[r][i].to = req[j].worker
      BY <3>4 DEF SettleRecord, Transfer
    <3> QED
      BY <2>3, <3>3, <3>5
  <2>8. /\ srv[j].at = w
        /\ srv[j].pc \in {"crediting", "killed"} \/ Earned(j)
    BY <2>1, <2>7 DEF PayInv, Answer, Delivered
  <2>9. ASSUME Earned(j) PROVE Holds(w, WorkRecord(j, r))
    <3>1. "work" \in KindsOf(ledger[w], j) /\ OwnWork(ledger[w], j, r)
      BY <2>1, <2>4, <2>7, <2>9 DEF PayInv, Kept, Earned
    <3>2. \E n \in DOMAIN ledger[w] : ledger[w][n].job = j /\ ledger[w][n].kind = "work"
      BY <3>1 DEF KindsOf
    <3> QED
      BY <3>1, <3>2 DEF OwnWork, Holds
  <2> QED
    BY <2>8, <2>9
<1> QED
  BY <1>1, PaymentInvariant, PTL

(* No worker earns but from the requester that chose it, has set a credit  *)
(* aside and knows of no failure (peer.py:197-221, 284, 300).              *)
THEOREM EarningIsAgreed == Spec => []EarnedIsAgreed
<1>1. IInv /\ PInv => EarnedIsAgreed
  <2> SUFFICES ASSUME IInv, PInv, NEW j \in Job, NEW r \in Peer, NEW w \in Peer,
                      Holds(w, WorkRecord(j, r))
               PROVE  /\ r # w
                      /\ req[j].me = r /\ req[j].worker = w
                      /\ Holds(r, EscrowRecord(j))
                      /\ req[j].pc \in {"waiting", "offered", "ok", "failed", "lost"}
    BY DEF EarnedIsAgreed
  <2>1. JobInv(j) /\ TypeOK /\ PayInv(j)
    BY DEF IInv, PInv
  <2>2. PICK i \in DOMAIN ledger[w] : ledger[w][i] = WorkRecord(j, r)
    BY DEF Holds
  <2>3. /\ ledger[w][i].job = j /\ ledger[w][i].kind = "work" /\ ledger[w][i].from = r
        /\ "work" \in KindsOf(ledger[w], j)
    BY <2>2 DEF WorkRecord, Transfer, KindsOf
  <2>4. w = req[j].worker /\ srv[j].pc = "closed" /\ Delivered(j) /\ Earned(j)
    BY <2>1, <2>3 DEF PayInv, Kept, Earned
  <2>5. ledger[w][i] = WorkRecord(j, req[j].me)
    BY <2>1, <2>3 DEF PayInv, Kept, OwnWork
  <2>6. r = req[j].me
    BY <2>3, <2>5 DEF WorkRecord, Transfer
  <2>7. req[j].pc \in Past /\ ~Refused(j)
    BY <2>1, <2>4 DEF PayInv, Committed, Answer
  <2>8. req[j].pc \in {"waiting", "offered", "ok", "failed", "lost"}
    BY <2>7 DEF Past, Refused
  <2>9. Holds(r, EscrowRecord(j))
    BY <2>1, <2>4, <2>6 DEF JobInv, Connected, In, Holds
  <2>10. r # w
    BY <2>1, <2>4, <2>6, <2>8 DEF JobInv, Called
  <2> QED
    BY <2>4, <2>6, <2>8, <2>9, <2>10
<1> QED
  BY <1>1, PaymentInvariant, PTL

(* The two peers, their connection and their crashes implement the         *)
(* contract of module HireContract, for any number of jobs and peers.      *)
THEOREM DelegationKeepsContract == Spec => KeepsContract
<1>1. Init => Contract!Init
  <2> SUFFICES ASSUME Init, NEW j \in Job
               PROVE  Claim(j) = "none" /\ Work(j) = "none"
    BY DEF Contract!Init
  <2>1. Claim(j) = "none"
    BY DEF Init, Claim
  <2>2. ~Delivered(j)
    BY DEF Init, Delivered, Has
  <2>3. ~Earned(j)
    BY LedgerAssumption DEF Init, Earned, KindsOf, Opening, Transfer
  <2> QED
    BY <2>1, <2>2, <2>3, WorkIs
<1>2. IInv /\ PInv /\ [Next]_vars => [Contract!Next]_(Contract!vars)
  <2> SUFFICES ASSUME IInv, PInv, [Next]_vars
               PROVE  [Contract!Next]_(Contract!vars)
    OBVIOUS
  <2> DEFINE claim == [k \in Job |-> Claim(k)]
             work  == [k \in Job |-> Work(k)]
  <2>1. CASE \A k \in Job : Claim(k)' = Claim(k) /\ Work(k)' = Work(k)
    BY <2>1 DEF Contract!vars
  <2>2. ASSUME NEW j \in Job, HireStep(j),
               \A k \in Job : k # j => Claim(k)' = Claim(k) /\ Work(k)' = Work(k)
        PROVE  [Contract!Next]_(Contract!vars)
    <3>1. claim' = [claim EXCEPT ![j] = Claim(j)'] /\ work' = [work EXCEPT ![j] = Work(j)']
      BY <2>2
    <3>2. claim[j] = Claim(j) /\ work[j] = Work(j)
      OBVIOUS
    <3> QED
      BY <2>2, <3>1, <3>2
      DEF HireStep, Contract!Next, Contract!vars, Contract!Hold, Contract!Finish,
          Contract!Earn, Contract!Pay, Contract!Return, Contract!Moves
  <2>3. PayStep
    BY NextPays
  <2> QED
    BY <2>1, <2>2, <2>3 DEF PayStep
<1> QED
  BY <1>1, <1>2, PaymentInvariant, PTL DEF Spec, KeepsContract, Contract!Spec
=============================================================================
