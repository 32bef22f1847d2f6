-------------------------- MODULE ErrandRefinement --------------------------
(***************************************************************************)
(* One job in time implements the delegation without time: through the     *)
(* mapping of Errand's D, every step of Errand is a step of Delegation for *)
(* one job and two peers, or changes nothing there.                        *)
(***************************************************************************)
EXTENDS ErrandProofs, FiniteSetTheorems

(* What the mapping rests on beside IInv.                                  *)
MapInv ==
  /\ req.pc \in Active \ {"escrowed"} => srv.pc # "none"
  /\ credited => srv.pc = "closed"
  /\ up => srv.pc \notin {"killed", "reset"}

-----------------------------------------------------------------------------
(* The records.                                                            *)

LEMMA BooksFacts ==
  /\ req.pc \in NotCalled \cup {"chosen"} => Books("requester") = <<L!Opening>>
  /\ req.pc \in Active \cup {"raised"} =>
       Books("requester") = <<L!Opening, L!EscrowRecord("job")>>
  /\ req.pc = "ok" =>
       Books("requester") =
         <<L!Opening, L!EscrowRecord("job"), L!SettleRecord("job", "worker")>>
  /\ req.pc \in {"rejected", "reported", "failed"} =>
       Books("requester") = <<L!Opening, L!EscrowRecord("job"), L!RefundRecord("job")>>
  /\ ~credited => Books("worker") = <<L!Opening>>
  /\ credited => Books("worker") = <<L!Opening, L!WorkRecord("job", "requester")>>
BY DEF Books, Active, NotCalled

\* The records of Delegation are those of Errand.
LEMMA SameRecords ==
  /\ D!Opening = L!Opening
  /\ D!EscrowRecord("job") = L!EscrowRecord("job")
  /\ D!RefundRecord("job") = L!RefundRecord("job")
  /\ D!SettleRecord("job", "worker") = L!SettleRecord("job", "worker")
  /\ D!WorkRecord("job", "requester") = L!WorkRecord("job", "requester")
BY DEF D!Opening, L!Opening, D!EscrowRecord, L!EscrowRecord, D!RefundRecord, L!RefundRecord,
       D!SettleRecord, L!SettleRecord, D!WorkRecord, L!WorkRecord, D!Transfer, L!Transfer

\* One credit to spend, and no record of the job.
LEMMA OpeningFacts ==
  /\ D!CanOffer(<<L!Opening>>)
  /\ D!CanEscrow(<<L!Opening>>, "job")
  /\ D!CanCredit(<<L!Opening>>, "job")
<1> DEFINE rs == <<L!Opening>>
<1>1. /\ DOMAIN rs = {1}
      /\ rs[1] = [kind |-> "opening", job |-> "none", from |-> "genesis", to |-> "self"]
  BY DEF L!Opening, L!Transfer
<1> HIDE DEF rs
<1>2. D!KindsOf(rs, "job") = {}
  BY <1>1 DEF D!KindsOf
<1>3. D!Cardinality({1}) = 1 /\ D!Cardinality({}) = 0
  <2>1. \A S : D!Cardinality(S) = Cardinality(S)
    BY DEF D!Cardinality, Cardinality
  <2> QED
    BY <2>1, FS_EmptySet, FS_Singleton
<1>4. D!Net(rs, "self", {"opening"}) = 1
  <2>1. D!Credits(rs, "self", {"opening"}) = {1} /\ D!Debits(rs, "self", {"opening"}) = {}
    BY <1>1 DEF D!Credits, D!Debits
  <2>2. /\ D!Cardinality(D!Credits(rs, "self", {"opening"})) = 1
        /\ D!Cardinality(D!Debits(rs, "self", {"opening"})) = 0
    BY <1>3, <2>1, Zenon
  <2> QED
    BY <2>2 DEF D!Net
<1>5. D!Net(rs, "self", D!Kind \ {"opening"}) = 0
  <2>1. /\ D!Credits(rs, "self", D!Kind \ {"opening"}) = {}
        /\ D!Debits(rs, "self", D!Kind \ {"opening"}) = {}
    BY <1>1 DEF D!Credits, D!Debits
  <2>2. /\ D!Cardinality(D!Credits(rs, "self", D!Kind \ {"opening"})) = 0
        /\ D!Cardinality(D!Debits(rs, "self", D!Kind \ {"opening"})) = 0
    BY <1>3, <2>1, Zenon
  <2> QED
    BY <2>2 DEF D!Net
<1>6. D!CanOffer(rs)
  BY <1>4, <1>5 DEF D!CanOffer, D!Balance, D!JobPrice
<1> QED
  BY <1>2, <1>6 DEF D!CanEscrow, D!CanCredit, rs

LEMMA EscrowIsOpen == D!IsOpen(<<L!Opening, L!EscrowRecord("job")>>, "job")
<1> DEFINE rs == <<L!Opening, L!EscrowRecord("job")>>
<1>1. /\ DOMAIN rs = {1, 2}
      /\ rs[1] = [kind |-> "opening", job |-> "none", from |-> "genesis", to |-> "self"]
      /\ rs[2] = [kind |-> "escrow", job |-> "job", from |-> "self", to |-> "escrow"]
  BY DEF L!Opening, L!EscrowRecord, L!Transfer
<1> HIDE DEF rs
<1>2. D!KindsOf(rs, "job") = {"escrow"}
  BY <1>1 DEF D!KindsOf
<1> QED
  BY <1>2 DEF D!IsOpen, rs
-----------------------------------------------------------------------------
(* The threads, the channels and the books in the mapping.                 *)

\* The call goes on.
LEMMA CallerGoes ==
  ASSUME req.pc \notin NotCalled, NEW pc, req'.pc = pc, pc \notin NotCalled
  PROVE  /\ Caller["job"].pc = req.pc /\ Caller["job"].me = "requester"
         /\ Caller["job"].worker = "worker"
         /\ D!ReqGoes("job", pc)
<1>1. Caller = [j \in {"job"} |-> [pc |-> req.pc, me |-> "requester", worker |-> "worker"]]
  BY DEF Caller
<1>2. Caller' = [j \in {"job"} |-> [pc |-> pc, me |-> "requester", worker |-> "worker"]]
  BY DEF Caller, NotCalled
<1>3. Caller["job"] = [pc |-> req.pc, me |-> "requester", worker |-> "worker"]
  BY <1>1
<1>4. [Caller["job"] EXCEPT !.pc = pc] = [pc |-> pc, me |-> "requester", worker |-> "worker"]
  BY <1>3
<1>5. Caller' = [Caller EXCEPT !["job"] = [Caller["job"] EXCEPT !.pc = pc]]
  BY <1>1, <1>2, <1>4
<1> QED
  BY <1>3, <1>5 DEF D!ReqGoes

\* So does the worker's thread.
LEMMA ServerGoes ==
  ASSUME srv.pc # "none", NEW pc, srv'.pc = pc, pc # "none"
  PROVE  /\ Server["job"].pc = srv.pc /\ Server["job"].at = "worker"
         /\ D!SrvGoes("job", pc)
<1>1. Server = [j \in {"job"} |-> [pc |-> srv.pc, at |-> "worker"]]
  BY DEF Server
<1>2. Server' = [j \in {"job"} |-> [pc |-> pc, at |-> "worker"]]
  BY DEF Server
<1>3. Server["job"] = [pc |-> srv.pc, at |-> "worker"]
  BY <1>1
<1>4. [Server["job"] EXCEPT !.pc = pc] = [pc |-> pc, at |-> "worker"]
  BY <1>3
<1>5. Server' = [Server EXCEPT !["job"] = [Server["job"] EXCEPT !.pc = pc]]
  BY <1>1, <1>2, <1>4
<1> QED
  BY <1>3, <1>5 DEF D!SrvGoes

LEMMA NamesFacts ==
  ASSUME NEW ch \in Seq(Messages)
  PROVE  /\ Names(ch) \in Seq(Name) /\ Len(Names(ch)) = Len(ch)
         /\ \A i \in 1..Len(ch) : Names(ch)[i] = ch[i].m
<1>1. DOMAIN ch = 1..Len(ch) /\ Len(ch) \in Nat /\ \A i \in 1..Len(ch) : ch[i] \in Messages
  OBVIOUS
<1>2. \A i \in 1..Len(ch) : ch[i].m \in Name
  BY <1>1 DEF Messages, Name
<1>3. Names(ch) = [i \in 1..Len(ch) |-> ch[i].m]
  BY <1>1 DEF Names
<1>4. Names(ch) \in [1..Len(ch) -> Name]
  BY <1>2, <1>3
<1> QED
  BY <1>1, <1>3, <1>4

\* A message more, and one less.
LEMMA NamesSent ==
  ASSUME TypeOK, NEW ch \in Seq(Messages), NEW m \in Name
  PROVE  Names(Sent(ch, m)) = Append(Names(ch), m)
<1>1. [m |-> m, at |-> Stamp] \in Messages
  BY Numbers DEF TypeOK, Stamp, Messages, Name
<1> DEFINE more == Sent(ch, m)
<1>2. /\ more \in Seq(Messages) /\ Len(more) = Len(ch) + 1 /\ more[Len(ch) + 1].m = m
      /\ \A i \in 1..Len(ch) : more[i] = ch[i]
  BY <1>1 DEF Sent
<1> HIDE DEF more
<1>3. /\ Names(more) \in Seq(Name) /\ Len(Names(more)) = Len(ch) + 1
      /\ \A i \in 1..(Len(ch) + 1) : Names(more)[i] = more[i].m
  BY <1>2, NamesFacts
<1>4. /\ Names(ch) \in Seq(Name) /\ Len(Names(ch)) = Len(ch)
      /\ \A i \in 1..Len(ch) : Names(ch)[i] = ch[i].m
  BY NamesFacts
<1>5. \A i \in 1..(Len(ch) + 1) : Names(more)[i] = Append(Names(ch), m)[i]
  <2> SUFFICES ASSUME NEW i \in 1..(Len(ch) + 1) PROVE Names(more)[i] = Append(Names(ch), m)[i]
    OBVIOUS
  <2>1. CASE i = Len(ch) + 1
    BY <1>2, <1>3, <1>4, <2>1
  <2>2. CASE i # Len(ch) + 1
    <3>1. i \in 1..Len(ch)
      BY <2>2
    <3> QED
      BY <1>2, <1>3, <1>4, <3>1
  <2> QED
    BY <2>1, <2>2
<1>6. Append(Names(ch), m) \in Seq(Name) /\ Len(Append(Names(ch), m)) = Len(ch) + 1
  BY <1>4
<1>7. Names(more) = Append(Names(ch), m)
  BY <1>3, <1>5, <1>6
<1> QED
  BY <1>7 DEF more

LEMMA NamesTaken ==
  ASSUME NEW ch \in Seq(Messages), ch # <<>>
  PROVE  /\ Names(ch) # <<>> /\ Head(Names(ch)) = Head(ch).m
         /\ Names(Tail(ch)) = Tail(Names(ch))
<1>1. /\ Names(ch) \in Seq(Name) /\ Len(Names(ch)) = Len(ch)
      /\ \A i \in 1..Len(ch) : Names(ch)[i] = ch[i].m
  BY NamesFacts
<1>2. Len(ch) >= 1 /\ Len(ch) \in Nat /\ Head(ch) = ch[1]
  OBVIOUS
<1>3. Names(ch) # <<>> /\ Head(Names(ch)) = Head(ch).m
  BY <1>1, <1>2
<1> DEFINE rest == Tail(ch)
<1>4. /\ rest \in Seq(Messages) /\ Len(rest) = Len(ch) - 1
      /\ \A i \in 1..(Len(ch) - 1) : rest[i] = ch[i + 1]
  OBVIOUS
<1> HIDE DEF rest
<1>5. /\ Names(rest) \in Seq(Name) /\ Len(Names(rest)) = Len(ch) - 1
      /\ \A i \in 1..(Len(ch) - 1) : Names(rest)[i] = rest[i].m
  BY <1>4, NamesFacts
<1>6. /\ Tail(Names(ch)) \in Seq(Name) /\ Len(Tail(Names(ch))) = Len(ch) - 1
      /\ \A i \in 1..(Len(ch) - 1) : Tail(Names(ch))[i] = Names(ch)[i + 1]
  BY <1>1, <1>2, <1>3
<1>7. \A i \in 1..(Len(ch) - 1) : Names(rest)[i] = Tail(Names(ch))[i]
  BY <1>1, <1>2, <1>4, <1>5, <1>6
<1>8. Names(rest) = Tail(Names(ch))
  BY <1>2, <1>5, <1>6, <1>7
<1> QED
  BY <1>3, <1>8 DEF rest
LEMMA InSent ==
  ASSUME TypeOK, NEW m \in Name, in' = Sent(in, m)
  PROVE  Incoming' = D!Sent(Incoming, "job", m)
<1>1. Names(in)' = Append(Names(in), m)
  <2>1. Names(in)' = Names(Sent(in, m))
    BY DEF Names
  <2> QED
    BY <2>1, NamesSent DEF TypeOK
<1> QED
  BY <1>1 DEF Incoming, D!Sent

LEMMA OutSent ==
  ASSUME TypeOK, NEW m \in Name, out' = Sent(out, m)
  PROVE  Outgoing' = D!Sent(Outgoing, "job", m)
<1>1. Names(out)' = Append(Names(out), m)
  <2>1. Names(out)' = Names(Sent(out, m))
    BY DEF Names
  <2> QED
    BY <2>1, NamesSent DEF TypeOK
<1> QED
  BY <1>1 DEF Outgoing, D!Sent

LEMMA InTaken ==
  ASSUME TypeOK, NEW m, Next1(in, m), in' = Tail(in)
  PROVE  D!Next1(Incoming, "job", m) /\ Incoming' = D!Taken(Incoming, "job")
<1>1. in # <<>> /\ Head(in).m = m /\ in \in Seq(Messages)
  BY DEF Next1, TypeOK
<1>2. Names(in)' = Tail(Names(in)) /\ Names(in) # <<>> /\ Head(Names(in)) = m
  <2>1. Names(in)' = Names(Tail(in))
    BY DEF Names
  <2> QED
    BY <1>1, <2>1, NamesTaken
<1> QED
  BY <1>2 DEF Incoming, D!Next1, D!Taken

LEMMA OutTaken ==
  ASSUME TypeOK, NEW m, Next1(out, m), out' = Tail(out)
  PROVE  D!Next1(Outgoing, "job", m) /\ Outgoing' = D!Taken(Outgoing, "job")
<1>1. out # <<>> /\ Head(out).m = m /\ out \in Seq(Messages)
  BY DEF Next1, TypeOK
<1>2. Names(out)' = Tail(Names(out)) /\ Names(out) # <<>> /\ Head(Names(out)) = m
  <2>1. Names(out)' = Names(Tail(out))
    BY DEF Names
  <2> QED
    BY <1>1, <2>1, NamesTaken
<1> QED
  BY <1>2 DEF Outgoing, D!Next1, D!Taken

LEMMA SameSequence ==
  ASSUME NEW S, NEW s \in Seq(S), NEW t \in Seq(S), Len(s) = Len(t),
         \A i \in 1..Len(s) : s[i] = t[i]
  PROVE  s = t
OBVIOUS

LEMMA AppendRecord ==
  ASSUME NEW a, NEW b, NEW c
  PROVE  Append(<<a>>, b) = <<a, b>> /\ Append(<<a, b>>, c) = <<a, b, c>>
<1> DEFINE S == {a, b, c}
<1>1. <<a>> \in Seq(S) /\ <<a, b>> \in Seq(S) /\ <<a, b, c>> \in Seq(S)
  OBVIOUS
<1>2. Append(<<a>>, b) = <<a, b>>
  <2>1. Append(<<a>>, b) \in Seq(S) /\ Len(Append(<<a>>, b)) = 2
    BY <1>1
  <2>2. \A i \in 1..2 : Append(<<a>>, b)[i] = <<a, b>>[i]
    OBVIOUS
  <2> QED
    BY <1>1, <2>1, <2>2, SameSequence
<1>3. Append(<<a, b>>, c) = <<a, b, c>>
  <2>1. Append(<<a, b>>, c) \in Seq(S) /\ Len(Append(<<a, b>>, c)) = 3
    BY <1>1
  <2>2. \A i \in 1..3 : Append(<<a, b>>, c)[i] = <<a, b, c>>[i]
    OBVIOUS
  <2> QED
    BY <1>1, <2>1, <2>2, SameSequence
<1> QED
  BY <1>2, <1>3

\* The requester, or the worker, writes a record.
LEMMA BookWritten ==
  ASSUME NEW p \in {"requester", "worker"}, NEW r,
         Books(p)' = Append(Books(p), r),
         \A q \in {"requester", "worker"} : q # p => Books(q)' = Books(q)
  PROVE  D!Record1(p, r)
<1>1. Ledgers[p] = Books(p)
  BY DEF Ledgers
<1>2. Ledgers' = [q \in {"requester", "worker"} |->
                    IF q = p THEN Append(Ledgers[p], r) ELSE Books(q)]
  BY <1>1 DEF Ledgers
<1>3. Ledgers' = [Ledgers EXCEPT ![p] = Append(Ledgers[p], r)]
  BY <1>2 DEF Ledgers
<1> QED
  BY <1>3 DEF D!Record1

\* What stays the same.
LEMMA Same ==
  /\ UNCHANGED up => UNCHANGED <<PeersUp, Stops>>
  /\ (\A p \in {"requester", "worker"} : Books(p)' = Books(p)) => UNCHANGED Ledgers
  /\ UNCHANGED <<req, credited>> => \A p \in {"requester", "worker"} : Books(p)' = Books(p)
  /\ UNCHANGED req => UNCHANGED Caller
  /\ UNCHANGED srv => UNCHANGED Server
  /\ UNCHANGED out => UNCHANGED Outgoing
  /\ UNCHANGED in => UNCHANGED Incoming
BY DEF PeersUp, Stops, Ledgers, Books, Caller, Server, Outgoing, Incoming, Names

\* The call is in the try statement: its escrow can be closed.
LEMMA CloseEscrow ==
  ASSUME req.pc \in Active, NEW pc \in {"ok", "rejected", "reported", "failed"},
         req'.pc = pc, UNCHANGED credited
  PROVE  D!Close("job", IF pc = "ok" THEN D!SettleRecord("job", "worker")
                        ELSE D!RefundRecord("job"), pc)
<1> DEFINE r == IF pc = "ok" THEN D!SettleRecord("job", "worker") ELSE D!RefundRecord("job")
<1>1. req.pc \notin NotCalled /\ pc \notin NotCalled
  BY DEF Active, NotCalled
<1>2. Caller["job"].me = "requester" /\ D!ReqGoes("job", pc)
  BY <1>1, CallerGoes
<1>3. Books("requester") = <<L!Opening, L!EscrowRecord("job")>>
  BY BooksFacts
<1>4. Books("requester")' = <<L!Opening, L!EscrowRecord("job"), r>>
  BY SameRecords DEF Books, Active
<1>5. Books("requester")' = Append(Books("requester"), r)
  BY <1>3, <1>4, AppendRecord
<1>6. Books("worker")' = Books("worker")
  BY DEF Books
<1>7. D!Record1("requester", r)
  BY <1>5, <1>6, BookWritten
<1>8. D!IsOpen(Ledgers["requester"], "job")
  BY <1>3, EscrowIsOpen DEF Ledgers
<1> QED
  BY <1>2, <1>7, <1>8 DEF D!Close

-----------------------------------------------------------------------------
(* The mapping's invariant.                                                *)

LEMMA InitMapInv == Init => MapInv
BY DEF Init, MapInv, Active

\* What delegate waits for while it sends or reads shows nowhere else.
LEMMA ReadIsLocal ==
  ASSUME IInv, SendReturns \/ Piece
  PROVE  req'.pc = req.pc /\ UNCHANGED <<srv, out, in, credited, up>>
BY DEF IInv, TypeOK, Calls, SendReturns, Piece

LEMMA NextMapInv ==
  ASSUME IInv, MapInv, [Next \/ (Finished /\ UNCHANGED vars)]_vars
  PROVE  MapInv'
<1> USE DEF Active
<1>1. ASSUME Command \/ Execute \/ Tick \/ UNCHANGED vars PROVE MapInv'
  <2>1. UNCHANGED <<req, srv, credited, up>>
    <3>1. Command => UNCHANGED <<req, srv, credited, up>>
      BY DEF Command, Ask, GiveUp, Report
    <3>2. Execute \/ Tick \/ UNCHANGED vars => UNCHANGED <<req, srv, credited, up>>
      BY DEF Execute, Tick, errand, vars
    <3> QED
      BY <1>1, <3>1, <3>2
  <2> QED
    BY <2>1 DEF MapInv
<1>2. ASSUME Delegate PROVE MapInv'
  <2>1. CASE Connect
    BY <2>1 DEF Connect, ReqGoes, SrvGoes, MapInv, IInv, Phases
  <2>2. CASE Call \/ Escrow \/ NameLost \/ Greet \/ Offer
    BY <2>2 DEF Call, Escrow, NameLost, Greet, Offer, ReqGoes, MapInv
  <2>4. CASE SendReturns \/ Piece
    BY <2>4, ReadIsLocal DEF MapInv
  <2>3. CASE Accepted \/ Rejected \/ Reported \/ Settle \/ Fail
    BY <2>3 DEF Accepted, Rejected, Reported, Settle, Answered, Fail, ReqGoes, MapInv
  <2> QED
    BY <1>2, <2>1, <2>2, <2>3, <2>4 DEF Delegate
<1>3. ASSUME Serve PROVE MapInv'
  BY <1>3 DEF Serve, Accept, HandshakeInbound, HandleTaskOffer, SendResult, CreditForWork,
              ServeFails, SrvGoes, MapInv
<1>4. ASSUME Kill PROVE MapInv'
  BY <1>4 DEF Kill, MapInv, IInv, TypeOK, Threads
<1> QED
  BY <1>1, <1>2, <1>3, <1>4 DEF Next

-----------------------------------------------------------------------------
(* The steps of the requester.                                             *)

LEMMA CallRefined ==
  ASSUME IInv, Call
  PROVE  D!Call("job", "requester", "worker") \/ UNCHANGED D!vars
<1>1. PICK pc \in {"invalid", "chosen", "nobody"} : req'.pc = pc
  BY DEF Call, ReqGoes
<1>2. req.pc = "idle" /\ UNCHANGED <<srv, out, in, credited, up>>
  BY DEF Call
<1>3. UNCHANGED <<PeersUp, Stops, Ledgers, Server, Outgoing, Incoming>>
  <2>1. Books("requester") = <<L!Opening>> /\ Books("requester")' = <<L!Opening>>
    BY <1>1, <1>2 DEF Books, Active
  <2>2. Books("worker")' = Books("worker")
    BY <1>2 DEF Books
  <2> QED
    BY <1>2, <2>1, <2>2, Same
<1>4. CASE pc = "chosen"
  <2>1. PeersUp["requester"]
    BY DEF PeersUp
  <2>2. /\ Caller = [j \in {"job"} |-> [pc |-> "idle", me |-> "nobody", worker |-> "nobody"]]
        /\ Caller' = [j \in {"job"} |-> [pc |-> "chosen", me |-> "requester", worker |-> "worker"]]
    BY <1>1, <1>2, <1>4 DEF Caller, NotCalled
  <2>3. D!CanOffer(Ledgers["requester"])
    BY <1>2, BooksFacts, OpeningFacts DEF Ledgers, NotCalled
  <2>4. Caller' = [Caller EXCEPT !["job"] =
          [pc |-> IF D!CanOffer(Ledgers["requester"]) THEN "chosen" ELSE "refused",
           me |-> "requester", worker |-> "worker"]]
    BY <2>2, <2>3
  <2> QED
    BY <1>3, <2>1, <2>2, <2>4 DEF D!Call
<1>5. CASE pc # "chosen"
  <2>1. UNCHANGED Caller
    BY <1>1, <1>2, <1>5 DEF Caller, NotCalled
  <2> QED
    BY <1>3, <2>1 DEF D!vars
<1> QED
  BY <1>4, <1>5

LEMMA EscrowRefined ==
  ASSUME IInv, Escrow
  PROVE  D!Escrow("job")
<1>1. req.pc = "chosen" /\ req'.pc = "escrowed" /\ UNCHANGED <<srv, out, in, credited, up>>
  BY DEF Escrow, ReqGoes
<1>2. /\ Caller["job"].pc = "chosen" /\ Caller["job"].me = "requester"
      /\ D!ReqGoes("job", "escrowed")
  BY <1>1, CallerGoes DEF NotCalled
<1>3. Books("requester") = <<L!Opening>> /\ Ledgers["requester"] = Books("requester")
  BY <1>1, BooksFacts DEF Ledgers
<1>4. Books("requester")' = <<L!Opening, D!EscrowRecord("job")>>
  BY <1>1, SameRecords DEF Books, Active
<1>5. Books("requester")' = Append(Books("requester"), D!EscrowRecord("job"))
  BY <1>3, <1>4, AppendRecord
<1>6. D!Record1("requester", D!EscrowRecord("job"))
  BY <1>1, <1>5, BookWritten DEF Books
<1>7. UNCHANGED <<PeersUp, Stops, Server, Outgoing, Incoming>>
  BY <1>1, Same
<1> QED
  BY <1>2, <1>3, <1>6, <1>7, OpeningFacts DEF D!Escrow

LEMMA ConnectRefined ==
  ASSUME IInv, Connect
  PROVE  D!Connect("job", "worker")
<1>1. /\ req.pc = "escrowed" /\ req'.pc = "connected" /\ up
      /\ srv.pc = "none" /\ srv'.pc = "queued" /\ UNCHANGED <<out, in, credited, up>>
  BY DEF Connect, ReqGoes, SrvGoes, IInv, Phases
<1>2. Caller["job"].pc = "escrowed" /\ D!ReqGoes("job", "connected")
  BY <1>1, CallerGoes DEF NotCalled
<1>3. PeersUp["worker"]
  BY <1>1 DEF PeersUp
<1>4. Server' = [Server EXCEPT !["job"] = [pc |-> "queued", at |-> "worker"]]
  BY <1>1 DEF Server
<1>5. UNCHANGED <<PeersUp, Stops, Ledgers, Outgoing, Incoming>>
  <2>1. \A p \in {"requester", "worker"} : Books(p)' = Books(p)
    BY <1>1 DEF Books, Active
  <2> QED
    BY <1>1, <2>1, Same
<1> QED
  BY <1>2, <1>3, <1>4, <1>5 DEF D!Connect

\* The requester goes from one wait to the next.
LEMMA CallGoesOn ==
  ASSUME req.pc \in Active, NEW pc \in Active \cup {"raised"}, req'.pc = pc,
         UNCHANGED <<credited, up>>
  PROVE  /\ Caller["job"].pc = req.pc /\ Caller["job"].worker = "worker"
         /\ D!ReqGoes("job", pc)
         /\ UNCHANGED <<PeersUp, Stops, Ledgers>>
<1>1. req.pc \notin NotCalled /\ pc \notin NotCalled
  BY DEF Active, NotCalled
<1>2. \A p \in {"requester", "worker"} : Books(p)' = Books(p)
  <2>1. Books("requester")' = <<L!Opening, L!EscrowRecord("job")>>
    <3>1. req'.pc \in Active \cup {"raised"}
      OBVIOUS
    <3>2. (CASE req.pc \in Active \cup {"raised"} -> <<L!Opening, L!EscrowRecord("job")>>
             [] req.pc = "ok" ->
               <<L!Opening, L!EscrowRecord("job"), L!SettleRecord("job", "worker")>>
             [] req.pc \in {"rejected", "reported", "failed"} ->
               <<L!Opening, L!EscrowRecord("job"), L!RefundRecord("job")>>
             [] OTHER -> <<L!Opening>>)' = <<L!Opening, L!EscrowRecord("job")>>
      BY <3>1 DEF Active
    <3> QED
      BY <3>2 DEF Books
  <2>2. Books("requester") = <<L!Opening, L!EscrowRecord("job")>>
    BY BooksFacts
  <2>3. Books("worker")' = Books("worker")
    BY DEF Books
  <2> QED
    BY <2>1, <2>2, <2>3
<1> QED
  BY <1>1, <1>2, CallerGoes, Same

LEMMA NameLostRefined ==
  ASSUME IInv, NameLost
  PROVE  D!NameLost("job")
<1>1. /\ req.pc = "connected" /\ req'.pc = "raised" /\ srv.pc = "reset"
      /\ UNCHANGED <<srv, out, in, credited, up>>
  BY DEF NameLost, ReqGoes
<1>2. Server["job"].pc = "reset" /\ UNCHANGED <<Server, Outgoing, Incoming>>
  BY <1>1, Same DEF Server
<1> QED
  BY <1>1, <1>2, CallGoesOn DEF D!NameLost, Active

LEMMA GreetRefined ==
  ASSUME IInv, Greet
  PROVE  D!Greet("job")
<1>1. /\ req.pc = "connected" /\ req'.pc = "greeting" /\ out' = Sent(out, "HANDSHAKE")
      /\ UNCHANGED <<srv, in, credited, up>>
  BY DEF Greet, ReqGoes
<1>2. Outgoing' = D!Sent(Outgoing, "job", "HANDSHAKE")
  BY <1>1, OutSent DEF IInv, Name
<1> QED
  BY <1>1, <1>2, CallGoesOn, Same DEF D!Greet, Active

LEMMA OfferRefined ==
  ASSUME IInv, MapInv, Offer
  PROVE  D!Offer("job")
<1>1. /\ req.pc = "greeting" /\ req'.pc = "offered" /\ out' = Sent(out, "TASK_OFFER")
      /\ Next1(in, "HANDSHAKE") /\ in' = Tail(in) /\ UNCHANGED <<srv, credited, up>>
  BY DEF Offer, ReqGoes
<1>2. Outgoing' = D!Sent(Outgoing, "job", "TASK_OFFER")
  BY <1>1, OutSent DEF IInv, Name
<1>3. D!Next1(Incoming, "job", "HANDSHAKE") /\ Incoming' = D!Taken(Incoming, "job")
  BY <1>1, InTaken DEF IInv
<1>4. Server["job"].at = "worker"
  BY <1>1 DEF Server, MapInv, Active
<1> QED
  BY <1>1, <1>2, <1>3, <1>4, CallGoesOn, Same DEF D!Offer, Active

LEMMA AcceptedRefined ==
  ASSUME IInv, Accepted
  PROVE  D!Accepted("job")
<1>1. /\ req.pc = "offered" /\ req'.pc = "waiting"
      /\ Next1(in, "TASK_ACCEPT") /\ in' = Tail(in) /\ UNCHANGED <<srv, out, credited, up>>
  BY DEF Accepted, ReqGoes
<1>2. D!Next1(Incoming, "job", "TASK_ACCEPT") /\ Incoming' = D!Taken(Incoming, "job")
  BY <1>1, InTaken DEF IInv
<1> QED
  BY <1>1, <1>2, CallGoesOn, Same DEF D!Accepted, Active

LEMMA AnsweredRefined ==
  ASSUME IInv, Rejected \/ Reported \/ Settle
  PROVE  D!Rejected("job") \/ D!Reported("job") \/ D!Settle("job")
<1>1. UNCHANGED <<PeersUp, Stops, Server, Outgoing>> /\ UNCHANGED credited
  BY Same DEF Rejected, Reported, Settle, Answered
<1>2. req.pc \in Active => Caller["job"].pc = req.pc /\ Caller["job"].worker = "worker"
  BY DEF Caller, Active, NotCalled
<1>3. CASE Rejected
  <2>1. /\ req.pc = "offered" /\ req'.pc = "rejected"
        /\ Next1(in, "TASK_REJECT") /\ in' = Tail(in)
    BY <1>3 DEF Rejected, Answered, ReqGoes
  <2>2. D!Close("job", D!RefundRecord("job"), "rejected")
    BY <1>1, <2>1, CloseEscrow DEF Active
  <2>3. D!Next1(Incoming, "job", "TASK_REJECT") /\ Incoming' = D!Taken(Incoming, "job")
    BY <2>1, InTaken DEF IInv
  <2> QED
    BY <1>1, <1>2, <2>1, <2>2, <2>3 DEF D!Rejected, Active
<1>4. CASE Reported
  <2>1. /\ req.pc = "waiting" /\ req'.pc = "reported"
        /\ Next1(in, "RESULT_ERROR") /\ in' = Tail(in)
    BY <1>4 DEF Reported, Answered, ReqGoes
  <2>2. D!Close("job", D!RefundRecord("job"), "reported")
    BY <1>1, <2>1, CloseEscrow DEF Active
  <2>3. D!Next1(Incoming, "job", "RESULT_ERROR") /\ Incoming' = D!Taken(Incoming, "job")
    BY <2>1, InTaken DEF IInv
  <2> QED
    BY <1>1, <1>2, <2>1, <2>2, <2>3 DEF D!Reported, Active
<1>5. CASE Settle
  <2>1. /\ req.pc = "waiting" /\ req'.pc = "ok"
        /\ Next1(in, "RESULT_OK") /\ in' = Tail(in)
    BY <1>5 DEF Settle, Answered, ReqGoes
  <2>2. D!Close("job", D!SettleRecord("job", "worker"), "ok")
    BY <1>1, <2>1, CloseEscrow DEF Active
  <2>3. D!Next1(Incoming, "job", "RESULT_OK") /\ Incoming' = D!Taken(Incoming, "job")
    BY <2>1, InTaken DEF IInv
  <2> QED
    BY <1>1, <1>2, <2>1, <2>2, <2>3 DEF D!Settle, Active
<1> QED
  BY <1>3, <1>4, <1>5

LEMMA FailRefined ==
  ASSUME IInv, Fail
  PROVE  D!Fail("job")
<1>1. req.pc \in Active /\ req'.pc = "failed" /\ UNCHANGED <<srv, out, in, credited, up>>
  BY DEF Fail, ReqGoes
<1>2. Caller["job"].pc = req.pc
  BY <1>1 DEF Caller, Active, NotCalled
<1>3. D!Close("job", D!RefundRecord("job"), "failed")
  BY <1>1, CloseEscrow
<1>4. D!Active = Active
  BY DEF D!Active, Active
<1> QED
  BY <1>1, <1>2, <1>3, <1>4, Same DEF D!Fail
-----------------------------------------------------------------------------
(* The steps of the worker.                                                *)

\* The worker's thread goes on; nobody writes a record.
LEMMA ThreadGoesOn ==
  ASSUME srv.pc # "none", NEW pc, srv'.pc = pc, pc # "none", UNCHANGED <<req, credited, up>>
  PROVE  /\ Server["job"].pc = srv.pc /\ Server["job"].at = "worker"
         /\ D!SrvGoes("job", pc)
         /\ UNCHANGED <<PeersUp, Stops, Ledgers, Caller>>
BY ServerGoes, Same

LEMMA AcceptRefined ==
  ASSUME Accept
  PROVE  D!Accept("job")
<1>1. srv.pc = "queued" /\ srv'.pc = "accepted" /\ UNCHANGED <<req, out, in, credited, up>>
  BY DEF Accept, SrvGoes
<1> QED
  BY <1>1, ThreadGoesOn, Same DEF D!Accept

LEMMA HandshakeInboundRefined ==
  ASSUME IInv, HandshakeInbound
  PROVE  D!HandshakeInbound("job")
<1>1. /\ srv.pc = "accepted" /\ srv'.pc = "greeted" /\ in' = Sent(in, "HANDSHAKE")
      /\ Next1(out, "HANDSHAKE") /\ out' = Tail(out) /\ UNCHANGED <<req, credited, up>>
  BY DEF HandshakeInbound, SrvGoes
<1>2. D!Next1(Outgoing, "job", "HANDSHAKE") /\ Outgoing' = D!Taken(Outgoing, "job")
  BY <1>1, OutTaken DEF IInv
<1>3. Incoming' = D!Sent(Incoming, "job", "HANDSHAKE")
  BY <1>1, InSent DEF IInv, Name
<1> QED
  BY <1>1, <1>2, <1>3, ThreadGoesOn DEF D!HandshakeInbound

LEMMA HandleTaskOfferRefined ==
  ASSUME IInv, HandleTaskOffer
  PROVE  D!HandleTaskOffer("job")
<1>1. /\ srv.pc = "greeted" /\ Next1(out, "TASK_OFFER") /\ out' = Tail(out)
      /\ UNCHANGED <<req, credited, up>>
      /\ \/ in' = Sent(in, "TASK_REJECT") /\ srv'.pc = "closed"
         \/ in' = Sent(in, "TASK_ACCEPT") /\ srv'.pc = "executing"
  BY DEF HandleTaskOffer, SrvGoes
<1>2. D!Next1(Outgoing, "job", "TASK_OFFER") /\ Outgoing' = D!Taken(Outgoing, "job")
  BY <1>1, OutTaken DEF IInv
<1>3. UNCHANGED <<PeersUp, Stops, Ledgers, Caller>>
  BY <1>1, Same
<1>4. CASE in' = Sent(in, "TASK_REJECT") /\ srv'.pc = "closed"
  <2>1. Incoming' = D!Sent(Incoming, "job", "TASK_REJECT")
    BY <1>4, InSent DEF IInv, Name
  <2> QED
    BY <1>1, <1>2, <1>3, <1>4, <2>1, ThreadGoesOn DEF D!HandleTaskOffer
<1>5. CASE in' = Sent(in, "TASK_ACCEPT") /\ srv'.pc = "executing"
  <2>1. Incoming' = D!Sent(Incoming, "job", "TASK_ACCEPT")
    BY <1>5, InSent DEF IInv, Name
  <2>2. Caller["job"].me # Server["job"].at
    BY <1>1 DEF Caller, Server
  <2> QED
    BY <1>1, <1>2, <1>3, <1>5, <2>1, <2>2, ThreadGoesOn DEF D!HandleTaskOffer
<1> QED
  BY <1>1, <1>4, <1>5

LEMMA SendResultRefined ==
  ASSUME IInv, SendResult
  PROVE  D!SendResult("job")
<1>1. /\ srv.pc = "executing" /\ UNCHANGED <<req, out, credited, up>>
      /\ \/ in' = Sent(in, "RESULT_OK") /\ srv'.pc = "crediting"
         \/ in' = Sent(in, "RESULT_ERROR") /\ srv'.pc = "closed"
  BY DEF SendResult, SrvGoes
<1>2. CASE in' = Sent(in, "RESULT_OK") /\ srv'.pc = "crediting"
  <2>1. Incoming' = D!Sent(Incoming, "job", "RESULT_OK")
    BY <1>2, InSent DEF IInv, Name
  <2> QED
    BY <1>1, <1>2, <2>1, ThreadGoesOn, Same DEF D!SendResult
<1>3. CASE in' = Sent(in, "RESULT_ERROR") /\ srv'.pc = "closed"
  <2>1. Incoming' = D!Sent(Incoming, "job", "RESULT_ERROR")
    BY <1>3, InSent DEF IInv, Name
  <2> QED
    BY <1>1, <1>3, <2>1, ThreadGoesOn, Same DEF D!SendResult
<1> QED
  BY <1>1, <1>2, <1>3

\* It is credited once: no earlier record of the job stands in the way.
LEMMA CreditForWorkRefined ==
  ASSUME IInv, MapInv, CreditForWork
  PROVE  D!CreditForWork("job")
<1>1. /\ srv.pc = "crediting" /\ srv'.pc = "closed" /\ credited' = TRUE /\ ~credited
      /\ UNCHANGED <<req, out, in, up>>
  BY DEF CreditForWork, SrvGoes, MapInv
<1>2. /\ Server["job"].pc = "crediting" /\ Server["job"].at = "worker"
      /\ D!SrvGoes("job", "closed")
  BY <1>1, ServerGoes
<1>3. Caller["job"].me = "requester"
  BY <1>1 DEF Caller, NotCalled, IInv, Phases
<1>4. Books("worker") = <<L!Opening>> /\ Ledgers["worker"] = Books("worker")
  BY <1>1, BooksFacts DEF Ledgers
<1>5. Books("worker")' = <<L!Opening, D!WorkRecord("job", "requester")>>
  BY <1>1, SameRecords DEF Books
<1>6. Books("worker")' = Append(Books("worker"), D!WorkRecord("job", "requester"))
  BY <1>4, <1>5, AppendRecord
<1>7. Books("requester")' = Books("requester")
  BY <1>1 DEF Books
<1>8. D!Record1("worker", D!WorkRecord("job", "requester"))
  BY <1>6, <1>7, BookWritten
<1>9. UNCHANGED <<PeersUp, Stops, Caller, Outgoing, Incoming>>
  BY <1>1, Same
<1> QED
  BY <1>2, <1>3, <1>4, <1>8, <1>9, OpeningFacts DEF D!CreditForWork

LEMMA ServeFailsRefined ==
  ASSUME ServeFails
  PROVE  D!ServeFails("job")
<1>1. /\ srv.pc \in {"accepted", "greeted", "executing"} /\ srv'.pc = "closed"
      /\ UNCHANGED <<req, out, in, credited, up>>
  BY DEF ServeFails, SrvGoes
<1> QED
  BY <1>1, ThreadGoesOn, Same DEF D!ServeFails

\* The worker stops; its thread, if it has one, stops with it.
LEMMA KillRefined ==
  ASSUME IInv, MapInv, Kill
  PROVE  D!Crash("worker")
<1>1. up /\ up' = FALSE /\ UNCHANGED <<req, out, in, credited>>
  BY DEF Kill
<1>2. PeersUp["worker"] /\ PeersUp' = [PeersUp EXCEPT !["worker"] = FALSE]
  BY <1>1 DEF PeersUp
<1>3. Stops < 1 /\ Stops' = Stops + 1
  BY <1>1 DEF Stops
<1>4. Caller' = [j \in {"job"} |->
        IF Caller[j].me = "worker" /\ Caller[j].pc \notin D!Ended
        THEN [Caller[j] EXCEPT !.pc = "lost"] ELSE Caller[j]]
  <2>1. UNCHANGED Caller
    BY <1>1, Same
  <2>2. Caller["job"].me # "worker"
    BY DEF Caller
  <2>3. Caller = [j \in {"job"} |-> Caller[j]]
    BY DEF Caller
  <2> QED
    BY <2>1, <2>2, <2>3
<1>5. Server' = [j \in {"job"} |->
        CASE Server[j].at = "worker" /\ Server[j].pc = "queued" -> [Server[j] EXCEPT !.pc = "reset"]
          [] Server[j].at = "worker" /\ Server[j].pc \in D!Serving ->
               [Server[j] EXCEPT !.pc = "killed"]
          [] OTHER -> Server[j]]
  <2>1. srv.pc \in {"none", "queued", "accepted", "greeted", "executing", "crediting", "closed"}
    BY <1>1 DEF MapInv, IInv, TypeOK, Threads
  <2>2. srv' = CASE srv.pc \in {"none", "closed"} -> srv
                 [] srv.pc = "queued" -> [srv EXCEPT !.pc = "reset"]
                 [] OTHER -> [srv EXCEPT !.pc = "killed"]
    BY DEF Kill
  <2>3. srv \in Threads
    BY DEF IInv, TypeOK
  <2>4. Server["job"] = [pc |-> srv.pc, at |-> IF srv.pc = "none" THEN "nobody" ELSE "worker"]
    BY DEF Server
  <2>5. Server' = [j \in {"job"} |->
          [pc |-> srv'.pc, at |-> IF srv'.pc = "none" THEN "nobody" ELSE "worker"]]
    BY DEF Server
  <2>6. CASE srv.pc \in {"none", "closed"}
    BY <2>2, <2>4, <2>5, <2>6 DEF D!Serving
  <2>7. CASE srv.pc = "queued"
    <3>1. srv'.pc = "reset"
      BY <2>2, <2>3, <2>7 DEF Threads
    <3> QED
      BY <2>4, <2>5, <2>7, <3>1 DEF D!Serving
  <2>8. CASE srv.pc \in D!Serving
    <3>1. srv'.pc = "killed"
      BY <2>2, <2>3, <2>8 DEF Threads, D!Serving
    <3> QED
      BY <2>4, <2>5, <2>8, <3>1 DEF D!Serving
  <2> QED
    BY <2>1, <2>6, <2>7, <2>8 DEF D!Serving
<1>6. UNCHANGED <<Ledgers, Outgoing, Incoming>>
  BY <1>1, Same
<1> QED
  BY <1>2, <1>3, <1>4, <1>5, <1>6 DEF D!Crash

-----------------------------------------------------------------------------
(* The command, the execution and time change nothing that Delegation has. *)
LEMMA ElseUnchanged ==
  ASSUME Command \/ Execute \/ Tick \/ UNCHANGED vars
  PROVE  UNCHANGED D!vars
<1>1. UNCHANGED <<req, srv, out, in, credited, up>>
  <2>1. Command => UNCHANGED <<req, srv, out, in, credited, up>>
    BY DEF Command, Ask, GiveUp, Report
  <2>2. Execute \/ Tick \/ UNCHANGED vars => UNCHANGED <<req, srv, out, in, credited, up>>
    BY DEF Execute, Tick, errand, vars
  <2> QED
    BY <2>1, <2>2
<1> QED
  BY <1>1, Same DEF D!vars

LEMMA ReadRefined ==
  ASSUME IInv, SendReturns \/ Piece
  PROVE  UNCHANGED D!vars
<1>1. req'.pc = req.pc /\ UNCHANGED <<srv, out, in, credited, up>>
  BY ReadIsLocal
<1>2. UNCHANGED <<Books("requester"), Books("worker"), Caller>>
  BY <1>1 DEF Books, Caller
<1>3. UNCHANGED Ledgers
  BY <1>2 DEF Ledgers
<1> QED
  BY <1>1, <1>2, <1>3, Same DEF D!vars

LEMMA InitRefined ==
  ASSUME Init
  PROVE  D!Init
<1>1. req.pc = "idle" /\ srv.pc = "none" /\ out = <<>> /\ in = <<>> /\ ~credited /\ up
  BY DEF Init
<1>2. PeersUp = [p \in {"requester", "worker"} |-> TRUE] /\ Stops = 0
  BY <1>1 DEF PeersUp, Stops
<1>3. Ledgers = [p \in {"requester", "worker"} |-> <<D!Opening>>]
  <2>1. Books("requester") = <<L!Opening>> /\ Books("worker") = <<L!Opening>>
    BY <1>1, BooksFacts DEF NotCalled
  <2> QED
    BY <2>1, SameRecords DEF Ledgers
<1>4. /\ Caller = [j \in {"job"} |-> [pc |-> "idle", me |-> "nobody", worker |-> "nobody"]]
      /\ Server = [j \in {"job"} |-> [pc |-> "none", at |-> "nobody"]]
  BY <1>1 DEF Caller, Server, NotCalled
<1>5. Outgoing = [j \in {"job"} |-> <<>>] /\ Incoming = [j \in {"job"} |-> <<>>]
  BY <1>1 DEF Outgoing, Incoming, Names
<1> QED
  BY <1>2, <1>3, <1>4, <1>5 DEF D!Init

LEMMA DelegateRefined ==
  ASSUME IInv, MapInv, Delegate
  PROVE  [D!Next]_(D!vars)
<1>1. CASE Call
  BY <1>1, CallRefined DEF D!Next
<1>2. CASE Escrow \/ Connect \/ NameLost \/ Greet \/ Offer \/ Accepted
  <2>1. D!Delegate("job")
    BY <1>2, EscrowRefined, ConnectRefined, NameLostRefined, GreetRefined, OfferRefined,
       AcceptedRefined DEF D!Delegate
  <2> QED
    BY <2>1 DEF D!Next
<1>3. CASE Rejected \/ Reported \/ Settle \/ Fail
  <2>1. D!Delegate("job")
    BY <1>3, AnsweredRefined, FailRefined DEF D!Delegate
  <2> QED
    BY <2>1 DEF D!Next
<1>4. CASE SendReturns \/ Piece
  BY <1>4, ReadRefined
<1> QED
  BY <1>1, <1>2, <1>3, <1>4 DEF Delegate

LEMMA ServeRefined ==
  ASSUME IInv, MapInv, Serve
  PROVE  [D!Next]_(D!vars)
<1>1. D!Accept("job") \/ D!ServeConnection("job")
  BY AcceptRefined, HandshakeInboundRefined, HandleTaskOfferRefined, SendResultRefined,
     CreditForWorkRefined, ServeFailsRefined DEF Serve, D!ServeConnection
<1> QED
  BY <1>1 DEF D!Next

LEMMA NextRefined ==
  ASSUME IInv, MapInv, [Next \/ (Finished /\ UNCHANGED vars)]_vars
  PROVE  [D!Next]_(D!vars)
<1>1. CASE Command \/ Execute \/ Tick \/ UNCHANGED vars
  BY <1>1, ElseUnchanged
<1>2. CASE Delegate
  BY <1>2, DelegateRefined
<1>3. CASE Serve
  BY <1>3, ServeRefined
<1>4. CASE Kill
  BY <1>4, KillRefined DEF D!Next
<1> QED
  BY <1>1, <1>2, <1>3, <1>4 DEF Next

-----------------------------------------------------------------------------
(* Deadlines, the executor and the peers' configurations only restrict what*)
(* Delegation allows: a job that is asked for on the command line, with its*)
(* timeouts and its sandbox, goes through no step that the two threads     *)
(* without time could not go through (peer.py:161-330).  With it, whatever *)
(* is proved of Delegation holds of every such job.                        *)
THEOREM ErrandImplementsDelegation == Spec => ImplementsDelegation
<1>1. Init => IInv /\ MapInv /\ D!Init
  BY InitIInv, InitMapInv, InitRefined
<1>2. IInv /\ MapInv /\ [Next \/ (Finished /\ UNCHANGED vars)]_vars =>
        IInv' /\ MapInv' /\ [D!Next]_(D!vars)
  BY NextIInv, NextMapInv, NextRefined
<1> QED
  BY <1>1, <1>2, PTL DEF Spec, ImplementsDelegation, D!Spec
-----------------------------------------------------------------------------
(* What is proved of Delegation, for a job in time.                        *)

P == INSTANCE DelegationPayment WITH
  Job <- {"job"}, Peer <- {"requester", "worker"}, NoJob <- "none",
  NoPeer <- "nobody", OpeningBalance <- 1, MaxCrashes <- 1,
  up <- PeersUp, crashes <- Stops, ledger <- Ledgers,
  req <- Caller, srv <- Server, out <- Outgoing, in <- Incoming

\* The instance meets the assumptions of Delegation's theorems.
LEMMA TwoPeersAndOneJob == P!LedgerAssumption /\ P!DelegationAssumption
BY DEF P!LedgerAssumption, P!DelegationAssumption

\* The operators of the two instances are the same.
LEMMA SameLedgers ==
  /\ \A rs : D!CanOffer(rs) <=> P!CanOffer(rs)
  /\ \A rs, j : /\ D!CanEscrow(rs, j) <=> P!CanEscrow(rs, j)
                /\ D!CanCredit(rs, j) <=> P!CanCredit(rs, j)
                /\ D!IsOpen(rs, j) <=> P!IsOpen(rs, j)
  /\ \A j, p : /\ D!EscrowRecord(j) = P!EscrowRecord(j)
               /\ D!RefundRecord(j) = P!RefundRecord(j)
               /\ D!SettleRecord(j, p) = P!SettleRecord(j, p)
               /\ D!WorkRecord(j, p) = P!WorkRecord(j, p)
<1>1. \A S : D!Cardinality(S) = P!Cardinality(S)
  BY DEF D!Cardinality, P!Cardinality
<1>2. \A rs, a, ks : D!Net(rs, a, ks) = P!Net(rs, a, ks)
  BY <1>1 DEF D!Net, P!Net, D!Credits, P!Credits, D!Debits, P!Debits
<1>3. \A rs, j : D!KindsOf(rs, j) = P!KindsOf(rs, j)
  BY DEF D!KindsOf, P!KindsOf
<1>4. \A rs : D!CanOffer(rs) <=> P!CanOffer(rs)
  BY <1>2 DEF D!CanOffer, P!CanOffer, D!Balance, P!Balance, D!Kind, P!Kind,
              D!JobPrice, P!JobPrice
<1>5. \A rs, j : /\ D!CanEscrow(rs, j) <=> P!CanEscrow(rs, j)
                 /\ D!CanCredit(rs, j) <=> P!CanCredit(rs, j)
                 /\ D!IsOpen(rs, j) <=> P!IsOpen(rs, j)
  BY <1>3, <1>4 DEF D!CanEscrow, P!CanEscrow, D!CanCredit, P!CanCredit, D!IsOpen, P!IsOpen
<1>6. \A j, p : /\ D!EscrowRecord(j) = P!EscrowRecord(j)
                /\ D!RefundRecord(j) = P!RefundRecord(j)
                /\ D!SettleRecord(j, p) = P!SettleRecord(j, p)
                /\ D!WorkRecord(j, p) = P!WorkRecord(j, p)
  BY DEF D!EscrowRecord, P!EscrowRecord, D!RefundRecord, P!RefundRecord,
         D!SettleRecord, P!SettleRecord, D!WorkRecord, P!WorkRecord, D!Transfer, P!Transfer
<1> QED
  BY <1>4, <1>5, <1>6

LEMMA SameThreads ==
  /\ \A j, pc : /\ D!ReqGoes(j, pc) <=> P!ReqGoes(j, pc)
                /\ D!SrvGoes(j, pc) <=> P!SrvGoes(j, pc)
  /\ \A ch, j, m : /\ D!Next1(ch, j, m) <=> P!Next1(ch, j, m)
                   /\ D!Sent(ch, j, m) = P!Sent(ch, j, m)
                   /\ D!Taken(ch, j) = P!Taken(ch, j)
  /\ \A p, r : D!Record1(p, r) <=> P!Record1(p, r)
  /\ \A j, r, end : D!Close(j, r, end) <=> P!Close(j, r, end)
<1>1. \A j, pc : /\ D!ReqGoes(j, pc) <=> P!ReqGoes(j, pc)
                 /\ D!SrvGoes(j, pc) <=> P!SrvGoes(j, pc)
  BY DEF D!ReqGoes, P!ReqGoes, D!SrvGoes, P!SrvGoes
<1>2. \A ch, j, m : /\ D!Next1(ch, j, m) <=> P!Next1(ch, j, m)
                    /\ D!Sent(ch, j, m) = P!Sent(ch, j, m)
                    /\ D!Taken(ch, j) = P!Taken(ch, j)
  BY DEF D!Next1, P!Next1, D!Sent, P!Sent, D!Taken, P!Taken
<1>3. \A p, r : D!Record1(p, r) <=> P!Record1(p, r)
  BY DEF D!Record1, P!Record1
<1>4. \A j, r, end : D!Close(j, r, end) <=> P!Close(j, r, end)
  BY <1>1, <1>3, SameLedgers DEF D!Close, P!Close
<1> QED
  BY <1>1, <1>2, <1>3, <1>4

\* So are the two specifications.
LEMMA SameDelegation == ImplementsDelegation => P!Spec
<1>1. D!Init => P!Init
  BY DEF D!Init, P!Init, D!Opening, P!Opening, D!Transfer, P!Transfer
<1>2. D!vars = P!vars
  BY DEF D!vars, P!vars
<1>3. \A j, p, q : D!Call(j, p, q) => P!Call(j, p, q)
  BY SameLedgers, SameThreads DEF D!Call, P!Call
<1>4. \A j : D!Escrow(j) => P!Escrow(j)
  BY SameLedgers, SameThreads DEF D!Escrow, P!Escrow
<1>5. \A j, p : D!Connect(j, p) => P!Connect(j, p)
  BY SameLedgers, SameThreads DEF D!Connect, P!Connect
<1>6. \A j : D!NameLost(j) => P!NameLost(j)
  BY SameLedgers, SameThreads DEF D!NameLost, P!NameLost
<1>7. \A j : D!Greet(j) => P!Greet(j)
  BY SameLedgers, SameThreads DEF D!Greet, P!Greet
<1>8. \A j : D!Offer(j) => P!Offer(j)
  BY SameLedgers, SameThreads DEF D!Offer, P!Offer
<1>9. \A j : D!Accepted(j) => P!Accepted(j)
  BY SameLedgers, SameThreads DEF D!Accepted, P!Accepted
<1>10. \A j : D!Rejected(j) => P!Rejected(j)
  BY SameLedgers, SameThreads DEF D!Rejected, P!Rejected
<1>11. \A j : D!Reported(j) => P!Reported(j)
  BY SameLedgers, SameThreads DEF D!Reported, P!Reported
<1>12. \A j : D!Settle(j) => P!Settle(j)
  BY SameLedgers, SameThreads DEF D!Settle, P!Settle
<1>13. \A j : D!Fail(j) => P!Fail(j)
  BY SameLedgers, SameThreads DEF D!Fail, P!Fail, D!Active, P!Active
<1>14. \A j : D!Accept(j) => P!Accept(j)
  BY SameLedgers, SameThreads DEF D!Accept, P!Accept
<1>15. \A j : D!HandshakeInbound(j) => P!HandshakeInbound(j)
  BY SameLedgers, SameThreads DEF D!HandshakeInbound, P!HandshakeInbound
<1>16. \A j : D!HandleTaskOffer(j) => P!HandleTaskOffer(j)
  BY SameLedgers, SameThreads DEF D!HandleTaskOffer, P!HandleTaskOffer
<1>17. \A j : D!SendResult(j) => P!SendResult(j)
  BY SameLedgers, SameThreads DEF D!SendResult, P!SendResult
<1>18. \A j : D!CreditForWork(j) => P!CreditForWork(j)
  BY SameLedgers, SameThreads DEF D!CreditForWork, P!CreditForWork
<1>19. \A j : D!ServeFails(j) => P!ServeFails(j)
  BY SameLedgers, SameThreads DEF D!ServeFails, P!ServeFails
<1>20. \A p : D!Crash(p) => P!Crash(p)
  BY SameLedgers, SameThreads DEF D!Crash, P!Crash, D!Ended, P!Ended,
     D!Serving, P!Serving
<1>21. \A p : D!Restart(p) => P!Restart(p)
  BY SameLedgers, SameThreads DEF D!Restart, P!Restart
<1>22. D!Next => P!Next
  BY <1>3, <1>4, <1>5, <1>6, <1>7, <1>8, <1>9, <1>10, <1>11, <1>12, <1>13,
     <1>14, <1>15, <1>16, <1>17, <1>18, <1>19, <1>20, <1>21
  DEF D!Next, P!Next, D!Delegate, P!Delegate, D!ServeConnection, P!ServeConnection
<1>23. [D!Next]_(D!vars) => [P!Next]_(P!vars)
  <2>1. (D!vars)' = (P!vars)'
    BY DEF D!vars, P!vars
  <2> QED
    BY <1>2, <1>22, <2>1
<1> QED
  BY <1>1, <1>23, PTL DEF ImplementsDelegation, D!Spec, P!Spec

(* A job in time keeps the contract: its credit is held, then paid or      *)
(* returned; its work is finished, then earned; whatever the deadlines     *)
(* (peer.py:197-330, cli.py:97-120).                                       *)
THEOREM ErrandKeepsContract == Spec => P!KeepsContract
BY TwoPeersAndOneJob, SameDelegation, ErrandImplementsDelegation, P!DelegationKeepsContract

(* Seen by both ledgers, what the requester of a job in time pays is what  *)
(* its worker has earned, and the worker earns only what was agreed        *)
(* (peer.py:197-221, 308).                                                 *)
THEOREM ErrandIsPaidAsEarned == Spec => [](P!PaidIsEarned /\ P!EarnedIsAgreed)
<1>1. P!Spec => []P!PaidIsEarned /\ []P!EarnedIsAgreed
  BY TwoPeersAndOneJob, P!PaymentIsEarned, P!EarningIsAgreed
<1> QED
  BY <1>1, SameDelegation, ErrandImplementsDelegation, PTL

=============================================================================
