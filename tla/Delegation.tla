----------------------------- MODULE Delegation -----------------------------
(***************************************************************************)
(* Delegating jobs between peers: Peer.delegate on the requester, the      *)
(* connection thread of Peer._serve_connection on the worker, the signed   *)
(* messages between them (agenttorrent/peer.py, agenttorrent/protocol.py)  *)
(* and both ledgers.                                                       *)
(*                                                                         *)
(* Every job is one call of delegate, on a thread of its own, and uses at  *)
(* most one TCP connection.  Ledger operations are atomic here: module     *)
(* Ledger shows that the real ones implement an escrow account.            *)
(*                                                                         *)
(* The network may delay or lose whatever is in flight and may break a     *)
(* connection at any time, so a recv or a send can fail at any time; what  *)
(* is received was sent, in order.  A peer can stop at any time, with all  *)
(* its threads, and start again with its ledger.                           *)
(***************************************************************************)
EXTENDS LedgerRecords

CONSTANTS
  NoPeer,        \* stands for a peer that is not determined yet
  MaxCrashes     \* bound on the number of times a peer stops

ASSUME DelegationAssumption ==
  /\ NoPeer \notin Peer
  /\ MaxCrashes \in Nat

VARIABLES
  up,        \* up[p]: the process of peer p runs
  ledger,    \* ledger[p]: the records of p's ledger
  req,       \* req[j]: the call of delegate for job j
  srv,       \* srv[j]: the worker-side thread for j's connection
  out,       \* out[j]: messages under way from requester to worker
  in,        \* in[j]: messages under way from worker to requester
  crashes    \* how often a peer has stopped

vars == <<up, ledger, req, srv, out, in, crashes>>

\* After the escrow, inside the try statement of delegate.
Active == {"escrowed", "connected", "greeting", "offered", "waiting"}

\* delegate has returned a dict ("ok", "rejected", "reported" for a failure
\* the worker reports, "failed" for a ProtocolError, "refused" for an empty
\* balance), raised an exception, or died with its process ("lost").
Ended == {"ok", "rejected", "reported", "failed", "refused", "raised", "lost"}

ReqPc == {"idle", "chosen"} \cup Active \cup Ended

\* The connection is in the listen queue, being served, or no more; "reset"
\* if the listener went away with the connection still in its queue.
Serving == {"accepted", "greeted", "executing", "crediting"}
SrvPc == {"none", "queued"} \cup Serving \cup {"closed", "killed", "reset"}

Message == {"HANDSHAKE", "TASK_OFFER", "TASK_ACCEPT", "TASK_REJECT",
            "RESULT_OK", "RESULT_ERROR"}

Init ==
  /\ up = [p \in Peer |-> TRUE]
  /\ ledger = [p \in Peer |-> <<Opening>>]
  /\ req = [j \in Job |-> [pc |-> "idle", me |-> NoPeer, worker |-> NoPeer]]
  /\ srv = [j \in Job |-> [pc |-> "none", at |-> NoPeer]]
  /\ out = [j \in Job |-> <<>>]
  /\ in  = [j \in Job |-> <<>>]
  /\ crashes = 0

ReqGoes(j, pc) == req' = [req EXCEPT ![j].pc = pc]
SrvGoes(j, pc) == srv' = [srv EXCEPT ![j].pc = pc]

\* The next message of a channel is m; taking it.
Next1(ch, j, m) == ch[j] # <<>> /\ Head(ch[j]) = m
Sent(ch, j, m)  == [ch EXCEPT ![j] = Append(@, m)]
Taken(ch, j)    == [ch EXCEPT ![j] = Tail(@)]

Record1(p, r) == ledger' = [ledger EXCEPT ![p] = Append(@, r)]

-----------------------------------------------------------------------------
(* The requester.                                                          *)

\* can_offer, new_job, and the choice of a worker from the peer table, which
\* holds every peer but oneself that has sent a beacon lately.
Call(j, me, worker) ==
  /\ up[me]
  /\ req[j].pc = "idle"
  /\ worker # me
  /\ req' = [req EXCEPT ![j] =
       [pc |-> IF CanOffer(ledger[me]) THEN "chosen" ELSE "refused",
        me |-> me, worker |-> worker]]
  /\ UNCHANGED <<up, ledger, srv, out, in, crashes>>

\* Mutation: the balance is not checked again.
EscrowUnchecked(j) ==
  /\ req[j].pc = "chosen"
  /\ Record1(req[j].me, EscrowRecord(j))
  /\ ReqGoes(j, "escrowed")
  /\ UNCHANGED <<up, srv, out, in, crashes>>

\* Ledger.escrow checks again; its LedgerError is outside the try.
Escrow(j) ==
  LET me == req[j].me IN
  /\ req[j].pc = "chosen"
  /\ IF CanEscrow(ledger[me], j)
     THEN Record1(me, EscrowRecord(j)) /\ ReqGoes(j, "escrowed")
     ELSE ReqGoes(j, "raised") /\ UNCHANGED ledger
  /\ UNCHANGED <<up, srv, out, in, crashes>>

\* socket.create_connection succeeds.  The address comes from a beacon that
\* may be old: whoever listens there now gets the connection.
Connect(j, at) ==
  /\ req[j].pc = "escrowed"
  /\ up[at]
  /\ ReqGoes(j, "connected")
  /\ srv' = [srv EXCEPT ![j] = [pc |-> "queued", at |-> at]]
  /\ UNCHANGED <<up, ledger, out, in, crashes>>

\* Connection.__init__ asks for the name of the remote end before the
\* handshake.  If that has reset the connection, getpeername raises OSError,
\* which connect does not turn into a ProtocolError.
NameLost(j) ==
  /\ req[j].pc = "connected"
  /\ srv[j].pc = "reset"
  /\ ReqGoes(j, "raised")
  /\ UNCHANGED <<up, ledger, srv, out, in, crashes>>

Greet(j) ==
  /\ req[j].pc = "connected"
  /\ ReqGoes(j, "greeting")
  /\ out' = Sent(out, j, "HANDSHAKE")
  /\ UNCHANGED <<up, ledger, srv, in, crashes>>

\* Mutation: the identity of the worker is not compared.
OfferToAnyone(j) ==
  /\ req[j].pc = "greeting"
  /\ Next1(in, j, "HANDSHAKE")
  /\ in' = Taken(in, j)
  /\ out' = Sent(out, j, "TASK_OFFER")
  /\ ReqGoes(j, "offered")
  /\ UNCHANGED <<up, ledger, srv, crashes>>

\* The handshake names its sender; another peer than the chosen one is a
\* ProtocolError.
Offer(j) ==
  /\ req[j].pc = "greeting"
  /\ Next1(in, j, "HANDSHAKE")
  /\ srv[j].at = req[j].worker
  /\ in' = Taken(in, j)
  /\ out' = Sent(out, j, "TASK_OFFER")
  /\ ReqGoes(j, "offered")
  /\ UNCHANGED <<up, ledger, srv, crashes>>

\* settle or refund, then return; a LedgerError of theirs is not caught.
Close(j, r, outcome) ==
  IF IsOpen(ledger[req[j].me], j)
  THEN Record1(req[j].me, r) /\ ReqGoes(j, outcome)
  ELSE ReqGoes(j, "raised") /\ UNCHANGED ledger

\* Mutation: the worker is paid when it accepts.
AcceptedAndPaid(j) ==
  /\ req[j].pc = "offered"
  /\ Next1(in, j, "TASK_ACCEPT")
  /\ in' = Taken(in, j)
  /\ Close(j, SettleRecord(j, req[j].worker), "ok")
  /\ UNCHANGED <<up, srv, out, crashes>>

Accepted(j) ==
  /\ req[j].pc = "offered"
  /\ Next1(in, j, "TASK_ACCEPT")
  /\ in' = Taken(in, j)
  /\ ReqGoes(j, "waiting")
  /\ UNCHANGED <<up, ledger, srv, out, crashes>>

\* Mutation: the refund is forgotten.
RejectedOnly(j) ==
  /\ req[j].pc = "offered"
  /\ Next1(in, j, "TASK_REJECT")
  /\ in' = Taken(in, j)
  /\ ReqGoes(j, "rejected")
  /\ UNCHANGED <<up, ledger, srv, out, crashes>>

Rejected(j) ==
  /\ req[j].pc = "offered"
  /\ Next1(in, j, "TASK_REJECT")
  /\ in' = Taken(in, j)
  /\ Close(j, RefundRecord(j), "rejected")
  /\ UNCHANGED <<up, srv, out, crashes>>

Reported(j) ==
  /\ req[j].pc = "waiting"
  /\ Next1(in, j, "RESULT_ERROR")
  /\ in' = Taken(in, j)
  /\ Close(j, RefundRecord(j), "reported")
  /\ UNCHANGED <<up, srv, out, crashes>>

\* Mutation: nobody is named in the record.
SettleNobody(j) ==
  /\ req[j].pc = "waiting"
  /\ Next1(in, j, "RESULT_OK")
  /\ in' = Taken(in, j)
  /\ Close(j, SettleRecord(j, NoPeer), "ok")
  /\ UNCHANGED <<up, srv, out, crashes>>

Settle(j) ==
  /\ req[j].pc = "waiting"
  /\ Next1(in, j, "RESULT_OK")
  /\ in' = Taken(in, j)
  /\ Close(j, SettleRecord(j, req[j].worker), "ok")
  /\ UNCHANGED <<up, srv, out, crashes>>

\* Mutation: waiting for the result has no timeout.
FailUnlessWaiting(j) ==
  /\ req[j].pc \in Active \ {"waiting"}
  /\ Close(j, RefundRecord(j), "failed")
  /\ UNCHANGED <<up, srv, out, in, crashes>>

\* A ProtocolError: no connection, a timeout, the end of the stream, a
\* failed send, the wrong peer.
Fail(j) ==
  /\ req[j].pc \in Active
  /\ Close(j, RefundRecord(j), "failed")
  /\ UNCHANGED <<up, srv, out, in, crashes>>

-----------------------------------------------------------------------------
(* The worker.                                                             *)

\* The accept loop takes the connection, if it still runs: an OSError other
\* than a timeout ends it while the peer stays up, and then nobody does.
Accept(j) ==
  /\ srv[j].pc = "queued"
  /\ SrvGoes(j, "accepted")
  /\ UNCHANGED <<up, ledger, req, out, in, crashes>>

HandshakeInbound(j) ==
  /\ srv[j].pc = "accepted"
  /\ Next1(out, j, "HANDSHAKE")
  /\ out' = Taken(out, j)
  /\ in' = Sent(in, j, "HANDSHAKE")
  /\ SrvGoes(j, "greeted")
  /\ UNCHANGED <<up, ledger, req, crashes>>

\* An offer to oneself is refused; any other may be, for its harness, its
\* running time, or because the peer accepts no tasks.
HandleTaskOffer(j) ==
  /\ srv[j].pc = "greeted"
  /\ Next1(out, j, "TASK_OFFER")
  /\ out' = Taken(out, j)
  /\ \/ SrvGoes(j, "closed") /\ in' = Sent(in, j, "TASK_REJECT")
     \/ /\ req[j].me # srv[j].at
        /\ SrvGoes(j, "executing")
        /\ in' = Sent(in, j, "TASK_ACCEPT")
  /\ UNCHANGED <<up, ledger, req, crashes>>

\* Mutation: a failed execution is credited too.
SendAnyResult(j) ==
  /\ srv[j].pc = "executing"
  /\ SrvGoes(j, "crediting")
  /\ in' \in {Sent(in, j, "RESULT_OK"), Sent(in, j, "RESULT_ERROR")}
  /\ UNCHANGED <<up, ledger, req, out, crashes>>

\* execute_job returns and its result is sent.  Sending succeeds even if
\* nobody will read the message.
SendResult(j) ==
  /\ srv[j].pc = "executing"
  /\ \/ SrvGoes(j, "crediting") /\ in' = Sent(in, j, "RESULT_OK")
     \/ SrvGoes(j, "closed") /\ in' = Sent(in, j, "RESULT_ERROR")
  /\ UNCHANGED <<up, ledger, req, out, crashes>>

CreditForWork(j) ==
  LET p == srv[j].at IN
  /\ srv[j].pc = "crediting"
  /\ IF CanCredit(ledger[p], j)
     THEN Record1(p, WorkRecord(j, req[j].me))
     ELSE UNCHANGED ledger
  /\ SrvGoes(j, "closed")
  /\ UNCHANGED <<up, req, out, in, crashes>>

\* Mutation: waiting for an offer has no timeout.
ServeFailsUnlessGreeted(j) ==
  /\ srv[j].pc \in {"accepted", "executing"}
  /\ SrvGoes(j, "closed")
  /\ UNCHANGED <<up, ledger, req, out, in, crashes>>

\* A ProtocolError, or an exception of the executor, ends the thread.
ServeFails(j) ==
  /\ srv[j].pc \in {"accepted", "greeted", "executing"}
  /\ SrvGoes(j, "closed")
  /\ UNCHANGED <<up, ledger, req, out, in, crashes>>

-----------------------------------------------------------------------------
(* Processes stop and start.                                               *)

Crash(p) ==
  /\ up[p]
  /\ crashes < MaxCrashes
  /\ crashes' = crashes + 1
  /\ up' = [up EXCEPT ![p] = FALSE]
  /\ req' = [j \in Job |->
       IF req[j].me = p /\ req[j].pc \notin Ended
       THEN [req[j] EXCEPT !.pc = "lost"] ELSE req[j]]
  /\ srv' = [j \in Job |->
       CASE srv[j].at = p /\ srv[j].pc = "queued"   -> [srv[j] EXCEPT !.pc = "reset"]
         [] srv[j].at = p /\ srv[j].pc \in Serving -> [srv[j] EXCEPT !.pc = "killed"]
         [] OTHER                                  -> srv[j]]
  /\ UNCHANGED <<ledger, out, in>>

Restart(p) ==
  /\ ~up[p]
  /\ up' = [up EXCEPT ![p] = TRUE]
  /\ UNCHANGED <<ledger, req, srv, out, in, crashes>>

-----------------------------------------------------------------------------
\* The steps of the thread that runs delegate, once it has been called.
Delegate(j) ==
  \/ Escrow(j)
  \/ \E p \in Peer : Connect(j, p)
  \/ NameLost(j)
  \/ Greet(j)
  \/ Offer(j)
  \/ Accepted(j)
  \/ Rejected(j)
  \/ Reported(j)
  \/ Settle(j)
  \/ Fail(j)

\* The steps of the thread that serves the connection, once it is accepted.
ServeConnection(j) ==
  \/ HandshakeInbound(j)
  \/ HandleTaskOffer(j)
  \/ SendResult(j)
  \/ CreditForWork(j)
  \/ ServeFails(j)

Next ==
  \/ \E j \in Job :
       \/ \E me, worker \in Peer : Call(j, me, worker)
       \/ Delegate(j)
       \/ Accept(j)
       \/ ServeConnection(j)
  \/ \E p \in Peer : Crash(p) \/ Restart(p)

Spec == Init /\ [][Next]_vars

\* Threads are scheduled, and no wait on a socket is without a timeout.
\* Nothing is assumed of the accept loop.
Fairness == \A j \in Job : WF_vars(Delegate(j)) /\ WF_vars(ServeConnection(j))

FairSpec == Spec /\ Fairness
-----------------------------------------------------------------------------
(* Properties.                                                             *)

(* Every variable has its type.                                            *)
TypeOK ==
  /\ up \in [Peer -> BOOLEAN]
  /\ ledger \in [Peer -> Seq(Record)]
  /\ req \in [Job -> [pc : ReqPc, me : Peer \cup {NoPeer},
                                  worker : Peer \cup {NoPeer}]]
  /\ srv \in [Job -> [pc : SrvPc, at : Peer \cup {NoPeer}]]
  /\ out \in [Job -> Seq(Message)]
  /\ in \in [Job -> Seq(Message)]
  /\ crashes \in 0..MaxCrashes

\* p's ledger holds record r.
Holds(p, r) == \E i \in DOMAIN ledger[p] : ledger[p][i] = r

(* Delegations that run at the same time never spend more than the balance:*)
(* several may pass can_offer with one credit left (peer.py:241), but only *)
(* one gets past escrow (ledger.py:100).                                   *)
NoOverdraft == \A p \in Peer : Balance(ledger[p], "self") >= 0

(* The requester's ledger agrees with where the call of delegate is: from  *)
(* the escrow until delegate returns the credit is set aside, and a return *)
(* that reports "refunded" or "ok" has closed the escrow the matching way, *)
(* exactly once.  A call that raises or is lost closes nothing             *)
(* (peer.py:269-327).                                                      *)
EscrowMatchesDelegation ==
  \A j \in Job : req[j].pc # "idle" =>
    LET rs == ledger[req[j].me]
        closing == {i \in DOMAIN rs : rs[i].job = j /\ rs[i].kind \in {"settle", "refund"}}
    IN /\ req[j].pc \in {"chosen", "refused"} => KindsOf(rs, j) = {}
       /\ req[j].pc \in Active => IsOpen(rs, j)
       /\ req[j].pc = "ok" =>
            \E i \in closing : closing = {i} /\ rs[i] = SettleRecord(j, req[j].worker)
       /\ req[j].pc \in {"rejected", "reported", "failed"} =>
            \E i \in closing : closing = {i} /\ rs[i] = RefundRecord(j)
       /\ req[j].pc \in {"raised", "lost"} => closing = {}

(* A worker is paid only for work it finished: once the requester has      *)
(* settled, the worker has recorded the same credit, or is about to, or    *)
(* was stopped in between (peer.py:218-221, 308).                          *)
PaidIsEarned ==
  \A j \in Job : \A r, w \in Peer : Holds(r, SettleRecord(j, w)) =>
    \/ Holds(w, WorkRecord(j, r))
    \/ srv[j].at = w /\ srv[j].pc \in {"crediting", "killed"}

(* A worker earns only from the requester that set a credit aside for the  *)
(* job and chose this worker, and never for a job that the requester knows *)
(* to be rejected or to have failed at the worker (peer.py:197-221, 284,   *)
(* 300).                                                                   *)
EarnedIsAgreed ==
  \A j \in Job : \A r, w \in Peer : Holds(w, WorkRecord(j, r)) =>
    /\ r # w
    /\ req[j].me = r /\ req[j].worker = w
    /\ Holds(r, EscrowRecord(j))
    /\ req[j].pc \in {"waiting", "offered", "ok", "failed", "lost"}

(* A worker executes only a job whose requester has set a credit aside for *)
(* it: the wrong peer behind a stale address never gets to execute         *)
(* (peer.py:273, 269).                                                     *)
ExecutionIsBacked ==
  \A j \in Job : srv[j].pc \in {"executing", "crediting"} =>
    /\ srv[j].at = req[j].worker
    /\ Holds(req[j].me, EscrowRecord(j))

(* Every delegation ends, whatever the network and the other peer do: each *)
(* wait of the requester has a timeout (peer.py:281, 294, protocol.py:133).*)
DelegationEnds ==
  \A j \in Job : req[j].pc = "chosen" ~> req[j].pc \in Ended

(* Every thread that serves a connection ends, so a requester that goes    *)
(* away cannot keep one (peer.py:166, protocol.py:124).  A connection that *)
(* is queued may stay so: the accept loop may have ended (peer.py:152).    *)
ServingEnds ==
  \A j \in Job : srv[j].pc \in Serving ~> srv[j].pc \in {"closed", "killed"}

-----------------------------------------------------------------------------
(* The contract.                                                           *)

\* What the requester's ledger says of the credit for job j.
Claim(j) ==
  LET kinds == IF req[j].me = NoPeer THEN {} ELSE KindsOf(ledger[req[j].me], j) IN
  CASE kinds = {}                         -> "none"
    [] kinds = {"escrow"}                 -> "held"
    [] kinds = {"escrow", "settle"}       -> "paid"
    [] kinds = {"escrow", "refund"}       -> "returned"

\* A result is handed in when it is sent.  The worker's ledger has the rest.
Work(j) ==
  IF \E p \in Peer : "work" \in KindsOf(ledger[p], j) THEN "earned"
  ELSE IF req[j].pc = "ok" \/ \E i \in DOMAIN in[j] : in[j][i] = "RESULT_OK"
  THEN "finished" ELSE "none"

Contract == INSTANCE HireContract WITH
  claim <- [j \in Job |-> Claim(j)], work <- [j \in Job |-> Work(j)]

(* Threads, connections and crashes keep the contract: no step pays, earns *)
(* or returns a credit out of turn, whichever of the two peers has stopped *)
(* or given up (peer.py:197-223, 269-327).                                 *)
KeepsContract == Contract!Spec

-----------------------------------------------------------------------------
(* What the documentation says and the code does not do.                   *)

(* "On any failure after escrow ... the escrowed credit is refunded and a  *)
(* failure dict is returned; this method never raises for swarm-side       *)
(* problems" (peer.py:237-239).                                            *)
FailureIsRefunded ==
  \A j \in Job : req[j].pc = "raised" => ~IsOpen(ledger[req[j].me], j)

(* "Delegation costs the requester one credit (escrowed at offer time,     *)
(* released to the worker on a good result, refunded on reject/failure/    *)
(* timeout); the worker earns one" (README.md:80-82): when nobody works on *)
(* a job any more, the worker has earned a credit if and only if the       *)
(* requester has paid one.                                                 *)
BooksBalance ==
  \A j \in Job : req[j].pc \in Ended /\ srv[j].pc \notin Serving \cup {"queued"} =>
    \A r, w \in Peer : Holds(w, WorkRecord(j, r)) <=> Holds(r, SettleRecord(j, w))

(* "escrow (credits reserved for in-flight jobs)" (ledger.py:5-6).         *)
EscrowIsInFlight ==
  \A p \in Peer :
    Balance(ledger[p], "escrow")
      = JobPrice * Cardinality({j \in Job : req[j].me = p /\ req[j].pc \in Active})
=============================================================================
