------------------------------- MODULE Errand -------------------------------
(***************************************************************************)
(* One job from the command line to the sandbox and back, in time: "mesh   *)
(* delegate" (cli.py) asks the peer of its data directory over the control *)
(* channel (Peer._handle_control), that peer delegates (Peer.delegate) to  *)
(* a worker (Peer._serve_connection), and the worker executes (module      *)
(* Executor).  Module Delegation has the same two threads without time,    *)
(* for any number of jobs and peers; this module implements it.            *)
(*                                                                         *)
(* Time is discrete.  In a calm run, messages and connections take at most *)
(* Transit, and the worker spends at most Overhead on a job beside its     *)
(* running time.  In any other run messages take as long as they like or   *)
(* are lost, connections break, and the worker may be slow.  A thread that *)
(* waits with a timeout goes on at that time in both.                      *)
(*                                                                         *)
(* The timeout of a socket is that of each call: sending a message takes   *)
(* one timeout at most, reading a message takes one for every piece that   *)
(* the message arrives in.  In a calm run a message arrives whole.         *)
(***************************************************************************)
EXTENDS Executor

CONSTANTS
  ConnectWait,  \* timeout of a connection, and of each handshake   (10 s)
  OfferWait,    \* timeout of the reply to an offer                 (15 s)
  Grace,        \* what the result may take beside the running time (15 s)
  ServeWait,    \* timeout of the worker's wait for an offer        (30 s)
  Base,         \* what a command waits beside the running time     (30 s)
  WorkerLimit,  \* max_runtime_seconds of the worker
  Pieces,       \* the most pieces that a message is received in
  Transit, Overhead,
  MaxClock      \* bound on the clock

ASSUME ErrandAssumption ==
  /\ {ConnectWait, OfferWait, Grace, ServeWait, Base, WorkerLimit,
      Pieces, Transit, Overhead, MaxClock} \subseteq Nat
  /\ 0 < Pieces
  /\ 0 < Transit
  /\ Transit + Transit <= ConnectWait
  /\ Transit + Transit <= OfferWait
  /\ OfferWait < ServeWait
  /\ Overhead + Transit <= Grace

VARIABLES
  cmd,       \* the command
  req,       \* the call of delegate, when its wait began, and for what
  srv,       \* the worker's thread for the connection, and when its wait began
  out, in,   \* messages to the worker and to the requester, and their times
  credited,  \* the worker has a record of the work
  up,        \* the worker's process runs
  calm       \* the run is calm

errand == <<cmd, req, srv, out, in, credited, up, calm>>
executor == <<clock, job, conf, present, exec, dir, child, strays>>
vars == <<executor, errand>>

\* What others know of the worker: its manifest, or that of an earlier run.
Manifest == [accepts : BOOLEAN, harnesses : SUBSET Harness]

Init ==
  /\ ExecInit
  /\ clock = 0
  /\ job = [required |-> "any", limit |-> 0]
  /\ cmd = "idle"
  /\ req = [pc |-> "idle", since |-> 0, sending |-> FALSE, pieces |-> 0]
  /\ srv = [pc |-> "none", since |-> 0]
  /\ out = <<>>
  /\ in = <<>>
  /\ credited = FALSE
  /\ up = TRUE
  /\ calm \in BOOLEAN

Active == {"escrowed", "connected", "greeting", "offered", "waiting"}

\* As in Delegation; "invalid" and "nobody" return before the escrow.
Ended == {"ok", "rejected", "reported", "failed", "raised", "invalid", "nobody"}

Waiting == {"escrowed", "greeting", "offered", "waiting"}

\* "sending": sendall has not returned; "pieces": of the message to be read.
ReqGoes(pc) ==
  req' = [pc |-> pc, since |-> IF pc \in Waiting THEN clock ELSE 0,
          sending |-> pc \in {"greeting", "offered"}, pieces |-> 0]

\* A time that is looked at in a calm run only.
Stamp == IF calm THEN clock ELSE 0

SrvGoes(pc) == srv' = [pc |-> pc, since |-> Stamp]

Sent(ch, m) == Append(ch, [m |-> m, at |-> Stamp])
Next1(ch, m) == ch # <<>> /\ Head(ch).m = m

-----------------------------------------------------------------------------
(* The command and the thread that serves its connection.                  *)

\* cmd_delegate: any harness of the choices, and any running time.  The
\* request itself takes no time.
Ask ==
  /\ cmd = "idle"
  /\ cmd' = "asked"
  /\ job' \in [required : Harness \cup {"any"}, limit : Limits]
  /\ UNCHANGED <<clock, conf, present, exec, dir, child, strays,
                 req, srv, out, in, credited, up, calm>>

\* Mutation: the running time of the job is not added.
CommandWaitsBase == Base

CommandWait == Base + job.limit

GiveUp ==
  /\ cmd = "asked"
  /\ clock >= CommandWait
  /\ cmd' = "gaveup"
  /\ UNCHANGED <<executor, req, srv, out, in, credited, up, calm>>

\* The answer of delegate.  An OSError is not caught: the connection closes.
Report ==
  /\ cmd = "asked"
  /\ req.pc \in Ended
  /\ cmd' = IF req.pc = "raised" THEN "cut" ELSE "answered"
  /\ UNCHANGED <<executor, req, srv, out, in, credited, up, calm>>

-----------------------------------------------------------------------------
(* delegate.                                                               *)

Suits(heard) ==
  heard.accepts /\ (job.required = "any" \/ job.required \in heard.harnesses)

\* new_job, and the choice of a worker from what discovery has heard.
Call ==
  /\ cmd = "asked"
  /\ req.pc = "idle"
  /\ IF job.limit = 0 THEN ReqGoes("invalid")
     ELSE \E heard \in Manifest :
            ReqGoes(IF Suits(heard) THEN "chosen" ELSE "nobody")
  /\ UNCHANGED <<executor, cmd, srv, out, in, credited, up, calm>>

Escrow ==
  /\ req.pc = "chosen"
  /\ ReqGoes("escrowed")
  /\ UNCHANGED <<executor, cmd, srv, out, in, credited, up, calm>>

Connect ==
  /\ req.pc = "escrowed"
  /\ up
  /\ ReqGoes("connected")
  /\ SrvGoes("queued")
  /\ UNCHANGED <<executor, cmd, out, in, credited, up, calm>>

NameLost ==
  /\ req.pc = "connected"
  /\ srv.pc = "reset"
  /\ ReqGoes("raised")
  /\ UNCHANGED <<executor, cmd, srv, out, in, credited, up, calm>>

Greet ==
  /\ req.pc = "connected"
  /\ ReqGoes("greeting")
  /\ out' = Sent(out, "HANDSHAKE")
  /\ UNCHANGED <<executor, cmd, srv, in, credited, up, calm>>

\* sendall of the handshake or of the offer returns, and the read begins.
SendReturns ==
  /\ req.sending
  /\ req' = [req EXCEPT !.sending = FALSE, !.since = clock]
  /\ UNCHANGED <<executor, cmd, srv, out, in, credited, up, calm>>

\* A piece of the message arrives, and readline calls recv once more.
Piece ==
  /\ ~calm
  /\ req.pc \in {"greeting", "offered", "waiting"} /\ ~req.sending
  /\ req.pieces + 1 < Pieces
  /\ req' = [req EXCEPT !.pieces = @ + 1, !.since = clock]
  /\ UNCHANGED <<executor, cmd, srv, out, in, credited, up, calm>>

Offer ==
  /\ req.pc = "greeting" /\ ~req.sending
  /\ Next1(in, "HANDSHAKE")
  /\ in' = Tail(in)
  /\ out' = Sent(out, "TASK_OFFER")
  /\ ReqGoes("offered")
  /\ UNCHANGED <<executor, cmd, srv, credited, up, calm>>

Accepted ==
  /\ req.pc = "offered" /\ ~req.sending
  /\ Next1(in, "TASK_ACCEPT")
  /\ in' = Tail(in)
  /\ ReqGoes("waiting")
  /\ UNCHANGED <<executor, cmd, srv, out, credited, up, calm>>

\* TASK_REJECT, a result with an error, a result: refund, refund, settle.
Answered(pc, m, end) ==
  /\ req.pc = pc /\ ~req.sending
  /\ Next1(in, m)
  /\ in' = Tail(in)
  /\ ReqGoes(end)
  /\ UNCHANGED <<executor, cmd, srv, out, credited, up, calm>>

Rejected == Answered("offered", "TASK_REJECT", "rejected")
Reported == Answered("waiting", "RESULT_ERROR", "reported")
Settle   == Answered("waiting", "RESULT_OK", "ok")

\* Mutation: no grace beside the running time.
WaitWithoutGrace(pc) ==
  CASE pc = "escrowed" -> ConnectWait [] pc = "greeting" -> ConnectWait
    [] pc = "offered" -> OfferWait [] pc = "waiting" -> job.limit

\* Mutation: the reply to an offer takes as long as an offer may.
WaitLikeServer(pc) ==
  CASE pc = "escrowed" -> ConnectWait [] pc = "greeting" -> ConnectWait
    [] pc = "offered" -> ServeWait [] pc = "waiting" -> job.limit + Grace

\* The timeout of a call that delegate waits for.
Wait(pc) ==
  CASE pc = "escrowed" -> ConnectWait [] pc = "greeting" -> ConnectWait
    [] pc = "offered" -> OfferWait [] pc = "waiting" -> job.limit + Grace

\* A message has certainly arrived.  It is read even at the timeout.
Arrived(ch) == calm /\ ch # <<>> /\ clock >= Head(ch).at + Transit

\* The offer is sent with the timeout of the handshake still set.
TimedOut ==
  /\ req.pc \in Waiting /\ ~Arrived(in)
  /\ clock >= req.since + (IF req.sending THEN ConnectWait ELSE Wait(req.pc))

\* The worker's end has gone.  Messages that a killed peer sent may be lost.
Broken ==
  \/ req.pc = "escrowed" /\ ~up
  \/ srv.pc \in {"killed", "reset"}
  \/ srv.pc = "closed" /\ in = <<>>

Fail ==
  /\ req.pc \in Active
  /\ TimedOut \/ Broken \/ ~calm
  /\ ReqGoes("failed")
  /\ UNCHANGED <<executor, cmd, srv, out, in, credited, up, calm>>

-----------------------------------------------------------------------------
(* The worker.                                                             *)

Accept ==
  /\ srv.pc = "queued"
  /\ SrvGoes("accepted")
  /\ UNCHANGED <<executor, cmd, req, out, in, credited, up, calm>>

HandshakeInbound ==
  /\ srv.pc = "accepted"
  /\ Next1(out, "HANDSHAKE")
  /\ out' = Tail(out)
  /\ in' = Sent(in, "HANDSHAKE")
  /\ SrvGoes("greeted")
  /\ UNCHANGED <<executor, cmd, req, credited, up, calm>>

\* The checks of _handle_task_offer after validate_job.
Refuses ==
  \/ ~conf.accepts
  \/ job.required \notin Advertised(conf) \cup {"any"} /\ ~conf.simulate
  \/ job.limit > WorkerLimit

HandleTaskOffer ==
  /\ srv.pc = "greeted"
  /\ Next1(out, "TASK_OFFER")
  /\ out' = Tail(out)
  /\ IF Refuses
     THEN in' = Sent(in, "TASK_REJECT") /\ SrvGoes("closed") /\ exec' = exec
     ELSE in' = Sent(in, "TASK_ACCEPT") /\ SrvGoes("executing") /\ Begin
  /\ UNCHANGED <<clock, job, conf, present, dir, child, strays,
                 cmd, req, credited, up, calm>>

\* Mutation: the work is credited before the result is sent.
CreditAndSend ==
  /\ srv.pc = "executing"
  /\ exec.pc = "done"
  /\ exec.outcome \in {"ok", "error"}
  /\ in' = Sent(in, IF exec.outcome = "ok" THEN "RESULT_OK" ELSE "RESULT_ERROR")
  /\ SrvGoes("closed")
  /\ credited' = (exec.outcome = "ok")
  /\ UNCHANGED <<executor, cmd, req, out, up, calm>>

\* Sending succeeds even if nobody will read the message.
SendResult ==
  /\ srv.pc = "executing"
  /\ exec.pc = "done"
  /\ \/ exec.outcome = "ok" /\ in' = Sent(in, "RESULT_OK") /\ SrvGoes("crediting")
     \/ exec.outcome = "error" /\ in' = Sent(in, "RESULT_ERROR") /\ SrvGoes("closed")
  /\ UNCHANGED <<executor, cmd, req, out, credited, up, calm>>

CreditForWork ==
  /\ srv.pc = "crediting"
  /\ SrvGoes("closed")
  /\ credited' = TRUE
  /\ UNCHANGED <<executor, cmd, req, out, in, up, calm>>

ServeTimedOut ==
  \/ srv.pc = "accepted" /\ clock >= srv.since + ConnectWait
  \/ srv.pc = "greeted"  /\ clock >= srv.since + ServeWait

\* A timeout, an exception of the executor, a requester that has gone.
ServeFails ==
  /\ \/ srv.pc \in {"accepted", "greeted"}
     \/ srv.pc = "executing" /\ exec.pc = "done"
  /\ ServeTimedOut \/ req.pc \in Ended \/ ~calm \/ exec.outcome = "raised"
  /\ SrvGoes("closed")
  /\ UNCHANGED <<executor, cmd, req, out, in, credited, up, calm>>

\* The worker's process is killed.  Its child goes on.
Kill ==
  /\ up
  /\ up' = FALSE
  /\ srv' = CASE srv.pc \in {"none", "closed"} -> srv
              [] srv.pc = "queued" -> [srv EXCEPT !.pc = "reset"]
              [] OTHER -> [srv EXCEPT !.pc = "killed"]
  /\ exec' = IF exec.pc \in ExecPc THEN [exec EXCEPT !.pc = "killed"] ELSE exec
  /\ UNCHANGED <<clock, job, conf, present, dir, child, strays,
                 cmd, req, out, in, credited, calm>>

-----------------------------------------------------------------------------
(* Time.                                                                   *)

\* What has to happen before the clock may go on.
DueAlways ==
  \/ cmd = "asked" /\ (req.pc \in Ended \cup {"idle"} \/ clock >= CommandWait)
  \/ req.pc \in {"chosen", "connected"}
  \/ TimedOut
  \/ exec.pc \in {"running", "sleeping"} /\ clock >= exec.since + job.limit

DueIfCalm ==
  \/ req.sending
  \/ req.pc = "escrowed" /\ (~up \/ clock >= req.since + Transit)
  \/ req.pc \in Waiting /\ Arrived(in)
  \/ req.pc \in Waiting \ {"escrowed"} /\ Broken
  \/ srv.pc = "queued" /\ clock >= srv.since + Transit
  \/ srv.pc \in {"accepted", "greeted"} /\ Arrived(out)
  \/ srv.pc = "crediting"
  \/ ServeTimedOut
  \/ exec.pc \in {"choosing", "resolving", "launching"} /\ clock >= srv.since + Overhead
  \/ srv.pc = "executing" /\ clock >= srv.since + Overhead + job.limit

Tick ==
  /\ cmd = "asked" \/ req.pc \in Active \/ exec.pc \in {"running", "sleeping"}
  /\ clock < MaxClock
  /\ ~DueAlways
  /\ calm => ~DueIfCalm
  /\ clock' = clock + 1
  /\ UNCHANGED <<job, conf, present, exec, dir, child, strays, errand>>

-----------------------------------------------------------------------------
Command == Ask \/ GiveUp \/ Report

Delegate ==
  \/ Call \/ Escrow \/ Connect \/ NameLost
  \/ Greet \/ SendReturns \/ Piece \/ Offer
  \/ Accepted \/ Rejected \/ Reported \/ Settle \/ Fail

Serve ==
  \/ Accept \/ HandshakeInbound \/ HandleTaskOffer
  \/ SendResult \/ CreditForWork \/ ServeFails

Execute == (ExecuteJob \/ Machine) /\ UNCHANGED errand

\* Nothing is left to do.
Finished ==
  /\ cmd \in {"answered", "cut", "gaveup"}
  /\ req.pc \in Ended
  /\ srv.pc \in {"none", "closed", "killed", "reset"}

Next ==
  Command \/ Delegate \/ Serve \/ Execute \/ Kill \/ Tick

Spec == Init /\ [][Next \/ (Finished /\ UNCHANGED vars)]_vars
-----------------------------------------------------------------------------
(* Properties.                                                             *)

Times == 0..MaxClock

Messages == [m : {"HANDSHAKE", "TASK_OFFER", "TASK_ACCEPT", "TASK_REJECT",
                  "RESULT_OK", "RESULT_ERROR"}, at : Times]

Jobs == [required : Harness \cup {"any"}, limit : Limits \cup {0}]

Execution ==
  [pc : ExecPc \cup {"none", "done", "killed"},
   harness : Harness \cup {"none", "simulated"}, since : Times,
   outcome : {"none", "ok", "error", "raised"}]

Calls ==
  [pc : {"idle", "chosen"} \cup Active \cup Ended, since : Times,
   sending : BOOLEAN, pieces : 0..(Pieces - 1)]

Threads ==
  [pc : {"none", "queued", "accepted", "greeted", "executing", "crediting",
         "closed", "killed", "reset"}, since : Times]

(* Every variable has its type.                                            *)
TypeOK ==
  /\ clock \in Times
  /\ job \in Jobs
  /\ conf \in Confs
  /\ present \subseteq Clis
  /\ exec \in Execution
  /\ dir \in {"none", "there", "left"}
  /\ child \in {"none", "running", "ok", "error", "killed"}
  /\ strays \in BOOLEAN
  /\ cmd \in {"idle", "asked", "answered", "cut", "gaveup"}
  /\ req \in Calls
  /\ srv \in Threads
  /\ out \in Seq(Messages)
  /\ in \in Seq(Messages)
  /\ credited \in BOOLEAN
  /\ up \in BOOLEAN
  /\ calm \in BOOLEAN

(* The timeouts fit together (peer.py:34-35, 281, 294, executor.py:170):   *)
(* in a calm run with a worker that stays up, a delegation fails only if   *)
(* the executor raises, and no worker is credited for a result that the    *)
(* requester no longer waits for.                                          *)
InTime ==
  calm /\ up =>
    /\ req.pc = "failed" => exec.outcome = "raised"
    /\ credited \/ srv.pc = "crediting" => req.pc \in {"offered", "waiting", "ok"}

(* A command gives up before the delegation it asked for (cli.py:104) only *)
(* if something came late: the acceptance, or the last piece of the result *)
(* that has come, after more than the Base time less the Grace that        *)
(* delegate gives each piece, 15 s (peer.py:294, protocol.py:75-78).       *)
AnswerInTime ==
  cmd = "gaveup" /\ req.pc \in Active =>
    IF req.pc = "waiting" THEN req.since + Grace >= Base
    ELSE clock >= Base + job.limit

(* A credit is held for a job in flight no longer than its calls can take: *)
(* to connect, to send the handshake and the offer, and a timeout for each *)
(* piece of the three messages that are read, however slow the network and *)
(* the worker are (peer.py:269-330, protocol.py:58, 75-78, 115-138).       *)
HeldBriefly ==
  req.pc \in Active =>
    clock <= 3 * ConnectWait
             + Pieces * (ConnectWait + OfferWait + job.limit + Grace)

(* "a hard timeout ... kills the subprocess" (executor.py:12-13): the child*)
(* does not outlive the execution, nor its running time, unless the worker *)
(* itself is killed.                                                       *)
ChildIsBounded ==
  child = "running" /\ up =>
    exec.pc = "running" /\ clock <= exec.since + job.limit

(* However the execution ends, the directory is removed before the worker  *)
(* answers, or the removal has been tried: one is left only after a child  *)
(* has run in it (executor.py:7-8, 142, 164-184).                          *)
SandboxIsRemoved ==
  /\ dir = "there" /\ up => exec.pc \in {"launching", "running", "cleaning"}
  /\ dir = "left" => child # "none"

(* A result that the requester pays for is that of a child which exited 0, *)
(* run by the required harness, which the worker advertises; or else no    *)
(* child was started and the worker says that it simulated                 *)
(* (executor.py:116-138, 172).                                             *)
PaidIsExecuted ==
  req.pc = "ok" =>
    \/ child = "none" /\ exec.harness = "simulated"
    \/ /\ child = "ok"
       /\ exec.harness \in Advertised(conf)
       /\ job.required \in {"any", exec.harness}

-----------------------------------------------------------------------------
(* The same delegation without time.                                       *)

Names(ch) == [i \in DOMAIN ch |-> ch[i].m]

NotCalled == {"idle", "invalid", "nobody"}

L == INSTANCE LedgerRecords WITH
  Job <- {"job"}, Peer <- {"requester", "worker"}, NoJob <- "none",
  OpeningBalance <- 1

\* The records of the requester and of the worker.
Books(p) ==
  IF p = "worker"
  THEN IF credited THEN <<L!Opening, L!WorkRecord("job", "requester")>>
       ELSE <<L!Opening>>
  ELSE CASE req.pc \in Active \cup {"raised"} ->
              <<L!Opening, L!EscrowRecord("job")>>
         [] req.pc = "ok" ->
              <<L!Opening, L!EscrowRecord("job"), L!SettleRecord("job", "worker")>>
         [] req.pc \in {"rejected", "reported", "failed"} ->
              <<L!Opening, L!EscrowRecord("job"), L!RefundRecord("job")>>
         [] OTHER -> <<L!Opening>>

PeersUp == [p \in {"requester", "worker"} |-> p = "requester" \/ up]
Stops == IF up THEN 0 ELSE 1
Ledgers == [p \in {"requester", "worker"} |-> Books(p)]

Caller == [j \in {"job"} |->
  IF req.pc \in NotCalled
  THEN [pc |-> "idle", me |-> "nobody", worker |-> "nobody"]
  ELSE [pc |-> req.pc, me |-> "requester", worker |-> "worker"]]

Server == [j \in {"job"} |->
  [pc |-> srv.pc, at |-> IF srv.pc = "none" THEN "nobody" ELSE "worker"]]

Outgoing == [j \in {"job"} |-> Names(out)]
Incoming == [j \in {"job"} |-> Names(in)]

D == INSTANCE Delegation WITH
  Job <- {"job"}, Peer <- {"requester", "worker"}, NoJob <- "none",
  NoPeer <- "nobody", OpeningBalance <- 1, MaxCrashes <- 1,
  up <- PeersUp, crashes <- Stops, ledger <- Ledgers,
  req <- Caller, srv <- Server, out <- Outgoing, in <- Incoming

(* Deadlines, the executor and the peers' configurations only restrict what*)
(* module Delegation allows: whatever it says of one job holds here too    *)
(* (peer.py:161-330).                                                      *)
ImplementsDelegation == D!Spec
=============================================================================
