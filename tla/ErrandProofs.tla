---------------------------- MODULE ErrandProofs ----------------------------
(***************************************************************************)
(* What holds of one job in time for every worker, every list of harness   *)
(* CLIs and all values of the timeouts, calm or not: its sandbox and child *)
(* process are cleaned up, its credit is held only so long, and it is paid *)
(* for only if it was executed.                                            *)
(***************************************************************************)
EXTENDS Errand, TLAPS

(* A worker's thread begins to execute once, after an offer.               *)
Phases ==
  /\ req.pc \in {"idle", "chosen", "escrowed", "invalid", "nobody"} => srv.pc = "none"
  /\ exec.pc # "none" => srv.pc \in {"executing", "crediting", "closed", "killed"}

(* The directory and the child exist while the thread is where it can      *)
(* remove them.                                                            *)
Sandbox ==
  /\ exec.pc \in {"none", "choosing", "sleeping", "resolving", "done"} => dir # "there"
  /\ dir = "left" => child # "none" /\ exec.pc \in {"done", "killed"}
  /\ exec.pc \in {"none", "choosing", "sleeping", "resolving", "launching"} => child = "none"
  /\ exec.pc = "running" => child \in {"running", "ok", "error"}
  /\ exec.pc \in {"cleaning", "done"} => child # "running"
  /\ up => exec.pc # "killed"

\* So many reads, and when the handshake and the reply to the offer have
\* been read.
Reads(pieces, wait) == pieces * wait
ByOffer == ConnectWait + ConnectWait + Reads(Pieces, ConnectWait)
ByResult == ByOffer + ConnectWait + Reads(Pieces, OfferWait)

(* No call waits longer than its timeout, and a message is read in so many *)
(* calls.                                                                  *)
Clocks ==
  /\ req.pc \in {"idle", "chosen"} => clock = 0
  /\ req.pc = "escrowed" => req.since = 0 /\ clock <= ConnectWait
  /\ req.pc = "connected" => clock <= ConnectWait
  /\ req.pc = "greeting" =>
       /\ clock <= req.since + ConnectWait
       /\ IF req.sending THEN req.since <= ConnectWait
          ELSE req.since <= ConnectWait + ConnectWait + Reads(req.pieces, ConnectWait)
  /\ req.pc = "offered" =>
       IF req.sending THEN req.since <= ByOffer /\ clock <= req.since + ConnectWait
       ELSE /\ req.since <= ByOffer + ConnectWait + Reads(req.pieces, OfferWait)
            /\ clock <= req.since + OfferWait
  /\ req.pc = "waiting" =>
       /\ req.since <= ByResult + Reads(req.pieces, job.limit + Grace)
       /\ clock <= req.since + job.limit + Grace
  /\ req.sending => req.pc \in {"greeting", "offered"} /\ req.pieces = 0
  /\ req.sending /\ calm => clock = req.since
  /\ exec.pc \in {"running", "sleeping"} => clock <= exec.since + job.limit
  /\ cmd = "gaveup" => clock >= Base + job.limit
  /\ cmd = "gaveup" /\ req.pc = "waiting" => req.since + Grace >= Base
  /\ cmd = "idle" => req.pc = "idle"

\* The harness is one that the worker advertises and the job asks for.
Fits ==
  exec.harness \in Advertised(conf) /\ job.required \in {"any", exec.harness}

\* The execution has ended well.
Executed ==
  \/ child = "none" /\ exec.harness = "simulated"
  \/ child = "ok" /\ Fits

\* The result of a good execution is on its way.
Good(ch) == \E i \in DOMAIN ch : ch[i].m = "RESULT_OK"

(* An outcome is that of a fitting harness or of the simulation, and a     *)
(* result that of an execution.                                            *)
Results ==
  /\ exec.pc = "sleeping" => exec.harness = "simulated"
  /\ exec.pc \in {"resolving", "launching", "running"} => Fits
  /\ exec.outcome = "ok" => Executed /\ exec.pc \in {"cleaning", "done", "killed"}
  /\ req.pc = "ok" \/ Good(in) => exec.outcome = "ok" /\ exec.pc = "done"

(* The inductive invariant.                                                *)
IInv == TypeOK /\ Phases /\ Sandbox /\ Clocks /\ Results

\* All waits are natural numbers, and so is what is counted.
LEMMA Numbers ==
  /\ ConnectWait \in Nat /\ OfferWait \in Nat /\ Grace \in Nat /\ Base \in Nat
  /\ MaxClock \in Nat /\ Times \subseteq Nat /\ 0 \in Times
  /\ Pieces \in Nat /\ 0 < Pieces /\ 0 \in 0..(Pieces - 1)
BY ErrandAssumption DEF Times

\* One read after the other.
LEMMA ReadsFacts ==
  ASSUME NEW n \in 0..(Pieces - 1), NEW wait \in Nat
  PROVE  /\ Reads(n, wait) \in Nat /\ Reads(Pieces, wait) \in Nat
         /\ Reads(0, wait) = 0
         /\ Reads(n + 1, wait) = Reads(n, wait) + wait
         /\ Reads(n, wait) + wait <= Reads(Pieces, wait)
<1>1. n \in Nat /\ Pieces \in Nat /\ n + 1 <= Pieces
  BY Numbers
<1>2. PICK rest \in Nat : Pieces = n + 1 + rest
  <2>1. Pieces - (n + 1) \in Nat
    BY <1>1
  <2> QED
    BY <1>1, <2>1
<1>3. n * wait \in Nat /\ rest * wait \in Nat /\ 0 * wait = 0
  BY <1>1, <1>2
<1>4. (n + 1) * wait = n * wait + wait
  BY <1>1
<1>5. (n + 1 + rest) * wait = (n + 1) * wait + rest * wait
  BY <1>1, <1>2
<1> QED
  BY <1>1, <1>2, <1>3, <1>4, <1>5 DEF Reads

\* The times of the reads are numbers.
LEMMA ReadTimes ==
  /\ \A wait \in Nat : Reads(Pieces, wait) \in Nat /\ Reads(0, wait) = 0
  /\ ByOffer \in Nat /\ ByResult \in Nat
<1>1. \A wait \in Nat : Reads(Pieces, wait) \in Nat /\ Reads(0, wait) = 0
  BY ReadsFacts, Numbers
<1> QED
  BY <1>1, Numbers DEF ByOffer, ByResult

LEMMA TypeFacts ==
  ASSUME TypeOK
  PROVE  /\ clock \in Nat /\ job.limit \in Nat /\ req.since \in Nat /\ exec.since \in Nat
         /\ req.sending \in BOOLEAN /\ req.pieces \in 0..(Pieces - 1)
<1>1. job.limit \in Nat
  <2>1. job.limit \in Limits \/ job.limit = 0
    BY DEF TypeOK, Jobs
  <2>2. \A limit \in Limits : limit \in Nat
    BY ExecutorAssumption
  <2> QED
    BY <2>1, <2>2
<1>2. clock \in Nat /\ req.since \in Nat /\ exec.since \in Nat
      /\ req.sending \in BOOLEAN /\ req.pieces \in 0..(Pieces - 1)
  BY Numbers DEF TypeOK, Calls, Execution
<1> QED
  BY <1>1, <1>2

-----------------------------------------------------------------------------
(* Messages.                                                               *)

Name == {"HANDSHAKE", "TASK_OFFER", "TASK_ACCEPT", "TASK_REJECT",
         "RESULT_OK", "RESULT_ERROR"}

(* A message more.                                                         *)
LEMMA SentFacts ==
  ASSUME TypeOK, NEW ch \in Seq(Messages), NEW m \in Name
  PROVE  /\ Sent(ch, m) \in Seq(Messages)
         /\ Good(Sent(ch, m)) => Good(ch) \/ m = "RESULT_OK"
<1>1. [m |-> m, at |-> Stamp] \in Messages
  BY Numbers DEF TypeOK, Stamp, Messages, Name
<1>2. Sent(ch, m) = Append(ch, [m |-> m, at |-> Stamp])
  BY DEF Sent
<1>3. Sent(ch, m) \in Seq(Messages)
  BY <1>1, <1>2
<1>4. ASSUME NEW i \in DOMAIN Sent(ch, m), Sent(ch, m)[i].m = "RESULT_OK"
      PROVE  Good(ch) \/ m = "RESULT_OK"
  <2>1. CASE i = Len(ch) + 1
    BY <1>1, <1>2, <1>4, <2>1
  <2>2. CASE i # Len(ch) + 1
    <3>1. i \in DOMAIN ch /\ Sent(ch, m)[i] = ch[i]
      BY <1>1, <1>2, <1>4, <2>2
    <3> QED
      BY <1>4, <3>1 DEF Good
  <2> QED
    BY <2>1, <2>2
<1> QED
  BY <1>3, <1>4 DEF Good

(* A message less.                                                         *)
LEMMA TakenFacts ==
  ASSUME NEW ch \in Seq(Messages), ch # <<>>
  PROVE  /\ Tail(ch) \in Seq(Messages)
         /\ Good(Tail(ch)) => Good(ch)
         /\ Head(ch).m = "RESULT_OK" => Good(ch)
<1>1. Tail(ch) \in Seq(Messages) /\ Len(Tail(ch)) = Len(ch) - 1
  OBVIOUS
<1>2. \A i \in DOMAIN Tail(ch) : i + 1 \in DOMAIN ch /\ Tail(ch)[i] = ch[i + 1]
  OBVIOUS
<1>3. Good(Tail(ch)) => Good(ch)
  BY <1>2 DEF Good
<1>4. 1 \in DOMAIN ch /\ Head(ch) = ch[1]
  OBVIOUS
<1> QED
  BY <1>1, <1>3, <1>4 DEF Good

-----------------------------------------------------------------------------
(* The invariant holds at first.                                           *)

LEMMA InitIInv == Init => IInv
<1> SUFFICES ASSUME Init PROVE IInv
  OBVIOUS
<1>1. TypeOK
  <2>1. exec \in Execution
    BY Numbers DEF Init, ExecInit, Idle, Execution, ExecPc
  <2>2. req \in Calls /\ srv \in Threads /\ job \in Jobs
    BY Numbers DEF Init, Calls, Threads, Jobs
  <2>3. conf \in Confs /\ present \subseteq Clis
    BY ConfAssumption DEF Init, ExecInit, Conf
  <2>4. clock \in Times /\ out \in Seq(Messages) /\ in \in Seq(Messages)
    BY Numbers DEF Init
  <2> QED
    BY <2>1, <2>2, <2>3, <2>4 DEF Init, ExecInit, TypeOK
<1>2. Phases /\ Sandbox
  BY DEF Init, ExecInit, Idle, Phases, Sandbox
<1>3. Clocks
  BY Numbers DEF Init, ExecInit, Idle, Clocks
<1>4. Results
  BY DEF Init, ExecInit, Idle, Results, Good
<1> QED
  BY <1>1, <1>2, <1>3, <1>4 DEF IInv

-----------------------------------------------------------------------------
(* The executor.                                                           *)

LEMMA ChooseIInv ==
  ASSUME IInv, Choose, UNCHANGED errand
  PROVE  IInv'
<1> USE DEF errand
<1>1. TypeOK'
  <2>1. exec' \in Execution
    BY Numbers DEF IInv, TypeOK, Execution, ExecPc, Choose, IsChosen, Usable
  <2> QED
    BY <2>1 DEF IInv, TypeOK, Sandbox, Choose, IsChosen, Usable
<1>2. Phases'
  BY DEF IInv, TypeOK, Execution, Phases, Choose, IsChosen, Usable
<1>3. Sandbox'
  BY DEF IInv, TypeOK, Execution, Phases, Sandbox, Choose, IsChosen, Usable
<1>4. Clocks'
  <2>1. clock \in Nat /\ job.limit \in Nat
    BY TypeFacts DEF IInv
  <2>2. exec'.pc \in {"running", "sleeping"} => exec'.since = clock
    BY DEF IInv, TypeOK, Execution, Choose, IsChosen, Usable
  <2>3. UNCHANGED <<clock, job, cmd, req>>
    BY DEF Choose
  <2> QED
    BY <2>1, <2>2, <2>3 DEF IInv, Clocks
<1>5. Results'
  BY DEF IInv, TypeOK, Execution, Sandbox, Results, Executed, Fits, Advertised, Choose, IsChosen, Usable
<1> QED
  BY <1>1, <1>2, <1>3, <1>4, <1>5 DEF IInv

LEMMA WakeUpIInv ==
  ASSUME IInv, WakeUp, UNCHANGED errand
  PROVE  IInv'
<1> USE DEF errand
<1>1. TypeOK'
  <2>1. exec' \in Execution
    BY Numbers DEF IInv, TypeOK, Execution, ExecPc, WakeUp, Ends
  <2> QED
    BY <2>1 DEF IInv, TypeOK, Sandbox, WakeUp, Ends
<1>2. Phases'
  BY DEF IInv, TypeOK, Execution, Phases, WakeUp, Ends
<1>3. Sandbox'
  BY DEF IInv, TypeOK, Execution, Phases, Sandbox, WakeUp, Ends
<1>4. Clocks'
  BY TypeFacts DEF IInv, TypeOK, Execution, Clocks, WakeUp, Ends
<1>5. Results'
  BY DEF IInv, TypeOK, Execution, Sandbox, Results, Executed, Fits, Advertised, WakeUp, Ends
<1> QED
  BY <1>1, <1>2, <1>3, <1>4, <1>5 DEF IInv

LEMMA ResolveIInv ==
  ASSUME IInv, Resolve, UNCHANGED errand
  PROVE  IInv'
<1> USE DEF errand
<1>1. TypeOK'
  <2>1. exec' \in Execution
    BY Numbers DEF IInv, TypeOK, Execution, ExecPc, Resolve, Ends, ExecGoes
  <2> QED
    BY <2>1 DEF IInv, TypeOK, Sandbox, Resolve, Ends, ExecGoes
<1>2. Phases'
  BY DEF IInv, TypeOK, Execution, Phases, Resolve, Ends, ExecGoes
<1>3. Sandbox'
  BY DEF IInv, TypeOK, Execution, Phases, Sandbox, Resolve, Ends, ExecGoes
<1>4. Clocks'
  <2>1. UNCHANGED <<clock, job, cmd, req, calm>>
    BY DEF Resolve
  <2>2. exec'.pc \notin {"running", "sleeping"}
    BY DEF IInv, TypeOK, Execution, Resolve, Ends, ExecGoes
  <2>3. Clocks
    BY DEF IInv
  <2> QED
    BY <2>1, <2>2, <2>3 DEF Clocks
<1>5. Results'
  BY DEF IInv, TypeOK, Execution, Sandbox, Results, Executed, Fits, Advertised, Resolve, Ends, ExecGoes
<1> QED
  BY <1>1, <1>2, <1>3, <1>4, <1>5 DEF IInv

LEMMA LaunchIInv ==
  ASSUME IInv, Launch, UNCHANGED errand
  PROVE  IInv'
<1> USE DEF errand
<1>1. TypeOK'
  <2>1. exec' \in Execution
    BY Numbers DEF IInv, TypeOK, Execution, ExecPc, Launch, Ends
  <2> QED
    BY <2>1 DEF IInv, TypeOK, Sandbox, Launch, Ends
<1>2. Phases'
  BY DEF IInv, TypeOK, Execution, Phases, Launch, Ends
<1>3. Sandbox'
  BY DEF IInv, TypeOK, Execution, Phases, Sandbox, Launch, Ends
<1>4. Clocks'
  <2>1. clock \in Nat /\ job.limit \in Nat
    BY TypeFacts DEF IInv
  <2>2. exec'.pc \in {"running", "sleeping"} => exec'.since = clock
    BY DEF IInv, TypeOK, Execution, Launch, Ends
  <2>3. UNCHANGED <<clock, job, cmd, req>>
    BY DEF Launch
  <2> QED
    BY <2>1, <2>2, <2>3 DEF IInv, Clocks
<1>5. Results'
  BY DEF IInv, TypeOK, Execution, Sandbox, Results, Executed, Fits, Advertised, Launch, Ends
<1> QED
  BY <1>1, <1>2, <1>3, <1>4, <1>5 DEF IInv

LEMMA ChildEndsIInv ==
  ASSUME IInv, ChildEnds, UNCHANGED errand
  PROVE  IInv'
<1> USE DEF errand
<1>1. TypeOK'
  BY DEF IInv, TypeOK, Sandbox, ChildEnds
<1>2. Phases'
  BY DEF IInv, TypeOK, Execution, Phases, ChildEnds
<1>3. Sandbox'
  BY DEF IInv, TypeOK, Execution, Phases, Sandbox, ChildEnds
<1>4. Clocks'
  BY TypeFacts DEF IInv, TypeOK, Execution, Clocks, ChildEnds
<1>5. Results'
  BY DEF IInv, TypeOK, Execution, Sandbox, Results, Executed, Fits, Advertised, ChildEnds
<1> QED
  BY <1>1, <1>2, <1>3, <1>4, <1>5 DEF IInv

LEMMA StraysEndIInv ==
  ASSUME IInv, StraysEnd, UNCHANGED errand
  PROVE  IInv'
<1> USE DEF errand
<1>1. TypeOK'
  BY DEF IInv, TypeOK, Sandbox, StraysEnd
<1>2. Phases'
  BY DEF IInv, TypeOK, Execution, Phases, StraysEnd
<1>3. Sandbox'
  BY DEF IInv, TypeOK, Execution, Phases, Sandbox, StraysEnd
<1>4. Clocks'
  BY TypeFacts DEF IInv, TypeOK, Execution, Clocks, StraysEnd
<1>5. Results'
  BY DEF IInv, TypeOK, Execution, Sandbox, Results, Executed, Fits, Advertised, StraysEnd
<1> QED
  BY <1>1, <1>2, <1>3, <1>4, <1>5 DEF IInv

LEMMA CollectIInv ==
  ASSUME IInv, Collect, UNCHANGED errand
  PROVE  IInv'
<1> USE DEF errand
<1>1. TypeOK'
  <2>1. exec' \in Execution
    BY Numbers DEF IInv, TypeOK, Execution, ExecPc, Sandbox, Collect, Ends
  <2> QED
    BY <2>1 DEF IInv, TypeOK, Sandbox, Collect, Ends
<1>2. Phases'
  BY DEF IInv, TypeOK, Execution, Phases, Collect, Ends
<1>3. Sandbox'
  BY DEF IInv, TypeOK, Execution, Phases, Sandbox, Collect, Ends
<1>4. Clocks'
  BY TypeFacts DEF IInv, TypeOK, Execution, Clocks, Collect, Ends
<1>5. Results'
  BY DEF IInv, TypeOK, Execution, Sandbox, Results, Executed, Fits, Advertised, Collect, Ends
<1> QED
  BY <1>1, <1>2, <1>3, <1>4, <1>5 DEF IInv

LEMMA TimeoutIInv ==
  ASSUME IInv, Timeout, UNCHANGED errand
  PROVE  IInv'
<1> USE DEF errand
<1>1. TypeOK'
  <2>1. exec' \in Execution
    BY Numbers DEF IInv, TypeOK, Execution, ExecPc, Timeout, Ends
  <2> QED
    BY <2>1 DEF IInv, TypeOK, Sandbox, Timeout, Ends
<1>2. Phases'
  BY DEF IInv, TypeOK, Execution, Phases, Timeout, Ends
<1>3. Sandbox'
  BY DEF IInv, TypeOK, Execution, Phases, Sandbox, Timeout, Ends
<1>4. Clocks'
  BY TypeFacts DEF IInv, TypeOK, Execution, Clocks, Timeout, Ends
<1>5. Results'
  BY DEF IInv, TypeOK, Execution, Sandbox, Results, Executed, Fits, Advertised, Timeout, Ends
<1> QED
  BY <1>1, <1>2, <1>3, <1>4, <1>5 DEF IInv

LEMMA CleanupIInv ==
  ASSUME IInv, Cleanup, UNCHANGED errand
  PROVE  IInv'
<1> USE DEF errand
<1>1. TypeOK'
  <2>1. exec' \in Execution
    BY Numbers DEF IInv, TypeOK, Execution, ExecPc, Cleanup, ExecGoes
  <2> QED
    BY <2>1 DEF IInv, TypeOK, Sandbox, Cleanup, ExecGoes
<1>2. Phases'
  BY DEF IInv, TypeOK, Execution, Phases, Cleanup, ExecGoes
<1>3. Sandbox'
  BY DEF IInv, TypeOK, Execution, Phases, Sandbox, Cleanup, ExecGoes
<1>4. Clocks'
  BY TypeFacts DEF IInv, TypeOK, Execution, Clocks, Cleanup, ExecGoes
<1>5. Results'
  BY DEF IInv, TypeOK, Execution, Sandbox, Results, Executed, Fits, Advertised, Cleanup, ExecGoes
<1> QED
  BY <1>1, <1>2, <1>3, <1>4, <1>5 DEF IInv

LEMMA ReinstallIInv ==
  ASSUME IInv, Reinstall, UNCHANGED errand
  PROVE  IInv'
<1> USE DEF errand
<1>1. TypeOK'
  BY DEF IInv, TypeOK, Sandbox, Reinstall
<1>2. Phases'
  BY DEF IInv, TypeOK, Execution, Phases, Reinstall
<1>3. Sandbox'
  BY DEF IInv, TypeOK, Execution, Phases, Sandbox, Reinstall
<1>4. Clocks'
  BY TypeFacts DEF IInv, TypeOK, Execution, Clocks, Reinstall
<1>5. Results'
  BY DEF IInv, TypeOK, Execution, Sandbox, Results, Executed, Fits, Advertised, Reinstall
<1> QED
  BY <1>1, <1>2, <1>3, <1>4, <1>5 DEF IInv

-----------------------------------------------------------------------------
(* The command and delegate.                                               *)

CallPc == {"idle", "chosen"} \cup Active \cup Ended

\* Where a call goes to.
LEMMA ReqGoesFacts ==
  ASSUME TypeOK, NEW pc \in CallPc, ReqGoes(pc)
  PROVE  /\ req' \in Calls
         /\ req'.pc = pc
         /\ req'.sending <=> pc \in {"greeting", "offered"}
         /\ req'.pieces = 0
         /\ pc \in Waiting => req'.since = clock
<1>1. clock \in Times /\ 0 \in Times /\ 0 \in 0..(Pieces - 1)
  BY Numbers DEF TypeOK
<1>2. (pc \in {"greeting", "offered"}) \in BOOLEAN
  OBVIOUS
<1>3. req' = [pc |-> pc, since |-> IF pc \in Waiting THEN clock ELSE 0,
              sending |-> pc \in {"greeting", "offered"}, pieces |-> 0]
  BY DEF ReqGoes
<1>4. (IF pc \in Waiting THEN clock ELSE 0) \in Times
  BY <1>1
<1>5. req' \in Calls
  BY <1>1, <1>2, <1>3, <1>4 DEF Calls, CallPc
<1>6. req'.sending <=> pc \in {"greeting", "offered"}
  BY <1>3, Zenon
<1> QED
  BY <1>3, <1>5, <1>6

(* When a call of delegate goes on, its clocks are right if it is early    *)
(* enough.                                                                 *)
LEMMA CallClocks ==
  ASSUME IInv, NEW pc \in CallPc, ReqGoes(pc), UNCHANGED <<executor, cmd, calm>>,
         req.pc # "idle" \/ cmd # "idle", pc # "idle",
         pc \in {"chosen", "escrowed"} => clock = 0,
         pc \in {"connected", "greeting"} => clock <= ConnectWait,
         pc = "offered" => clock <= ByOffer,
         pc = "waiting" => clock <= ByResult
  PROVE  Clocks'
<1>1. clock \in Nat /\ job.limit \in Nat /\ job' = job /\ clock' = clock /\ exec' = exec
  BY TypeFacts DEF IInv, executor
<1>2. req'.pc = pc /\ req'.pieces = 0 /\ (req'.sending <=> pc \in {"greeting", "offered"})
      /\ (pc \in Waiting => req'.since = clock)
  BY ReqGoesFacts DEF IInv
<1>3. Reads(0, job.limit + Grace) = 0
  BY <1>1, ReadsFacts, Numbers
<1>4. ByResult \in Nat
  BY ReadTimes
<1>5. cmd = "gaveup" => clock >= Base + job.limit
  BY DEF IInv, Clocks
<1>6. cmd # "idle"
  BY DEF IInv, Clocks
<1>7. exec.pc \in {"running", "sleeping"} => clock <= exec.since + job.limit
  BY DEF IInv, Clocks
<1> QED
  BY <1>1, <1>2, <1>3, <1>4, <1>5, <1>6, <1>7, Numbers DEF Clocks, Waiting

\* Where a thread of the worker goes to.
LEMMA SrvGoesFacts ==
  ASSUME TypeOK, SrvGoes(srv'.pc),
         srv'.pc \in {"queued", "accepted", "greeted", "executing", "crediting", "closed"}
  PROVE  srv' \in Threads
<1>1. Stamp \in Times
  BY Numbers DEF TypeOK, Stamp
<1> QED
  BY <1>1 DEF SrvGoes, Threads

LEMMA AskIInv ==
  ASSUME IInv, Ask
  PROVE  IInv'
<1>1. req.pc = "idle" /\ srv.pc = "none" /\ exec.pc = "none"
  BY DEF IInv, Clocks, Phases, Ask
<1>2. TypeOK'
  BY DEF IInv, TypeOK, Jobs, Ask
<1>3. Phases' /\ Sandbox'
  BY DEF IInv, Phases, Sandbox, Ask
<1>4. Clocks'
  BY <1>1 DEF IInv, Clocks, Ask
<1>5. Results'
  BY <1>1 DEF IInv, Results, Ask, Good
<1> QED
  BY <1>2, <1>3, <1>4, <1>5 DEF IInv

LEMMA GiveUpIInv ==
  ASSUME IInv, GiveUp
  PROVE  IInv'
<1> USE DEF executor
<1>1. clock \in Nat /\ job.limit \in Nat /\ req.since \in Nat
  BY TypeFacts DEF IInv
<1>2. TypeOK'
  BY DEF IInv, TypeOK, GiveUp
<1>3. Phases' /\ Sandbox' /\ Results'
  BY DEF IInv, Phases, Sandbox, Results, Executed, Fits, GiveUp, Good
<1>4. clock >= Base + job.limit
  BY DEF GiveUp, CommandWait
<1>5. req.pc = "waiting" => clock <= req.since + job.limit + Grace
  BY DEF IInv, Clocks
<1>6. req.pc = "waiting" => req.since + Grace >= Base
  BY <1>1, <1>4, <1>5, Numbers
<1>7. Clocks'
  BY <1>4, <1>6 DEF IInv, Clocks, GiveUp
<1> QED
  BY <1>2, <1>3, <1>7 DEF IInv

LEMMA ReportIInv ==
  ASSUME IInv, Report
  PROVE  IInv'
<1> USE DEF executor
<1>1. TypeOK'
  BY DEF IInv, TypeOK, Report
<1>2. Phases' /\ Sandbox' /\ Results'
  BY DEF IInv, Phases, Sandbox, Results, Executed, Fits, Report, Good
<1>3. Clocks'
  BY DEF IInv, Clocks, Report
<1> QED
  BY <1>1, <1>2, <1>3 DEF IInv

(* A step of delegate: what is left to show of it.                         *)
LEMMA CallStep ==
  ASSUME IInv, NEW pc \in CallPc, ReqGoes(pc),
         UNCHANGED <<executor, cmd, credited, up, calm>>,
         srv' \in Threads, exec.pc # "none" => srv' = srv,
         out' \in Seq(Messages), in' \in Seq(Messages), Good(in') => Good(in),
         pc \in {"idle", "chosen", "escrowed", "invalid", "nobody"} => srv'.pc = "none",
         pc = "ok" => exec.outcome = "ok" /\ exec.pc = "done",
         Clocks'
  PROVE  IInv'
<1> USE DEF executor
<1>1. req' \in Calls /\ req'.pc = pc
  BY ReqGoesFacts DEF IInv
<1>2. TypeOK'
  BY <1>1 DEF IInv, TypeOK
<1>3. Phases'
  BY <1>1 DEF IInv, Phases
<1>4. Sandbox'
  BY DEF IInv, Sandbox
<1>5. Results'
  BY <1>1 DEF IInv, Results, Executed, Fits
<1> QED
  BY <1>2, <1>3, <1>4, <1>5 DEF IInv

LEMMA CallIInv ==
  ASSUME IInv, Call
  PROVE  IInv'
<1>1. PICK pc \in {"invalid", "chosen", "nobody"} : ReqGoes(pc)
  BY DEF Call
<1>2. pc \in CallPc /\ req'.pc = pc
  BY <1>1, ReqGoesFacts DEF IInv, CallPc, Ended
<1>3. UNCHANGED <<executor, cmd, srv, out, in, credited, up, calm>>
  BY DEF Call
<1>4. cmd = "asked" /\ req.pc = "idle" /\ srv.pc = "none" /\ exec.pc = "none" /\ clock = 0
  BY DEF Call, IInv, Clocks, Phases
<1>5. Clocks'
  BY <1>1, <1>2, <1>3, <1>4, CallClocks
<1> QED
  BY <1>1, <1>2, <1>3, <1>4, <1>5, CallStep DEF IInv, TypeOK

LEMMA EscrowIInv ==
  ASSUME IInv, Escrow
  PROVE  IInv'
<1>1. req.pc = "chosen" /\ ReqGoes("escrowed") /\ UNCHANGED <<executor, cmd, credited, up, calm>>
  BY DEF Escrow
<1>2. req'.pc = "escrowed" /\ req'.since = clock /\ "escrowed" \in CallPc
  BY <1>1, ReqGoesFacts DEF IInv, CallPc, Active, Ended, Waiting
<1>3. clock \in Nat /\ job.limit \in Nat /\ req.since \in Nat
  BY TypeFacts DEF IInv
<1>4. Clocks'
  BY <1>1, <1>2, CallClocks DEF IInv, Clocks
<1>5. srv.pc = "none" /\ UNCHANGED <<srv, out, in>>
  BY <1>1 DEF Escrow, IInv, Phases
<1> QED
  BY <1>1, <1>2, <1>4, <1>5, CallStep DEF IInv, TypeOK

LEMMA ConnectIInv ==
  ASSUME IInv, Connect
  PROVE  IInv'
<1>1. req.pc = "escrowed" /\ ReqGoes("connected") /\ UNCHANGED <<executor, cmd, credited, up, calm>>
  BY DEF Connect
<1>2. req'.pc = "connected" /\ "connected" \in CallPc
  BY <1>1, ReqGoesFacts DEF IInv, CallPc, Active, Ended
<1>3. clock \in Nat /\ job.limit \in Nat /\ req.since \in Nat
  BY TypeFacts DEF IInv
<1>4. Clocks'
  BY <1>1, <1>2, CallClocks DEF IInv, Clocks
<1>5. srv.pc = "none" /\ exec.pc = "none"
  BY <1>1 DEF IInv, Phases
<1>6. SrvGoes("queued") /\ srv'.pc = "queued" /\ UNCHANGED <<out, in>>
  BY DEF Connect, SrvGoes
<1>7. srv' \in Threads
  BY <1>6, SrvGoesFacts DEF IInv
<1> QED
  BY <1>1, <1>2, <1>4, <1>5, <1>6, <1>7, CallStep DEF IInv, TypeOK

LEMMA NameLostIInv ==
  ASSUME IInv, NameLost
  PROVE  IInv'
<1>1. req.pc = "connected" /\ ReqGoes("raised") /\ UNCHANGED <<executor, cmd, credited, up, calm>>
  BY DEF NameLost
<1>2. req'.pc = "raised" /\ "raised" \in CallPc
  BY <1>1, ReqGoesFacts DEF IInv, CallPc, Active, Ended
<1>3. clock \in Nat /\ job.limit \in Nat /\ req.since \in Nat
  BY TypeFacts DEF IInv
<1>4. Clocks'
  BY <1>1, <1>2, CallClocks DEF IInv, Clocks
<1>5. UNCHANGED <<srv, out, in>>
  BY DEF NameLost
<1> QED
  BY <1>1, <1>2, <1>4, <1>5, CallStep DEF IInv, TypeOK

LEMMA GreetIInv ==
  ASSUME IInv, Greet
  PROVE  IInv'
<1>1. req.pc = "connected" /\ ReqGoes("greeting") /\ UNCHANGED <<executor, cmd, credited, up, calm>>
  BY DEF Greet
<1>2. req'.pc = "greeting" /\ req'.since = clock /\ "greeting" \in CallPc
  BY <1>1, ReqGoesFacts DEF IInv, CallPc, Active, Ended, Waiting
<1>3. clock \in Nat /\ job.limit \in Nat /\ req.since \in Nat
  BY TypeFacts DEF IInv
<1>4. Clocks'
  BY <1>1, <1>2, CallClocks DEF IInv, Clocks
<1>5. UNCHANGED <<srv, in>> /\ out' = Sent(out, "HANDSHAKE")
  BY DEF Greet
<1>6. out' \in Seq(Messages)
  BY <1>5, SentFacts DEF IInv, TypeOK, Name
<1> QED
  BY <1>1, <1>2, <1>4, <1>5, <1>6, CallStep DEF IInv, TypeOK

(* The handshake and the reply to the offer are read in so many calls.     *)
LEMMA GreetingIsRead ==
  ASSUME IInv, req.pc = "greeting", ~req.sending
  PROVE  clock <= ByOffer
<1>1. clock \in Nat /\ req.since \in Nat /\ req.pieces \in 0..(Pieces - 1)
  BY TypeFacts DEF IInv
<1>2. Reads(req.pieces, ConnectWait) \in Nat /\ Reads(Pieces, ConnectWait) \in Nat
      /\ Reads(req.pieces, ConnectWait) + ConnectWait <= Reads(Pieces, ConnectWait)
  BY <1>1, ReadsFacts, Numbers
<1> QED
  BY <1>1, <1>2, Numbers DEF IInv, Clocks, ByOffer

LEMMA ReplyIsRead ==
  ASSUME IInv, req.pc = "offered", ~req.sending
  PROVE  clock <= ByResult
<1>1. clock \in Nat /\ req.since \in Nat /\ req.pieces \in 0..(Pieces - 1)
  BY TypeFacts DEF IInv
<1>2. Reads(req.pieces, OfferWait) \in Nat /\ Reads(Pieces, OfferWait) \in Nat
      /\ Reads(req.pieces, OfferWait) + OfferWait <= Reads(Pieces, OfferWait)
  BY <1>1, ReadsFacts, Numbers
<1>3. ByOffer \in Nat
  BY ReadTimes
<1> QED
  BY <1>1, <1>2, <1>3, Numbers DEF IInv, Clocks, ByResult

(* What is left of a step that changes the call, not where it is.          *)
LEMMA ReadStep ==
  ASSUME IInv, UNCHANGED <<executor, cmd, srv, out, in, credited, up, calm>>,
         req' \in Calls, req'.pc = req.pc, Clocks'
  PROVE  IInv'
<1> USE DEF executor
<1>1. TypeOK'
  BY DEF IInv, TypeOK
<1>2. Phases' /\ Sandbox' /\ Results'
  BY DEF IInv, Phases, Sandbox, Results, Executed, Fits, Good
<1> QED
  BY <1>1, <1>2 DEF IInv

LEMMA SendReturnsIInv ==
  ASSUME IInv, SendReturns
  PROVE  IInv'
<1>1. UNCHANGED <<executor, cmd, srv, out, in, credited, up, calm>>
  BY DEF SendReturns
<1>2. clock \in Nat /\ job.limit \in Nat /\ req.since \in Nat /\ clock \in Times
  BY TypeFacts DEF IInv, TypeOK
<1>3. req' \in Calls /\ req'.pc = req.pc /\ req'.since = clock /\ ~req'.sending
      /\ req'.pieces = req.pieces
  BY <1>2 DEF IInv, TypeOK, Calls, SendReturns
<1>4. req.sending /\ req.pc \in {"greeting", "offered"} /\ req.pieces = 0
  BY DEF SendReturns, IInv, Clocks
<1>5. Reads(0, ConnectWait) = 0 /\ Reads(0, OfferWait) = 0 /\ ByOffer \in Nat
  BY ReadTimes, Numbers
<1>6. Clocks'
  BY <1>1, <1>2, <1>3, <1>4, <1>5, Numbers DEF IInv, Clocks, executor
<1> QED
  BY <1>1, <1>3, <1>6, ReadStep

LEMMA PieceIInv ==
  ASSUME IInv, Piece
  PROVE  IInv'
<1>1. UNCHANGED <<executor, cmd, srv, out, in, credited, up, calm>> /\ ~req.sending
      /\ req.pc \in {"greeting", "offered", "waiting"} /\ req.pieces + 1 < Pieces
  BY DEF Piece
<1>2. clock \in Nat /\ job.limit \in Nat /\ req.since \in Nat /\ clock \in Times
      /\ req.pieces \in 0..(Pieces - 1)
  BY TypeFacts DEF IInv, TypeOK
<1>3. req.pieces + 1 \in 0..(Pieces - 1)
  BY <1>1, <1>2, Numbers
<1>4. req' \in Calls /\ req'.pc = req.pc /\ req'.since = clock /\ ~req'.sending
      /\ req'.pieces = req.pieces + 1
  BY <1>1, <1>2, <1>3 DEF IInv, TypeOK, Calls, Piece
<1>5. \A wait \in Nat : Reads(req.pieces, wait) \in Nat
        /\ Reads(req.pieces + 1, wait) = Reads(req.pieces, wait) + wait
  BY <1>2, ReadsFacts
<1>6. ByOffer \in Nat /\ ByResult \in Nat
  BY ReadTimes
<1>7. CASE req.pc = "greeting"
  <2>1. Clocks'
    BY <1>1, <1>2, <1>4, <1>5, <1>7, Numbers DEF IInv, Clocks, executor
  <2> QED
    BY <1>1, <1>4, <2>1, ReadStep
<1>8. CASE req.pc = "offered"
  <2>1. Clocks'
    BY <1>1, <1>2, <1>4, <1>5, <1>6, <1>8, Numbers DEF IInv, Clocks, executor
  <2> QED
    BY <1>1, <1>4, <2>1, ReadStep
<1>9. CASE req.pc = "waiting"
  <2>1. Reads(req.pieces, job.limit + Grace) \in Nat
        /\ Reads(req.pieces + 1, job.limit + Grace)
             = Reads(req.pieces, job.limit + Grace) + job.limit + Grace
    BY <1>2, <1>5, Numbers
  <2>2. Clocks'
    BY <1>1, <1>2, <1>4, <1>6, <1>9, <2>1, Numbers DEF IInv, Clocks, executor
  <2> QED
    BY <1>1, <1>4, <2>2, ReadStep
<1> QED
  BY <1>1, <1>7, <1>8, <1>9

LEMMA OfferIInv ==
  ASSUME IInv, Offer
  PROVE  IInv'
<1>1. req.pc = "greeting" /\ ReqGoes("offered") /\ UNCHANGED <<executor, cmd, credited, up, calm>>
  BY DEF Offer
<1>2. req'.pc = "offered" /\ req'.since = clock /\ "offered" \in CallPc
  BY <1>1, ReqGoesFacts DEF IInv, CallPc, Active, Ended, Waiting
<1>3. clock \in Nat /\ job.limit \in Nat /\ req.since \in Nat
  BY TypeFacts DEF IInv
<1>4. Clocks'
  <2>1. clock <= ByOffer
    BY <1>1, <1>3, GreetingIsRead DEF Offer
  <2> QED
    BY <1>1, <1>2, <2>1, CallClocks
<1>5. srv' = srv /\ in # <<>> /\ in' = Tail(in) /\ out' = Sent(out, "TASK_OFFER")
  BY DEF Offer, Next1
<1>6. out' \in Seq(Messages)
  BY <1>5, SentFacts DEF IInv, TypeOK, Name
<1>7. in' \in Seq(Messages) /\ (Good(in') => Good(in))
  BY <1>5, TakenFacts DEF IInv, TypeOK
<1> QED
  BY <1>1, <1>2, <1>4, <1>5, <1>6, <1>7, CallStep DEF IInv, TypeOK

LEMMA AcceptedIInv ==
  ASSUME IInv, Accepted
  PROVE  IInv'
<1>1. req.pc = "offered" /\ ReqGoes("waiting") /\ UNCHANGED <<executor, cmd, credited, up, calm>>
  BY DEF Accepted
<1>2. req'.pc = "waiting" /\ req'.since = clock /\ "waiting" \in CallPc
  BY <1>1, ReqGoesFacts DEF IInv, CallPc, Active, Ended, Waiting
<1>3. clock \in Nat /\ job.limit \in Nat /\ req.since \in Nat
  BY TypeFacts DEF IInv
<1>4. Clocks'
  <2>1. clock <= ByResult
    BY <1>1, <1>3, ReplyIsRead DEF Accepted
  <2> QED
    BY <1>1, <1>2, <2>1, CallClocks
<1>5. UNCHANGED <<srv, out>> /\ in # <<>> /\ in' = Tail(in)
  BY DEF Accepted, Next1
<1>6. in' \in Seq(Messages) /\ (Good(in') => Good(in))
  BY <1>5, TakenFacts DEF IInv, TypeOK
<1> QED
  BY <1>1, <1>2, <1>4, <1>5, <1>6, CallStep DEF IInv, TypeOK

LEMMA RejectedIInv ==
  ASSUME IInv, Rejected
  PROVE  IInv'
<1>1. req.pc = "offered" /\ ReqGoes("rejected") /\ UNCHANGED <<executor, cmd, credited, up, calm>>
  BY DEF Rejected, Answered
<1>2. req'.pc = "rejected" /\ "rejected" \in CallPc
  BY <1>1, ReqGoesFacts DEF IInv, CallPc, Active, Ended
<1>3. clock \in Nat /\ job.limit \in Nat /\ req.since \in Nat
  BY TypeFacts DEF IInv
<1>4. Clocks'
  BY <1>1, <1>2, CallClocks DEF IInv, Clocks
<1>5. UNCHANGED <<srv, out>> /\ in # <<>> /\ in' = Tail(in)
  BY DEF Rejected, Answered, Next1
<1>6. in' \in Seq(Messages) /\ (Good(in') => Good(in))
  BY <1>5, TakenFacts DEF IInv, TypeOK
<1> QED
  BY <1>1, <1>2, <1>4, <1>5, <1>6, CallStep DEF IInv, TypeOK

LEMMA ReportedIInv ==
  ASSUME IInv, Reported
  PROVE  IInv'
<1>1. req.pc = "waiting" /\ ReqGoes("reported") /\ UNCHANGED <<executor, cmd, credited, up, calm>>
  BY DEF Reported, Answered
<1>2. req'.pc = "reported" /\ "reported" \in CallPc
  BY <1>1, ReqGoesFacts DEF IInv, CallPc, Active, Ended
<1>3. clock \in Nat /\ job.limit \in Nat /\ req.since \in Nat
  BY TypeFacts DEF IInv
<1>4. Clocks'
  BY <1>1, <1>2, CallClocks DEF IInv, Clocks
<1>5. UNCHANGED <<srv, out>> /\ in # <<>> /\ in' = Tail(in)
  BY DEF Reported, Answered, Next1
<1>6. in' \in Seq(Messages) /\ (Good(in') => Good(in))
  BY <1>5, TakenFacts DEF IInv, TypeOK
<1> QED
  BY <1>1, <1>2, <1>4, <1>5, <1>6, CallStep DEF IInv, TypeOK

LEMMA SettleIInv ==
  ASSUME IInv, Settle
  PROVE  IInv'
<1>1. req.pc = "waiting" /\ ReqGoes("ok") /\ UNCHANGED <<executor, cmd, credited, up, calm>>
  BY DEF Settle, Answered
<1>2. req'.pc = "ok" /\ "ok" \in CallPc
  BY <1>1, ReqGoesFacts DEF IInv, CallPc, Active, Ended
<1>3. clock \in Nat /\ job.limit \in Nat /\ req.since \in Nat
  BY TypeFacts DEF IInv
<1>4. Clocks'
  BY <1>1, <1>2, CallClocks DEF IInv, Clocks
<1>5. UNCHANGED <<srv, out>> /\ in # <<>> /\ in' = Tail(in) /\ Head(in).m = "RESULT_OK"
  BY DEF Settle, Answered, Next1
<1>6. in' \in Seq(Messages) /\ (Good(in') => Good(in))
  BY <1>5, TakenFacts DEF IInv, TypeOK
<1>7. exec.outcome = "ok" /\ exec.pc = "done"
  <2>1. Good(in)
    BY <1>5, TakenFacts DEF IInv, TypeOK
  <2> QED
    BY <2>1 DEF IInv, Results
<1> QED
  BY <1>1, <1>2, <1>4, <1>5, <1>6, <1>7, CallStep DEF IInv, TypeOK

LEMMA FailIInv ==
  ASSUME IInv, Fail
  PROVE  IInv'
<1>1. ReqGoes("failed") /\ UNCHANGED <<executor, cmd, srv, out, in, credited, up, calm>>
  BY DEF Fail
<1>2. req.pc \in Active
  BY DEF Fail
<1>3. req'.pc = "failed" /\ "failed" \in CallPc
  BY <1>1, ReqGoesFacts DEF IInv, CallPc, Ended
<1>4. Clocks'
  BY <1>1, <1>2, <1>3, CallClocks DEF Active
<1> QED
  BY <1>1, <1>3, <1>4, CallStep DEF IInv, TypeOK

-----------------------------------------------------------------------------
(* The worker.                                                             *)

(* A step of the worker's thread: what is left to show of it.              *)
LEMMA ServeStep ==
  ASSUME IInv,
         NEW pc \in {"accepted", "greeted", "executing", "crediting", "closed"},
         SrvGoes(pc), UNCHANGED <<executor, cmd, req, up, calm>>,
         srv.pc # "none", exec.pc # "none" => pc \in {"crediting", "closed"},
         out' \in Seq(Messages), in' \in Seq(Messages), credited' \in BOOLEAN,
         Good(in') => Good(in) \/ (exec.outcome = "ok" /\ exec.pc = "done")
  PROVE  IInv'
<1> USE DEF executor
<1>1. srv' \in Threads /\ srv'.pc = pc
  BY SrvGoesFacts DEF IInv, SrvGoes
<1>2. TypeOK'
  BY <1>1 DEF IInv, TypeOK
<1>3. Phases'
  BY <1>1 DEF IInv, Phases
<1>4. Sandbox'
  BY DEF IInv, Sandbox
<1>5. Clocks'
  BY DEF IInv, Clocks
<1>6. Results'
  BY DEF IInv, Results, Executed, Fits
<1> QED
  BY <1>2, <1>3, <1>4, <1>5, <1>6 DEF IInv

LEMMA AcceptIInv ==
  ASSUME IInv, Accept
  PROVE  IInv'
<1>1. srv.pc = "queued" /\ exec.pc = "none"
  BY DEF Accept, IInv, Phases
<1>2. SrvGoes("accepted") /\ UNCHANGED <<executor, cmd, req, out, in, credited, up, calm>>
  BY DEF Accept
<1> QED
  BY <1>1, <1>2, ServeStep DEF IInv, TypeOK

LEMMA HandshakeInboundIInv ==
  ASSUME IInv, HandshakeInbound
  PROVE  IInv'
<1>1. srv.pc = "accepted" /\ exec.pc = "none"
  BY DEF HandshakeInbound, IInv, Phases
<1>2. SrvGoes("greeted") /\ UNCHANGED <<executor, cmd, req, credited, up, calm>>
  BY DEF HandshakeInbound
<1>3. out # <<>> /\ out' = Tail(out) /\ in' = Sent(in, "HANDSHAKE")
  BY DEF HandshakeInbound, Next1
<1>4. out' \in Seq(Messages)
  BY <1>3, TakenFacts DEF IInv, TypeOK
<1>5. in' \in Seq(Messages) /\ (Good(in') => Good(in))
  BY <1>3, SentFacts DEF IInv, TypeOK, Name
<1> QED
  BY <1>1, <1>2, <1>4, <1>5, ServeStep DEF IInv, TypeOK

LEMMA HandleTaskOfferIInv ==
  ASSUME IInv, HandleTaskOffer
  PROVE  IInv'
<1>1. srv.pc = "greeted" /\ exec.pc = "none"
  BY DEF HandleTaskOffer, IInv, Phases
<1>2. out # <<>> /\ out' = Tail(out)
  BY DEF HandleTaskOffer, Next1
<1>3. out' \in Seq(Messages)
  BY <1>2, TakenFacts DEF IInv, TypeOK
<1>4. UNCHANGED <<clock, job, conf, present, dir, child, strays, cmd, req, credited, up, calm>>
  BY DEF HandleTaskOffer
<1>5. CASE Refuses
  <2>1. SrvGoes("closed") /\ exec' = exec /\ in' = Sent(in, "TASK_REJECT")
    BY <1>5 DEF HandleTaskOffer
  <2>2. in' \in Seq(Messages) /\ (Good(in') => Good(in))
    BY <2>1, SentFacts DEF IInv, TypeOK, Name
  <2> QED
    BY <1>1, <1>3, <1>4, <2>1, <2>2, ServeStep DEF IInv, TypeOK, executor
<1>6. CASE ~Refuses
  <2>1. SrvGoes("executing") /\ Begin /\ in' = Sent(in, "TASK_ACCEPT")
    BY <1>6 DEF HandleTaskOffer
  <2>2. in' \in Seq(Messages) /\ (Good(in') => Good(in))
    BY <2>1, SentFacts DEF IInv, TypeOK, Name
  <2>3. exec' \in Execution /\ exec'.pc = "choosing" /\ exec'.outcome = "none"
    BY <2>1, Numbers DEF Begin, Idle, Execution, ExecPc
  <2>4. srv' \in Threads /\ srv'.pc = "executing"
    BY <2>1, SrvGoesFacts DEF IInv, SrvGoes
  <2>5. TypeOK'
    BY <1>3, <1>4, <2>2, <2>3, <2>4 DEF IInv, TypeOK
  <2>6. Phases'
    BY <1>1, <1>4, <2>4 DEF IInv, Phases
  <2>7. Sandbox'
    BY <1>1, <1>4, <2>3 DEF IInv, Sandbox
  <2>8. Clocks'
    BY <1>4, <2>3 DEF IInv, Clocks
  <2>9. Results'
    BY <1>1, <1>4, <2>2, <2>3 DEF IInv, Results
  <2> QED
    BY <2>5, <2>6, <2>7, <2>8, <2>9 DEF IInv
<1> QED
  BY <1>5, <1>6

LEMMA SendResultIInv ==
  ASSUME IInv, SendResult
  PROVE  IInv'
<1>1. srv.pc = "executing" /\ exec.pc = "done"
  BY DEF SendResult
<1>2. UNCHANGED <<executor, cmd, req, out, credited, up, calm>>
  BY DEF SendResult
<1>3. CASE exec.outcome = "ok" /\ in' = Sent(in, "RESULT_OK") /\ SrvGoes("crediting")
  <2>1. in' \in Seq(Messages)
    BY <1>3, SentFacts DEF IInv, TypeOK, Name
  <2> QED
    BY <1>1, <1>2, <1>3, <2>1, ServeStep DEF IInv, TypeOK
<1>4. CASE in' = Sent(in, "RESULT_ERROR") /\ SrvGoes("closed")
  <2>1. in' \in Seq(Messages) /\ (Good(in') => Good(in))
    BY <1>4, SentFacts DEF IInv, TypeOK, Name
  <2> QED
    BY <1>1, <1>2, <1>4, <2>1, ServeStep DEF IInv, TypeOK
<1> QED
  BY <1>3, <1>4 DEF SendResult

LEMMA CreditForWorkIInv ==
  ASSUME IInv, CreditForWork
  PROVE  IInv'
<1>1. srv.pc = "crediting" /\ SrvGoes("closed") /\ credited' = TRUE
  BY DEF CreditForWork
<1>2. UNCHANGED <<executor, cmd, req, out, in, up, calm>>
  BY DEF CreditForWork
<1> QED
  BY <1>1, <1>2, ServeStep DEF IInv, TypeOK

LEMMA ServeFailsIInv ==
  ASSUME IInv, ServeFails
  PROVE  IInv'
<1>1. srv.pc # "none" /\ SrvGoes("closed")
  BY DEF ServeFails
<1>2. UNCHANGED <<executor, cmd, req, out, in, credited, up, calm>>
  BY DEF ServeFails
<1> QED
  BY <1>1, <1>2, ServeStep DEF IInv, TypeOK

LEMMA KillIInv ==
  ASSUME IInv, Kill
  PROVE  IInv'
<1>1. UNCHANGED <<clock, job, conf, present, dir, child, strays,
                  cmd, req, out, in, credited, calm>> /\ up' = FALSE
  BY DEF Kill
<1>2. srv' \in Threads /\ (srv'.pc = "none" <=> srv.pc = "none")
      /\ (srv.pc \in {"executing", "crediting", "closed", "killed"}
            => srv'.pc \in {"closed", "killed"})
  BY DEF IInv, TypeOK, Threads, Kill
<1>3. exec' \in Execution /\ exec'.harness = exec.harness
      /\ exec'.outcome = exec.outcome /\ exec'.since = exec.since
      /\ exec'.pc = IF exec.pc \in ExecPc THEN "killed" ELSE exec.pc
  BY DEF IInv, TypeOK, Execution, Kill
<1>4. TypeOK'
  BY <1>1, <1>2, <1>3 DEF IInv, TypeOK
<1>5. Phases'
  BY <1>1, <1>2, <1>3 DEF IInv, Phases, ExecPc
<1>6. Sandbox'
  BY <1>1, <1>3 DEF IInv, Sandbox, ExecPc
<1>7. Clocks'
  BY <1>1, <1>3 DEF IInv, Clocks, ExecPc
<1>8. Results'
  BY <1>1, <1>3 DEF IInv, Results, Executed, Fits, ExecPc
<1> QED
  BY <1>4, <1>5, <1>6, <1>7, <1>8 DEF IInv

-----------------------------------------------------------------------------
(* Time.                                                                   *)

(* The clock stops at the timeouts.                                        *)
LEMMA TickIsInTime ==
  ASSUME IInv, Tick
  PROVE  /\ req.pc \notin {"idle", "chosen", "connected"}
         /\ req.pc \in Waiting =>
              clock < req.since + (IF req.sending THEN ConnectWait ELSE Wait(req.pc))
         /\ calm => ~req.sending
         /\ exec.pc \in {"running", "sleeping"} => clock < exec.since + job.limit
<1>1. clock \in Nat /\ job.limit \in Nat /\ req.since \in Nat /\ exec.since \in Nat
  BY TypeFacts DEF IInv
<1>2. ~DueAlways /\ (calm => ~DueIfCalm)
  BY DEF Tick
<1>3. req.pc \notin {"chosen", "connected"}
  BY <1>2 DEF DueAlways
<1>4. req.pc # "idle"
  <2>1. SUFFICES ASSUME req.pc = "idle" PROVE FALSE
    OBVIOUS
  <2>2. exec.pc = "none"
    BY <2>1 DEF IInv, Phases
  <2>3. cmd = "asked"
    BY <2>1, <2>2 DEF Tick, Active
  <2> QED
    BY <1>2, <2>1, <2>3 DEF DueAlways
<1>5. ASSUME req.pc \in Waiting
      PROVE  clock < req.since + (IF req.sending THEN ConnectWait ELSE Wait(req.pc))
  <2> DEFINE wait == IF req.sending THEN ConnectWait ELSE Wait(req.pc)
  <2>1. ~TimedOut
    BY <1>2 DEF DueAlways
  <2>2. ~Arrived(in)
    BY <1>2, <1>5 DEF DueIfCalm, Arrived
  <2>3. ~(clock >= req.since + wait)
    BY <1>5, <2>1, <2>2 DEF TimedOut
  <2>4. wait \in Nat
    BY <1>1, <1>5, Numbers DEF Wait, Waiting
  <2> HIDE DEF wait
  <2>5. clock < req.since + wait
    BY <1>1, <2>3, <2>4
  <2> QED
    BY <2>5 DEF wait
<1>6. ASSUME exec.pc \in {"running", "sleeping"}
      PROVE  clock < exec.since + job.limit
  <2>1. ~(clock >= exec.since + job.limit)
    BY <1>2, <1>6 DEF DueAlways
  <2> QED
    BY <1>1, <2>1
<1>7. calm => ~req.sending
  BY <1>2 DEF DueIfCalm
<1> QED
  BY <1>3, <1>4, <1>5, <1>6, <1>7

LEMMA TickIInv ==
  ASSUME IInv, Tick
  PROVE  IInv'
<1>1. clock \in Nat /\ job.limit \in Nat /\ req.since \in Nat /\ exec.since \in Nat
  BY TypeFacts DEF IInv
<1>2. clock' = clock + 1 /\ clock < MaxClock
      /\ UNCHANGED <<job, conf, present, exec, dir, child, strays, errand>>
  BY DEF Tick
<1>3. TypeOK'
  <2>1. clock' \in Times
    BY <1>1, <1>2, Numbers DEF Times
  <2> QED
    BY <1>2, <2>1 DEF IInv, TypeOK, errand
<1>4. Phases' /\ Sandbox' /\ Results'
  BY <1>2 DEF IInv, Phases, Sandbox, Results, Executed, Fits, errand
<1>5. Clocks'
  <2>1. /\ req.pc = "escrowed" => clock + 1 <= req.since + ConnectWait
        /\ req.pc = "greeting" => clock + 1 <= req.since + ConnectWait
        /\ req.pc = "offered" =>
             clock + 1 <= req.since + (IF req.sending THEN ConnectWait ELSE OfferWait)
        /\ req.pc = "waiting" => clock + 1 <= req.since + job.limit + Grace
    <3>1. req.pc = "escrowed" \/ req.pc = "waiting" => ~req.sending
      BY DEF IInv, Clocks
    <3> QED
      BY <1>1, <3>1, Numbers, TickIsInTime DEF Waiting, Wait
  <2>2. exec.pc \in {"running", "sleeping"} => clock + 1 <= exec.since + job.limit
    BY <1>1, TickIsInTime
  <2>3. cmd # "idle" \/ req.pc = "idle"
    BY DEF IInv, Clocks
  <2> QED
    BY <1>1, <1>2, <2>1, <2>2, <2>3, Numbers, TickIsInTime DEF IInv, Clocks, errand
<1> QED
  BY <1>3, <1>4, <1>5 DEF IInv

-----------------------------------------------------------------------------
(* The theorems.                                                           *)

LEMMA NextIInv ==
  ASSUME IInv, [Next \/ (Finished /\ UNCHANGED vars)]_vars
  PROVE  IInv'
<1>1. CASE Command
  BY <1>1, AskIInv, GiveUpIInv, ReportIInv DEF Command
<1>2. CASE Delegate
  BY <1>2, CallIInv, EscrowIInv, ConnectIInv, NameLostIInv, GreetIInv,
     SendReturnsIInv, PieceIInv, OfferIInv, AcceptedIInv, RejectedIInv, ReportedIInv, SettleIInv, FailIInv DEF Delegate
<1>3. CASE Serve
  BY <1>3, AcceptIInv, HandshakeInboundIInv, HandleTaskOfferIInv, SendResultIInv,
     CreditForWorkIInv, ServeFailsIInv DEF Serve
<1>4. CASE Execute
  BY <1>4, ChooseIInv, WakeUpIInv, ResolveIInv, LaunchIInv, CollectIInv, TimeoutIInv,
     CleanupIInv, ChildEndsIInv, StraysEndIInv, ReinstallIInv
  DEF Execute, ExecuteJob, Machine
<1>5. CASE Kill
  BY <1>5, KillIInv
<1>6. CASE Tick
  BY <1>6, TickIInv
<1>7. CASE UNCHANGED vars
  BY <1>7 DEF vars, executor, errand, IInv, TypeOK, Phases, Sandbox, Clocks, Results,
              Executed, Fits, Good
<1> QED
  BY <1>1, <1>2, <1>3, <1>4, <1>5, <1>6, <1>7 DEF Next

(* The invariant holds always.                                             *)
THEOREM ErrandInvariant == Spec => []IInv
<1>1. Init => IInv
  BY InitIInv
<1>2. IInv /\ [Next \/ (Finished /\ UNCHANGED vars)]_vars => IInv'
  BY NextIInv
<1> QED
  BY <1>1, <1>2, PTL DEF Spec

(* The variables of an errand and of the executor have their types         *)
(* (cli.py:93-116, peer.py:161-330, executor.py:121-210).                  *)
THEOREM ErrandTypeCorrect == Spec => []TypeOK
<1>1. IInv => TypeOK
  BY DEF IInv
<1> QED
  BY <1>1, ErrandInvariant, PTL

(* A command outlives its delegation unless the acceptance or a piece of   *)
(* the result came after most of its base time, for any timeouts, number of*)
(* pieces and delays of messages (cli.py:104, peer.py:294,                 *)
(* protocol.py:75-78).                                                     *)
THEOREM AnswersComeInTime == Spec => []AnswerInTime
<1>1. IInv => AnswerInTime
  BY DEF IInv, Clocks, AnswerInTime
<1> QED
  BY <1>1, ErrandInvariant, PTL

(* A credit is held no longer than the calls of a delegation can take, for *)
(* any timeouts, number of pieces, messages and worker (peer.py:269-330,   *)
(* protocol.py:58, 75-78).                                                 *)
THEOREM CreditIsHeldBriefly == Spec => []HeldBriefly
<1>1. IInv => HeldBriefly
  <2> DEFINE wait == job.limit + Grace
  <2> SUFFICES ASSUME IInv, req.pc \in Active
               PROVE  clock <= 3 * ConnectWait
                               + Pieces * (ConnectWait + OfferWait + job.limit + Grace)
    BY DEF HeldBriefly
  <2>1. clock \in Nat /\ job.limit \in Nat /\ req.since \in Nat
        /\ req.pieces \in 0..(Pieces - 1) /\ wait \in Nat
    BY TypeFacts, Numbers DEF IInv
  <2>2. /\ Reads(Pieces, ConnectWait) \in Nat /\ Reads(Pieces, OfferWait) \in Nat
        /\ ConnectWait <= Reads(Pieces, ConnectWait)
    BY ReadsFacts, Numbers
  <2>3. /\ Reads(Pieces, wait) \in Nat /\ Reads(req.pieces, wait) \in Nat
        /\ Reads(req.pieces, wait) + wait <= Reads(Pieces, wait)
    BY <2>1, ReadsFacts
  <2>4. Pieces * (ConnectWait + OfferWait + job.limit + Grace)
          = Reads(Pieces, ConnectWait) + Reads(Pieces, OfferWait) + Reads(Pieces, wait)
    BY <2>1, Numbers DEF Reads
  <2> HIDE DEF wait
  <2>5. clock <= ByResult + Reads(Pieces, wait)
    <3>1. CASE req.pc \in {"escrowed", "connected"}
      BY <2>1, <2>2, <2>3, <3>1, Numbers DEF IInv, Clocks, ByResult, ByOffer
    <3>2. CASE req.pc = "greeting"
      <4>1. CASE req.sending
        BY <2>1, <2>2, <2>3, <3>2, <4>1, Numbers DEF IInv, Clocks, ByResult, ByOffer
      <4>2. CASE ~req.sending
        BY <2>1, <2>2, <2>3, <3>2, <4>2, GreetingIsRead, Numbers DEF ByResult, ByOffer
      <4> QED
        BY <4>1, <4>2
    <3>3. CASE req.pc = "offered"
      <4>1. CASE req.sending
        BY <2>1, <2>2, <2>3, <3>3, <4>1, Numbers DEF IInv, Clocks, ByResult, ByOffer
      <4>2. CASE ~req.sending
        BY <2>1, <2>2, <2>3, <3>3, <4>2, ReplyIsRead, Numbers DEF ByResult, ByOffer
      <4> QED
        BY <4>1, <4>2
    <3>4. CASE req.pc = "waiting"
      <4>1. req.since <= ByResult + Reads(req.pieces, wait) /\ clock <= req.since + wait
        BY <2>1, <3>4, Numbers DEF IInv, Clocks, wait
      <4> QED
        BY <2>1, <2>2, <2>3, <4>1, Numbers DEF ByResult, ByOffer
    <3> QED
      BY <3>1, <3>2, <3>3, <3>4 DEF Active
  <2> QED
    BY <2>1, <2>2, <2>3, <2>4, <2>5, Numbers DEF ByResult, ByOffer
<1> QED
  BY <1>1, ErrandInvariant, PTL

(* No child outlives its execution or its running time on a worker that is *)
(* not killed, whatever the harness does (executor.py:169-195).            *)
THEOREM ChildrenAreBounded == Spec => []ChildIsBounded
<1>1. IInv => ChildIsBounded
  BY DEF IInv, TypeOK, Execution, ExecPc, Sandbox, Clocks, ChildIsBounded
<1> QED
  BY <1>1, ErrandInvariant, PTL

(* However the execution ends, the sandbox directory is removed or, after  *)
(* a child has run in it, its removal has been tried (executor.py:142-184).*)
THEOREM SandboxesAreRemoved == Spec => []SandboxIsRemoved
<1>1. IInv => SandboxIsRemoved
  BY DEF IInv, TypeOK, Execution, ExecPc, Sandbox, SandboxIsRemoved
<1> QED
  BY <1>1, ErrandInvariant, PTL

(* Nothing is paid for but a good exit of a harness that the worker        *)
(* advertises and the job asks for, or a simulation, for any list of CLIs  *)
(* and any configuration (executor.py:116-138, 172, peer.py:301-312).      *)
THEOREM WhatIsPaidIsExecuted == Spec => []PaidIsExecuted
<1>1. IInv => PaidIsExecuted
  BY DEF IInv, Results, Executed, Fits, PaidIsExecuted
<1> QED
  BY <1>1, ErrandInvariant, PTL
-----------------------------------------------------------------------------
(* The timeouts fit together.                                              *)

Msg(m, at) == [m |-> m, at |-> at]

(* The stages of a delegation in a calm run with a worker that stays up:   *)
(* where the two threads are, what is under way, and until when at most.   *)
BeforeEscrow ==
  /\ req.pc \in {"idle", "chosen", "invalid", "nobody"} /\ srv.pc = "none" /\ ~credited
  /\ out = <<>> /\ in = <<>>

Connecting ==
  /\ req.pc = "escrowed" /\ srv.pc = "none" /\ ~credited
  /\ out = <<>> /\ in = <<>>
  /\ clock <= req.since + Transit

Connected ==
  /\ req.pc = "connected" /\ srv.pc \in {"queued", "accepted"} /\ ~credited
  /\ out = <<>> /\ in = <<>>
  /\ srv.since = clock

Greeting ==
  /\ req.pc = "greeting" /\ srv.pc \in {"queued", "accepted"} /\ ~credited
  /\ out = <<Msg("HANDSHAKE", req.since)>> /\ in = <<>>
  /\ srv.pc = "queued" => srv.since = req.since
  /\ req.since <= srv.since /\ srv.since <= clock
  /\ clock <= req.since + Transit

Greeted ==
  /\ req.pc = "greeting" /\ srv.pc = "greeted" /\ ~credited
  /\ out = <<>> /\ in = <<Msg("HANDSHAKE", srv.since)>>
  /\ srv.since <= req.since + Transit
  /\ clock <= srv.since + Transit

Offered ==
  /\ req.pc = "offered" /\ srv.pc = "greeted" /\ ~credited
  /\ out = <<Msg("TASK_OFFER", req.since)>> /\ in = <<>>
  /\ req.since <= srv.since + Transit
  /\ clock <= req.since + Transit

Refused ==
  /\ req.pc = "offered" /\ srv.pc = "closed" /\ ~credited
  /\ in = <<Msg("TASK_REJECT", srv.since)>>
  /\ srv.since <= req.since + Transit
  /\ clock <= srv.since + Transit

\* The offer was accepted at that time, which the requester may not know.
AcceptedAt(at, rest) ==
  /\ at <= clock
  /\ \/ /\ req.pc = "offered"
        /\ in # <<>> /\ Head(in) = Msg("TASK_ACCEPT", at) /\ Tail(in) = rest
        /\ at <= req.since + Transit /\ clock <= at + Transit
     \/ req.pc = "waiting" /\ in = rest /\ at <= req.since

Executing ==
  /\ srv.pc = "executing" /\ ~credited
  /\ AcceptedAt(srv.since, <<>>)
  /\ clock <= srv.since + Overhead + job.limit

ResultComes ==
  /\ srv.pc \in {"crediting", "closed"}
  /\ \E at, sent \in Times, m \in {"RESULT_OK", "RESULT_ERROR"} :
       /\ AcceptedAt(at, <<Msg(m, sent)>>)
       /\ srv.pc = "crediting" \/ credited => m = "RESULT_OK"
       /\ at <= sent /\ sent <= at + Overhead + job.limit
       /\ clock <= sent + Transit

Over ==
  /\ req.pc \in {"ok", "rejected", "reported"}
  /\ srv.pc \in {"crediting", "closed"}
  /\ srv.pc = "crediting" \/ credited => req.pc = "ok"

HasRaised ==
  exec.outcome = "raised" /\ srv.pc \in {"executing", "closed"} /\ ~credited

Stages ==
  \/ BeforeEscrow \/ Connecting \/ Connected \/ Greeting \/ Greeted \/ Offered
  \/ Refused \/ Executing \/ ResultComes \/ Over \/ HasRaised

RaisedAtEnd == exec.outcome = "raised" => exec.pc \in {"cleaning", "done", "killed"}

TimeInv == RaisedAtEnd /\ (calm /\ up => Stages)

LEMMA TimeFacts ==
  ASSUME TypeOK
  PROVE  /\ clock \in Nat /\ job.limit \in Nat /\ req.since \in Nat /\ srv.since \in Nat
         /\ ConnectWait \in Nat /\ OfferWait \in Nat /\ ServeWait \in Nat /\ Grace \in Nat
         /\ Transit \in Nat /\ Overhead \in Nat /\ 0 < Transit
         /\ Transit + Transit <= ConnectWait /\ Transit + Transit <= OfferWait
         /\ OfferWait < ServeWait /\ Overhead + Transit <= Grace
         /\ Times \subseteq Nat /\ clock \in Times
BY TypeFacts, ErrandAssumption, SMTT(30) DEF TypeOK, Times, Calls, Threads

\* Channels of one and two messages.
LEMMA ChannelFacts ==
  ASSUME NEW a, NEW b
  PROVE  /\ Append(<<>>, a) = <<a>>
         /\ <<a>> # <<>> /\ Head(<<a>>) = a /\ Tail(<<a>>) = <<>>
OBVIOUS

LEMMA AppendFacts ==
  ASSUME NEW ch \in Seq(Messages), ch # <<>>, NEW a \in Messages
  PROVE  /\ Append(ch, a) # <<>> /\ Head(Append(ch, a)) = Head(ch)
         /\ Tail(Append(ch, a)) = Append(Tail(ch), a)
OBVIOUS

(* No wait runs out, and no end goes before the other is done with it,     *)
(* unless the executor raises.                                             *)
LEMMA NobodyTimesOut ==
  ASSUME IInv, TimeInv, calm, up, ~HasRaised
  PROVE  /\ req.pc \in Active => ~TimedOut /\ ~Broken
         /\ ~ServeTimedOut
         /\ srv.pc \in {"accepted", "greeted", "executing"} => req.pc \notin Ended
<1> USE DEF Active, Waiting, Ended
<1>1. TypeOK /\ Stages /\ (req.pc = "waiting" => ~req.sending)
  BY DEF IInv, TimeInv, Clocks
<1>2. \A m \in Name, t \in Times : clock >= t + Transit => Arrived(<<Msg(m, t)>>)
  BY ChannelFacts DEF Arrived, Msg
<1>3. CASE BeforeEscrow \/ Over
  BY <1>3 DEF BeforeEscrow, Over, ServeTimedOut
<1>4. CASE Connecting \/ Connected
  <2>1. req.pc = "escrowed" => Wait(req.pc) = ConnectWait
    BY DEF Wait
  <2>2. ~TimedOut /\ ~Broken
    BY <1>1, <1>4, <2>1, TimeFacts, SMTT(30) DEF Connecting, Connected, TimedOut, Broken
  <2> QED
    BY <1>1, <1>4, <2>2, TimeFacts, SMTT(30) DEF Connecting, Connected, ServeTimedOut
<1>5. CASE Greeting \/ Offered
  <2>1. Wait("greeting") = ConnectWait /\ Wait("offered") = OfferWait
    BY DEF Wait
  <2>2. ~TimedOut /\ ~Broken
    BY <1>1, <1>5, <2>1, TimeFacts, SMTT(30) DEF Greeting, Offered, TimedOut, Broken
  <2> QED
    BY <1>1, <1>5, <2>2, TimeFacts, SMTT(30) DEF Greeting, Offered, ServeTimedOut
<1>6. CASE Greeted
  <2>1. clock >= srv.since + Transit => Arrived(in)
    BY <1>1, <1>2, <1>6 DEF Greeted, TypeOK, Threads, Name
  <2> QED
    BY <1>1, <1>6, <2>1, TimeFacts, SMTT(30) DEF Greeted, TimedOut, Wait, Broken, ServeTimedOut
<1>7. CASE Refused
  <2>1. clock >= srv.since + Transit => Arrived(in)
    BY <1>1, <1>2, <1>7 DEF Refused, TypeOK, Threads, Name
  <2> QED
    BY <1>1, <1>7, <2>1, TimeFacts, SMTT(30), ChannelFacts DEF Refused, TimedOut, Wait, Broken, ServeTimedOut
<1>8. \A at, rest : AcceptedAt(at, rest) /\ req.pc = "offered" /\ at \in Times => ~TimedOut
  <2> SUFFICES ASSUME NEW at \in Times, NEW rest, AcceptedAt(at, rest), req.pc = "offered"
               PROVE  ~TimedOut
    OBVIOUS
  <2>1. clock >= at + Transit => Arrived(in)
    BY DEF AcceptedAt, Arrived, Msg
  <2> QED
    BY <1>1, <2>1, TimeFacts, SMTT(30) DEF AcceptedAt, TimedOut, Wait
<1>9. CASE Executing
  <2>1. req.pc = "offered" => ~TimedOut
    BY <1>1, <1>8, <1>9 DEF Executing, TypeOK, Threads
  <2>2. ASSUME req.pc = "waiting" PROVE ~TimedOut
    <3>1. srv.since <= req.since /\ ~req.sending
      BY <1>1, <1>9, <2>2 DEF Executing, AcceptedAt
    <3>2. clock < req.since + (job.limit + Grace)
      <4>1. /\ clock \in Nat /\ job.limit \in Nat /\ req.since \in Nat /\ srv.since \in Nat
            /\ Grace \in Nat /\ Transit \in Nat /\ Overhead \in Nat
            /\ 0 < Transit /\ Overhead + Transit <= Grace
        BY <1>1, TimeFacts
      <4>2. clock <= srv.since + Overhead + job.limit
        BY <1>9 DEF Executing
      <4> QED
        BY <3>1, <4>1, <4>2
    <3>3. Wait(req.pc) = job.limit + Grace
      BY <2>2 DEF Wait
    <3> QED
      BY <3>1, <3>2, <3>3, <1>1, TimeFacts DEF TimedOut
  <2> QED
    BY <1>9, <2>1, <2>2 DEF Executing, AcceptedAt, Broken, ServeTimedOut
<1>10. CASE ResultComes
  <2>1. PICK at \in Times, sent \in Times, m \in {"RESULT_OK", "RESULT_ERROR"} :
          /\ AcceptedAt(at, <<Msg(m, sent)>>)
          /\ at <= sent /\ sent <= at + Overhead + job.limit /\ clock <= sent + Transit
    BY <1>10 DEF ResultComes
  <2>2. req.pc = "offered" => ~TimedOut
    BY <1>8, <2>1
  <2>3. req.pc = "waiting" => ~TimedOut
    <3> SUFFICES ASSUME req.pc = "waiting" PROVE ~TimedOut
      OBVIOUS
    <3>1. in = <<Msg(m, sent)>> /\ at <= req.since
      BY <2>1 DEF AcceptedAt
    <3>2. clock >= sent + Transit => Arrived(in)
      BY <1>2, <3>1 DEF Name
    <3> QED
      BY <1>1, <2>1, <3>1, <3>2, TimeFacts, SMTT(30) DEF TimedOut, Wait
  <2>4. req.pc \in {"offered", "waiting"} /\ in # <<>>
    BY <2>1, ChannelFacts DEF AcceptedAt
  <2> QED
    BY <1>10, <2>2, <2>3, <2>4 DEF ResultComes, Broken, ServeTimedOut
<1> QED
  BY <1>1, <1>3, <1>4, <1>5, <1>6, <1>7, <1>9, <1>10 DEF Stages


\* Which stage it is can be told from where the threads are.
LEMMA StageOf ==
  ASSUME IInv, TimeInv, calm, up, ~HasRaised
  PROVE  /\ req.pc \in {"idle", "chosen"} => BeforeEscrow
         /\ req.pc = "escrowed" => Connecting
         /\ req.pc = "connected" => Connected
         /\ req.pc = "greeting" => Greeting \/ Greeted
         /\ req.pc = "offered" => Offered \/ Refused \/ Executing \/ ResultComes
         /\ req.pc = "waiting" => Executing \/ ResultComes
         /\ req.pc \in {"failed", "raised"} => FALSE
         /\ srv.pc \in {"queued", "accepted"} => Connected \/ Greeting
         /\ srv.pc = "greeted" => Greeted \/ Offered
         /\ srv.pc = "executing" => Executing
         /\ srv.pc = "crediting" => ResultComes \/ Over
BY DEF TimeInv, Stages, BeforeEscrow, Connecting, Connected, Greeting, Greeted, Offered,
       Refused, AcceptedAt, Executing, ResultComes, Over

LEMMA SameStage ==
  ASSUME TimeInv, UNCHANGED <<clock, job, exec, req, srv, out, in, credited, up, calm>>
  PROVE  TimeInv'
BY DEF TimeInv, RaisedAtEnd, Stages, BeforeEscrow, Connecting, Connected, Greeting, Greeted,
       Offered, Refused, AcceptedAt, Executing, ResultComes, Over, HasRaised

(* A step of the command or of delegate: what is left to show of it.       *)
LEMMA CallTimeStep ==
  ASSUME TimeInv, UNCHANGED <<exec, srv, credited, up, calm>>,
         calm /\ up /\ ~HasRaised => Stages'
  PROVE  TimeInv'
BY DEF TimeInv, RaisedAtEnd, Stages, HasRaised

LEMMA CommandTime ==
  ASSUME IInv, TimeInv, Command
  PROVE  TimeInv'
<1>1. CASE Ask
  <2>1. req.pc = "idle" /\ UNCHANGED <<exec, req, srv, out, in, credited, up, calm>>
    BY <1>1 DEF Ask, IInv, Clocks
  <2>2. calm /\ up /\ ~HasRaised => BeforeEscrow'
    BY <2>1, StageOf DEF BeforeEscrow
  <2> QED
    BY <2>1, <2>2, CallTimeStep DEF Stages
<1>2. CASE GiveUp \/ Report
  BY <1>2, SameStage DEF GiveUp, Report, executor
<1> QED
  BY <1>1, <1>2 DEF Command

LEMMA CallTime ==
  ASSUME IInv, TimeInv, Call
  PROVE  TimeInv'
<1>1. PICK pc \in {"invalid", "chosen", "nobody"} : ReqGoes(pc)
  BY DEF Call
<1>2. req'.pc = pc /\ UNCHANGED <<exec, srv, out, in, credited, up, calm>>
  BY <1>1 DEF ReqGoes, Call, executor
<1>3. calm /\ up /\ ~HasRaised => BeforeEscrow'
  BY <1>2, StageOf DEF Call, BeforeEscrow
<1> QED
  BY <1>2, <1>3, CallTimeStep DEF Stages

LEMMA EscrowTime ==
  ASSUME IInv, TimeInv, Escrow
  PROVE  TimeInv'
<1>1. /\ req'.pc = "escrowed" /\ req'.since = clock
      /\ UNCHANGED <<clock, exec, srv, out, in, credited, up, calm>>
  BY DEF Escrow, ReqGoes, Waiting, executor
<1>2. calm /\ up /\ ~HasRaised => Connecting'
  BY <1>1, StageOf, TimeFacts, SMTT(30) DEF Escrow, BeforeEscrow, Connecting, IInv
<1> QED
  BY <1>1, <1>2, CallTimeStep DEF Stages

LEMMA ConnectTime ==
  ASSUME IInv, TimeInv, Connect
  PROVE  TimeInv'
<1>1. /\ req'.pc = "connected" /\ srv'.pc = "queued" /\ (calm => srv'.since = clock)
      /\ UNCHANGED <<clock, exec, out, in, credited, up, calm>>
  BY DEF Connect, ReqGoes, SrvGoes, Stamp, executor
<1>2. ~HasRaised
  BY DEF Connect, HasRaised, IInv, Phases
<1>3. calm /\ up => Connected'
  BY <1>1, <1>2, StageOf DEF Connect, Connecting, Connected
<1> QED
  BY <1>1, <1>3 DEF TimeInv, RaisedAtEnd, Stages

\* The worker is up: its end has not been reset.
LEMMA NameLostTime ==
  ASSUME IInv, TimeInv, NameLost
  PROVE  TimeInv'
<1>1. UNCHANGED <<exec, srv, credited, up, calm>>
  BY DEF NameLost, executor
<1>2. calm /\ up /\ ~HasRaised => FALSE
  BY StageOf DEF NameLost, Connected
<1> QED
  BY <1>1, <1>2, CallTimeStep

LEMMA GreetTime ==
  ASSUME IInv, TimeInv, Greet
  PROVE  TimeInv'
<1>1. /\ req'.pc = "greeting" /\ req'.since = clock
      /\ UNCHANGED <<clock, exec, srv, in, credited, up, calm>>
  BY DEF Greet, ReqGoes, Waiting, executor
<1>2. ASSUME calm, up, ~HasRaised PROVE Greeting'
  <2>1. Connected
    BY <1>2, StageOf DEF Greet
  <2>2. out' = <<Msg("HANDSHAKE", clock)>>
    BY <1>2, <2>1, ChannelFacts DEF Greet, Sent, Stamp, Connected, Msg
  <2> QED
    BY <1>1, <2>1, <2>2, TimeFacts, SMTT(30) DEF Connected, Greeting, IInv
<1> QED
  BY <1>1, <1>2, CallTimeStep DEF Stages

(* In a calm run a send returns at once, and messages arrive whole.        *)
LEMMA ReadTime ==
  ASSUME IInv, TimeInv, SendReturns \/ Piece
  PROVE  TimeInv'
<1>1. /\ req'.pc = req.pc /\ (calm => req'.since = req.since)
      /\ UNCHANGED <<clock, job, exec, srv, out, in, credited, up, calm>>
  BY DEF IInv, TypeOK, Calls, Clocks, SendReturns, Piece, executor
<1>2. calm /\ Stages => Stages'
  BY <1>1 DEF Stages, BeforeEscrow, Connecting, Connected, Greeting, Greeted,
       Offered, Refused, AcceptedAt, Executing, ResultComes, Over, HasRaised
<1> QED
  BY <1>1, <1>2 DEF TimeInv, RaisedAtEnd

LEMMA OfferTime ==
  ASSUME IInv, TimeInv, Offer
  PROVE  TimeInv'
<1>1. /\ req'.pc = "offered" /\ req'.since = clock
      /\ UNCHANGED <<clock, exec, srv, credited, up, calm>>
  BY DEF Offer, ReqGoes, Waiting, executor
<1>2. ASSUME calm, up, ~HasRaised PROVE Offered'
  <2>1. Greeted
    BY <1>2, StageOf DEF Offer, Next1, Greeting
  <2>2. out' = <<Msg("TASK_OFFER", clock)>> /\ in' = <<>>
    BY <1>2, <2>1, ChannelFacts DEF Offer, Sent, Stamp, Greeted, Msg
  <2> QED
    BY <1>1, <2>1, <2>2, TimeFacts, SMTT(30) DEF Greeted, Offered, IInv
<1> QED
  BY <1>1, <1>2, CallTimeStep DEF Stages

\* The requester waits from when it knows of the acceptance, which is later.
LEMMA AcceptedTime ==
  ASSUME IInv, TimeInv, Accepted
  PROVE  TimeInv'
<1>1. /\ req.pc = "offered" /\ req'.pc = "waiting" /\ req'.since = clock
      /\ in # <<>> /\ Head(in).m = "TASK_ACCEPT" /\ in' = Tail(in)
      /\ UNCHANGED <<clock, job, exec, srv, out, credited, up, calm>>
  BY DEF Accepted, Next1, ReqGoes, Waiting, executor
<1>2. ASSUME NEW at, NEW rest, AcceptedAt(at, rest) PROVE AcceptedAt(at, rest)'
  BY <1>1, <1>2 DEF AcceptedAt
<1>3. ASSUME calm, up, ~HasRaised PROVE Stages'
  <2>1. Executing \/ ResultComes
    BY <1>1, <1>3, StageOf, ChannelFacts DEF Offered, Refused, Msg
  <2>2. CASE Executing
    BY <1>1, <1>2, <2>2 DEF Executing, Stages
  <2>3. CASE ResultComes
    <3>1. PICK at \in Times, sent \in Times, m \in {"RESULT_OK", "RESULT_ERROR"} :
            /\ AcceptedAt(at, <<Msg(m, sent)>>)
            /\ srv.pc = "crediting" \/ credited => m = "RESULT_OK"
            /\ at <= sent /\ sent <= at + Overhead + job.limit /\ clock <= sent + Transit
      BY <2>3 DEF ResultComes
    <3>2. AcceptedAt(at, <<Msg(m, sent)>>)'
      BY <1>2, <3>1
    <3>3. ResultComes'
      BY <1>1, <2>3, <3>1, <3>2 DEF ResultComes
    <3> QED
      BY <3>3 DEF Stages
  <2> QED
    BY <2>1, <2>2, <2>3
<1> QED
  BY <1>1, <1>3, CallTimeStep

LEMMA AnsweredTime ==
  ASSUME IInv, TimeInv, Rejected \/ Reported \/ Settle
  PROVE  TimeInv'
<1>1. UNCHANGED <<exec, srv, credited, up, calm>>
  BY DEF Rejected, Reported, Settle, Answered, executor
<1>2. ASSUME calm, up, ~HasRaised PROVE Over'
  <2>1. CASE Rejected
    <3>1. req.pc = "offered" /\ req'.pc = "rejected" /\ Head(in).m = "TASK_REJECT" /\ in # <<>>
      BY <2>1 DEF Rejected, Answered, Next1, ReqGoes
    <3>2. Refused
      BY <1>2, <3>1, StageOf DEF Offered, Executing, ResultComes, AcceptedAt, Msg
    <3> QED
      BY <1>1, <3>1, <3>2 DEF Refused, Over
  <2>2. CASE Reported \/ Settle
    <3>1. /\ req.pc = "waiting" /\ in # <<>>
          /\ \/ req'.pc = "reported" /\ Head(in).m = "RESULT_ERROR"
             \/ req'.pc = "ok"
      BY <2>2 DEF Reported, Settle, Answered, Next1, ReqGoes
    <3>2. ResultComes
      BY <1>2, <3>1, StageOf DEF Executing, AcceptedAt
    <3>3. PICK m \in {"RESULT_OK", "RESULT_ERROR"}, sent \in Times :
            in = <<Msg(m, sent)>> /\ (srv.pc = "crediting" \/ credited => m = "RESULT_OK")
      BY <3>1, <3>2 DEF ResultComes, AcceptedAt
    <3>4. Head(in).m = m
      BY <3>3, ChannelFacts DEF Msg
    <3> QED
      BY <1>1, <3>1, <3>2, <3>3, <3>4 DEF ResultComes, Over
  <2> QED
    BY <2>1, <2>2
<1> QED
  BY <1>1, <1>2, CallTimeStep DEF Stages

LEMMA FailTime ==
  ASSUME IInv, TimeInv, Fail
  PROVE  TimeInv'
<1>1. UNCHANGED <<exec, srv, credited, up, calm>>
  BY DEF Fail, executor
<1>2. calm /\ up /\ ~HasRaised => FALSE
  BY NobodyTimesOut DEF Fail
<1> QED
  BY <1>1, <1>2, CallTimeStep


(* A step of the worker's thread: what is left to show of it.              *)
LEMMA ServeTimeStep ==
  ASSUME TimeInv, RaisedAtEnd', UNCHANGED <<up, calm>>, calm /\ up => Stages'
  PROVE  TimeInv'
BY DEF TimeInv

LEMMA AcceptTime ==
  ASSUME IInv, TimeInv, Accept
  PROVE  TimeInv'
<1>1. /\ srv.pc = "queued" /\ srv'.pc = "accepted" /\ (calm => srv'.since = clock)
      /\ UNCHANGED <<clock, exec, req, out, in, credited, up, calm>>
  BY DEF Accept, SrvGoes, Stamp, executor
<1>2. ~HasRaised
  BY <1>1 DEF HasRaised
<1>3. ASSUME calm, up PROVE Stages'
  <2>1. CASE Connected
    BY <1>1, <1>3, <2>1 DEF Connected, Stages
  <2>2. CASE Greeting
    <3>1. Greeting'
      BY <1>1, <1>3, <2>2, TimeFacts, SMTT(30) DEF Greeting, IInv
    <3> QED
      BY <3>1 DEF Stages
  <2> QED
    BY <1>1, <1>2, <1>3, <2>1, <2>2, StageOf
<1> QED
  BY <1>1, <1>3, ServeTimeStep DEF TimeInv, RaisedAtEnd

LEMMA HandshakeInboundTime ==
  ASSUME IInv, TimeInv, HandshakeInbound
  PROVE  TimeInv'
<1>1. /\ srv.pc = "accepted" /\ srv'.pc = "greeted" /\ (calm => srv'.since = clock)
      /\ out # <<>> /\ out' = Tail(out) /\ in' = Sent(in, "HANDSHAKE")
      /\ UNCHANGED <<clock, exec, req, credited, up, calm>>
  BY DEF HandshakeInbound, Next1, SrvGoes, Stamp, executor
<1>2. ~HasRaised
  BY <1>1 DEF HasRaised
<1>3. ASSUME calm, up PROVE Greeted'
  <2>1. Greeting
    BY <1>1, <1>2, <1>3, StageOf DEF Connected
  <2>2. out' = <<>> /\ in' = <<Msg("HANDSHAKE", clock)>>
    BY <1>1, <1>3, <2>1, ChannelFacts DEF Sent, Stamp, Greeting, Msg
  <2> QED
    BY <1>1, <1>3, <2>1, <2>2, TimeFacts, SMTT(30) DEF Greeting, Greeted, IInv
<1> QED
  BY <1>1, <1>3, ServeTimeStep DEF TimeInv, RaisedAtEnd, Stages

LEMMA HandleTaskOfferTime ==
  ASSUME IInv, TimeInv, HandleTaskOffer
  PROVE  TimeInv'
<1>1. /\ srv.pc = "greeted" /\ out # <<>> /\ out' = Tail(out)
      /\ UNCHANGED <<clock, job, req, credited, up, calm>>
  BY DEF HandleTaskOffer, Next1
<1>2. \/ /\ srv'.pc = "closed" /\ in' = Sent(in, "TASK_REJECT") /\ exec' = exec
         /\ calm => srv'.since = clock
      \/ /\ srv'.pc = "executing" /\ in' = Sent(in, "TASK_ACCEPT")
         /\ exec'.outcome = "none" /\ (calm => srv'.since = clock)
  BY DEF HandleTaskOffer, SrvGoes, Stamp, Begin, Idle
<1>3. ~HasRaised
  BY <1>1 DEF HasRaised
<1>4. ASSUME calm, up PROVE Stages'
  <2>1. Offered
    BY <1>1, <1>3, <1>4, StageOf, ChannelFacts DEF HandleTaskOffer, Next1, Greeted, Msg
  <2>2. \A m : Sent(in, m) = <<Msg(m, clock)>>
    BY <1>4, <2>1, ChannelFacts DEF Sent, Stamp, Offered, Msg
  <2>3. CASE srv'.pc = "closed"
    <3>1. in' = <<Msg("TASK_REJECT", clock)>>
      BY <1>2, <2>2, <2>3
    <3>2. Refused'
      BY <1>1, <1>2, <1>4, <2>1, <2>3, <3>1, TimeFacts, SMTT(30) DEF Offered, Refused, IInv
    <3> QED
      BY <3>2 DEF Stages
  <2>4. CASE srv'.pc = "executing"
    <3>1. in' = <<Msg("TASK_ACCEPT", clock)>>
      BY <1>2, <2>2, <2>4
    <3>2. in' # <<>> /\ Head(in') = Msg("TASK_ACCEPT", clock) /\ Tail(in') = <<>>
      BY <3>1, ChannelFacts
    <3>3. srv'.since = clock /\ srv'.pc = "executing"
      BY <1>2, <1>4, <2>4
    <3>4. AcceptedAt(srv.since, <<>>)'
      BY <1>1, <2>1, <3>2, <3>3, TimeFacts, SMTT(30) DEF Offered, AcceptedAt, IInv
    <3>5. Executing'
      BY <1>1, <2>1, <3>3, <3>4, TimeFacts, SMTT(30) DEF Offered, Executing, IInv
    <3> QED
      BY <3>5 DEF Stages
  <2> QED
    BY <1>2, <2>3, <2>4
<1>5. RaisedAtEnd'
  BY <1>2 DEF TimeInv, RaisedAtEnd
<1> QED
  BY <1>1, <1>4, <1>5, ServeTimeStep

LEMMA SendResultTime ==
  ASSUME IInv, TimeInv, SendResult
  PROVE  TimeInv'
<1>1. PICK m \in {"RESULT_OK", "RESULT_ERROR"} :
        /\ srv.pc = "executing" /\ exec.outcome # "raised" /\ in' = Sent(in, m)
        /\ srv'.pc \in {"crediting", "closed"}
        /\ srv'.pc = "crediting" => m = "RESULT_OK"
        /\ UNCHANGED <<clock, job, exec, req, credited, up, calm>>
  BY DEF SendResult, SrvGoes, executor
<1>2. ~HasRaised
  BY <1>1 DEF HasRaised
<1>3. ASSUME calm, up PROVE ResultComes'
  <2>1. Executing
    BY <1>1, <1>2, <1>3, StageOf
  <2>2. in' = Append(in, Msg(m, clock)) /\ Msg(m, clock) \in Messages /\ in \in Seq(Messages)
    BY <1>1, <1>3, TimeFacts, SMTT(30) DEF Sent, Stamp, Msg, Messages, IInv, TypeOK
  <2>3. PICK at \in Times, sent \in Times : at = srv.since /\ sent = clock
    BY DEF IInv, TypeOK, Threads
  <2>4. AcceptedAt(at, <<>>)
    BY <2>1, <2>3 DEF Executing
  <2>5. AcceptedAt(at, <<Msg(m, sent)>>)'
    <3>1. CASE req.pc = "offered"
      <4>1. /\ in' # <<>> /\ Head(in') = Head(in)
            /\ Tail(in') = Append(Tail(in), Msg(m, sent))
        BY <2>2, <2>3, <2>4, <3>1, AppendFacts DEF AcceptedAt
      <4> QED
        BY <1>1, <2>4, <3>1, <4>1, ChannelFacts DEF AcceptedAt
    <3>2. CASE req.pc = "waiting"
      BY <1>1, <2>2, <2>3, <2>4, <3>2, ChannelFacts DEF AcceptedAt
    <3> QED
      BY <2>4, <3>1, <3>2 DEF AcceptedAt
  <2>6. at <= sent /\ sent <= at + Overhead + job'.limit /\ clock' <= sent + Transit
    BY <1>1, <2>1, <2>3, <2>4, TimeFacts, SMTT(30) DEF Executing, AcceptedAt, IInv
  <2>7. srv'.pc = "crediting" \/ credited' => m = "RESULT_OK"
    BY <1>1, <2>1 DEF Executing
  <2> QED
    BY <1>1, <2>5, <2>6, <2>7 DEF ResultComes
<1> QED
  BY <1>1, <1>3, ServeTimeStep DEF TimeInv, RaisedAtEnd, Stages

LEMMA CreditForWorkTime ==
  ASSUME IInv, TimeInv, CreditForWork
  PROVE  TimeInv'
<1>1. /\ srv.pc = "crediting" /\ srv'.pc = "closed"
      /\ UNCHANGED <<clock, job, exec, req, out, in, up, calm>>
  BY DEF CreditForWork, SrvGoes, executor
<1>2. ~HasRaised
  BY <1>1 DEF HasRaised
<1>3. ASSUME calm, up PROVE Stages'
  <2>1. CASE ResultComes
    <3>1. PICK at \in Times, sent \in Times, m \in {"RESULT_OK", "RESULT_ERROR"} :
            /\ AcceptedAt(at, <<Msg(m, sent)>>) /\ m = "RESULT_OK"
            /\ at <= sent /\ sent <= at + Overhead + job.limit /\ clock <= sent + Transit
      BY <1>1, <2>1 DEF ResultComes
    <3>2. AcceptedAt(at, <<Msg(m, sent)>>)'
      BY <1>1, <3>1 DEF AcceptedAt
    <3>3. ResultComes'
      BY <1>1, <3>1, <3>2 DEF ResultComes
    <3> QED
      BY <3>3 DEF Stages
  <2>2. CASE Over
    BY <1>1, <2>2 DEF Over, Stages
  <2> QED
    BY <1>1, <1>2, <1>3, <2>1, <2>2, StageOf
<1> QED
  BY <1>1, <1>3, ServeTimeStep DEF TimeInv, RaisedAtEnd

\* In time, the worker's thread ends early only if the executor raises.
LEMMA ServeFailsTime ==
  ASSUME IInv, TimeInv, ServeFails
  PROVE  TimeInv'
<1>1. srv'.pc = "closed" /\ UNCHANGED <<exec, credited, up, calm>>
  BY DEF ServeFails, SrvGoes, executor
<1>2. ASSUME calm, up PROVE HasRaised'
  <2>1. CASE HasRaised
    BY <1>1, <2>1 DEF HasRaised
  <2>2. CASE ~HasRaised
    <3>1. exec.outcome = "raised"
      BY <1>2, <2>2, NobodyTimesOut DEF ServeFails
    <3>2. srv.pc = "executing"
      BY <3>1 DEF ServeFails, TimeInv, RaisedAtEnd, IInv, Phases
    <3>3. ~credited
      BY <1>2, <2>2, <3>2, StageOf DEF Executing
    <3> QED
      BY <1>1, <3>1, <3>3 DEF HasRaised
  <2> QED
    BY <2>1, <2>2
<1> QED
  BY <1>1, <1>2, ServeTimeStep DEF TimeInv, RaisedAtEnd, Stages

LEMMA ExecuteTime ==
  ASSUME IInv, TimeInv, Execute
  PROVE  TimeInv'
<1>1. UNCHANGED <<clock, job, req, srv, out, in, credited, up, calm>>
  BY DEF Execute, errand, ExecuteJob, Machine, Choose, WakeUp, Resolve, Launch, Collect,
         Timeout, Cleanup, ChildEnds, StraysEnd, Reinstall
<1>2. RaisedAtEnd' /\ (exec.outcome = "raised" => exec'.outcome = "raised")
  <2>1. exec \in Execution /\ RaisedAtEnd
    BY DEF IInv, TypeOK, TimeInv
  <2>2. CASE Choose \/ WakeUp \/ Resolve \/ Launch
    BY <2>1, <2>2 DEF Execution, RaisedAtEnd, Choose, WakeUp, Resolve, Launch, Ends, ExecGoes
  <2>3. CASE Collect \/ Timeout \/ Cleanup
    BY <2>1, <2>3 DEF Execution, RaisedAtEnd, Collect, Timeout, Cleanup, Ends, ExecGoes
  <2>4. CASE Machine
    BY <2>1, <2>4 DEF RaisedAtEnd, Machine, ChildEnds, StraysEnd, Reinstall
  <2> QED
    BY <2>2, <2>3, <2>4 DEF Execute, ExecuteJob
<1>3. Stages => Stages'
  BY <1>1, <1>2 DEF Stages, BeforeEscrow, Connecting, Connected, Greeting, Greeted, Offered,
     Refused, AcceptedAt, Executing, ResultComes, Over, HasRaised
<1> QED
  BY <1>1, <1>2, <1>3 DEF TimeInv

(* The clock goes on in a stage only if the stage is not due to end.       *)
LEMMA TickTime ==
  ASSUME IInv, TimeInv, Tick
  PROVE  TimeInv'
<1>1. /\ clock' = clock + 1 /\ UNCHANGED <<job, exec, req, srv, out, in, credited, up, calm>>
      /\ ~DueAlways /\ (calm => ~DueIfCalm)
  BY DEF Tick, errand
<1>2. ASSUME calm, up PROVE Stages'
  <2>1. TypeOK /\ ~DueIfCalm /\ clock' \in Nat
    BY <1>1, <1>2, TimeFacts, SMTT(30) DEF IInv
  <2>2. \A m \in Name, t \in Times :
          req.pc \in Waiting /\ in # <<>> /\ Head(in) = Msg(m, t) => clock + 1 <= t + Transit
    BY <1>2, <2>1, TimeFacts, SMTT(30) DEF DueIfCalm, Arrived, Msg
  <2>3. \A m \in Name, t \in Times :
          srv.pc \in {"accepted", "greeted"} /\ out # <<>> /\ Head(out) = Msg(m, t)
            => clock + 1 <= t + Transit
    BY <1>2, <2>1, TimeFacts, SMTT(30) DEF DueIfCalm, Arrived, Msg
  <2>4. CASE BeforeEscrow \/ Over \/ HasRaised
    BY <1>1, <2>4 DEF BeforeEscrow, Over, HasRaised, Stages
  <2>5. CASE Connecting \/ Connected
    <3>1. Connecting'
      BY <1>1, <2>1, <2>5, TimeFacts, SMTT(30) DEF Connecting, Connected, DueAlways, DueIfCalm
    <3> QED
      BY <3>1 DEF Stages
  <2>6. CASE Greeting
    <3>1. srv.pc = "queued" => clock + 1 <= req.since + Transit
      BY <2>1, <2>6, TimeFacts, SMTT(30) DEF Greeting, DueIfCalm
    <3>2. srv.pc = "accepted" => clock + 1 <= req.since + Transit
      BY <2>1, <2>3, <2>6, ChannelFacts DEF Greeting, TypeOK, Calls, Name
    <3>3. Greeting'
      BY <1>1, <2>1, <2>6, <3>1, <3>2, TimeFacts, SMTT(30) DEF Greeting
    <3> QED
      BY <3>3 DEF Stages
  <2>7. CASE Greeted
    <3>1. clock + 1 <= srv.since + Transit
      BY <2>1, <2>2, <2>7, ChannelFacts DEF Greeted, TypeOK, Threads, Name, Waiting
    <3>2. Greeted'
      BY <1>1, <2>7, <3>1 DEF Greeted
    <3> QED
      BY <3>2 DEF Stages
  <2>8. CASE Offered
    <3>1. clock + 1 <= req.since + Transit
      BY <2>1, <2>3, <2>8, ChannelFacts DEF Offered, TypeOK, Calls, Name
    <3>2. Offered'
      BY <1>1, <2>8, <3>1 DEF Offered
    <3> QED
      BY <3>2 DEF Stages
  <2>9. CASE Refused
    <3>1. clock + 1 <= srv.since + Transit
      BY <2>1, <2>2, <2>9, ChannelFacts DEF Refused, TypeOK, Threads, Name, Waiting
    <3>2. Refused'
      BY <1>1, <2>9, <3>1 DEF Refused
    <3> QED
      BY <3>2 DEF Stages
  <2>10. ASSUME NEW at \in Times, NEW rest, AcceptedAt(at, rest)
         PROVE  AcceptedAt(at, rest)'
    <3>1. req.pc = "offered" => clock + 1 <= at + Transit
      BY <2>2, <2>10 DEF AcceptedAt, Name, Waiting
    <3>2. at <= clock + 1
      BY <2>1, <2>10, TimeFacts, SMTT(30) DEF AcceptedAt
    <3> QED
      BY <1>1, <2>10, <3>1, <3>2 DEF AcceptedAt
  <2>11. CASE Executing
    <3>1. ASSUME NEW at \in Times, at = srv.since PROVE AcceptedAt(at, <<>>)'
      BY <2>10, <2>11, <3>1 DEF Executing
    <3>2. clock + 1 <= srv.since + Overhead + job.limit
      BY <2>1, <2>11, TimeFacts, SMTT(30) DEF Executing, DueIfCalm
    <3>3. AcceptedAt(srv.since, <<>>)' /\ srv.since \in Times
      BY <1>1, <2>1, <3>1 DEF TypeOK, Threads, AcceptedAt
    <3>4. Executing'
      BY <1>1, <2>11, <3>2, <3>3 DEF Executing
    <3> QED
      BY <3>4 DEF Stages
  <2>12. CASE ResultComes
    <3>1. PICK at \in Times, sent \in Times, m \in {"RESULT_OK", "RESULT_ERROR"} :
            /\ AcceptedAt(at, <<Msg(m, sent)>>)
            /\ srv.pc = "crediting" \/ credited => m = "RESULT_OK"
            /\ at <= sent /\ sent <= at + Overhead + job.limit /\ clock <= sent + Transit
      BY <2>12 DEF ResultComes
    <3>2. AcceptedAt(at, <<Msg(m, sent)>>)'
      BY <2>10, <3>1
    <3>3. clock + 1 <= sent + Transit
      <4>1. CASE req.pc = "waiting"
        BY <2>2, <3>1, <4>1, ChannelFacts DEF AcceptedAt, Name, Waiting
      <4>2. CASE req.pc = "offered"
        BY <1>1, <2>1, <3>1, <3>2, <4>2, TimeFacts, SMTT(30) DEF AcceptedAt
      <4> QED
        BY <3>1, <4>1, <4>2 DEF AcceptedAt
    <3>4. ResultComes'
      BY <1>1, <2>12, <3>1, <3>2, <3>3 DEF ResultComes
    <3> QED
      BY <3>4 DEF Stages
  <2> QED
    BY <1>2, <2>4, <2>5, <2>6, <2>7, <2>8, <2>9, <2>11, <2>12 DEF TimeInv, Stages
<1> QED
  BY <1>1, <1>2 DEF TimeInv, RaisedAtEnd


LEMMA KillTime ==
  ASSUME IInv, TimeInv, Kill
  PROVE  TimeInv'
<1>1. up' = FALSE
  BY DEF Kill
<1>2. RaisedAtEnd'
  BY DEF Kill, IInv, TypeOK, Execution, ExecPc, TimeInv, RaisedAtEnd
<1> QED
  BY <1>1, <1>2 DEF TimeInv

LEMMA NextTime ==
  ASSUME IInv, TimeInv, [Next \/ (Finished /\ UNCHANGED vars)]_vars
  PROVE  TimeInv'
<1>1. ASSUME Delegate PROVE TimeInv'
  BY <1>1, CallTime, EscrowTime, ConnectTime, NameLostTime, GreetTime,
     ReadTime, OfferTime, AcceptedTime, AnsweredTime, FailTime DEF Delegate
<1>2. ASSUME Serve PROVE TimeInv'
  BY <1>2, AcceptTime, HandshakeInboundTime, HandleTaskOfferTime, SendResultTime,
     CreditForWorkTime, ServeFailsTime DEF Serve
<1>3. ASSUME UNCHANGED vars PROVE TimeInv'
  BY <1>3, SameStage DEF vars, executor, errand
<1> QED
  BY <1>1, <1>2, <1>3, CommandTime, ExecuteTime, KillTime, TickTime DEF Next

LEMMA InitTime == Init => TimeInv
BY DEF Init, ExecInit, Idle, TimeInv, RaisedAtEnd, Stages, BeforeEscrow

(* If messages and connections take at most Transit, the timeouts are as   *)
(* long as ErrandAssumption says and the worker stays up, no delegation    *)
(* fails but by an exception of the executor, and no worker is credited    *)
(* for a result that nobody waits for, whatever harness it has, whatever   *)
(* the job and for all values of the timeouts (peer.py:34-35, 281, 294,    *)
(* executor.py:170).                                                       *)
THEOREM TimeoutsFitTogether == Spec => []InTime
<1>1. TimeInv /\ IInv /\ [Next \/ (Finished /\ UNCHANGED vars)]_vars => TimeInv'
  BY NextTime
<1>2. IInv /\ TimeInv => InTime
  <2> SUFFICES ASSUME IInv, TimeInv, calm, up, exec.outcome # "raised"
               PROVE  /\ req.pc # "failed"
                      /\ credited \/ srv.pc = "crediting" => req.pc \in {"offered", "waiting", "ok"}
    BY DEF InTime, TimeInv, Stages, BeforeEscrow, Connecting, Connected, Greeting, Greeted,
           Offered, Refused, AcceptedAt, Executing, ResultComes, Over, HasRaised
  <2>1. ~HasRaised /\ Stages
    BY DEF HasRaised, TimeInv
  <2> QED
    BY <2>1 DEF Stages, BeforeEscrow, Connecting, Connected, Greeting, Greeted, Offered,
       Refused, AcceptedAt, Executing, ResultComes, Over
<1> QED
  BY <1>1, <1>2, InitTime, ErrandInvariant, PTL DEF Spec


=============================================================================
