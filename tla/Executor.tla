------------------------------ MODULE Executor ------------------------------
(***************************************************************************)
(* Executing one accepted job on a worker: execute_job of                  *)
(* agenttorrent/executor.py, which chooses a harness, runs it in a fresh   *)
(* directory and enforces the running time; manifest.py, which says what   *)
(* the worker advertises; and the exit code of api_harness.py.             *)
(*                                                                         *)
(* The harness is a child process.  It may exit with any code at any time, *)
(* leave descendants that hold its output open, or never exit.  CLIs may   *)
(* be installed and removed while the worker runs.  Prompts, outputs and   *)
(* the environment of the child are left out, except for the one variable  *)
(* without which the api harness does not work.                            *)
(*                                                                         *)
(* Module Errand has the connection that the job comes from.               *)
(***************************************************************************)
EXTENDS Naturals, Sequences

CONSTANTS
  Cli,       \* the harness CLIs, in the order in which they are tried
  Limits,    \* running times that are asked for, in units of time
  Confs      \* configurations of the worker

ASSUME ExecutorAssumption ==
  /\ Cli \in Seq(STRING)
  /\ \A i \in DOMAIN Cli : Cli[i] \notin {"api", "any", "none", "simulated"}
  /\ Limits \subseteq Nat

VARIABLES
  clock,     \* time since the job was asked for
  job,       \* its required_harness and max_runtime_seconds
  conf,      \* the worker's configuration and what it has detected
  present,   \* the CLIs that can be resolved now
  exec,      \* the call of execute_job
  dir,       \* its sandbox directory, which may be left behind
  child,     \* the child process, and how it exited
  strays     \* a descendant of the child holds its output open

Clis == {Cli[i] : i \in DOMAIN Cli}
Harness == Clis \cup {"api"}

\* What "any" tries, in this order.
Candidate == Append(Cli, "api")

\* "set": AGENTTORRENT_API_BASE_URL is set for the peer; "passed": it is
\* also in the env_passthrough of its configuration.
Conf == [accepts : BOOLEAN, simulate : BOOLEAN, clis : SUBSET Clis,
         api : {"unset", "set", "passed"}]

ASSUME ConfAssumption == Confs \subseteq Conf

\* detect_harnesses, once, at the start of the peer.
Advertised(c) == c.clis \cup (IF c.api = "unset" THEN {} ELSE {"api"})

Idle == [pc |-> "none", harness |-> "none", since |-> 0, outcome |-> "none"]

ExecInit ==
  /\ conf \in Confs
  /\ present = conf.clis
  /\ exec = Idle
  /\ dir = "none"
  /\ child = "none"
  /\ strays = FALSE

\* The thread is in execute_job, at these points; "cleaning" is the finally.
ExecPc == {"choosing", "sleeping", "resolving", "launching", "running", "cleaning"}

ExecGoes(pc) == exec' = [exec EXCEPT !.pc = pc]
Ends(pc, outcome) ==
  exec' = [exec EXCEPT !.pc = pc, !.outcome = outcome, !.since = 0]

Usable(h) == h \in Advertised(conf) /\ (h = "api" \/ h \in present)

-----------------------------------------------------------------------------
\* The call, with a job that has passed validate_job already.
Begin == exec' = [Idle EXCEPT !.pc = "choosing"]

\* The first usable candidate, or the required harness, is chosen.
IsChosen(h) ==
  /\ ~conf.simulate
  /\ Usable(h)
  /\ \/ job.required = h
     \/ /\ job.required = "any"
        /\ \E i \in DOMAIN Candidate :
             Candidate[i] = h /\ \A k \in 1..(i - 1) : ~Usable(Candidate[k])

\* Mutation: another usable harness stands in for the required one.
ChooseUsable ==
  /\ exec.pc = "choosing"
  /\ \/ \E h \in Harness : Usable(h) /\ ~conf.simulate
                           /\ exec' = [exec EXCEPT !.pc = "resolving", !.harness = h]
     \/ /\ ~\E h \in Harness : Usable(h) /\ ~conf.simulate
        /\ exec' = [exec EXCEPT !.pc = "sleeping", !.harness = "simulated",
                                !.since = clock]
  /\ UNCHANGED <<clock, job, conf, present, dir, child, strays>>

\* With no usable harness the execution is simulated.
Choose ==
  /\ exec.pc = "choosing"
  /\ \/ \E h \in Harness :
          IsChosen(h) /\ exec' = [exec EXCEPT !.pc = "resolving", !.harness = h]
     \/ /\ ~\E h \in Harness : IsChosen(h)
        /\ exec' = [exec EXCEPT !.pc = "sleeping", !.harness = "simulated",
                                !.since = clock]
  /\ UNCHANGED <<clock, job, conf, present, dir, child, strays>>

\* The simulated delay is at most the running time of the job.
WakeUp ==
  /\ exec.pc = "sleeping"
  /\ Ends("done", "ok")
  /\ UNCHANGED <<clock, job, conf, present, dir, child, strays>>

\* shutil.which once more: a CLI that has gone fails the assertion.  Then
\* mkdtemp, whose OSError is not caught.
Resolve ==
  /\ exec.pc = "resolving"
  /\ \/ /\ exec.harness \in present \cup {"api"}
        /\ dir' = "there"
        /\ ExecGoes("launching")
     \/ dir' = dir /\ Ends("done", "raised")
  /\ UNCHANGED <<clock, job, conf, present, child, strays>>

\* subprocess.run: an OSError is an error result; a prompt with a null byte
\* is a ValueError, which is not caught.
Launch ==
  /\ exec.pc = "launching"
  /\ \/ /\ exec' = [exec EXCEPT !.pc = "running", !.since = clock]
        /\ child' = "running"
     \/ \E outcome \in {"error", "raised"} :
          Ends("cleaning", outcome) /\ child' = child
  /\ UNCHANGED <<clock, job, conf, present, dir, strays>>

\* The harness exits.  api_harness.py exits 2 without its base URL, 1 for a
\* failed request, and starts no process.
ChildEnds ==
  /\ child = "running"
  /\ child' \in {"error"} \cup
       (IF exec.harness = "api" /\ conf.api = "set" THEN {} ELSE {"ok"})
  /\ strays' \in IF exec.harness = "api" THEN {FALSE} ELSE BOOLEAN
  /\ UNCHANGED <<clock, job, conf, present, exec, dir>>

StraysEnd ==
  /\ strays
  /\ strays' = FALSE
  /\ UNCHANGED <<clock, job, conf, present, exec, dir, child>>

\* Mutation: the child is not waited for.
CollectEarly ==
  /\ exec.pc = "running"
  /\ Ends("cleaning", child)
  /\ UNCHANGED <<clock, job, conf, present, dir, child, strays>>

\* Mutation: the exit code is not looked at.
CollectAny ==
  /\ exec.pc = "running"
  /\ child # "running" /\ ~strays
  /\ Ends("cleaning", "ok")
  /\ UNCHANGED <<clock, job, conf, present, dir, child, strays>>

\* Mutation: an exception skips the removal of the directory.
CollectOrLeave ==
  /\ exec.pc = "running"
  /\ child # "running" /\ ~strays
  /\ Ends("cleaning", child) \/ Ends("done", "raised")
  /\ UNCHANGED <<clock, job, conf, present, dir, child, strays>>

\* communicate returns when the output has ended.  Output that cannot be
\* decoded is an exception, which is not caught.
Collect ==
  /\ exec.pc = "running"
  /\ child # "running" /\ ~strays
  /\ \E outcome \in {child, "raised"} : Ends("cleaning", outcome)
  /\ UNCHANGED <<clock, job, conf, present, dir, child, strays>>

\* Mutation: the child is not killed.
TimeoutOnly ==
  /\ exec.pc = "running"
  /\ clock = exec.since + job.limit
  /\ Ends("cleaning", "error")
  /\ UNCHANGED <<clock, job, conf, present, dir, child, strays>>

\* TimeoutExpired: the child is killed, its descendants are not.
Timeout ==
  /\ exec.pc = "running"
  /\ clock = exec.since + job.limit
  /\ Ends("cleaning", "error")
  /\ IF child # "running" THEN UNCHANGED <<child, strays>>
     ELSE /\ child' = "killed"
          /\ strays' \in IF exec.harness = "api" THEN {FALSE} ELSE BOOLEAN
  /\ UNCHANGED <<clock, job, conf, present, dir>>

\* rmtree, in the finally.  It ignores errors: what a child or a descendant
\* of it has written, or still writes, may not be removable.
Cleanup ==
  /\ exec.pc = "cleaning"
  /\ dir' \in {"none"} \cup (IF child = "none" THEN {} ELSE {"left"})
  /\ ExecGoes("done")
  /\ UNCHANGED <<clock, job, conf, present, child, strays>>

\* CLIs are installed and removed, at any time that matters.
Reinstall ==
  /\ exec.pc \in {"choosing", "resolving"}
  /\ present' \in SUBSET Clis
  /\ UNCHANGED <<clock, job, conf, exec, dir, child, strays>>

ExecuteJob ==
  Choose \/ WakeUp \/ Resolve \/ Launch \/ Collect \/ Timeout \/ Cleanup

\* What the machine of the worker does meanwhile.
Machine == ChildEnds \/ StraysEnd \/ Reinstall
=============================================================================
