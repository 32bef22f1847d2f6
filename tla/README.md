# AgentTorrent in TLA+

AgentTorrent is a peer-to-peer network in which one command-line agent hires
another: peers find each other with UDP beacons, a requester sets one credit
aside and offers a job over TCP, a worker runs it in a sandbox and sends the
result back, and both sides write the credit into a ledger of their own. There
is no server and no global state: whatever is true of the whole is true because
of what each peer does on its own.

This directory holds TLA+ models of that code, TLC configurations that check
them on small instances, and TLAPS proofs of what holds for every instance.
Line numbers refer to `agenttorrent/` of this repository unless a path is given.

Contents: [parts of the system](#parts-of-the-system),
[modules](#modules), [how the models relate to the code](#how-the-models-relate-to-the-code),
[runs](#runs), [bounds](#bounds), [fairness](#fairness), [proofs](#proofs),
[disagreements with the documentation](#disagreements-with-the-documentation),
[not modelled](#not-modelled), [what is left](#what-is-left).

## Parts of the system

| part | state it keeps | operations |
|---|---|---|
| ledger (`ledger.py`) | list of records, `ledger.json`, `ledger.tmp`, a lock | load, `can_offer`, `escrow`, `settle`, `refund`, `credit_for_work` |
| delegation (`peer.py`) | one call of `delegate` per job, one thread per connection | offer, wait, settle or refund; accept, execute, send, credit |
| protocol (`protocol.py`) | a TCP connection with two line streams | `connect`, handshakes, `send`, `recv` with a timeout |
| discovery (`discovery.py`) | the peer table, the UDP socket | send loop, receive loop, reply, `peers()` with lazy expiry |
| control and command line (`peer.py`, `cli.py`) | `runtime.json` | `peers`, `delegate`, `ledger` over loopback |
| start-up (`peer.py`, `identity.py`, `cli.py`) | key, `config.json`, `runtime.json`, `ledger.json`, a port | start, stop, find the running peer |
| executor (`executor.py`, `api_harness.py`) | a sandbox directory, a child process | choose a harness, run, time out, clean up |
| manifests (`job.py`, `manifest.py`) | none | build and validate |

How they interact. `delegate` reads the peer table, writes the ledger before
and after it talks to a worker, and runs on whatever thread the control channel
gave it, so several calls of it run at once. A worker's connection thread runs
the executor and then writes the worker's ledger. The send loop and the receive
loop of discovery share the table with both. Peers share nothing but messages:
beacons that may be late, repeated or lost, and TCP streams that may break or
fall silent. A process can be stopped at any time; it starts again with its
files and nothing else.

What is hard here, and what makes each part correct:

- *Ledger.* The record is in memory before it is on disk, and the file is
  replaced as a whole. Threads interleave between `can_offer` and `escrow`; a
  write may fail; a process may stop between the write and the rename. Correct
  is: never overdrawn, an escrow closed at most once and only if it was opened,
  what a call reported done is never lost, the file only grows.
- *Delegation.* Two processes, two ledgers and a connection that can fail at
  every message. Correct is: the escrow is open exactly while the call runs and
  is closed the way the call reports; the worker executes only jobs that are
  backed by an escrow and addressed to it; a worker is paid only for what it
  finished; every thread ends.
- *Discovery.* A table fed by unreliable messages, with entries of peers that
  have restarted elsewhere. Correct is: what is listed is alive or was until
  recently, what is alive gets listed in time and with its present port,
  replies to replies die out, and one-way reachability suffices to be learnt.

- *Deadlines.* The command line, the requester, the worker and the executor each
  have timeouts of their own and none knows those of the others. Correct is: an
  answer in time is not refunded, a command does not give up on a delegation that
  can still succeed, no credit is held for ever.
- *Executor.* A child process that may exit at any time or never, may leave descendants, and a
  harness that may disappear. Correct is: no child is left, nor a directory that could
  have been removed, and what is reported as done was done by a harness that was asked for.
- *Data directory.* Five files (`ledger.tmp` is one), nothing that locks them, processes that
  start, stop and are killed at any time. Correct is: one identity, a start that finds readable
  files, no record lost, commands that reach the peer that runs; and where processes overlap, no
  damage beyond what the overlap explains.

`PROJECT.json` lists every hazard with its line and the properties that would
catch it going wrong.

## Modules

| module | what it is |
|---|---|
| `LedgerRecords` | records, balances and the guards of the four operations, as operators on a sequence |
| `Ledger` | one `Ledger` object with its file; the steps of `_append` are separate actions |
| `EscrowAccount` | what a ledger promises: one escrow per job, held once, then paid or returned |
| `LedgerLemmas` | what appending one record does to balances and guards |
| `LedgerProofs` | the inductive invariant of `Ledger` and what follows from it; `Ledger` implements `EscrowAccount` |
| `Delegation` | requesters and workers with their ledgers, connections, stops and restarts |
| `DelegationProofs` | the inductive invariant of `Delegation` and what follows from it |
| `HireContract` | what delegating promises of a job: held, then paid or returned; finished, then earned |
| `DelegationPayment` | payment against earning, and `Delegation` implements `HireContract` |
| `Executor` | `execute_job`: the harness, the directory, the child process |
| `Errand` | one job from the command line to `Executor` and back, in discrete time; implements `Delegation` |
| `ErrandProofs` | the inductive invariant of `Errand`, what follows from it, and that the timeouts fit together |
| `ErrandRefinement` | `Errand` implements `Delegation`, and so keeps `HireContract` |
| `DataDir` | processes that start, run, stop and are killed on one data directory, and commands that look for them |
| `DataDirProofs` | the inductive invariant of `DataDir` and what follows from it |
| `Discovery` | send loops, receive loops, tables and datagrams in discrete time |
| `DiscoveryProofs` | the inductive invariants of `Discovery`: fresh listings, replies that die out, tables that are rebuilt |
| `MCLedger`, `MCDelegation`, `MCErrand`, `MCDataDir`, `MCDiscovery` | small instances for TLC |

`Delegation` uses the operators of `LedgerRecords`, so the guard and the record
of, say, `escrow` are written once. It takes every ledger operation as one
atomic step. `Ledger` justifies that: its steps, with the crash and the I/O error
between them, implement `EscrowAccount`, whose operations are atomic. `Errand`
extends `Executor` and is one job of `Delegation` with its time, its configuration
and its execution: `ImplementsDelegation` maps it back, with the two ledgers
rebuilt from where the two threads are. So the chain from the detailed models
to the abstract ones is `Errand` → `Delegation` → `HireContract`, and `Ledger` → `EscrowAccount`.

Operators with the comment `Mutation:` are not part of the models. Each is
one definition with a plausible mistake in it (a dropped guard, a refund that
is forgotten, a file written in place). Putting it in the place of the
definition after it makes the property that `PROJECT.json` pairs it with fail:
they show that the properties depend on the code being as it is.

## How the models relate to the code

`PROJECT.json` maps every definition to the lines it stands for.

**Ledger.** `records` is `_records`, `disk` is `ledger.json` (`<<>>` when it does
not exist), `tmp` is `ledger.tmp`. Every operation holds the lock from its guard
to the end of `_append`, so no other operation starts until `phase` is "free"
again: "appended" after line 74, "written" after line 77. `Replace` is the
atomic rename of line 78 and the return; `returned` remembers which records a
caller has been told of. `WriteFails` is an `OSError` of line 77 or 78: the
record stays in memory and the lock is released. When the record is the
opening one the constructor has raised, and the process ends. `Crash` may leave
`ledger.tmp` torn, never `ledger.json`. A record has two entries of opposite
sign, so it is a transfer between two accounts; all records but the opening one
are about one credit, so a balance is a difference of counts.

**Delegation.** A job is one call of `delegate`. `req[j].pc` is where the call
is: "chosen" after lines 241–260, "escrowed" after 269, "connected" when
`create_connection` has returned, "greeting" after its HANDSHAKE, "offered"
after 278, "waiting" after TASK_ACCEPT. It ends in "ok", "rejected",
"reported" (line 300) or "failed" (318), in "refused" for an empty balance, in
"raised" if an exception leaves `delegate`, or in "lost" if its process stops.
`srv[j]` is the worker's side of the connection: in the listen queue, accepted,
greeted, executing, between `send` and `credit_for_work`, closed. `Accept` is a turn of the
accept loop, which any `OSError` but a timeout ends for good while the peer stays up
(line 152): so it may happen, and nothing says that it will. `ServeConnection` is the thread
that it starts. `out[j]` and
`in[j]` are the two directions of the stream. Choices that depend on data the
properties do not see are left open: which worker is chosen, whether it refuses
(its harness, its limits), whether the execution ends ok, with an error or with
an exception. Whoever listens at the chosen address may be another peer than
the one in the table. `Fail` is the `except` clause of line 318, which can be
reached at any wait or send: a broken connection, a timeout, the end of the
stream, and a peer that is not the one expected all end there. An I/O error
of the ledger is in `Ledger` and not repeated here. An orderly stop is a `Crash` too:
`Peer.stop` closes the listener and waits for no thread, and all threads are daemons.

`Claim(j)` and `Work(j)` read the state of `HireContract` off the ledgers and the
threads; `KeepsContract` says that each step is one of its steps or none.

**Errand and Executor.** `clock` is the time since the command was given, in units of
which the code's waits are multiples. `req`, `srv`, `out` and `in` are those of
`Delegation`, with the time at which each wait began and each message was sent. A
thread that waits with a timeout goes on when it is due, and time does not pass before it has:
`Tick` is enabled only when nothing is due. The timeout of a socket is that of each call, not of a
message: `sendall` may block for it before the wait for an answer begins (`req.sending`,
`SendReturns`), and `readline` calls `recv` once for every piece that arrives (`Piece`), each with the
whole timeout. The offer is sent with the 10 s that the handshake has set. Two kinds of runs are distinguished by
`calm`, chosen at the start. In a calm run, a message comes whole, a message and a connection take at most
`Transit`, sends do not block, the accept loop runs, the end of a connection is seen within
`Transit`, and the worker spends at most `Overhead` on a job beside its running time. In the others,
nothing of that is assumed: messages are slow, lost or come in pieces, sends block, connections
break or wait for ever to be accepted, the worker is killed. `cmd` is the command line: it waits for the running time and 30 s (`cli.py:104`)
and gives up, while the thread that delegates goes on.
`Refuses` is the order of refusals in `_handle_task_offer`, with the worker's
configuration `conf`; the requester chooses the worker by a `Manifest` that may be one
of an earlier run of it. In `Executor`, `Choose` is `_harness_usable` over the candidates,
`Resolve` the second look with `shutil.which` and its assertion, `Launch` the errors of
`Popen` and the exceptions that nobody catches, `Timeout` the kill of the child alone, `Cleanup` the
`finally`. `Resolve` may also raise because `mkdtemp` does, outside the `try`. `dir` is the directory:
"none", "there", or "left" when `rmtree`, which ignores errors, could not remove what a child or one of
its descendants has written. One in which no child ran is empty, and goes. `strays` says that a descendant of the child keeps its output
open: then `subprocess.run` does not return until its timeout, even though the child has exited.
`Reinstall` is a CLI that appears or disappears meanwhile.

**DataDir.** One `proc[p]` is one process: `mesh start`, from `PeerConfig.load` to
`run_forever`, or another command, from `runtime.json` to the answer. The steps
between which another process, or a kill, can come are separate actions: the
truncation and the writing of a file written in place, the look for the key and
its creation, the loading of the ledger and the steps of each append to it. A file truncated by
one process while another writes it may end up with the rest of a longer text
("garbled"). An append opens `ledger.tmp` and truncates it (`OpenTmp`), writes the whole list and closes
it (`WriteTmp`), and renames it (`Replace`). All processes use that one name: a rename takes
whatever has it, so a file that another process has open may become `ledger.json` before it is
written (`post = "moved"`), or be replaced in its turn ("gone"), and a second rename finds nothing
(`ReplaceFails`). A kill in between leaves `ledger.json` empty, and the next start fails to read it.
`Bind` is the TCP and the UDP port: either may be taken, by a peer of this directory or by any other
program, and the start ends as "unbound". Writes that fail, as on a full disk, are in `Ledger` and not
repeated here. `Stop` unlinks `runtime.json`, also if another process
has written it since. `met` is a history variable: the peers that have run at the same
time as another one. It makes precise which damage needs two processes at once,
which nothing in the code prevents, and which a kill alone can do. `accepts` is
`accepts_tasks` of the configuration: the option of `mesh start` can only clear it.

**Discovery.** Time is counted in ticks. `Send` is one round of `_send_loop`,
`Receive` is `_recv_loop` with `_handle_beacon`, `Peers` is the expiry in
`peers()`, and `Listed` is what a call of it returns. Rows that have expired stay
in the table until `Peers` is called, which may be never. A peer that restarts
has a new TCP port and an empty table. Peers of one host share the discovery
port (`SO_REUSEPORT`), so a datagram to the host reaches one of them, chosen by
the system; a broadcast reaches all. `Duplicate` covers networks that repeat
datagrams, and the two broadcast addresses of line 31, which one machine may
both hear. A datagram carries its `hop` for `NoBeaconLoop` only. The beacons are
those that peers running this code send. Of others, those that fail a signature or a check are
dropped; but a signed one whose body is not an object raises at line 178 and ends the receive
loop, which is listed as a hazard.

## Runs

| run | instance | shows |
|---|---|---|
| `ledger` | 2 jobs, 1 counterparty, opening balance 1, 7 records | balances, durability, append-only file, refinement of `EscrowAccount` |
| `delegation` | 2 jobs, 3 peers, opening balance 1, 2 stops | both ledgers against where requester and worker are |
| `delegation_ends` | 2 jobs, 2 peers, 1 stop, fair | every delegation and every serving thread ends; every step keeps `HireContract` |
| `errand` | 1 job, 1 CLI and the api harness, every configuration, messages in 2 pieces, 1 kill of the worker | deadlines, clean-up and what is paid; refinement of `Delegation` |
| `data_dir` | 3 processes, 3 records, 1 kill | identity, start, `runtime.json`, commands, records, configuration |
| `discovery_delay` | 2 hosts that bootstrap to each other, delays, repeats, one restart each | listings fresh and complete in time, replies die out |
| `discovery_loss` | 2 peers on one host, one datagram lost | the same freshness and completeness |
| `discovery_nat` | a peer that only its bootstrap peer's replies can reach, one datagram lost, fair | it learns of that peer, unless the reply is lost |
| `delegation_raises` | 1 job, 2 peers, 1 stop | violated: see below |
| `delegation_late_answer` | 1 job, 2 peers | violated: see below |
| `delegation_stopped` | 1 job, 2 peers, 1 stop | violated: see below |
| `discovery_nat_expires` | as `discovery_nat`, no restarts | violated: see below |

The properties, beside one type invariant per module:

- `SpendableNonNegative`, `EscrowBacked`, `ReturnedIsDurable`, `AppendOnly`,
  `ImplementsEscrowAccount` (`Ledger`). `ReturnedIsDurable` and `AppendOnly` are
  about crashes. `EscrowBacked` holds in memory and on disk, also after a write
  has failed with its record kept in memory.
- `NoOverdraft`: several calls may pass `can_offer` with the last credit.
- `EscrowMatchesDelegation`: what the requester's ledger says of a job at every
  point of the call, including that no path closes the escrow twice or with the
  wrong record.
- `PaidIsEarned`, `EarnedIsAgreed`, `ExecutionIsBacked`: the two ledgers and the
  two threads against each other. `PaidIsEarned` has one exception, a worker
  that stops between sending the result and recording its credit.
  `EarnedIsAgreed` allows the requester to have given up: it says that the worker
  earns only from the requester that chose it and backed the job.
- `KeepsContract` (`Delegation`): the abstract contract as a property.
- `InTime` (`Errand`): the timeouts fit together. In a calm run with a worker that
  stays up, a delegation fails only if the executor raises, and no worker is
  credited for a result the requester no longer waits for. It is what makes
  `BooksBalance` below an exception rather than the rule.
- `AnswerInTime`, `HeldBriefly`: no calm is assumed for these. `AnswerInTime`
  names the only cases in which the command line gives up too early: what `delegate` had last
  read, the acceptance or a piece of the result, came more than 15 s after the command, or the
  acceptance had not come within the base time and the running time. `HeldBriefly` bounds the
  time a credit is in flight: three calls that connect or send, and a timeout for each piece of
  the three messages that are read. In the code the number of pieces is bounded by the
  4 MiB of a line only, so this is a bound on the calls, not one that a user would call brief.
- `ChildIsBounded`, `SandboxIsRemoved`, `PaidIsExecuted` (`Executor` in `Errand`).
  `ChildIsBounded` is about the child only: its descendants do outlive the timeout.
  `SandboxIsRemoved` says that every way out of an execution goes through the removal, and
  that only a child that ran can be why it did not succeed.
- `IdentityIsShared`, `StartFailsForCause`, `RuntimeIsTrue`, `AloneIsReachable`,
  `LostOnlyByOverlap`, `RefusalIsKept` (`DataDir`). Each has the exceptions that the code
  makes, and no others: two peers at the same time, or a kill in one of the windows in which
  `config.json` or the key is empty. `StartFailsForCause` is about files only: a port that is
  taken ends a start too, and says nothing of the directory. For `LostOnlyByOverlap`, processes that
  overlap may tear `ledger.json`, and then everything in it is lost, also the records of one that ran alone
  before; as long as the file can be read, only records of processes that overlapped are missing.
- `ListingIsFresh`, `RebuiltInTime`, `NoBeaconLoop`, `LearnsInReturn` (`Discovery`).
  `LearnsInReturn` says that each time the public peer has no row of the one that bootstraps to it,
  that one gets to list it, although a beacon may be lost. The one excuse is a lost reply
  (`ReplyLost`), which is not repeated.
  `RebuiltInTime` gives the time in which a table is complete and has present
  ports: one interval, one more per lost datagram, and twice the time a datagram
  may be under way, since a late beacon of an earlier life may arrive after the
  first of the new one and be believed for one round more. The comment at the head
  of `discovery.py` says "within one beacon interval"; the difference is the time
  datagrams take.

Deadlock is checked except in the delegation runs, where everything has ended
once all jobs have and no more stops are allowed, and in `data_dir`, where every process
has ended. In `errand` it is checked, with the state in which the command, the call and the
worker's thread have all ended as the only one where nothing more has to happen: time never
gets stuck.

## Bounds

- `MaxRecords = 7` (`Ledger`): opening, escrow, close and work for each of two
  jobs. No further record is possible with two jobs, so the run is not cut short
  by it. One opening credit makes the balance reach 0, where `can_offer` matters.
- `MaxCrashes` (`Delegation`): a stop of the requester and one of the worker, or
  two of the same peer. With none left, processes run on. Each job has at most
  one connection, as in the code, so channels need no bound.
- Three peers are a requester, the chosen worker and a stranger at a stale
  address; two jobs are enough for two calls to race for one credit and for a
  peer to be requester and worker at once.
- A unit of time in `errand` is five seconds: the waits are 2, 3, 3, 6 and 6 for 10, 15, 15, 30
  and 30 s. `Transit` and `Overhead` are one unit, the largest for which the assumptions of
  `Errand` hold with room for two messages in one wait. `Limits` has a running time that
  `validate_job` refuses (0), one the worker takes and one beyond `WorkerLimit`.
  `Pieces = 2` lets each of the three messages restart its timeout once. `MaxClock = 25` is past
  the longest that a call of `delegate` can take then, 3 * 2 + 2 * (2 + 3 + 1 + 3) = 24 units, and
  past the 6 + 2 of the command. A `limit` of 2 is refused by the worker before its running time
  counts.
- `MCConfs` leaves out configurations that behave alike: a worker that accepts nothing,
  or only simulates, never looks at its harnesses.
- Three processes in `data_dir` are two peers that overlap and a third that
  starts, or a command that asks, before or afterwards. Two records let one process write over
  the record of another. The third lets a record of a process that ran alone be lost: two later
  ones append at the same time, one renames what the other has opened, and that one is killed. The
  constraint `Short` keeps the state space small: three peers run at the same time only until a second
  record is appended, and a third record is followed only if one of a process that ran alone is at
  stake. One kill suffices for each window.
- Jobs and peers are interchangeable in `Delegation`, and jobs in `Ledger`, processes in
  `DataDir`, so the safety runs may use symmetry. The liveness runs do not.
- `Interval`, `Transit` and `Ttl` are 2, 1 and 3 ticks or 1, 0 and 3, where the
  code has 5 s, well under a second and 30 s. What matters is kept: a datagram takes less
  than an interval and a row outlives one. With `Transit = 0` and `Ttl = 3` a row
  outlives more than two intervals, so that one loss is survived.
- `MaxPort = 2` is one restart of each peer, enough for a beacon of the earlier
  life to arrive in the new one. `MaxLosses = 1` with `Ttl = 3`: the row must survive it.
- `Horizon` is where `since` stops counting. It is beyond every time the
  properties mention.

## Fairness

- `Delegation`: weak fairness of each thread's next step. Threads are scheduled by
  the operating system. `recv` and `connect` have timeouts (10 s, 30 s, the
  running time of the job plus 15 s), so a thread that waits always has a step,
  if only `Fail` or `ServeFails`. An execution ends because `subprocess.run` has the
  job's running time as its timeout and, on POSIX, kills and waits for the child
  alone; the simulated execution sleeps no longer than that. Nothing is assumed of `Crash`,
  `Restart`, the first call of `delegate`, of messages arriving, or of the accept loop, which may
  have ended: `ServingEnds` begins with a connection that has been accepted, and `DelegationEnds` holds
  although one may stay queued for ever.
- `Discovery`: the send loops run, a datagram that is not lost is received or
  finds nobody, and time passes. Nothing is assumed of `peers()` being called, of
  restarts, or of which datagrams get lost; how many do is bounded by `MaxLosses`, which is one in
  `discovery_nat`.

## Proofs

TLAPS checks every proof to its leaves. The assumptions are those named in the
modules, and the hypotheses that two theorems about discovery state: `LedgerAssumption` (the opening balance is a natural number, "no job" is not a
job, and no peer id is the name of an account: peer ids are hashes),
`FileAssumption`, `DelegationAssumption` and `DirAssumption` (the special values are none of the
ordinary ones, and the bounds are natural numbers), `ExecutorAssumption` and `ConfAssumption`
(no CLI has a name with a meaning of its own), `ErrandAssumption` (the waits are
natural numbers and fit together), `DiscoveryAssumption`, and `EntryAssumption` (an empty row is
not a row). No theorem bounds the number of jobs, peers, processes, records, losses or stops.

**Ledger.** None of `EscrowBacked`, `SpendableNonNegative` and `ReturnedIsDurable`
is inductive alone. After a crash, memory is what the file held, so the balances
must be sound on disk as well; after a rename, the file is what `ledger.tmp` held,
so that must be a complete copy of memory; and for a durable record to survive
the next rename, memory must continue the file. `IInv` of `LedgerProofs` says
just that: types, `CopiesAgree`, `Sound` of memory and disk, and
`ReturnedIsDurable`. `Sound` has in it that a job has one escrow record at most,
without which closing a job could remove two entries from the count. The lemmas
`SoundEscrow`, `SoundClose` and `SoundWork` take one record each, from the effect of an
append on a balance (`BalanceAppend`), and `NextIInv` goes through the actions.
From `IInv`: `LedgerTypeCorrect`, `LedgerNeverOverdrawn`, `LedgerEscrowBacked`,
`LedgerDurable`, and the action property `LedgerAppendOnly`.

**Refinement.** `LedgerImplementsEscrowAccount`: under the mapping that reads the
balance, the state of each job's escrow and the set of jobs worked for off the list
of records, in memory for `live` and on disk for `saved`, every step of `Ledger`
is a step of `EscrowAccount` or changes nothing there.

**Delegation.** `IInv` of `DelegationProofs` has, beside the types and `NoOverdraft`,
one invariant per job: nobody has records of a job that has not been
called; the requester's records match the place where the call is; no connection and
no message exists before the escrow; and an offer on its way, or being executed, is
with the chosen worker. A step of one job writes records of that job only, so
`OtherJob` settles all other jobs at once and every action is left with its own. Since the chosen worker
is never the requester, the record the worker writes for its work cannot land among
those that are looked at on the requester's side.
From `IInv`: `DelegationTypeCorrect`, `DelegationNeverOverdraws`,
`DelegationMatchesEscrow`, `DelegationExecutionIsBacked`.

**Payment.** `DelegationPayment` adds to that `IInv` what relates the two sides of a job (`PInv`):
`Committed` says how far the requester must be for a message of the worker
to exist, `Answer` which result may be on its way given where the worker's thread
is, and `Kept` what the requester's records of the job are and that the worker's record is its own.
`PaidIsEarned` and `EarnedIsAgreed` follow (`PaymentIsEarned`, `EarningIsAgreed`), and so does the
refinement: `DelegationKeepsContract` takes each action to a step of `HireContract` or a stutter.

**Deadlines.** `IInv` of `ErrandProofs` has `Phases` (a thread of the worker exists only once there is a
connection, an execution only while that thread executes), `Sandbox` (where the directory and the
child may exist, and that only a child leaves one behind), `Clocks` (how far `clock` may be beyond the
beginning of each wait, which adds up along the call, its sends and the pieces read) and `Results` (an answer that reports success
rests on an execution that had it). The deadlines are constants: `AnswersComeInTime` and `CreditIsHeldBriefly`
hold for any values of the waits and any number of pieces, subject to `ErrandAssumption`, which says that
two messages fit into one wait and clean-up into the grace. These inequalities are what the code's
numbers satisfy for any reasonable network: two messages within 10 s (`ConnectWait`) and so within
15 s (`OfferWait`), clean-up and a message within 15 s (`Grace`), and 15 s is less than the 30 s
of `ServeWait`. `Transit` is an upper bound, so taking it for positive excludes no network.
Besides: `ErrandTypeCorrect`, `ChildrenAreBounded`, `SandboxesAreRemoved`, `WhatIsPaidIsExecuted`.

`TimeoutsFitTogether` is `InTime` for all waits. It needs more than `IInv`: in a calm run with a
worker that stays up, the two threads and the two channels are in one of eleven stages
(`Stages`: `BeforeEscrow`, `Connecting`, `Connected`, `Greeting`, `Greeted`, `Offered`, `Refused`,
`Executing`, `ResultComes`, `Over`, `HasRaised`), and each stage says which messages are under way, when they were
sent, and until when at most the stage lasts. Two facts carry the argument. `Tick` may not pass what
is due, so each message and each part of the worker's overhead moves the latest end of the stage
by no more than its bound; and the end of every stage is before the timeout of whoever waits in
it (`NobodyTimesOut`, which is where the inequalities of `ErrandAssumption` are used), so that no
thread fails and no connection closes before its other end is done with it. Each action takes a
stage to a stage. The delicate one is the requester that has not yet read TASK_ACCEPT when
the result is sent: it has two messages in its channel, and its wait for the result begins only when
the first is read (`AcceptedAt`).

**One job in time, as a delegation.** `ErrandImplementsDelegation` of `ErrandRefinement`: the
mapping of `D` in `Errand` takes the call, the worker's thread and the names of the
messages as they are, and makes both ledgers from the places where the two threads are
(`Books`). Every action of the requester and the worker becomes the action of the same name in
`Delegation`, the kill of the worker a `Crash`, and the command, the execution and
time change nothing there (`ElseUnchanged`). `Delegation` checks its ledgers where `Errand` has none
to check, so the proof has to show that every such guard holds: one credit is there to be offered
(`OpeningFacts`), the escrow is open whenever it is closed (`CloseEscrow`), and the worker has no record of the
job when it writes one. The last needs `MapInv`: a credited worker has closed its connection.
`MapInv` also says that whoever has connected has a thread at the other end, and that no
connection is reset by a worker that is up. So what is
proved of `Delegation` holds of a job with its deadlines: `ErrandKeepsContract` and `ErrandIsPaidAsEarned`
apply the theorems of `DelegationPayment` to the mapped state. `P` instantiates that module as
`D` instantiates `Delegation`, and `SameDelegation` says that the two instances are one specification.

**Data directory.** `IInv` of `DataDirProofs` rests on two facts: two peers that run at the
same time are both in `met` (`Overlap`), and the key is never removed (`NoKey`, so that a
command, which needs `runtime.json`, never makes one). `OneKey` says that a key is
made once or two were made at once; `EmptyKey` and `EmptyConfig` why a file is not
readable; `Refusals` that a refusal once written is all that can be
written again; `Alone` and `Asked` that a peer that runs alone finds its own files as it wrote them.
The ledger needs three parts of its own, together `Kept`. `Appends`: an append is under way only where
one can be, and `ledger.tmp` is what the process that appends has made of it, unless it overlaps with
another. `Readable`: `ledger.json` is torn only after an overlap. `Records`: a record whose append returned,
of a process that did not overlap, is in `ledger.json`, in every list that was loaded, and in whatever may
replace the file, if these can be read. `KeptStays` says that a step which leaves the ledger alone
keeps them, and `AppendStep` that a step of an append which keeps them keeps the rest; so each of the
four steps of an append is left with what it writes.
All seven properties of the run follow, for
any number of processes, records and kills.

**Discovery.** `IInv` of `DiscoveryProofs`: a datagram of a peer that is down is at least as old
as its fall (`SentInTime`), so a row that is refreshed by one is at most `Transit` behind it (`HeardInTime`),
and no peer has a row for itself (`NoSelf`). `ListingsAreFresh` follows for any network,
and any number of losses, repeats and restarts up to the bounds of `DiscoveryAssumption`.

`RepliesDieOut` is `NoBeaconLoop` from a second invariant, `ReplyInv`. A reply is sent only by a
peer that had no row for the sender, and makes one (`RepliesFillRows`): the `hop` of a datagram
under way is bounded by the rows of its two ends that are filled and young enough, plus the
times either end has lost its table by a restart. A third reply would need a row to be missing that
the second filled. That rests on two hypotheses. `RowsOutliveReplies` (`2 * Transit <= Ttl`): a row
does not expire while a reply and the reply to it are under way; the code keeps a row for 30 s.
`OwnHosts`: every peer has a host of its own. Peers of one host share the discovery port
(`SO_REUSEPORT`, `discovery.py:88-89`), and a unicast reply reaches whichever of them the system
picks: the peer that was meant stays without the row. Simulating four peers on two hosts gives
datagrams of hop 3 with no restart at all, so `NoBeaconLoop` does not hold there and is
stated for peers on hosts of their own.

`TablesAreRebuilt` is `RebuiltInTime` from a third, `RebuildInv`. For two peers that are up, the
row of one for the other has the present port and an age of at most `Patience`, or one of the two has not been up for
that long (`Silent`, `HeardOfInTime`). `Patience` is the time since the sender's last round and one interval
more for each beacon that has been lost or is still under way; the beacons under way are
told apart by their age, which says in which round they were sent (`Round`, `Pending`), so that a beacon that is lost or
delayed accounts for one round and no more. `OldLives` bounds the beacons of an earlier life:
they were sent before the present one began, so after `Transit` none is left to put back the old
port. The hypothesis is `RowsOutliveLosses` (`Interval * (MaxLosses + 1) + Transit <= Ttl`): a row is
kept while beacons are missing. With 5 s and 30 s that is four lost datagrams, if a datagram takes
at most 5 s. Losses are counted over a whole run, as in the property: the theorem is about so many of them,
wherever they fall, and not about a rate. No hypothesis about hosts is needed.

**Only model-checked.** Liveness: `DelegationEnds`, `ServingEnds` and `LearnsInReturn`. Fairness and
`ENABLED` are out of the prover's reach, as are induction over data and recursive operators,
which these modules do without. The four properties of the next section are refuted by their runs. Every
other property that a run checks is also a theorem.

## Disagreements with the documentation

Four runs state what the repository says of itself and show that the code does
otherwise.

- `FailureIsRefunded`. `peer.py:237-239` promises a refund on any failure after
  the escrow and no exception. `connect` guards `create_connection` only. If the
  worker stops while the connection waits in its queue, `getpeername`
  (`protocol.py:49`) raises `OSError`, which leaves `delegate`; the credit stays in
  escrow for ever.
- `BooksBalance`. `README.md:80-82` lets the worker earn the credit that the requester releases
  on a good result, and refunds it otherwise. The worker credits itself when its `send` has returned, which it also does
  when the requester has given up and refunded itself: the worker then holds a credit nobody
  has paid.
- `EscrowIsInFlight`. `ledger.py:5-6` calls the escrow account "credits reserved for
  in-flight jobs". A requester that is stopped during a delegation keeps the credit
  there; nothing looks for it at the next start.
- `CanDelegateAgain`. `README.md:120-124` says that a peer behind a NAT can
  delegate to the public peer it bootstraps to. It hears one reply, to its first beacon.
  The public peer keeps refreshing the row and so never answers again, and the
  NAT'd peer drops the public one when the reply is 30 s old.

Three more have no run of their own. `README.md:90-94` and `ledger.py:9` place the escrow after the handshake,
"at TASK_OFFER time". `delegate` writes it before it connects (`peer.py:269`), so a worker that
cannot be reached costs an escrow and a refund; `Escrow` and `Connect` of `Delegation` are in the
order of the code. `README.md:32-34` says that a peer behind a NAT that bootstraps to a public peer
"learns about it in return": that one reply is not repeated when it is lost, which is the exception
`ReplyLost` of `LearnsInReturn`. `executor.py:7-8` has the directory of a job "deleted afterwards":
`rmtree` ignores errors (line 184), so a descendant that still writes, or a file that cannot be
removed, keeps it ("left" in `Executor`).

## Not modelled

- Signatures, envelopes and peer ids: cryptography. The models take the sender of a
  message to be who it says, which is what `Identity.open` establishes.
- Malformed, oversized or mistyped messages, and the checks of types in `validate_job` and
  `validate_manifest`: peers that run this code send none. The checks that a job of `mesh delegate` can
  fail are in `Errand`.
- The text of jobs, results, prompts, beacons and logs, the environment of the child
  but for the one variable in `Executor`, and the listings that `mesh peers` and `mesh ledger` print.
- The HTTP request of `api_harness.py`: an exit code in `Executor`.
- Signed messages that this code does not make, such as a beacon whose body is not an object
  (`discovery.py:178`) or a line of more than 4 MiB.
- The answer of the control channel in pieces: it comes over loopback, in one line.
- A write that fails while another process uses the same directory: `Ledger` has the one, `DataDir` the
  other.
- The acceptance test: a source of claims, not of behaviour.

## What is left

- What `NoBeaconLoop` should say of peers that share a host: there a beacon may be answered by
  several of them, and the number of replies depends on which peer the system gives each datagram.
- Several jobs in `Errand`: the worker serves each connection on a thread of its own and limits
  nothing, so what they share is the ledger, which `Delegation` has with several jobs.
- A bootstrap entry whose port is not a number ends the send loop with `ValueError`
  (`discovery.py:144`). It is one line without a race; a unit test serves better than a model.
