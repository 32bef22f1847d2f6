------------------------------- MODULE Ledger -------------------------------
(***************************************************************************)
(* One peer's Ledger object and its file (agenttorrent/ledger.py).         *)
(*                                                                         *)
(* Every public operation runs under one lock: it checks its guard,        *)
(* appends to the list in memory, writes the whole list to ledger.tmp and  *)
(* renames that over ledger.json.  The lock hides the intermediate steps   *)
(* from the other threads but not from a crash or from an I/O error, so    *)
(* the steps of _append are separate actions here; "phase" says how far    *)
(* the holder of the lock has come.  The operations are called in any      *)
(* order, by any thread, for any job.                                      *)
(***************************************************************************)
EXTENDS LedgerRecords

CONSTANTS
  Torn,            \* contents of a file whose writing was cut short
  MaxRecords       \* bound on the length of the ledger

ASSUME FileAssumption ==
  /\ Torn \notin Seq(Record)
  /\ MaxRecords \in Nat

VARIABLES
  up,        \* the process is running and has (or is creating) its Ledger
  records,   \* Ledger._records; <<>> while the process is down
  phase,     \* lock free, record appended in memory, or ledger.tmp written
  tmp,       \* ledger.tmp; <<>> if there is none
  disk,      \* ledger.json; <<>> if there is none
  returned   \* history: the records of the calls that returned normally

vars == <<up, records, phase, tmp, disk, returned>>

Phase == {"free", "appended", "written"}

Init ==
  /\ up = FALSE
  /\ records = <<>>
  /\ phase = "free"
  /\ tmp = <<>>
  /\ disk = <<>>
  /\ returned = {}

\* Mutation: the file is never loaded.
OpenAnew ==
  /\ ~up
  /\ up' = TRUE
  /\ records' = <<Opening>>
  /\ phase' = "appended"
  /\ UNCHANGED <<tmp, disk, returned>>

\* Ledger.__init__: load the file, or append the opening record.
Open ==
  /\ ~up
  /\ up' = TRUE
  /\ records' = IF disk = <<>> THEN <<Opening>> ELSE disk
  /\ phase' = IF disk = <<>> THEN "appended" ELSE "free"
  /\ UNCHANGED <<tmp, disk, returned>>

\* The first lines of _append: the record is in memory before it is in a file.
Post(r) ==
  /\ up
  /\ phase = "free"
  /\ Len(records) < MaxRecords
  /\ records' = Append(records, r)
  /\ phase' = "appended"
  /\ UNCHANGED <<up, tmp, disk, returned>>

Escrow(j) == CanEscrow(records, j) /\ Post(EscrowRecord(j))

Settle(j, worker) == IsOpen(records, j) /\ Post(SettleRecord(j, worker))

\* Mutation: refunds whatever was escrowed, closed or not.
RefundAgain(j) == "escrow" \in KindsOf(records, j) /\ Post(RefundRecord(j))

Refund(j) == IsOpen(records, j) /\ Post(RefundRecord(j))

\* Mutation: a job is credited as often as it is asked for.
CreditAgain(j, requester) == Post(WorkRecord(j, requester))

CreditForWork(j, requester) ==
  CanCredit(records, j) /\ Post(WorkRecord(j, requester))

\* Mutation: the records are serialised before the new one is appended.
WriteTmpEarly ==
  /\ phase = "appended"
  /\ tmp' = SubSeq(records, 1, Len(records) - 1)
  /\ phase' = "written"
  /\ UNCHANGED <<up, records, disk, returned>>

\* tmp.write_text(...)
WriteTmp ==
  /\ phase = "appended"
  /\ tmp' = records
  /\ phase' = "written"
  /\ UNCHANGED <<up, records, disk, returned>>

\* tmp.replace(self.path): atomic; then the lock is released.
Replace ==
  /\ phase = "written"
  /\ disk' = tmp
  /\ tmp' = <<>>
  /\ phase' = "free"
  /\ returned' = returned \cup {records[Len(records)]}
  /\ UNCHANGED <<up, records>>

\* Mutation: ledger.json is written in place.
FailsInPlace ==
  /\ phase # "free"
  /\ disk' \in IF phase = "appended" THEN {disk, Torn} ELSE {disk}
  /\ phase' = "free"
  /\ UNCHANGED <<up, records, tmp, returned>>

\* The write or the rename raises OSError.  The caller sees the exception,
\* the lock is released, and the record stays in memory.  If it was the
\* opening record, the constructor has failed and the process ends.
WriteFails ==
  /\ phase # "free"
  /\ tmp' \in IF phase = "appended" THEN {tmp, Torn} ELSE {tmp}
  /\ phase' = "free"
  /\ IF records = <<Opening>>
     THEN up' = FALSE /\ records' = <<>>
     ELSE UNCHANGED <<up, records>>
  /\ UNCHANGED <<disk, returned>>

\* The process is killed or stops: memory and lock are gone.
Crash ==
  /\ up
  /\ up' = FALSE
  /\ records' = <<>>
  /\ phase' = "free"
  /\ tmp' \in IF phase = "appended" THEN {tmp, Torn} ELSE {tmp}
  /\ UNCHANGED <<disk, returned>>

Next ==
  \/ Open
  \/ \E j \in Job :
       \/ Escrow(j)
       \/ Refund(j)
       \/ \E p \in Peer : Settle(j, p) \/ CreditForWork(j, p)
  \/ WriteTmp
  \/ Replace
  \/ WriteFails
  \/ Crash

Spec == Init /\ [][Next]_vars
-----------------------------------------------------------------------------
(* Properties.                                                             *)

(* Every variable has its type; in particular ledger.json is never torn,   *)
(* so Ledger.__init__ can always parse it (ledger.py:49).                  *)
TypeOK ==
  /\ up \in BOOLEAN
  /\ records \in Seq(Record)
  /\ phase \in Phase
  /\ tmp \in Seq(Record) \cup {Torn}
  /\ disk \in Seq(Record)
  /\ returned \subseteq Record

(* However calls, failed writes, crashes and reloads interleave, a ledger  *)
(* never spends credits it does not have: escrow() re-reads the balance    *)
(* under the lock (ledger.py:100).                                         *)
SpendableNonNegative == Balance(records, "self") >= 0

\* The escrow records whose job has been neither settled nor refunded.
OpenEntries(rs) ==
  {i \in DOMAIN rs : rs[i].kind = "escrow" /\ IsOpen(rs, rs[i].job)}

(* The balance of the "escrow" account is exactly the number of jobs whose *)
(* credit is still set aside, in memory and on disk: no escrow is closed   *)
(* twice, closed without having been opened, or opened twice, even by      *)
(* calls separated by a crash and a reload (ledger.py:161).                *)
EscrowBacked ==
  \A rs \in {records, disk} :
    Balance(rs, "escrow") = JobPrice * Cardinality(OpenEntries(rs))

(* A call that returned normally is durable: no crash, failed write or     *)
(* reload loses its record (ledger.py:74-78).                              *)
ReturnedIsDurable ==
  \A r \in returned : \E i \in DOMAIN disk : disk[i] = r

\* rs continues old.
Continues(rs, old) ==
  /\ Len(old) <= Len(rs)
  /\ \A i \in DOMAIN old : rs[i] = old[i]

(* The file is append-only across the lives of the process ("Append-only   *)
(* double-entry ledger", ledger.py:43): a rename never drops or reorders a *)
(* record that was in the file.                                            *)
AppendOnly == [][Continues(disk', disk)]_vars

-----------------------------------------------------------------------------
(* The ledger implements the escrow account.                               *)

EscrowView(rs, j) ==
  IF "escrow" \notin KindsOf(rs, j) THEN "none"
  ELSE IF IsOpen(rs, j) THEN "held"
  ELSE IF "settle" \in KindsOf(rs, j) THEN "paid"
  ELSE "returned"

\* What the list of records says; no file means the opening balance.
View(rs) ==
  [ spendable |-> IF rs = <<>> THEN OpeningBalance ELSE Balance(rs, "self"),
    escrow    |-> [j \in Job |-> EscrowView(rs, j)],
    earned    |-> {j \in Job : "work" \in KindsOf(rs, j)} ]

Promise == INSTANCE EscrowAccount WITH
             live  <- View(IF up THEN records ELSE disk),
             saved <- View(disk)

(* Scanning records and summing deltas, through appends, failed writes,    *)
(* renames and crashes, behaves as the escrow account.                     *)
ImplementsEscrowAccount == Promise!Spec
=============================================================================
