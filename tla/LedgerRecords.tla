--------------------------- MODULE LedgerRecords ---------------------------
(***************************************************************************)
(* The vocabulary of one peer's credit ledger (agenttorrent/ledger.py):    *)
(* the records it appends, the balance of an account, and the guards of    *)
(* its four operations, as operators on a sequence of records.             *)
(*                                                                         *)
(* Every record of the code carries two balanced entries, so a record is a *)
(* transfer from one account to another.  The amount is OpeningBalance for *)
(* the opening record and JobPrice for all others.  Transaction ids,       *)
(* timestamps and memos are left out: nothing reads them back.             *)
(***************************************************************************)
EXTENDS Integers, Sequences, FiniteSets

CONSTANTS
  Job,             \* job ids (uuid4 hex strings in the code)
  Peer,            \* peer ids, which are also ledger accounts
  NoJob,           \* the job id of the opening record (None in the code)
  OpeningBalance   \* credits a new ledger starts with (10 in the code)

ASSUME LedgerAssumption ==
  /\ OpeningBalance \in Nat
  /\ NoJob \notin Job
  /\ Peer \cap {"genesis", "self", "escrow"} = {}

JobPrice == 1

Kind == {"opening", "escrow", "settle", "refund", "work"}

Account == Peer \cup {"genesis", "self", "escrow"}

Record == [kind : Kind, job : Job \cup {NoJob}, from : Account, to : Account]

Transfer(kind, j, from, to) ==
  [kind |-> kind, job |-> j, from |-> from, to |-> to]

Opening         == Transfer("opening", NoJob, "genesis", "self")
EscrowRecord(j) == Transfer("escrow", j, "self", "escrow")
SettleRecord(j, worker)  == Transfer("settle", j, "escrow", worker)
RefundRecord(j) == Transfer("refund", j, "escrow", "self")
WorkRecord(j, requester) == Transfer("work", j, requester, "self")

-----------------------------------------------------------------------------
(* Balances.  All entries of a kind have the same size, so the sum of the  *)
(* deltas on an account is a count of the records that credit it minus a   *)
(* count of those that debit it, times the amount.                         *)

Credits(rs, a, kinds) == {i \in DOMAIN rs : rs[i].kind \in kinds /\ rs[i].to = a}
Debits(rs, a, kinds)  == {i \in DOMAIN rs : rs[i].kind \in kinds /\ rs[i].from = a}

Net(rs, a, kinds) ==
  Cardinality(Credits(rs, a, kinds)) - Cardinality(Debits(rs, a, kinds))

Balance(rs, a) ==
  OpeningBalance * Net(rs, a, {"opening"})
    + JobPrice * Net(rs, a, Kind \ {"opening"})

-----------------------------------------------------------------------------
(* What the operations read before they append.                            *)

KindsOf(rs, j) == {rs[i].kind : i \in {k \in DOMAIN rs : rs[k].job = j}}

\* Mutation: one credit too few is enough.
CanOfferAtZero(rs) == Balance(rs, "self") >= 0

CanOffer(rs) == Balance(rs, "self") >= JobPrice

CanEscrow(rs, j) == CanOffer(rs) /\ KindsOf(rs, j) = {}

IsOpen(rs, j) ==
  /\ "escrow" \in KindsOf(rs, j)
  /\ KindsOf(rs, j) \cap {"settle", "refund"} = {}

CanCredit(rs, j) == "work" \notin KindsOf(rs, j)
=============================================================================
