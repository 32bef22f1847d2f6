--------------------------- MODULE EscrowAccount ---------------------------
(***************************************************************************)
(* What a ledger promises its callers, without records or files: a number  *)
(* of spendable credits, one escrow per job that is held once and then     *)
(* either paid or returned, never both and never twice, and one payment    *)
(* earned per job worked for.  "live" is what the running process answers, *)
(* "saved" is what it falls back to when it stops.                         *)
(***************************************************************************)
EXTENDS Naturals

CONSTANTS Job, OpeningBalance

VARIABLES live, saved

vars == <<live, saved>>

EscrowState == {"none", "held", "paid", "returned"}

Fresh ==
  [ spendable |-> OpeningBalance,
    escrow    |-> [j \in Job |-> "none"],
    earned    |-> {} ]

Init == live = Fresh /\ saved = Fresh

\* One credit is set aside for a job nothing is known about yet.
Hold(j) ==
  /\ live.spendable >= 1
  /\ live.escrow[j] = "none"
  /\ j \notin live.earned
  /\ live' = [live EXCEPT !.spendable = @ - 1, !.escrow[j] = "held"]
  /\ UNCHANGED saved

\* The held credit goes to the worker.
Pay(j) ==
  /\ live.escrow[j] = "held"
  /\ live' = [live EXCEPT !.escrow[j] = "paid"]
  /\ UNCHANGED saved

\* The held credit comes back.
Return(j) ==
  /\ live.escrow[j] = "held"
  /\ live' = [live EXCEPT !.spendable = @ + 1, !.escrow[j] = "returned"]
  /\ UNCHANGED saved

\* One credit is earned for a job, at most once.
Earn(j) ==
  /\ j \notin live.earned
  /\ live' = [live EXCEPT !.spendable = @ + 1, !.earned = @ \cup {j}]
  /\ UNCHANGED saved

\* What the process knows becomes durable.
Save == saved' = live /\ UNCHANGED live

\* The process stops; what was not durable is forgotten.
Stop == live' = saved /\ UNCHANGED saved

Next ==
  \/ \E j \in Job : Hold(j) \/ Pay(j) \/ Return(j) \/ Earn(j)
  \/ Save
  \/ Stop

Spec == Init /\ [][Next]_vars
=============================================================================
