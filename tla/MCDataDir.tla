----------------------------- MODULE MCDataDir -----------------------------
(* Three processes on one directory.                                       *)
EXTENDS DataDir, TLC

\* No definition distinguishes two processes.
Symmetry == Permutations(Proc)

\* Three at the same time only while the ledger is short, and a long ledger
\* only if a record of a process that ran alone is at stake.
Short ==
  /\ appended > 1 => \E p \in Proc : p \notin Peers(Live)
  /\ appended = MaxRecords => \E r \in posted : r[1] \notin met
=============================================================================
