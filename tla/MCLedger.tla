------------------------------ MODULE MCLedger ------------------------------
(* The ledger of one peer with two jobs and one counterparty.              *)
EXTENDS Ledger, TLC

\* Sound here: no definition distinguishes two jobs, and the properties with
\* [] have no liveness in them.
JobSymmetry == Permutations(Job)
=============================================================================
