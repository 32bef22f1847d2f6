---------------------------- MODULE MCDelegation ----------------------------
(* Two jobs between a few peers.                                           *)
EXTENDS Delegation, TLC

\* Sound for the safety runs: no definition distinguishes two jobs or two
\* peers.
Symmetry == Permutations(Job) \cup Permutations(Peer)
=============================================================================
