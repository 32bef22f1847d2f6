---------------------------- MODULE HireContract ----------------------------
(***************************************************************************)
(* What delegating promises of each job, whatever the network and the      *)
(* processes do: a credit is set aside first, is then paid or returned, at *)
(* most one of the two and once; it is paid only for a result that has     *)
(* been handed in, and a worker earns only for such a result, once.        *)
(*                                                                         *)
(* It does not promise that paying and earning go together: see BooksBalance*)
(* in module Delegation.  Nor that either ever happens.                    *)
(***************************************************************************)
CONSTANT Job

VARIABLES
  claim,   \* claim[j]: what became of the credit of job j's requester
  work     \* work[j]: what became of the work

vars == <<claim, work>>

Init ==
  /\ claim = [j \in Job |-> "none"]
  /\ work = [j \in Job |-> "none"]

\* A variable f moves on for job j.
Moves(f, g, j, from, to) ==
  f[j] \in from /\ g = [f EXCEPT ![j] = to]

Hold(j) == Moves(claim, claim', j, {"none"}, "held") /\ UNCHANGED work

Finish(j) ==
  claim[j] # "none" /\ Moves(work, work', j, {"none"}, "finished") /\ UNCHANGED claim

Earn(j) == Moves(work, work', j, {"finished"}, "earned") /\ UNCHANGED claim

Pay(j) ==
  work[j] # "none" /\ Moves(claim, claim', j, {"held"}, "paid") /\ UNCHANGED work

Return(j) == Moves(claim, claim', j, {"held"}, "returned") /\ UNCHANGED work

Next ==
  \E j \in Job : Hold(j) \/ Finish(j) \/ Earn(j) \/ Pay(j) \/ Return(j)

Spec == Init /\ [][Next]_vars
=============================================================================
