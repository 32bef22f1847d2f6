------------------------------ MODULE MCErrand ------------------------------
(* One job; a unit of time is five seconds.                                *)
EXTENDS Errand

\* One CLI, and the api harness after it.
MCCli == <<"claude">>

\* All configurations that differ: a worker that accepts no tasks, or only
\* simulates, does not look at its harnesses.
MCConfs ==
  {c \in Conf : ~c.accepts \/ c.simulate => c.clis = {} /\ c.api = "unset"}
=============================================================================
