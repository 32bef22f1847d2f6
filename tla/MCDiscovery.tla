---------------------------- MODULE MCDiscovery ----------------------------
(* Networks of a few peers for Discovery.                                  *)
EXTENDS Discovery

CONSTANTS a, b

\* All on one network.  A peer's own broadcasts are left out; datagrams to
\* itself still happen when peers share a host.
Lan == [p \in Peer |-> Peer \ {p}]
NoBroadcast == [p \in Peer |-> {}]
NoBootstrap == [p \in Peer |-> {}]

OwnHost == [p \in Peer |-> p]
OneHost == [p \in Peer |-> a]

\* a is behind a NAT and bootstraps to b.
NatToPublic == [p \in Peer |-> IF p = a THEN {b} ELSE {}]
\* Two machines that point at each other.
BothWays == [p \in Peer |-> IF p = a THEN {b} ELSE {a}]
=============================================================================
