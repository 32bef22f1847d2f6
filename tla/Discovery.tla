----------------------------- MODULE Discovery -----------------------------
(***************************************************************************)
(* The beacon sender and listener of every peer and the peer tables they   *)
(* maintain (agenttorrent/discovery.py), over a network that delays,       *)
(* reorders, duplicates and loses datagrams.                               *)
(*                                                                         *)
(* Time passes in ticks.  A peer beacons every Interval ticks, a datagram  *)
(* is under way for at most Transit ticks, and an entry of a table expires *)
(* when it is older than Ttl ticks (5 s, well below 5 s, and 30 s in the   *)
(* code).  A peer that starts again listens on a new TCP port: ports are   *)
(* numbered, and "port" stands for the address in a table.  Peers send well*)
(* formed beacons: those that others make up are left out.                 *)
(***************************************************************************)
EXTENDS Integers, FiniteSets

CONSTANTS
  Peer,        \* peer ids
  HostOf,      \* HostOf[p]: the host p runs on; a host has one discovery port
  Hears,       \* Hears[p]: the peers that p's broadcasts reach
  Bootstrap,   \* Bootstrap[p]: the hosts in p's bootstrap_peers
  NoEntry,     \* no row in a table
  Interval, Transit, Ttl,
  MaxPort,     \* bound on the number of times a peer starts
  MaxLosses    \* bound on the number of datagrams lost

ASSUME DiscoveryAssumption ==
  /\ Interval \in Nat \ {0}
  /\ Transit \in Nat
  /\ Ttl \in Nat
  /\ MaxPort \in Nat \ {0}
  /\ MaxLosses \in Nat
  /\ Hears \in [Peer -> SUBSET Peer]
  /\ DOMAIN HostOf = Peer
  /\ \A p \in Peer : \A h \in Bootstrap[p] : \E q \in Peer : HostOf[q] = h

VARIABLES
  up,      \* up[p]: p's process runs
  port,    \* port[p]: its TCP port, or the last one it had
  timer,   \* timer[p]: ticks until the send loop wakes up
  table,   \* table[p]: the peer table, an entry or none for each peer
  net,     \* the datagrams under way
  since,   \* since[p]: ticks since p started or stopped, up to Horizon
  losses   \* how many datagrams have been lost

vars == <<up, port, timer, table, net, since, losses>>

\* Beyond this the exact time since a start or a stop does not matter.
Horizon == Ttl + Interval * (MaxLosses + 1) + 2 * Transit + 1

Port == 1..MaxPort

Entry == [port : Port, age : 0..(Ttl + 1)]

\* The dict has no row, or a row.
ASSUME EntryAssumption == NoEntry \notin Entry

\* The hop of a beacon of the send loop is 0, that of a reply one more than
\* that of the beacon it answers.
Datagram == [to : Peer, from : Peer, port : Port, hop : Nat, age : 0..Transit]

Beacon(p, to, hop) ==
  [to |-> to, from |-> p, port |-> port[p], hop |-> hop, age |-> 0]

EmptyTable == [q \in Peer |-> NoEntry]

\* The peers of a host share its discovery port (SO_REUSEPORT): a datagram
\* sent to the host itself reaches one of them.
Residents(h) == {q \in Peer : HostOf[q] = h}

Init ==
  /\ up = [p \in Peer |-> TRUE]
  /\ port = [p \in Peer |-> 1]
  /\ timer = [p \in Peer |-> 0]
  /\ table = [p \in Peer |-> EmptyTable]
  /\ net = {}
  /\ since = [p \in Peer |-> 0]
  /\ losses = 0

-----------------------------------------------------------------------------
\* Mutation: one tick too long between two beacons.
SendLate(p) ==
  /\ up[p]
  /\ timer[p] = 0
  /\ net' = net \cup {Beacon(p, q, 0) : q \in Hears[p]}
  /\ timer' = [timer EXCEPT ![p] = Interval + 1]
  /\ UNCHANGED <<up, port, table, since, losses>>

\* One round of _send_loop.
Send(p) ==
  /\ up[p]
  /\ timer[p] = 0
  /\ \E pick \in [Bootstrap[p] -> Peer] :
       /\ \A h \in Bootstrap[p] : pick[h] \in Residents(h)
       /\ net' = net \cup {Beacon(p, q, 0) : q \in Hears[p]}
                     \cup {Beacon(p, pick[h], 0) : h \in Bootstrap[p]}
  /\ timer' = [timer EXCEPT ![p] = Interval]
  /\ UNCHANGED <<up, port, table, since, losses>>

\* _handle_beacon.  A peer's own beacon is dropped.
HandlesEcho(d) == FALSE   \* mutation
IsEcho(d) == d.from = d.to

\* The sender's row, old or none, becomes:
FirstRow(old, d) ==       \* mutation
  IF old = NoEntry THEN [port |-> d.port, age |-> 0] ELSE [old EXCEPT !.age = 0]
StaleRow(old, d) ==       \* mutation
  [port |-> d.port, age |-> IF old = NoEntry THEN 0 ELSE old.age]
NewRow(old, d) == [port |-> d.port, age |-> 0]

\* A sender without a row, even an expired one, gets a beacon in return.
AlwaysNew(old) == TRUE    \* mutation
NeverNew(old) == FALSE    \* mutation
IsNew(old) == old = NoEntry

Handle(d, left) ==
  LET p == d.to
      old == table[d.to][d.from]
  IN /\ up[p]
     /\ IF IsEcho(d)
        THEN net' = left /\ UNCHANGED table
        ELSE /\ table' = [table EXCEPT ![p][d.from] = NewRow(old, d)]
             /\ IF IsNew(old)
                THEN \E r \in Residents(HostOf[d.from]) :
                       net' = left \cup {Beacon(p, r, d.hop + 1)}
                ELSE net' = left
     /\ UNCHANGED <<up, port, timer, since, losses>>

Receive(d) == d \in net /\ Handle(d, net \ {d})

\* A second copy is still under way.
Duplicate(d) == d \in net /\ Handle(d, net)

\* Nobody listens any more.
Vanish(d) ==
  /\ d \in net
  /\ ~up[d.to]
  /\ net' = net \ {d}
  /\ UNCHANGED <<up, port, timer, table, since, losses>>

Lose(d) ==
  /\ d \in net
  /\ up[d.to]
  /\ losses < MaxLosses
  /\ net' = net \ {d}
  /\ losses' = losses + 1
  /\ UNCHANGED <<up, port, timer, table, since>>

Expired(e) == e # NoEntry /\ e.age > Ttl

\* peers() drops what has expired.  It is called by the local control
\* channel and by delegate, at any time or never.
Peers(p) ==
  /\ up[p]
  /\ table' = [table EXCEPT ![p] =
       [q \in Peer |-> IF Expired(table[p][q]) THEN NoEntry ELSE table[p][q]]]
  /\ UNCHANGED <<up, port, timer, net, since, losses>>

\* Mutation: rows are returned however old they are.
ListedRows(p) == {q \in Peer : table[p][q] # NoEntry}

\* What a call of peers() returns.
Listed(p) == {q \in Peer : table[p][q] # NoEntry /\ ~Expired(table[p][q])}

Start(p) ==
  /\ ~up[p]
  /\ port[p] < MaxPort
  /\ up' = [up EXCEPT ![p] = TRUE]
  /\ port' = [port EXCEPT ![p] = @ + 1]
  /\ timer' = [timer EXCEPT ![p] = 0]
  /\ table' = [table EXCEPT ![p] = EmptyTable]
  /\ since' = [since EXCEPT ![p] = 0]
  /\ UNCHANGED <<net, losses>>

Stop(p) ==
  /\ up[p]
  /\ up' = [up EXCEPT ![p] = FALSE]
  /\ table' = [table EXCEPT ![p] = EmptyTable]
  /\ since' = [since EXCEPT ![p] = 0]
  /\ UNCHANGED <<port, timer, net, losses>>

\* Time passes, unless a send loop is due or a datagram has to arrive.
Tick ==
  LET Older(n, bound) == IF n < bound THEN n + 1 ELSE bound IN
  /\ \A p \in Peer : up[p] => timer[p] > 0
  /\ \A d \in net : d.age < Transit
  /\ timer' = [p \in Peer |-> IF timer[p] > 0 THEN timer[p] - 1 ELSE 0]
  /\ table' = [p \in Peer |-> [q \in Peer |->
       IF table[p][q] = NoEntry THEN NoEntry
       ELSE [table[p][q] EXCEPT !.age = Older(@, Ttl + 1)]]]
  /\ net' = {[d EXCEPT !.age = @ + 1] : d \in net}
  /\ since' = [p \in Peer |-> Older(since[p], Horizon)]
  /\ UNCHANGED <<up, port, losses>>

Next ==
  \/ \E p \in Peer : Send(p) \/ Peers(p) \/ Start(p) \/ Stop(p)
  \/ \E d \in net : Receive(d) \/ Duplicate(d) \/ Vanish(d) \/ Lose(d)
  \/ Tick

Spec == Init /\ [][Next]_vars

\* The send loops run, what is not lost arrives, and time does not stop.
Fairness ==
  /\ \A p \in Peer : WF_vars(Send(p))
  /\ WF_vars(\E d \in net : Receive(d) \/ Vanish(d))
  /\ WF_vars(Tick)

FairSpec == Spec /\ Fairness
-----------------------------------------------------------------------------
(* Properties.                                                             *)

(* Every variable has its type.                                            *)
TypeOK ==
  /\ up \in [Peer -> BOOLEAN]
  /\ port \in [Peer -> Port]
  /\ timer \in [Peer -> 0..Interval]
  /\ table \in [Peer -> [Peer -> Entry \cup {NoEntry}]]
  /\ net \subseteq Datagram
  /\ since \in [Peer -> 0..Horizon]
  /\ losses \in 0..MaxLosses

\* q's beacons get to p without a reply.
Reaches(q, p) == p \in Hears[q] \/ \E h \in Bootstrap[q] : Residents(h) = {p}

(* What peers() returns is never oneself, and never a peer that has been   *)
(* down for longer than the TTL and the time a last beacon of it can be    *)
(* under way, even though rows are only dropped by peers() itself          *)
(* (discovery.py:113-118, 172).                                            *)
ListingIsFresh ==
  \A p \in Peer : \A q \in Listed(p) :
    /\ q # p
    /\ ~up[q] => since[q] <= Ttl + Transit

(* Whoever broadcasts or bootstraps to p is in p's listing, with its       *)
(* current TCP port, once both have been up for one beacon interval, one   *)
(* more for each datagram lost, and twice the time a datagram takes: a     *)
(* late beacon of an earlier life may overtake the first of the new one    *)
(* (discovery.py:193) but the table still "rebuilds itself"                *)
(* (discovery.py:5-7).                                                     *)
RebuiltInTime ==
  \A p, q \in Peer :
    LET due == Interval * (losses + 1) + 2 * Transit IN
      /\ p # q /\ Reaches(q, p)
      /\ up[p] /\ since[p] > due
      /\ up[q] /\ since[q] > due
      => q \in Listed(p) /\ table[p][q].port = port[q]

(* Replies do not cause replies for ever: a beacon is answered, the answer *)
(* may be answered, and each restart of a peer allows one more ("so two    *)
(* peers converge without a beacon loop", discovery.py:211-212).  It is    *)
(* about peers on hosts of their own: on a host that peers share           *)
(* (discovery.py:88-89), the reply goes to any of them.                    *)
NoBeaconLoop ==
  LET lives == {life \in Peer \X Port : life[2] \in 2..port[life[1]]} IN
    \A d \in net : d.hop <= 2 + Cardinality(lives)

\* p bootstraps to q, and neither shares its host's discovery port.
Bootstraps(p, q) ==
  /\ p # q /\ HostOf[q] \in Bootstrap[p]
  /\ Residents(HostOf[p]) = {p} /\ Residents(HostOf[q]) = {q}

Gone(p, q) == ~up[p] \/ ~up[q]

\* q has a row of p, so it has replied, and the reply is nowhere.
ReplyLost(p, q) ==
  /\ losses > 0
  /\ table[q][p] # NoEntry /\ q \notin Listed(p)
  /\ ~\E d \in net : d.from = q /\ d.to = p

(* Whenever a peer has no row of one that bootstraps to it, because it has *)
(* just started or has dropped the row, the other learns of it in return,  *)
(* even if nothing but the reply can reach that one and a beacon before    *)
(* gets lost: unless the reply itself does (README.md:32-34,               *)
(* discovery.py:192, 209-218).                                             *)
LearnsInReturn ==
  \A p, q \in Peer : Bootstraps(p, q) =>
    (up[p] /\ up[q] /\ table[q][p] = NoEntry
       ~> q \in Listed(p) \/ Gone(p, q) \/ ReplyLost(p, q))

-----------------------------------------------------------------------------
(* What the documentation says and the code does not do.                   *)

(* "Delegation then works in the NAT->public direction (the NAT'd peer can *)
(* offer tasks to the public one)" (README.md:120-124): as long as both    *)
(* run, the public peer is in the listing again and again.                 *)
CanDelegateAgain ==
  \A p, q \in Peer : Bootstraps(p, q) => []<>(q \in Listed(p) \/ Gone(p, q))
=============================================================================
