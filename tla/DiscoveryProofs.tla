--------------------------- MODULE DiscoveryProofs ---------------------------
(***************************************************************************)
(* How old what a peer lists can be, for every network, any loss, delay    *)
(* and duplication of datagrams, and any number of restarts.               *)
(***************************************************************************)
EXTENDS Discovery, FiniteSetTheorems, TLAPS

Rows == [Peer -> Entry \cup {NoEntry}]

(* No peer has a row for itself.                                           *)
NoSelf == \A p \in Peer : table[p][p] = NoEntry

(* A datagram of a peer that is down was sent before it went down.         *)
SentInTime == \A d \in net : ~up[d.from] => since[d.from] <= d.age

(* A row of a peer that is down has expired, or a datagram of it arrived   *)
(* not long after it went down.                                            *)
HeardInTime ==
  \A p, q \in Peer :
    ~up[q] /\ table[p][q] # NoEntry =>
      table[p][q].age = Ttl + 1 \/ since[q] <= table[p][q].age + Transit

(* The inductive invariant.                                                *)
IInv == TypeOK /\ NoSelf /\ SentInTime /\ HeardInTime

\* The bounds are natural numbers.
LEMMA Numbers ==
  /\ Interval \in Nat /\ Transit \in Nat /\ Ttl \in Nat /\ MaxPort \in Nat
  /\ MaxLosses \in Nat /\ Horizon \in Nat /\ 1 \in Port
<1>1. /\ Interval \in Nat /\ Transit \in Nat /\ Ttl \in Nat
      /\ MaxPort \in Nat /\ MaxPort # 0 /\ MaxLosses \in Nat
  BY DiscoveryAssumption
<1>2. Interval * (MaxLosses + 1) \in Nat
  BY <1>1
<1>3. Horizon \in Nat
  <2> DEFINE span == Interval * (MaxLosses + 1)
  <2>1. span \in Nat
    BY <1>2
  <2> HIDE DEF span
  <2>2. Ttl + span + 2 * Transit + 1 \in Nat
    BY <1>1, <2>1
  <2> QED
    BY <2>2 DEF span, Horizon
<1> QED
  BY <1>1, <1>3 DEF Port

\* What is known of the parts of the state.
LEMMA TypeFacts ==
  ASSUME TypeOK
  PROVE  /\ table \in [Peer -> Rows]
         /\ \A p, q \in Peer : table[p][q] = NoEntry \/ table[p][q] \in Entry
         /\ \A d \in net : /\ d \in Datagram /\ d.to \in Peer /\ d.from \in Peer
                           /\ d.port \in Port /\ d.hop \in Nat /\ d.age \in 0..Transit
         /\ \A p \in Peer : since[p] \in 0..Horizon /\ port[p] \in Port
BY DEF TypeOK, Rows, Datagram

LEMMA InitIInv == Init => IInv
<1> SUFFICES ASSUME Init PROVE IInv
  OBVIOUS
<1>1. TypeOK
  <2>1. 0 \in 0..Interval /\ 0 \in 0..Horizon /\ 0 \in 0..MaxLosses
    BY Numbers
  <2>2. EmptyTable \in Rows
    BY DEF EmptyTable, Rows
  <2> QED
    BY <2>1, <2>2, Numbers DEF Init, TypeOK, Rows
<1>2. NoSelf /\ SentInTime /\ HeardInTime
  BY DEF Init, NoSelf, SentInTime, HeardInTime, EmptyTable
<1> QED
  BY <1>1, <1>2 DEF IInv

-----------------------------------------------------------------------------
(* Datagrams.                                                              *)

\* A beacon of a peer that is up.
LEMMA BeaconFacts ==
  ASSUME TypeOK, NEW p \in Peer, NEW to \in Peer, NEW hop \in Nat
  PROVE  /\ Beacon(p, to, hop) \in Datagram
         /\ Beacon(p, to, hop).from = p
<1>1. port[p] \in Port /\ 0 \in 0..Transit
  BY Numbers, TypeFacts
<1> QED
  BY <1>1 DEF Beacon, Datagram

\* Only beacons of peers that are up are new.
LEMMA NetStep ==
  ASSUME IInv, UNCHANGED <<up, since>>,
         \A d \in net' : d \in net \/ (d \in Datagram /\ up[d.from])
  PROVE  net' \subseteq Datagram /\ SentInTime'
BY DEF IInv, TypeOK, SentInTime

LEMMA SendIInv ==
  ASSUME IInv, NEW p \in Peer, Send(p)
  PROVE  IInv'
<1>1. up[p] /\ UNCHANGED <<up, port, table, since, losses>>
  BY DEF Send
<1>2. \A d \in net' : d \in net \/ (d \in Datagram /\ up[d.from])
  <2>1. PICK pick \in [Bootstrap[p] -> Peer] :
          net' = net \cup {Beacon(p, q, 0) : q \in Hears[p]}
                     \cup {Beacon(p, pick[h], 0) : h \in Bootstrap[p]}
    BY DEF Send
  <2>2. \A q \in Peer : Beacon(p, q, 0) \in Datagram /\ Beacon(p, q, 0).from = p
    BY BeaconFacts DEF IInv
  <2>3. Hears[p] \subseteq Peer
    BY DiscoveryAssumption
  <2> QED
    BY <1>1, <2>1, <2>2, <2>3
<1>3. net' \subseteq Datagram /\ SentInTime'
  BY <1>1, <1>2, NetStep
<1>4. timer' \in [Peer -> 0..Interval]
  <2>1. Interval \in 0..Interval
    BY Numbers
  <2> QED
    BY <2>1 DEF Send, IInv, TypeOK
<1> QED
  BY <1>1, <1>3, <1>4 DEF IInv, TypeOK, NoSelf, HeardInTime

LEMMA HandleIInv ==
  ASSUME IInv, NEW d \in net, NEW left \in SUBSET net, Handle(d, left)
  PROVE  IInv'
<1> DEFINE p == d.to
           q == d.from
           row == [port |-> d.port, age |-> 0]
<1>1. TypeOK /\ NoSelf /\ SentInTime /\ HeardInTime
  BY DEF IInv
<1>2. /\ p \in Peer /\ q \in Peer /\ d.port \in Port /\ d.hop \in Nat /\ d.age \in 0..Transit
      /\ table \in [Peer -> Rows]
  BY <1>1, TypeFacts
<1>3. up[p] /\ UNCHANGED <<up, port, timer, since, losses>>
  BY DEF Handle
<1>4. row \in Entry
  BY <1>2, Numbers DEF Entry
<1>5. \/ UNCHANGED table
      \/ q # p /\ table' = [table EXCEPT ![p][q] = row]
  BY DEF Handle, IsEcho, NewRow
<1>6. table' \in [Peer -> Rows]
  BY <1>2, <1>4, <1>5 DEF Rows
<1>7. \A n \in net' : n \in net \/ (n \in Datagram /\ up[n.from])
  <2>1. \/ net' = left
        \/ \E r \in Residents(HostOf[q]) : net' = left \cup {Beacon(p, r, d.hop + 1)}
    BY DEF Handle
  <2>2. \A r \in Residents(HostOf[q]) :
          Beacon(p, r, d.hop + 1) \in Datagram /\ Beacon(p, r, d.hop + 1).from = p
    BY <1>1, <1>2, BeaconFacts DEF Residents
  <2> QED
    BY <1>3, <2>1, <2>2
<1>8. net' \subseteq Datagram /\ SentInTime'
  BY <1>3, <1>7, NetStep
<1>9. TypeOK'
  BY <1>1, <1>3, <1>6, <1>8 DEF TypeOK, Rows
<1>10. NoSelf'
  BY <1>1, <1>2, <1>5 DEF NoSelf, Rows
<1>11. HeardInTime'
  <2> SUFFICES ASSUME NEW a \in Peer, NEW b \in Peer, ~up[b], table'[a][b] # NoEntry
               PROVE  table'[a][b].age = Ttl + 1 \/ since[b] <= table'[a][b].age + Transit
    BY <1>3 DEF HeardInTime
  <2>1. CASE table'[a][b] = table[a][b]
    BY <1>1, <2>1 DEF HeardInTime
  <2>2. CASE table'[a][b] # table[a][b]
    <3>1. b = q /\ table'[a][b] = row
      BY <1>2, <1>5, <2>2 DEF Rows
    <3>2. since[b] <= d.age
      BY <1>1, <3>1 DEF SentInTime
    <3>3. since[b] \in Nat
      BY <1>1, TypeFacts, Numbers
    <3> QED
      BY <1>2, <3>1, <3>2, <3>3, Numbers
  <2> QED
    BY <2>1, <2>2
<1> QED
  BY <1>8, <1>9, <1>10, <1>11 DEF IInv

\* Datagrams that are no more.
LEMMA DropIInv ==
  ASSUME IInv, NEW d, Vanish(d) \/ Lose(d)
  PROVE  IInv'
<1>1. UNCHANGED <<up, port, timer, table, since>> /\ net' \subseteq net
  BY DEF Vanish, Lose
<1>2. losses' \in 0..MaxLosses
  BY Numbers DEF Vanish, Lose, IInv, TypeOK
<1> QED
  BY <1>1, <1>2 DEF IInv, TypeOK, NoSelf, SentInTime, HeardInTime

-----------------------------------------------------------------------------
(* Tables, starts and stops.                                               *)

LEMMA PeersIInv ==
  ASSUME IInv, NEW p \in Peer, Peers(p)
  PROVE  IInv'
<1>1. UNCHANGED <<up, port, timer, net, since, losses>>
  BY DEF Peers
<1>2. table \in [Peer -> Rows]
  BY TypeFacts DEF IInv
<1>3. \A a, b \in Peer : table'[a][b] \in {table[a][b], NoEntry}
  BY <1>2 DEF Peers, Rows
<1>4. table' \in [Peer -> Rows]
  BY <1>2 DEF Peers, Rows
<1>5. TypeOK' /\ SentInTime'
  BY <1>1, <1>4 DEF IInv, TypeOK, Rows, SentInTime
<1>6. NoSelf' /\ HeardInTime'
  BY <1>1, <1>3 DEF IInv, NoSelf, HeardInTime
<1> QED
  BY <1>5, <1>6 DEF IInv

LEMMA StartStopIInv ==
  ASSUME IInv, NEW p \in Peer, Start(p) \/ Stop(p)
  PROVE  IInv'
<1>1. /\ UNCHANGED <<net, losses>> /\ TypeOK
      /\ table' = [table EXCEPT ![p] = EmptyTable]
      /\ since' = [since EXCEPT ![p] = 0]
      /\ up' = [up EXCEPT ![p] = ~up[p]]
  BY DEF Start, Stop, IInv, TypeOK
<1>2. port' \in [Peer -> Port]
  BY Numbers DEF Start, Stop, IInv, TypeOK, Port
<1>3. timer' \in [Peer -> 0..Interval]
  <2>1. 0 \in 0..Interval
    BY Numbers
  <2> QED
    BY <2>1 DEF Start, Stop, IInv, TypeOK
<1>4. table \in [Peer -> Rows] /\ EmptyTable \in Rows
  BY <1>1, TypeFacts DEF EmptyTable, Rows
<1>5. table' \in [Peer -> Rows] /\ \A a, b \in Peer : table'[a][b] \in {table[a][b], NoEntry}
  BY <1>1, <1>4 DEF EmptyTable, Rows
<1>6. \A q \in Peer : q # p => up'[q] = up[q] /\ since'[q] = since[q]
  BY <1>1 DEF TypeOK
<1>7. since'[p] = 0 /\ since' \in [Peer -> 0..Horizon] /\ up' \in [Peer -> BOOLEAN]
  BY <1>1, Numbers DEF TypeOK
<1>8. TypeOK'
  BY <1>1, <1>2, <1>3, <1>5, <1>7 DEF TypeOK, Rows
<1>9. NoSelf'
  BY <1>5 DEF IInv, NoSelf
<1>10. SentInTime'
  <2> SUFFICES ASSUME NEW d \in net, ~up'[d.from]
               PROVE  since'[d.from] <= d.age
    BY <1>1 DEF SentInTime
  <2>1. d.from \in Peer /\ d.age \in 0..Transit
    BY <1>1, TypeFacts
  <2> QED
    BY <1>6, <1>7, <2>1, Numbers DEF IInv, SentInTime
<1>11. HeardInTime'
  <2> SUFFICES ASSUME NEW a \in Peer, NEW b \in Peer, ~up'[b], table'[a][b] # NoEntry
               PROVE  table'[a][b].age = Ttl + 1 \/ since'[b] <= table'[a][b].age + Transit
    BY DEF HeardInTime
  <2>1. table'[a][b] = table[a][b] /\ table[a][b] \in Entry
    BY <1>1, <1>5, TypeFacts
  <2>2. table[a][b].age \in Nat
    BY <2>1, Numbers DEF Entry
  <2>3. CASE b = p
    BY <1>7, <2>1, <2>2, <2>3, Numbers
  <2>4. CASE b # p
    BY <1>6, <2>1, <2>4 DEF IInv, HeardInTime
  <2> QED
    BY <2>3, <2>4
<1> QED
  BY <1>8, <1>9, <1>10, <1>11 DEF IInv

-----------------------------------------------------------------------------
(* Time.                                                                   *)

LEMMA TickIInv ==
  ASSUME IInv, Tick
  PROVE  IInv'
<1>1. TypeOK /\ NoSelf /\ SentInTime /\ HeardInTime /\ UNCHANGED <<up, port, losses>>
  BY DEF IInv, Tick
<1>2. \A d \in net : d.age < Transit
  BY DEF Tick
<1>3. net' = {[d EXCEPT !.age = @ + 1] : d \in net}
  BY DEF Tick
<1>4. since' = [p \in Peer |-> IF since[p] < Horizon THEN since[p] + 1 ELSE Horizon]
  BY DEF Tick
<1>5. table' = [p \in Peer |-> [q \in Peer |->
         IF table[p][q] = NoEntry THEN NoEntry
         ELSE [table[p][q] EXCEPT !.age = IF @ < Ttl + 1 THEN @ + 1 ELSE Ttl + 1]]]
  BY DEF Tick
<1>6. timer' \in [Peer -> 0..Interval]
  <2>1. timer' = [p \in Peer |-> IF timer[p] > 0 THEN timer[p] - 1 ELSE 0]
    BY DEF Tick
  <2>2. \A p \in Peer : timer[p] \in 0..Interval
    BY <1>1 DEF TypeOK
  <2>3. \A n \in 0..Interval : (IF n > 0 THEN n - 1 ELSE 0) \in 0..Interval
    BY Numbers
  <2> QED
    BY <2>1, <2>2, <2>3
<1>7. ASSUME NEW p \in Peer
      PROVE  since'[p] \in 0..Horizon /\ since'[p] <= since[p] + 1
  BY <1>1, <1>4, TypeFacts, Numbers
<1>8. since' \in [Peer -> 0..Horizon]
  BY <1>4, <1>7
<1>9. ASSUME NEW n \in net'
      PROVE  \E d \in net : /\ n \in Datagram /\ n.from = d.from /\ n.age = d.age + 1
  <2>1. PICK d \in net : n = [d EXCEPT !.age = @ + 1]
    BY <1>3
  <2>2. d \in Datagram /\ d.age \in 0..Transit /\ d.age < Transit
    BY <1>1, <1>2, TypeFacts
  <2>3. d.age + 1 \in 0..Transit
    BY <2>2, Numbers
  <2> QED
    BY <2>1, <2>2, <2>3 DEF Datagram
<1>10. ASSUME NEW p \in Peer, NEW q \in Peer
       PROVE  /\ table'[p][q] \in Entry \cup {NoEntry}
              /\ table[p][q] = NoEntry => table'[p][q] = NoEntry
              /\ table[p][q] # NoEntry =>
                   /\ table[p][q].age \in 0..(Ttl + 1)
                   /\ table'[p][q].age = IF table[p][q].age < Ttl + 1
                                         THEN table[p][q].age + 1 ELSE Ttl + 1
  <2>1. table'[p][q] = IF table[p][q] = NoEntry THEN NoEntry
          ELSE [table[p][q] EXCEPT !.age =
                  IF table[p][q].age < Ttl + 1 THEN table[p][q].age + 1 ELSE Ttl + 1]
    BY <1>5
  <2>2. CASE table[p][q] = NoEntry
    BY <2>1, <2>2
  <2>3. CASE table[p][q] # NoEntry
    <3>1. table[p][q] \in Entry
      BY <1>1, <2>3, TypeFacts
    <3>2. table[p][q].age \in 0..(Ttl + 1)
      BY <3>1 DEF Entry
    <3>3. (IF table[p][q].age < Ttl + 1 THEN table[p][q].age + 1 ELSE Ttl + 1) \in 0..(Ttl + 1)
      BY <3>2, Numbers
    <3> QED
      BY <2>1, <2>3, <3>1, <3>2, <3>3 DEF Entry
  <2> QED
    BY <2>2, <2>3
<1>11. TypeOK'
  <2>1. table' \in [Peer -> Rows]
    BY <1>5, <1>10 DEF Rows
  <2>2. net' \subseteq Datagram
    BY <1>9
  <2> QED
    BY <1>1, <1>6, <1>8, <2>1, <2>2 DEF TypeOK, Rows
<1>12. NoSelf'
  BY <1>1, <1>10 DEF NoSelf
<1>13. SentInTime'
  <2> SUFFICES ASSUME NEW n \in net', ~up[n.from]
               PROVE  since'[n.from] <= n.age
    BY <1>1 DEF SentInTime
  <2>1. PICK d \in net : n.from = d.from /\ n.age = d.age + 1
    BY <1>9
  <2>2. d.from \in Peer /\ d.age \in Nat /\ since[d.from] \in Nat /\ since[d.from] <= d.age
    BY <1>1, <2>1, TypeFacts, Numbers DEF SentInTime
  <2>3. since'[d.from] <= since[d.from] + 1 /\ since'[d.from] \in Nat
    BY <1>7, <2>2, Numbers
  <2> QED
    BY <2>1, <2>2, <2>3
<1>14. HeardInTime'
  <2> SUFFICES ASSUME NEW p \in Peer, NEW q \in Peer, ~up[q], table'[p][q] # NoEntry
               PROVE  table'[p][q].age = Ttl + 1 \/ since'[q] <= table'[p][q].age + Transit
    BY <1>1 DEF HeardInTime
  <2>1. table[p][q] # NoEntry
    BY <1>10
  <2>2. /\ table[p][q].age \in 0..(Ttl + 1)
        /\ table'[p][q].age = IF table[p][q].age < Ttl + 1
                              THEN table[p][q].age + 1 ELSE Ttl + 1
    BY <1>10, <2>1
  <2>3. table[p][q].age = Ttl + 1 \/ since[q] <= table[p][q].age + Transit
    BY <1>1, <2>1 DEF HeardInTime
  <2>4. since'[q] <= since[q] + 1 /\ since'[q] \in Nat /\ since[q] \in Nat
    BY <1>1, <1>7, TypeFacts, Numbers
  <2> QED
    BY <2>2, <2>3, <2>4, Numbers
<1> QED
  BY <1>11, <1>12, <1>13, <1>14 DEF IInv

-----------------------------------------------------------------------------
(* The theorems.                                                           *)

LEMMA NextIInv ==
  ASSUME IInv, [Next]_vars
  PROVE  IInv'
<1>1. ASSUME NEW p \in Peer, Send(p) \/ Peers(p) \/ Start(p) \/ Stop(p)
      PROVE  IInv'
  BY <1>1, SendIInv, PeersIInv, StartStopIInv
<1>2. ASSUME NEW d \in net, Receive(d) \/ Duplicate(d)
      PROVE  IInv'
  BY <1>2, HandleIInv DEF Receive, Duplicate
<1>3. ASSUME NEW d \in net, Vanish(d) \/ Lose(d)
      PROVE  IInv'
  BY <1>3, DropIInv
<1>4. CASE Tick
  BY <1>4, TickIInv
<1>5. CASE UNCHANGED vars
  BY <1>5 DEF vars, IInv, TypeOK, NoSelf, SentInTime, HeardInTime
<1> QED
  BY <1>1, <1>2, <1>3, <1>4, <1>5 DEF Next

(* The invariant holds always.                                             *)
THEOREM DiscoveryInvariant == Spec => []IInv
<1>1. IInv /\ [Next]_vars => IInv'
  BY NextIInv
<1> QED
  BY <1>1, InitIInv, PTL DEF Spec

(* Tables, timers and datagrams have their types; ages and ports stay      *)
(* within bounds (discovery.py:52-218).                                    *)
THEOREM DiscoveryTypeCorrect == Spec => []TypeOK
<1>1. IInv => TypeOK
  BY DEF IInv
<1> QED
  BY <1>1, DiscoveryInvariant, PTL

(* A call of peers() returns neither the peer itself nor one that has been *)
(* down for longer than the TTL and the time of a datagram, on any network *)
(* and whatever is lost or duplicated (discovery.py:113-118, 172).         *)
THEOREM ListingsAreFresh == Spec => []ListingIsFresh
<1>1. IInv => ListingIsFresh
  <2> SUFFICES ASSUME IInv, NEW p \in Peer, NEW q \in Listed(p)
               PROVE  q # p /\ (~up[q] => since[q] <= Ttl + Transit)
    BY DEF ListingIsFresh
  <2>1. q \in Peer /\ table[p][q] # NoEntry /\ ~(table[p][q].age > Ttl)
    BY DEF Listed, Expired
  <2>2. table[p][q].age \in 0..(Ttl + 1) /\ since[q] \in 0..Horizon
    BY <2>1, TypeFacts DEF IInv, Entry
  <2>3. q # p
    BY <2>1 DEF IInv, NoSelf
  <2>4. ASSUME ~up[q] PROVE since[q] <= Ttl + Transit
    <3>1. table[p][q].age = Ttl + 1 \/ since[q] <= table[p][q].age + Transit
      BY <2>1, <2>4 DEF IInv, HeardInTime
    <3> QED
      BY <2>1, <2>2, <3>1, Numbers
  <2> QED
    BY <2>3, <2>4
<1> QED
  BY <1>1, DiscoveryInvariant, PTL
-----------------------------------------------------------------------------
(* Replies to replies.                                                     *)

\* Every peer has a host, and so a discovery port, of its own.
OwnHosts == \A p, q \in Peer : HostOf[p] = HostOf[q] => p = q

\* Two datagrams are under way for no longer than a row is kept.
RowsOutliveReplies == 2 * Transit <= Ttl

\* How often p has lost its table.
Restarts(p) == (port[p] - 1) + (IF up[p] THEN 0 ELSE 1)

\* p has heard of q within the last n ticks.
Heard(p, q, n) == table[p][q] # NoEntry /\ table[p][q].age <= n

Missing(p, q, n) == IF Heard(p, q, n) THEN 0 ELSE 1

(* A beacon in reply is one more than the last, and fills a row: the sender*)
(* has heard of the receiver since, and a second reply finds both rows,    *)
(* unless one has been lost in a restart.                                  *)
RepliesFillRows ==
  \A d \in net :
    /\ d.from = d.to => d.hop = 0
    /\ d.hop + Missing(d.to, d.from, d.age + Transit) + Missing(d.from, d.to, d.age)
         <= 2 + Restarts(d.to) + Restarts(d.from)

\* The lives that NoBeaconLoop counts.
Lives == {life \in Peer \X Port : life[2] \in 2..port[life[1]]}

(* Only so many peers have started more than once.                         *)
LivesAreFinite == IsFiniteSet(Lives)

\* A peer that is down has heard of nobody.
DownIsDeaf == \A p, q \in Peer : ~up[p] => table[p][q] = NoEntry

ReplyInv == RepliesFillRows /\ LivesAreFinite /\ DownIsDeaf

LEMMA RestartsNat ==
  ASSUME TypeOK, NEW p \in Peer
  PROVE  Restarts(p) \in Nat /\ port[p] - 1 \in Nat
<1>1. port[p] \in Port /\ up[p] \in BOOLEAN
  BY DEF TypeOK
<1> QED
  BY <1>1, Numbers DEF Restarts, Port

\* Two rows are there or missing.
LEMMA MissingIs ==
  ASSUME NEW p, NEW q, NEW n
  PROVE  Missing(p, q, n) \in {0, 1} /\ (Missing(p, q, n) = 0 <=> Heard(p, q, n))
BY DEF Missing

\* The clause of RepliesFillRows for datagram d.
Filled(d) ==
  /\ d.from = d.to => d.hop = 0
  /\ d.hop + Missing(d.to, d.from, d.age + Transit) + Missing(d.from, d.to, d.age)
       <= 2 + Restarts(d.to) + Restarts(d.from)

\* Datagram e is datagram d after a step that has emptied the table of a
\* peer only in a restart.
LEMMA StillFilled ==
  ASSUME IInv, TypeOK', NEW d \in net, Filled(d), NEW e \in Datagram,
         e.to = d.to, e.from = d.from, e.hop = d.hop,
         \A p \in Peer : Restarts(p)' >= Restarts(p),
         Heard(d.to, d.from, d.age + Transit) =>
           Heard(d.to, d.from, e.age + Transit)' \/ Restarts(d.to)' > Restarts(d.to),
         Heard(d.from, d.to, d.age) =>
           Heard(d.from, d.to, e.age)' \/ Restarts(d.from)' > Restarts(d.from)
  PROVE  Filled(e)'
<1> DEFINE p == d.to
           q == d.from
           m1 == Missing(p, q, d.age + Transit)
           n1 == Missing(p, q, e.age + Transit)'
           m2 == Missing(q, p, d.age)
           n2 == Missing(q, p, e.age)'
<1>1. p \in Peer /\ q \in Peer /\ d.hop \in Nat
  BY TypeFacts DEF IInv
<1>2. /\ Restarts(p) \in Nat /\ Restarts(q) \in Nat
      /\ Restarts(p)' \in Nat /\ Restarts(q)' \in Nat
  <2>1. \A x \in Peer : Restarts(x) \in Nat
    BY RestartsNat DEF IInv
  <2>2. \A x \in Peer : Restarts(x)' \in Nat
    <3>1. \A x \in Peer : port'[x] \in Port /\ up'[x] \in BOOLEAN
      BY DEF TypeOK
    <3> QED
      BY <3>1, Numbers DEF Restarts, Port
  <2> QED
    BY <1>1, <2>1, <2>2
<1>3. /\ m1 \in {0, 1} /\ m2 \in {0, 1} /\ n1 \in {0, 1} /\ n2 \in {0, 1}
      /\ m1 = 0 <=> Heard(p, q, d.age + Transit)
      /\ m2 = 0 <=> Heard(q, p, d.age)
      /\ n1 = 0 <=> Heard(p, q, e.age + Transit)'
      /\ n2 = 0 <=> Heard(q, p, e.age)'
  BY DEF Missing
<1>4. Restarts(p)' >= Restarts(p) /\ Restarts(q)' >= Restarts(q)
  BY <1>1
<1>5. n1 <= m1 \/ (n1 <= m1 + 1 /\ Restarts(p)' >= Restarts(p) + 1)
  BY <1>2, <1>3
<1>6. n2 <= m2 \/ (n2 <= m2 + 1 /\ Restarts(q)' >= Restarts(q) + 1)
  BY <1>2, <1>3
<1>7. d.hop + m1 + m2 <= 2 + Restarts(p) + Restarts(q)
  BY DEF Filled
<1>8. d.hop + n1 + n2 <= 2 + Restarts(p)' + Restarts(q)'
  <2> HIDE DEF n1, n2, m1, m2, p, q
  <2> QED
    BY <1>1, <1>2, <1>3, <1>4, <1>5, <1>6, <1>7
<1>9. e.from = e.to => e.hop = 0
  BY DEF Filled
<1> QED
  BY <1>8, <1>9 DEF Filled

\* A step after which the datagrams under way were under way before, with
\* their ages, or are beacons of a send loop, and all rows are still there.
LEMMA StillReplies ==
  ASSUME IInv, TypeOK', ReplyInv, NEW new \in SUBSET Datagram,
         \A d \in net' : d \in net \/ d \in new,
         \A d \in new : Filled(d)',
         \A p \in Peer : Restarts(p)' >= Restarts(p),
         \A p, q \in Peer : \A n \in 0..(2 * Transit) :
           Heard(p, q, n) => Heard(p, q, n)' \/ Restarts(p)' > Restarts(p)
  PROVE  RepliesFillRows'
<1> SUFFICES ASSUME NEW d \in net' PROVE Filled(d)'
  BY DEF RepliesFillRows, Filled
<1>1. CASE d \in new
  BY <1>1
<1>2. CASE d \in net
  <2>1. Filled(d)
    BY <1>2 DEF ReplyInv, RepliesFillRows, Filled
  <2>2. d \in Datagram /\ d.to \in Peer /\ d.from \in Peer /\ d.age \in 0..Transit
    BY <1>2, TypeFacts DEF IInv
  <2>3. d.age \in 0..(2 * Transit) /\ d.age + Transit \in 0..(2 * Transit)
    BY <2>2, Numbers
  <2> QED
    BY <1>2, <2>1, <2>2, <2>3, StillFilled
<1> QED
  BY <1>1, <1>2

LEMMA SendReplies ==
  ASSUME IInv, IInv', ReplyInv, NEW p \in Peer, Send(p)
  PROVE  RepliesFillRows'
<1> DEFINE new == {d \in Datagram : d.hop = 0}
<1>1. TypeOK /\ TypeOK' /\ UNCHANGED <<up, port, table>>
  BY DEF IInv, Send
<1>2. ASSUME NEW d \in net' PROVE d \in net \/ d \in new
  <2>1. d \in Datagram
    BY <1>1 DEF TypeOK
  <2>2. d \in net \/ d.hop = 0
    BY DEF Send, Beacon
  <2> QED
    BY <2>1, <2>2
<1>3. ASSUME NEW d \in new PROVE Filled(d)'
  <2>1. /\ d.hop = 0 /\ Restarts(d.to)' \in Nat /\ Restarts(d.from)' \in Nat
    <3>1. d.to \in Peer /\ d.from \in Peer
      BY DEF Datagram
    <3> QED
      BY <1>1, <3>1, RestartsNat DEF Restarts
  <2>2. /\ Missing(d.to, d.from, d.age + Transit)' \in {0, 1}
        /\ Missing(d.from, d.to, d.age)' \in {0, 1}
    BY DEF Missing
  <2> QED
    BY <2>1, <2>2 DEF Filled
<1>4. \A q \in Peer : Restarts(q)' = Restarts(q) /\ Restarts(q) \in Nat
  BY <1>1, RestartsNat DEF Restarts
<1>5. \A x, y \in Peer : \A n \in 0..(2 * Transit) : Heard(x, y, n)' <=> Heard(x, y, n)
  BY <1>1 DEF Heard
<1> HIDE DEF new
<1>6. new \in SUBSET Datagram
  BY DEF new
<1> QED
  BY <1>1, <1>2, <1>3, <1>4, <1>5, <1>6, StillReplies

LEMMA HandleReplies ==
  ASSUME OwnHosts, IInv, IInv', ReplyInv, NEW d \in net, NEW left \in SUBSET net,
         Handle(d, left)
  PROVE  RepliesFillRows'
<1> DEFINE p == d.to
           q == d.from
           new == IF ~IsEcho(d) /\ IsNew(table[p][q]) THEN {Beacon(p, q, d.hop + 1)} ELSE {}
<1>1. TypeOK /\ TypeOK' /\ UNCHANGED <<up, port>>
  BY DEF IInv, Handle
<1>2. /\ p \in Peer /\ q \in Peer /\ d.hop \in Nat /\ d.age \in 0..Transit
      /\ table \in [Peer -> Rows]
  BY <1>1, TypeFacts
<1>3. \A n \in net' : n \in net \/ n \in new
  <2>1. Residents(HostOf[q]) = {q}
    BY <1>2 DEF OwnHosts, Residents
  <2> QED
    BY <2>1 DEF Handle
<1>4. \A x \in Peer : Restarts(x)' = Restarts(x) /\ Restarts(x) \in Nat
  BY <1>1, RestartsNat DEF Restarts
<1>5. \/ UNCHANGED table
      \/ table' = [table EXCEPT ![p][q] = [port |-> d.port, age |-> 0]]
  BY DEF Handle, NewRow
<1>6. ASSUME NEW x \in Peer, NEW y \in Peer, NEW n \in Nat, Heard(x, y, n)
      PROVE  Heard(x, y, n)'
  <2>1. \/ table'[x][y] = table[x][y]
        \/ table'[x][y] = [port |-> d.port, age |-> 0] /\ x = p /\ y = q
    BY <1>2, <1>5 DEF Rows
  <2>2. CASE table'[x][y] = table[x][y]
    BY <1>6, <2>2 DEF Heard
  <2>3. CASE table'[x][y] = [port |-> d.port, age |-> 0] /\ x = p /\ y = q
    <3>1. [port |-> d.port, age |-> 0] \in Entry
      BY <1>1, TypeFacts, Numbers DEF Entry
    <3> QED
      BY <2>3, <3>1, EntryAssumption DEF Heard
  <2> QED
    BY <2>1, <2>2, <2>3
<1>7. ASSUME ~IsEcho(d), IsNew(table[p][q]), NEW e, e = Beacon(p, q, d.hop + 1)
      PROVE  e \in Datagram /\ Filled(e)'
  <2>1. e \in Datagram /\ e.to = q /\ e.from = p /\ e.hop = d.hop + 1 /\ e.age = 0 /\ p # q
    BY <1>1, <1>2, <1>7, BeaconFacts DEF Beacon, IsEcho
  <2>2. Heard(p, q, 0)'
    <3>1. table'[p][q] = [port |-> d.port, age |-> 0]
      BY <1>2, <1>7 DEF Handle, NewRow, Rows
    <3>2. [port |-> d.port, age |-> 0] \in Entry
      BY <1>1, TypeFacts, Numbers DEF Entry
    <3> QED
      BY <3>1, <3>2, EntryAssumption DEF Heard
  <2>3. Heard(q, p, d.age) => Heard(q, p, Transit)'
    <3>1. Heard(q, p, d.age) => Heard(q, p, d.age)'
      BY <1>2, <1>6
    <3>2. Heard(q, p, d.age)' => Heard(q, p, Transit)'
      <4>1. table'[q][p] = NoEntry \/ table'[q][p] \in Entry
        BY <1>1, <1>2 DEF TypeOK
      <4> QED
        BY <1>2, <4>1, Numbers DEF Heard, Entry
    <3> QED
      BY <3>1, <3>2
  <2>4. d.hop + 1 + Missing(q, p, d.age) <= 2 + Restarts(p) + Restarts(q)
    <3>1. Missing(p, q, d.age + Transit) = 1
      BY <1>7 DEF Missing, Heard, IsNew
    <3>2. d.hop + Missing(p, q, d.age + Transit) + Missing(q, p, d.age)
            <= 2 + Restarts(p) + Restarts(q)
      BY DEF ReplyInv, RepliesFillRows
    <3>3. Missing(q, p, d.age) \in {0, 1}
      BY DEF Missing
    <3> QED
      BY <1>2, <1>4, <3>1, <3>2, <3>3
  <2>5. Missing(p, q, 0)' = 0 /\ Missing(q, p, Transit)' <= Missing(q, p, d.age)
    BY <2>2, <2>3 DEF Missing
  <2>6. /\ Missing(q, p, d.age) \in {0, 1} /\ Missing(q, p, Transit)' \in {0, 1}
        /\ Restarts(p)' = Restarts(p) /\ Restarts(q)' = Restarts(q)
        /\ Restarts(p) \in Nat /\ Restarts(q) \in Nat
    BY <1>2, <1>4 DEF Missing
  <2>7. 0 + Transit = Transit
    BY Numbers
  <2>8. e.hop + Missing(q, p, Transit)' + Missing(p, q, 0)' <= 2 + Restarts(q)' + Restarts(p)'
    BY <1>2, <2>1, <2>4, <2>5, <2>6
  <2> QED
    BY <2>1, <2>7, <2>8 DEF Filled
<1>8. new \in SUBSET Datagram /\ \A n \in new : Filled(n)'
  <2> QED
    BY <1>7
<1>9. \A x, y \in Peer : \A n \in 0..(2 * Transit) : Heard(x, y, n) => Heard(x, y, n)'
  BY <1>6, Numbers
<1> HIDE DEF new
<1> QED
  BY <1>1, <1>3, <1>4, <1>8, <1>9, StillReplies

LEMMA DropReplies ==
  ASSUME IInv, IInv', ReplyInv, NEW d, Vanish(d) \/ Lose(d)
  PROVE  RepliesFillRows'
BY DEF Vanish, Lose, ReplyInv, RepliesFillRows, Missing, Heard, Restarts

LEMMA PeersReplies ==
  ASSUME RowsOutliveReplies, IInv, IInv', ReplyInv, NEW p \in Peer, Peers(p)
  PROVE  RepliesFillRows'
<1>1. TypeOK /\ TypeOK' /\ UNCHANGED <<up, port, net>>
  BY DEF IInv, Peers
<1>2. table \in [Peer -> Rows]
  BY <1>1, TypeFacts
<1>3. \A x \in Peer : Restarts(x)' >= Restarts(x)
  <2>1. \A x \in Peer : Restarts(x)' = Restarts(x) /\ Restarts(x) \in Nat
    BY <1>1, RestartsNat DEF Restarts
  <2> QED
    BY <2>1
<1>4. ASSUME NEW x \in Peer, NEW y \in Peer, NEW n \in 0..(2 * Transit), Heard(x, y, n)
      PROVE  Heard(x, y, n)'
  <2>1. table[x][y] \in Entry /\ table[x][y].age <= Ttl
    <3>1. table[x][y] \in Entry
      BY <1>1, <1>4, TypeFacts DEF Heard
    <3> QED
      BY <1>4, <3>1, Numbers DEF Heard, Entry, RowsOutliveReplies
  <2>2. ~Expired(table[x][y])
    BY <2>1, Numbers DEF Expired, Entry
  <2>3. table'[x][y] = table[x][y]
    BY <1>2, <2>2 DEF Peers, Rows
  <2> QED
    BY <1>4, <2>3 DEF Heard
<1>5. {} \in SUBSET Datagram /\ \A d \in {} : Filled(d)'
  OBVIOUS
<1>6. \A d \in net' : d \in net \/ d \in {}
  BY <1>1
<1> QED
  BY <1>1, <1>3, <1>4, <1>5, <1>6, StillReplies

LEMMA StartStopReplies ==
  ASSUME IInv, IInv', ReplyInv, NEW p \in Peer, Start(p) \/ Stop(p)
  PROVE  RepliesFillRows'
<1>1. TypeOK /\ TypeOK' /\ UNCHANGED net /\ table \in [Peer -> Rows]
  <2>1. TypeOK /\ TypeOK' /\ UNCHANGED net
    BY DEF IInv, Start, Stop
  <2> QED
    BY <2>1, TypeFacts
<1>2. ASSUME NEW x \in Peer
      PROVE  /\ Restarts(x)' >= Restarts(x)
             /\ Restarts(x)' > Restarts(x) \/ x # p \/ Start(p)
             /\ x # p => table'[x] = table[x]
  <2>1. x # p => up'[x] = up[x] /\ port'[x] = port[x] /\ table'[x] = table[x]
    BY <1>1 DEF Start, Stop, TypeOK
  <2>2. Start(p) => ~up[p] /\ up'[p] /\ port'[p] = port[p] + 1
    BY <1>1 DEF Start, TypeOK
  <2>3. Stop(p) => up[p] /\ ~up'[p] /\ port'[p] = port[p]
    BY <1>1 DEF Stop, TypeOK
  <2>4. port[x] \in Nat /\ port[p] \in Nat
    BY <1>1, Numbers DEF TypeOK, Port
  <2> QED
    BY <2>1, <2>2, <2>3, <2>4 DEF Restarts
<1>3. ASSUME NEW x \in Peer, NEW y \in Peer, NEW n \in 0..(2 * Transit), Heard(x, y, n)
      PROVE  Heard(x, y, n)' \/ Restarts(x)' > Restarts(x)
  <2>1. CASE x = p
    <3>1. Start(p) => table[p][y] = NoEntry
      BY DEF Start, ReplyInv, DownIsDeaf
    <3> QED
      BY <1>2, <1>3, <2>1, <3>1 DEF Heard
  <2>2. CASE x # p
    BY <1>2, <1>3, <2>2 DEF Heard
  <2> QED
    BY <2>1, <2>2
<1>4. {} \in SUBSET Datagram /\ \A d \in {} : Filled(d)'
  OBVIOUS
<1>5. \A d \in net' : d \in net \/ d \in {}
  BY <1>1
<1> QED
  BY <1>1, <1>2, <1>3, <1>4, <1>5, StillReplies

LEMMA TickReplies ==
  ASSUME IInv, IInv', ReplyInv, Tick
  PROVE  RepliesFillRows'
<1>1. TypeOK /\ TypeOK' /\ UNCHANGED <<up, port>>
  BY DEF IInv, Tick
<1>2. \A x \in Peer : Restarts(x)' = Restarts(x) /\ Restarts(x) \in Nat
  BY <1>1, RestartsNat DEF Restarts
<1>3. ASSUME NEW x \in Peer, NEW y \in Peer, NEW n \in Nat, Heard(x, y, n)
      PROVE  Heard(x, y, n + 1)'
  <2>1. table[x][y] \in Entry
    BY <1>1, <1>3, TypeFacts DEF Heard
  <2>2. table'[x][y] = [table[x][y] EXCEPT !.age =
          IF table[x][y].age < Ttl + 1 THEN table[x][y].age + 1 ELSE Ttl + 1]
    BY <1>3 DEF Tick, Heard
  <2>3. table'[x][y].age <= n + 1
    BY <1>3, <2>1, <2>2, Numbers DEF Heard, Entry
  <2>4. table'[x][y] \in Entry
    <3>1. (IF table[x][y].age < Ttl + 1 THEN table[x][y].age + 1 ELSE Ttl + 1) \in 0..(Ttl + 1)
      BY <2>1, Numbers DEF Entry
    <3> QED
      BY <2>1, <2>2, <3>1 DEF Entry
  <2> QED
    BY <2>3, <2>4, EntryAssumption DEF Heard
<1> SUFFICES ASSUME NEW e \in net' PROVE Filled(e)'
  BY DEF RepliesFillRows, Filled
<1>4. PICK d \in net : e = [d EXCEPT !.age = @ + 1]
  BY DEF Tick
<1>5. /\ d \in Datagram /\ d.to \in Peer /\ d.from \in Peer /\ d.age \in Nat
      /\ e \in Datagram
  BY <1>1, <1>4, TypeFacts, Numbers DEF TypeOK
<1>6. e.to = d.to /\ e.from = d.from /\ e.hop = d.hop /\ e.age = d.age + 1
  BY <1>4, <1>5 DEF Datagram
<1>7. d.age + Transit \in Nat /\ e.age + Transit = (d.age + Transit) + 1
  BY <1>5, <1>6, Numbers
<1>8. Filled(d)
  BY DEF ReplyInv, RepliesFillRows, Filled
<1> QED
  BY <1>1, <1>2, <1>3, <1>5, <1>6, <1>7, <1>8, StillFilled

\* Starting adds one life.
LEMMA LivesStep ==
  ASSUME IInv, IInv', LivesAreFinite, [Next]_vars
  PROVE  LivesAreFinite'
<1>1. CASE UNCHANGED port
  BY <1>1 DEF LivesAreFinite, Lives
<1>2. ASSUME NEW p \in Peer, Start(p) PROVE LivesAreFinite'
  <2>1. port[p] \in Nat /\ port \in [Peer -> Port] /\ port' = [port EXCEPT ![p] = @ + 1]
    BY <1>2, Numbers DEF Start, IInv, TypeOK, Port
  <2>2. Lives' \subseteq Lives \cup {<<p, port[p] + 1>>}
    BY <2>1, Numbers DEF Lives, Port
  <2>3. IsFiniteSet(Lives \cup {<<p, port[p] + 1>>})
    BY FS_AddElement DEF LivesAreFinite
  <2> QED
    BY <2>2, <2>3, FS_Subset DEF LivesAreFinite
<1>3. UNCHANGED port \/ \E p \in Peer : Start(p)
  BY DEF Next, vars, Send, Peers, Stop, Receive, Duplicate, Handle, Vanish, Lose, Tick
<1> QED
  BY <1>1, <1>2, <1>3

LEMMA DeafStep ==
  ASSUME IInv, IInv', DownIsDeaf, [Next]_vars
  PROVE  DownIsDeaf'
<1> SUFFICES ASSUME NEW x \in Peer, NEW y \in Peer, ~up'[x]
             PROVE  table'[x][y] = NoEntry
  BY DEF DownIsDeaf
<1>1. TypeOK /\ table \in [Peer -> Rows] /\ (~up[x] => table[x][y] = NoEntry)
  BY TypeFacts DEF IInv, DownIsDeaf
<1>2. ASSUME NEW p \in Peer, Start(p) \/ Stop(p) PROVE table'[x][y] = NoEntry
  <2>1. up' = [up EXCEPT ![p] = ~up[p]] /\ table' = [table EXCEPT ![p] = EmptyTable]
    BY <1>1, <1>2 DEF Start, Stop, TypeOK
  <2> QED
    BY <1>1, <2>1 DEF EmptyTable, Rows, TypeOK
<1>3. ASSUME NEW p \in Peer, Send(p) \/ Peers(p) PROVE table'[x][y] = NoEntry
  BY <1>1, <1>3 DEF Send, Peers, Rows
<1>4. ASSUME NEW d \in net, Receive(d) \/ Duplicate(d) PROVE table'[x][y] = NoEntry
  <2>1. d.to \in Peer /\ d.from \in Peer
    BY <1>1, TypeFacts
  <2>2. up[d.to] /\ UNCHANGED up
    BY <1>4 DEF Receive, Duplicate, Handle
  <2>3. UNCHANGED table \/ table' = [table EXCEPT ![d.to][d.from] = [port |-> d.port, age |-> 0]]
    BY <1>4 DEF Receive, Duplicate, Handle, NewRow
  <2> QED
    BY <1>1, <2>1, <2>2, <2>3 DEF Rows
<1>5. ASSUME NEW d \in net, Vanish(d) \/ Lose(d) PROVE table'[x][y] = NoEntry
  BY <1>1, <1>5 DEF Vanish, Lose
<1>6. CASE Tick
  BY <1>1, <1>6 DEF Tick
<1>7. CASE UNCHANGED vars
  BY <1>1, <1>7 DEF vars
<1> QED
  BY <1>2, <1>3, <1>4, <1>5, <1>6, <1>7 DEF Next

LEMMA NextReplies ==
  ASSUME OwnHosts, RowsOutliveReplies, IInv, IInv', ReplyInv, [Next]_vars
  PROVE  ReplyInv'
<1>1. ASSUME NEW p \in Peer, Send(p) \/ Peers(p) \/ Start(p) \/ Stop(p)
      PROVE  RepliesFillRows'
  BY <1>1, SendReplies, PeersReplies, StartStopReplies
<1>2. ASSUME NEW d \in net, Receive(d) \/ Duplicate(d)
      PROVE  RepliesFillRows'
  BY <1>2, HandleReplies DEF Receive, Duplicate
<1>3. ASSUME NEW d \in net, Vanish(d) \/ Lose(d)
      PROVE  RepliesFillRows'
  BY <1>3, DropReplies
<1>4. ASSUME Tick PROVE RepliesFillRows'
  BY <1>4, TickReplies
<1>5. ASSUME UNCHANGED vars PROVE RepliesFillRows'
  BY <1>5 DEF vars, ReplyInv, RepliesFillRows, Missing, Heard, Restarts
<1>6. RepliesFillRows'
  BY <1>1, <1>2, <1>3, <1>4, <1>5 DEF Next
<1>7. LivesAreFinite' /\ DownIsDeaf'
  BY LivesStep, DeafStep DEF ReplyInv
<1> QED
  BY <1>6, <1>7 DEF ReplyInv

LEMMA InitReplies == Init => ReplyInv
<1> SUFFICES ASSUME Init PROVE ReplyInv
  OBVIOUS
<1>1. RepliesFillRows /\ DownIsDeaf
  BY DEF Init, RepliesFillRows, DownIsDeaf, EmptyTable
<1>2. LivesAreFinite
  <2>1. Lives = {}
    BY DEF Init, Lives
  <2> QED
    BY <2>1, FS_EmptySet DEF LivesAreFinite
<1> QED
  BY <1>1, <1>2 DEF ReplyInv

\* The restarts of two peers are among the lives of all.
LEMMA TwoPeersLives ==
  ASSUME TypeOK, LivesAreFinite, NEW p \in Peer, NEW q \in Peer, p # q
  PROVE  (port[p] - 1) + (port[q] - 1) <= Cardinality(Lives) /\ Cardinality(Lives) \in Nat
<1> DEFINE Of(x) == {life \in Peer \X Port : life[1] = x /\ life[2] \in 2..port[x]}
<1>1. \A x \in Peer : port[x] \in Port /\ port[x] \in Nat /\ port[x] >= 1
  BY Numbers DEF TypeOK, Port
<1>2. ASSUME NEW x \in Peer
      PROVE  IsFiniteSet(Of(x)) /\ Cardinality(Of(x)) = port[x] - 1
  <2> DEFINE f == [n \in 2..port[x] |-> <<x, n>>]
  <2>1. IsFiniteSet(2..port[x]) /\ Cardinality(2..port[x]) = port[x] - 1
    BY <1>1, FS_Interval
  <2>2. f \in Bijection(2..port[x], Of(x))
    <3>1. \A n \in 2..port[x] : <<x, n>> \in Of(x)
      BY <1>1, Numbers DEF Port
    <3>2. \A life \in Of(x) : life = <<x, life[2]>> /\ life[2] \in 2..port[x]
      OBVIOUS
    <3>3. f \in [2..port[x] -> Of(x)] /\ \A m, n \in 2..port[x] : f[m] = f[n] => m = n
      BY <3>1
    <3>4. \A life \in Of(x) : \E n \in 2..port[x] : f[n] = life
      BY <3>2
    <3> QED
      BY <3>3, <3>4 DEF Bijection, Injection, Surjection, IsInjective
  <2> QED
    BY <2>1, <2>2, FS_Bijection DEF ExistsBijection
<1>3. Of(p) \cap Of(q) = {}
  OBVIOUS
<1>4. Cardinality(Of(p) \cup Of(q)) = (port[p] - 1) + (port[q] - 1)
  <2>1. Cardinality(Of(p) \cap Of(q)) = 0
    BY <1>3, FS_EmptySet
  <2> HIDE DEF Of
  <2>2. Cardinality(Of(p) \cup Of(q))
          = Cardinality(Of(p)) + Cardinality(Of(q)) - Cardinality(Of(p) \cap Of(q))
    BY <1>2, FS_Union
  <2> QED
    BY <1>1, <1>2, <2>1, <2>2
<1>5. Of(p) \cup Of(q) \subseteq Lives
  BY DEF Lives
<1>6. Cardinality(Of(p) \cup Of(q)) <= Cardinality(Lives) /\ Cardinality(Lives) \in Nat
  BY <1>5, FS_Subset, FS_CardinalityType DEF LivesAreFinite
<1> QED
  BY <1>4, <1>6

(* Replies die out, however datagrams are delayed, repeated and lost and   *)
(* however often peers restart, if every peer has a host of its own and a  *)
(* row is kept for longer than a reply and its reply take: a beacon of a   *)
(* send loop is followed by at most two replies, and by one more for each  *)
(* restart (discovery.py:209-218).                                         *)
THEOREM RepliesDieOut ==
  ASSUME OwnHosts, RowsOutliveReplies
  PROVE  Spec => []NoBeaconLoop
<1>1. ReplyInv /\ IInv /\ IInv' /\ [Next]_vars => ReplyInv'
  BY NextReplies
<1>2. IInv /\ ReplyInv => NoBeaconLoop
  <2> SUFFICES ASSUME IInv, ReplyInv, NEW d \in net
               PROVE  d.hop <= 2 + Cardinality(Lives)
    BY DEF NoBeaconLoop, Lives
  <2> DEFINE p == d.to
             q == d.from
  <2>1. TypeOK /\ p \in Peer /\ q \in Peer /\ d.hop \in Nat
    BY TypeFacts DEF IInv
  <2>2. Filled(d) /\ LivesAreFinite
    BY DEF ReplyInv, RepliesFillRows, Filled
  <2>3. CASE p = q
    <3>1. Cardinality(Lives) \in Nat
      BY <2>2, FS_CardinalityType DEF LivesAreFinite
    <3> QED
      BY <2>2, <2>3, <3>1 DEF Filled
  <2>4. CASE p # q
    <3> DEFINE mp == Missing(p, q, d.age + Transit)
               mq == Missing(q, p, d.age)
    <3>1. mp \in {0, 1} /\ mq \in {0, 1}
      BY DEF Missing
    <3>2. (~up[p] => mp = 1) /\ (~up[q] => mq = 1)
      BY <2>1 DEF ReplyInv, DownIsDeaf, Missing, Heard
    <3>3. /\ port[p] - 1 \in Nat /\ port[q] - 1 \in Nat
          /\ Restarts(p) - mp <= port[p] - 1 /\ Restarts(q) - mq <= port[q] - 1
          /\ Restarts(p) \in Nat /\ Restarts(q) \in Nat
      BY <2>1, <3>1, <3>2, RestartsNat DEF Restarts
    <3>4. d.hop + mp + mq <= 2 + Restarts(p) + Restarts(q)
      BY <2>2 DEF Filled
    <3>5. (port[p] - 1) + (port[q] - 1) <= Cardinality(Lives) /\ Cardinality(Lives) \in Nat
      BY <2>1, <2>2, <2>4, TwoPeersLives
    <3> HIDE DEF p, q, mp, mq
    <3> QED
      BY <2>1, <3>1, <3>3, <3>4, <3>5
  <2> QED
    BY <2>3, <2>4
<1> QED
  BY <1>1, <1>2, InitReplies, DiscoveryInvariant, PTL DEF Spec

-----------------------------------------------------------------------------
(* Tables that rebuild themselves.                                         *)

\* A row is kept while as many beacons are lost as can be.
RowsOutliveLosses == Interval * (MaxLosses + 1) + Transit <= Ttl

\* The beacon that q's send loop sent to p k rounds ago.
Round(p, q, k) ==
  [to |-> p, from |-> q, port |-> port[q], hop |-> 0,
   age |-> (Interval - timer[q]) + Interval * k]

\* The rounds whose beacon is still under way.
Pending(p, q) == {k \in 0..Transit : Round(p, q, k) \in net}

\* p has been without a beacon of q's present life for at most n ticks.
Silent(p, q, n) ==
  \/ table[p][q] # NoEntry /\ table[p][q].port = port[q] /\ table[p][q].age <= n
  \/ since[p] <= n
  \/ since[q] <= n + Transit

\* Beside the time since the last round, there is one interval for each
\* beacon that has been lost or is under way.
Patience(p, q) ==
  Interval * (losses + Cardinality(Pending(p, q))) + (Interval - timer[q])

(* Nobody is without a beacon for longer than that.                        *)
HeardOfInTime ==
  \A p, q \in Peer :
    p # q /\ Reaches(q, p) /\ up[p] /\ up[q] => Silent(p, q, Patience(p, q))

(* A datagram of an earlier life was sent before this one began.           *)
OldLives ==
  \A d \in net : up[d.from] /\ d.port # port[d.from] => since[d.from] <= d.age

RebuildInv == HeardOfInTime /\ OldLives

\* Multiples of the interval.
LEMMA Multiples ==
  ASSUME NEW k \in Nat
  PROVE  /\ Interval * k \in Nat /\ k <= Interval * k
         /\ Interval * (k + 1) = Interval * k + Interval
         /\ \A m \in Nat : k <= m => Interval * k <= Interval * m
         /\ \A m \in Nat : Interval * k = Interval * m => k = m
<1>1. Interval \in Nat /\ Interval >= 1
  BY DiscoveryAssumption
<1>2. Interval * k \in Nat /\ k <= Interval * k
  BY <1>1
<1>3. Interval * (k + 1) = Interval * k + Interval
  BY <1>1
<1>4. ASSUME NEW m \in Nat, NEW i \in Nat, i <= m
      PROVE  Interval * m - Interval * i = Interval * (m - i) /\ m - i <= Interval * (m - i)
  <2>1. Interval * m - Interval * i = Interval * (m - i)
    BY <1>1, <1>4
  <2>2. m - i \in Nat
    BY <1>4
  <2>3. m - i <= Interval * (m - i)
    BY <1>1, <2>2
  <2> QED
    BY <2>1, <2>3
<1>5. ASSUME NEW m \in Nat PROVE k <= m => Interval * k <= Interval * m
  BY <1>1, <1>4
<1>6. ASSUME NEW m \in Nat, Interval * k = Interval * m PROVE k = m
  BY <1>1, <1>4, <1>6
<1> QED
  BY <1>2, <1>3, <1>5, <1>6

LEMMA RoundsAreFinite == IsFiniteSet(0..Transit)
<1>1. 0 \in Int /\ Transit \in Int
  BY Numbers
<1> QED
  BY <1>1, FS_Interval

LEMMA RoundFacts ==
  ASSUME TypeOK, NEW p \in Peer, NEW q \in Peer
  PROVE  /\ timer[q] \in 0..Interval /\ losses \in 0..MaxLosses /\ losses \in Nat
         /\ IsFiniteSet(Pending(p, q)) /\ Cardinality(Pending(p, q)) \in Nat
         /\ Patience(p, q) \in Nat
         /\ \A k \in Nat : Round(p, q, k) \in net => k \in Pending(p, q)
<1>1. timer[q] \in 0..Interval /\ losses \in 0..MaxLosses /\ losses \in Nat
  BY Numbers DEF TypeOK
<1>2. IsFiniteSet(Pending(p, q)) /\ Cardinality(Pending(p, q)) \in Nat
  <2>1. IsFiniteSet(0..Transit)
    BY RoundsAreFinite
  <2>2. Pending(p, q) \subseteq 0..Transit
    BY DEF Pending
  <2> QED
    BY <2>1, <2>2, FS_Subset, FS_CardinalityType
<1>3. Patience(p, q) \in Nat
  <2> DEFINE n == losses + Cardinality(Pending(p, q))
  <2>1. n \in Nat
    BY <1>1, <1>2
  <2>2. Interval * n \in Nat
    BY <2>1, Multiples
  <2> HIDE DEF n
  <2>3. Interval * n + (Interval - timer[q]) \in Nat
    BY <1>1, <2>2, Numbers
  <2> QED
    BY <2>3 DEF n, Patience
<1>4. ASSUME NEW k \in Nat, Round(p, q, k) \in net PROVE k \in Pending(p, q)
  <2>1. Round(p, q, k).age \in 0..Transit
    BY <1>4, TypeFacts
  <2>2. (Interval - timer[q]) + Interval * k <= Transit
    BY <2>1, Numbers DEF Round
  <2>3. k <= Transit
    <3>1. k <= Interval * k /\ Interval * k \in Nat
      BY Multiples
    <3> QED
      BY <1>1, <2>2, <3>1, Numbers
  <2> QED
    BY <1>4, <2>3, Numbers DEF Pending
<1> QED
  BY <1>1, <1>2, <1>3, <1>4

\* Beacons that are under way are not old, so patience has a limit.
LEMMA PatienceEnds ==
  ASSUME TypeOK, NEW p \in Peer, NEW q \in Peer
  PROVE  Patience(p, q) <= Interval * (losses + 1) + Transit
<1> DEFINE c == Cardinality(Pending(p, q))
           t == timer[q]
<1>1. t \in 0..Interval /\ losses \in Nat /\ c \in Nat /\ Interval \in Nat /\ Transit \in Nat
  BY RoundFacts, Numbers
<1>2. CASE c = 0
  <2>1. Interval * (losses + c) = Interval * losses /\ Interval * losses \in Nat
    BY <1>1, <1>2, Multiples
  <2>2. Interval * (losses + 1) = Interval * losses + Interval
    BY <1>1, Multiples
  <2> QED
    BY <1>1, <2>1, <2>2 DEF Patience
<1>3. CASE c # 0
  <2>1. PICK k \in Pending(p, q) : k >= c - 1
    <3> SUFFICES ASSUME \A k \in Pending(p, q) : k < c - 1 PROVE FALSE
      <4>1. Pending(p, q) \subseteq Nat
        BY Numbers DEF Pending
      <4> QED
        BY <1>1, <4>1
    <3>1. Pending(p, q) \subseteq 0..(c - 2)
      <4>1. Pending(p, q) \subseteq Nat
        BY Numbers DEF Pending
      <4> QED
        BY <1>1, <4>1
    <3>2. IsFiniteSet(0..(c - 2)) /\ Cardinality(0..(c - 2)) <= c - 1
      <4> HIDE DEF c
      <4>1. 0 \in Int /\ c - 2 \in Int
        BY <1>1
      <4>2. /\ IsFiniteSet(0..(c - 2))
            /\ Cardinality(0..(c - 2)) = IF 0 > c - 2 THEN 0 ELSE (c - 2) - 0 + 1
        BY <4>1, FS_Interval
      <4> QED
        BY <1>1, <1>3, <4>2
    <3>3. c <= Cardinality(0..(c - 2)) /\ Cardinality(0..(c - 2)) \in Nat
      BY <3>1, <3>2, FS_Subset, FS_CardinalityType
    <3> QED
      BY <1>1, <3>2, <3>3
  <2>2. k \in Nat /\ (Interval - t) + Interval * k <= Transit
    <3>1. Round(p, q, k) \in net /\ k \in Nat
      BY Numbers DEF Pending
    <3>2. Round(p, q, k).age \in 0..Transit
      BY <3>1, TypeFacts
    <3> QED
      BY <3>1, <3>2, Numbers DEF Round
  <2>3. c - 1 \in Nat /\ losses + c = (losses + 1) + (c - 1)
    BY <1>1, <1>3
  <2>4. Interval * (c - 1) <= Interval * k /\ Interval * k \in Nat /\ Interval * (c - 1) \in Nat
    BY <2>1, <2>2, <2>3, Multiples
  <2>5. Interval * (losses + c) = Interval * (losses + 1) + Interval * (c - 1)
    BY <1>1, <2>3
  <2>6. Interval * (losses + 1) \in Nat
    BY <1>1, Multiples
  <2> QED
    BY <1>1, <2>2, <2>4, <2>5, <2>6 DEF Patience
<1> QED
  BY <1>2, <1>3

LEMMA PatienceInTtl ==
  ASSUME RowsOutliveLosses, TypeOK, NEW p \in Peer, NEW q \in Peer
  PROVE  Patience(p, q) <= Ttl /\ Patience(p, q) \in Nat
<1>1. losses \in 0..MaxLosses /\ Patience(p, q) \in Nat
  BY RoundFacts
<1>2. losses + 1 \in Nat /\ MaxLosses + 1 \in Nat /\ losses + 1 <= MaxLosses + 1
  BY <1>1, Numbers
<1>3. /\ Interval * (losses + 1) <= Interval * (MaxLosses + 1)
      /\ Interval * (losses + 1) \in Nat /\ Interval * (MaxLosses + 1) \in Nat
  BY <1>2, Multiples
<1>4. Patience(p, q) <= Interval * (losses + 1) + Transit
  BY PatienceEnds
<1> QED
  BY <1>1, <1>3, <1>4, Numbers DEF RowsOutliveLosses

\* A step of others: no round of q begins, and a beacon that is no longer
\* under way to p has been lost.
LEMMA PatienceGrows ==
  ASSUME TypeOK, TypeOK', NEW p \in Peer, NEW q \in Peer,
         timer'[q] = timer[q], port'[q] = port[q],
         \/ losses' = losses /\ \A k \in Pending(p, q) : Round(p, q, k) \in net'
         \/ losses' = losses + 1 /\ \E d \in net : net' = net \ {d}
  PROVE  Patience(p, q) <= Patience(p, q)' /\ Patience(p, q)' \in Nat
<1> DEFINE c == Cardinality(Pending(p, q))
           e == Cardinality(Pending(p, q)')
<1>1. \A k : Round(p, q, k)' = Round(p, q, k)
  BY DEF Round
<1>2. Pending(p, q)' = {k \in 0..Transit : Round(p, q, k) \in net'}
  BY <1>1 DEF Pending
<1>3. /\ IsFiniteSet(Pending(p, q)) /\ IsFiniteSet(Pending(p, q)') /\ losses \in Nat
      /\ c \in Nat /\ e \in Nat /\ timer[q] \in 0..Interval
  <2>1. IsFiniteSet(0..Transit) /\ Pending(p, q)' \subseteq 0..Transit
    <3>1. IsFiniteSet(0..Transit)
      BY RoundsAreFinite
    <3> QED
      BY <1>2, <3>1
  <2>2. IsFiniteSet(Pending(p, q)') /\ e \in Nat
    BY <2>1, FS_Subset, FS_CardinalityType
  <2> QED
    BY <2>2, RoundFacts
<1>4. losses + c <= losses' + e /\ losses' \in Nat
  <2>1. CASE losses' = losses /\ \A k \in Pending(p, q) : Round(p, q, k) \in net'
    <3>1. Pending(p, q) \subseteq Pending(p, q)'
      BY <1>2, <2>1 DEF Pending
    <3>2. c <= e
      BY <1>3, <3>1, FS_Subset
    <3> QED
      BY <1>3, <2>1, <3>2
  <2>2. CASE losses' = losses + 1 /\ \E d \in net : net' = net \ {d}
    <3>1. PICK d \in net : net' = net \ {d}
      BY <2>2
    <3>2. \A j, k \in Pending(p, q) : Round(p, q, j) = d /\ Round(p, q, k) = d => j = k
      <4> SUFFICES ASSUME NEW j \in Pending(p, q), NEW k \in Pending(p, q),
                          Round(p, q, j) = Round(p, q, k)
                   PROVE  j = k
        OBVIOUS
      <4>1. j \in Nat /\ k \in Nat
        BY Numbers DEF Pending
      <4>2. Interval * j \in Nat /\ Interval * k \in Nat
        BY <4>1, Multiples
      <4>3. (Interval - timer[q]) + Interval * j = (Interval - timer[q]) + Interval * k
        BY DEF Round
      <4>4. Interval * j = Interval * k
        BY <1>3, <4>2, <4>3, Numbers
      <4> QED
        BY <4>1, <4>4, Multiples
    <3>3. PICK i : \A k \in Pending(p, q) : Round(p, q, k) = d => k = i
      BY <3>2
    <3>4. Pending(p, q) \ {i} \subseteq Pending(p, q)'
      BY <1>2, <3>1, <3>3 DEF Pending
    <3>5. c - 1 <= Cardinality(Pending(p, q) \ {i})
      <4>1. Cardinality(Pending(p, q) \ {i}) = IF i \in Pending(p, q) THEN c - 1 ELSE c
        BY <1>3, FS_RemoveElement
      <4> HIDE DEF c
      <4> QED
        BY <1>3, <4>1
    <3>6. Cardinality(Pending(p, q) \ {i}) <= e /\ Cardinality(Pending(p, q) \ {i}) \in Nat
      BY <1>3, <3>4, FS_Subset, FS_CardinalityType
    <3> HIDE DEF c, e
    <3> QED
      BY <1>3, <2>2, <3>5, <3>6
  <2> QED
    BY <2>1, <2>2
<1>5. Interval * (losses + c) <= Interval * (losses' + e)
  BY <1>3, <1>4, Multiples
<1>6. Interval * (losses + c) \in Nat /\ Interval * (losses' + e) \in Nat
  BY <1>3, <1>4, Multiples
<1>7. /\ Patience(p, q) = Interval * (losses + c) + (Interval - timer[q])
      /\ Patience(p, q)' = Interval * (losses' + e) + (Interval - timer[q])
  BY DEF Patience
<1> HIDE DEF c, e
<1> QED
  BY <1>3, <1>5, <1>6, <1>7, Numbers

\* What p knows of q is as before, and patience has not shrunk.
LEMMA StillHeardOf ==
  ASSUME TypeOK, NEW p \in Peer, NEW q \in Peer, NEW n \in Nat, NEW m \in Nat, n <= m,
         Silent(p, q, n), table'[p][q] = table[p][q], port'[q] = port[q],
         since'[p] = since[p], since'[q] = since[q]
  PROVE  Silent(p, q, m)'
<1>1. table[p][q] # NoEntry => table[p][q].age \in Nat
  BY TypeFacts, Numbers DEF Entry
<1>2. since[p] \in Nat /\ since[q] \in Nat /\ Transit \in Nat
  BY TypeFacts, Numbers
<1> QED
  BY <1>1, <1>2 DEF Silent

\* A pair that is up and that a step does not concern.
LEMMA OtherPair ==
  ASSUME IInv, IInv', HeardOfInTime, NEW p \in Peer, NEW q \in Peer,
         p # q, Reaches(q, p), up[p], up[q],
         table'[p][q] = table[p][q], port'[q] = port[q], timer'[q] = timer[q],
         since'[p] = since[p], since'[q] = since[q],
         \/ losses' = losses /\ \A k \in Pending(p, q) : Round(p, q, k) \in net'
         \/ losses' = losses + 1 /\ \E d \in net : net' = net \ {d}
  PROVE  Silent(p, q, Patience(p, q))'
<1>1. Silent(p, q, Patience(p, q))
  BY DEF HeardOfInTime
<1>2. Patience(p, q) <= Patience(p, q)' /\ Patience(p, q)' \in Nat
  BY PatienceGrows DEF IInv
<1>3. Patience(p, q) \in Nat
  BY RoundFacts DEF IInv
<1>4. ASSUME NEW n \in Nat, n = Patience(p, q)' PROVE Silent(p, q, n)'
  BY <1>1, <1>2, <1>3, <1>4, StillHeardOf DEF IInv
<1> QED
  BY <1>2, <1>4 DEF Silent

LEMMA PatienceNat == TypeOK => \A p, q \in Peer : Patience(p, q) \in Nat
BY RoundFacts

LEMMA PatienceNatNext == TypeOK' => \A p, q \in Peer : Patience(p, q)' \in Nat
<1>1. (TypeOK => \A p, q \in Peer : Patience(p, q) \in Nat)'
  BY PatienceNat, PTL
<1> QED
  BY <1>1

LEMMA PendingNext ==
  TypeOK' => \A p, q \in Peer :
    /\ \A k \in Nat : Round(p, q, k)' \in net' => k \in Pending(p, q)'
    /\ IsFiniteSet(Pending(p, q)') /\ Cardinality(Pending(p, q)') \in Nat
<1>1. TypeOK => \A p, q \in Peer :
        /\ \A k \in Nat : Round(p, q, k) \in net => k \in Pending(p, q)
        /\ IsFiniteSet(Pending(p, q)) /\ Cardinality(Pending(p, q)) \in Nat
  BY RoundFacts
<1>2. (TypeOK => \A p, q \in Peer :
        /\ \A k \in Nat : Round(p, q, k) \in net => k \in Pending(p, q)
        /\ IsFiniteSet(Pending(p, q)) /\ Cardinality(Pending(p, q)) \in Nat)'
  BY <1>1, PTL
<1> QED
  BY <1>2

\* Nothing can be expected yet of one that has just started.
LEMMA JustStarted ==
  ASSUME TypeOK', NEW p \in Peer, NEW q \in Peer,
         since'[p] = 0 \/ since'[q] <= Transit
  PROVE  Silent(p, q, Patience(p, q))'
<1>1. Patience(p, q)' \in Nat /\ Transit \in Nat
  BY PatienceNatNext, Numbers
<1>2. since'[q] \in Nat
  BY Numbers DEF TypeOK
<1> QED
  BY <1>1, <1>2 DEF Silent

\* A beacon of q's present life has arrived.
LEMMA JustHeardOf ==
  ASSUME TypeOK', NEW p \in Peer, NEW q \in Peer,
         table'[p][q] = [port |-> port'[q], age |-> 0]
  PROVE  Silent(p, q, Patience(p, q))'
<1>1. Patience(p, q)' \in Nat
  BY PatienceNatNext
<1>2. [port |-> port'[q], age |-> 0] \in Entry
  BY Numbers DEF TypeOK, Entry
<1> QED
  BY <1>1, <1>2, EntryAssumption DEF Silent

\* Old lives after a step in which new datagrams have the present port.
LEMMA StillOld ==
  ASSUME OldLives, UNCHANGED <<up, since, port>>,
         \A d \in net' : d \in net \/ d.port = port[d.from]
  PROVE  OldLives'
BY DEF OldLives

LEMMA SendRebuild ==
  ASSUME IInv, IInv', RebuildInv, NEW x \in Peer, Send(x)
  PROVE  RebuildInv'
<1>1. /\ TypeOK /\ TypeOK' /\ UNCHANGED <<up, port, table, since, losses>>
      /\ timer[x] = 0 /\ timer' = [timer EXCEPT ![x] = Interval]
  BY DEF IInv, Send
<1>2. PICK pick \in [Bootstrap[x] -> Peer] :
        /\ \A h \in Bootstrap[x] : pick[h] \in Residents(h)
        /\ net' = net \cup {Beacon(x, q, 0) : q \in Hears[x]}
                      \cup {Beacon(x, pick[h], 0) : h \in Bootstrap[x]}
  BY DEF Send
<1>3. OldLives'
  <2>1. \A d \in net' : d \in net \/ d.port = port[d.from]
    BY <1>2 DEF Beacon
  <2> QED
    BY <1>1, <2>1, StillOld DEF RebuildInv
<1>4. ASSUME NEW p \in Peer, NEW q \in Peer, p # q, Reaches(q, p)', up'[p], up'[q]
      PROVE  Silent(p, q, Patience(p, q))'
  <2>1. Reaches(q, p) /\ up[p] /\ up[q]
    BY <1>1, <1>4 DEF Reaches, Residents
  <2>2. CASE q # x
    <3>1. timer'[q] = timer[q]
      BY <1>1, <2>2 DEF TypeOK
    <3>2. \A k \in Pending(p, q) : Round(p, q, k) \in net'
      BY <1>2 DEF Pending
    <3> QED
      BY <1>1, <1>4, <2>1, <3>1, <3>2, OtherPair DEF RebuildInv
  <2>3. CASE q = x
    <3> DEFINE old == Pending(p, q)
               new == Pending(p, q)'
               c == Cardinality(old)
               e == Cardinality(new)
    <3>1. timer'[q] = Interval /\ timer[q] = 0
      BY <1>1, <2>3 DEF TypeOK
    <3>2. Beacon(q, p, 0) \in net'
      <4>1. CASE p \in Hears[q]
        BY <1>2, <2>3, <4>1
      <4>2. ASSUME NEW h \in Bootstrap[q], Residents(h) = {p} PROVE Beacon(q, p, 0) \in net'
        <5>1. pick[h] = p
          BY <1>2, <2>3, <4>2
        <5> QED
          BY <1>2, <2>3, <4>2, <5>1
      <4> QED
        BY <2>1, <4>1, <4>2 DEF Reaches
    <3>3. Round(p, q, 0)' = Beacon(q, p, 0)
      <4>1. (Interval - Interval) + Interval * 0 = 0
        BY Numbers
      <4> QED
        BY <1>1, <3>1, <4>1 DEF Round, Beacon
    <3>4. 0 \in new
      <4>1. Round(p, q, 0)' \in net'
        BY <3>2, <3>3
      <4> QED
        BY <4>1, Numbers DEF Pending
    <3>5. ASSUME NEW k \in old PROVE k + 1 \in new \ {0}
      <4>1. k \in Nat /\ Round(p, q, k) \in net
        BY Numbers DEF Pending
      <4>2. (Interval - 0) + Interval * k = (Interval - Interval) + Interval * (k + 1)
        BY <4>1, Multiples, Numbers
      <4>3. Round(p, q, k + 1)' = Round(p, q, k)
        BY <1>1, <3>1, <4>2 DEF Round
      <4>4. Round(p, q, k + 1)' \in net'
        BY <1>2, <4>1, <4>3
      <4>5. k + 1 \in Nat /\ k + 1 # 0
        BY <4>1
      <4> QED
        BY <1>1, <4>4, <4>5, PendingNext
    <3>6. c + 1 <= e /\ c \in Nat /\ e \in Nat
      <4> DEFINE next == [k \in old |-> k + 1]
      <4>1. IsFiniteSet(old) /\ c \in Nat /\ IsFiniteSet(new) /\ e \in Nat
        BY <1>1, RoundFacts, PendingNext
      <4>2. next \in Injection(old, new \ {0})
        <5>1. next \in [old -> new \ {0}]
          BY <3>5
        <5>2. \A i, k \in old : next[i] = next[k] => i = k
          <6>1. old \subseteq Nat
            BY Numbers DEF Pending
          <6> QED
            BY <6>1
        <5> QED
          BY <5>1, <5>2 DEF Injection, IsInjective
      <4>3. IsFiniteSet(new \ {0}) /\ Cardinality(new \ {0}) = e - 1
        BY <3>4, <4>1, FS_RemoveElement
      <4>4. c <= Cardinality(new \ {0})
        BY <4>2, <4>3, FS_Injection
      <4> HIDE DEF old, new, c, e
      <4> QED
        BY <4>1, <4>3, <4>4
    <3>7. /\ Interval * (losses + c + 1) <= Interval * (losses + e)
          /\ Interval * (losses + c + 1) = Interval * (losses + c) + Interval
          /\ Interval * (losses + c) \in Nat /\ Interval * (losses + e) \in Nat
      <4> HIDE DEF old, new, c, e
      <4>1. losses \in Nat /\ losses + c \in Nat /\ losses + c + 1 \in Nat /\ losses + e \in Nat
        BY <1>1, <3>6, RoundFacts
      <4>2. losses + c + 1 <= losses + e
        BY <3>6, <4>1
      <4> QED
        BY <4>1, <4>2, Multiples
    <3>8. /\ Patience(p, q) = Interval * (losses + c) + (Interval - 0)
          /\ Patience(p, q)' = Interval * (losses + e) + (Interval - Interval)
      BY <1>1, <3>1 DEF Patience
    <3>9. Patience(p, q) <= Patience(p, q)' /\ Patience(p, q) \in Nat /\ Patience(p, q)' \in Nat
      <4> HIDE DEF old, new, c, e
      <4> QED
        BY <3>7, <3>8, Numbers
    <3>10. Silent(p, q, Patience(p, q))
      BY <1>4, <2>1 DEF RebuildInv, HeardOfInTime
    <3>11. ASSUME NEW n \in Nat, n = Patience(p, q)' PROVE Silent(p, q, n)'
      BY <1>1, <3>9, <3>10, <3>11, StillHeardOf
    <3> QED
      BY <3>9, <3>11 DEF Silent
  <2> QED
    BY <2>2, <2>3
<1> QED
  BY <1>3, <1>4 DEF RebuildInv, HeardOfInTime

LEMMA HandleRebuild ==
  ASSUME IInv, IInv', RebuildInv, NEW d \in net, NEW left \in SUBSET net,
         net \ {d} \subseteq left, Handle(d, left)
  PROVE  RebuildInv'
<1>1. /\ TypeOK /\ TypeOK' /\ up[d.to] /\ UNCHANGED <<up, port, timer, since, losses>>
      /\ table \in [Peer -> Rows]
  BY TypeFacts DEF IInv, Handle
<1>2. d.to \in Peer /\ d.from \in Peer /\ d.age \in 0..Transit
  BY <1>1, TypeFacts
<1>3. OldLives'
  <2>1. \A n \in net' : n \in net \/ n.port = port[n.from]
    BY DEF Handle, Beacon
  <2> QED
    BY <1>1, <2>1, StillOld DEF RebuildInv
<1>4. ASSUME NEW p \in Peer, NEW q \in Peer, p # q, Reaches(q, p)', up'[p], up'[q]
      PROVE  Silent(p, q, Patience(p, q))'
  <2>1. Reaches(q, p) /\ up[p] /\ up[q]
    BY <1>1, <1>4 DEF Reaches, Residents
  <2>2. CASE d.to = p /\ d.from = q
    <3>1. table'[p][q] = [port |-> d.port, age |-> 0]
      BY <1>1, <1>2, <1>4, <2>2 DEF Handle, IsEcho, NewRow, Rows
    <3>2. CASE d.port = port[q]
      BY <1>1, <3>1, <3>2, JustHeardOf
    <3>3. CASE d.port # port[q]
      <4>1. since[q] <= d.age /\ since[q] \in Nat
        BY <1>1, <2>1, <2>2, <3>3, TypeFacts, Numbers DEF RebuildInv, OldLives
      <4>2. since'[q] <= Transit
        BY <1>1, <1>2, <4>1, Numbers
      <4> QED
        BY <1>1, <4>2, JustStarted
    <3> QED
      BY <3>2, <3>3
  <2>3. CASE ~(d.to = p /\ d.from = q)
    <3>1. table'[p][q] = table[p][q]
      BY <1>1, <1>2, <2>3 DEF Handle, NewRow, Rows
    <3>2. \A k \in Pending(p, q) : Round(p, q, k) \in net'
      <4>1. \A k \in Pending(p, q) : Round(p, q, k) \in net /\ Round(p, q, k) # d
        BY <2>3 DEF Pending, Round
      <4>2. left \subseteq net'
        BY DEF Handle
      <4> QED
        BY <4>1, <4>2
    <3> QED
      BY <1>1, <1>4, <2>1, <3>1, <3>2, OtherPair DEF RebuildInv
  <2> QED
    BY <2>2, <2>3
<1> QED
  BY <1>3, <1>4 DEF RebuildInv, HeardOfInTime

LEMMA DropRebuild ==
  ASSUME IInv, IInv', RebuildInv, NEW d \in net, Vanish(d) \/ Lose(d)
  PROVE  RebuildInv'
<1>1. UNCHANGED <<up, port, timer, table, since>> /\ net' = net \ {d}
  BY DEF Vanish, Lose
<1>2. OldLives'
  BY <1>1 DEF RebuildInv, OldLives
<1>3. ASSUME NEW p \in Peer, NEW q \in Peer, p # q, Reaches(q, p)', up'[p], up'[q]
      PROVE  Silent(p, q, Patience(p, q))'
  <2>1. Reaches(q, p) /\ up[p] /\ up[q]
    BY <1>1, <1>3 DEF Reaches, Residents
  <2>2. \/ losses' = losses /\ \A k \in Pending(p, q) : Round(p, q, k) \in net'
        \/ losses' = losses + 1 /\ \E n \in net : net' = net \ {n}
    <3>1. CASE Vanish(d)
      BY <1>1, <2>1, <3>1 DEF Vanish, Pending, Round
    <3>2. CASE Lose(d)
      BY <1>1, <3>2 DEF Lose
    <3> QED
      BY <3>1, <3>2
  <2> QED
    BY <1>1, <1>3, <2>1, <2>2, OtherPair DEF RebuildInv
<1> QED
  BY <1>2, <1>3 DEF RebuildInv, HeardOfInTime

\* A row is dropped when it is older than any patience.
LEMMA PeersRebuild ==
  ASSUME RowsOutliveLosses, IInv, IInv', RebuildInv, NEW x \in Peer, Peers(x)
  PROVE  RebuildInv'
<1>1. /\ TypeOK /\ TypeOK' /\ UNCHANGED <<up, port, timer, net, since, losses>>
      /\ table \in [Peer -> Rows]
  BY TypeFacts DEF IInv, Peers
<1>2. OldLives'
  BY <1>1 DEF RebuildInv, OldLives
<1>3. ASSUME NEW p \in Peer, NEW q \in Peer, p # q, Reaches(q, p)', up'[p], up'[q]
      PROVE  Silent(p, q, Patience(p, q))'
  <2>1. Silent(p, q, Patience(p, q))
    BY <1>1, <1>3 DEF Reaches, Residents, RebuildInv, HeardOfInTime
  <2>2. Patience(p, q)' = Patience(p, q)
    BY <1>1 DEF Patience, Pending, Round
  <2>3. Patience(p, q) <= Ttl /\ Patience(p, q) \in Nat
    BY <1>1, PatienceInTtl
  <2>4. CASE table'[p][q] = table[p][q]
    BY <1>1, <2>1, <2>2, <2>4 DEF Silent
  <2>5. CASE table'[p][q] # table[p][q]
    <3>1. Expired(table[p][q]) /\ table[p][q] \in Entry
      BY <1>1, <2>5, TypeFacts DEF Peers, Rows, Expired
    <3>2. table[p][q].age > Ttl /\ table[p][q].age \in Nat /\ Ttl \in Nat
      BY <3>1, Numbers DEF Expired, Entry
    <3>3. since[p] <= Patience(p, q) \/ since[q] <= Patience(p, q) + Transit
      BY <2>1, <2>3, <3>2 DEF Silent
    <3> QED
      BY <1>1, <2>2, <3>3 DEF Silent
  <2> QED
    BY <2>4, <2>5
<1> QED
  BY <1>2, <1>3 DEF RebuildInv, HeardOfInTime

LEMMA StartStopRebuild ==
  ASSUME IInv, IInv', RebuildInv, NEW x \in Peer, Start(x) \/ Stop(x)
  PROVE  RebuildInv'
<1>1. /\ TypeOK /\ TypeOK' /\ UNCHANGED <<net, losses>>
      /\ table \in [Peer -> Rows]
      /\ since' = [since EXCEPT ![x] = 0]
  BY TypeFacts DEF IInv, Start, Stop
<1>2. ASSUME NEW y \in Peer, y # x
      PROVE  /\ up'[y] = up[y] /\ port'[y] = port[y] /\ timer'[y] = timer[y]
             /\ table'[y] = table[y] /\ since'[y] = since[y]
  BY <1>1, <1>2 DEF TypeOK, Start, Stop
<1>3. since'[x] = 0
  BY <1>1 DEF TypeOK
<1>4. OldLives'
  <2> SUFFICES ASSUME NEW d \in net, up'[d.from], d.port # port'[d.from]
               PROVE  since'[d.from] <= d.age
    BY <1>1 DEF OldLives
  <2>1. d.from \in Peer /\ d.age \in 0..Transit
    BY <1>1, TypeFacts
  <2>2. CASE d.from = x
    BY <1>3, <2>1, <2>2, Numbers
  <2>3. CASE d.from # x
    BY <1>2, <2>1, <2>3 DEF RebuildInv, OldLives
  <2> QED
    BY <2>2, <2>3
<1>5. ASSUME NEW p \in Peer, NEW q \in Peer, p # q, Reaches(q, p)', up'[p], up'[q]
      PROVE  Silent(p, q, Patience(p, q))'
  <2>1. CASE p = x \/ q = x
    <3>1. since'[p] = 0 \/ since'[q] <= Transit
      BY <1>3, <2>1, Numbers
    <3> QED
      BY <1>1, <3>1, JustStarted
  <2>2. CASE p # x /\ q # x
    <3>1. Reaches(q, p)
      BY <1>5 DEF Reaches, Residents
    <3>2. \A k \in Pending(p, q) : Round(p, q, k) \in net'
      BY <1>1 DEF Pending
    <3> QED
      BY <1>1, <1>2, <1>5, <2>2, <3>1, <3>2, OtherPair DEF RebuildInv
  <2> QED
    BY <2>1, <2>2
<1> QED
  BY <1>4, <1>5 DEF RebuildInv, HeardOfInTime

\* One tick adds one to the patience as well as to the silence.
LEMMA TickRebuild ==
  ASSUME IInv, IInv', RebuildInv, Tick
  PROVE  RebuildInv'
<1>1. TypeOK /\ TypeOK' /\ UNCHANGED <<up, port, losses>>
  BY DEF IInv, Tick
<1>2. ASSUME NEW x \in Peer
      PROVE  since'[x] <= since[x] + 1 /\ since'[x] \in Nat /\ since[x] \in Nat
  <2>1. since'[x] = IF since[x] < Horizon THEN since[x] + 1 ELSE Horizon
    BY DEF Tick
  <2> QED
    BY <1>1, <2>1, TypeFacts, Numbers
<1>3. OldLives'
  <2> SUFFICES ASSUME NEW e \in net', up'[e.from], e.port # port'[e.from]
               PROVE  since'[e.from] <= e.age
    BY DEF OldLives
  <2>1. PICK d \in net : e = [d EXCEPT !.age = @ + 1]
    BY DEF Tick
  <2>2. d \in Datagram /\ d.from \in Peer /\ d.age \in Nat
    BY <1>1, TypeFacts, Numbers
  <2>3. e.from = d.from /\ e.port = d.port /\ e.age = d.age + 1
    BY <2>1, <2>2 DEF Datagram
  <2>4. since[d.from] <= d.age
    BY <1>1, <2>3 DEF RebuildInv, OldLives
  <2> QED
    BY <1>2, <2>2, <2>3, <2>4
<1>4. ASSUME NEW p \in Peer, NEW q \in Peer, p # q, Reaches(q, p)', up'[p], up'[q]
      PROVE  Silent(p, q, Patience(p, q))'
  <2>1. Reaches(q, p) /\ up[p] /\ up[q]
    BY <1>1, <1>4 DEF Reaches, Residents
  <2>2. timer'[q] = timer[q] - 1 /\ timer[q] \in 0..Interval /\ timer[q] > 0
    BY <1>1, <2>1, RoundFacts DEF Tick
  <2>3. Pending(p, q) \subseteq Pending(p, q)'
    <3> SUFFICES ASSUME NEW k \in Pending(p, q) PROVE k \in Pending(p, q)'
      OBVIOUS
    <3>1. k \in Nat /\ Round(p, q, k) \in net
      BY Numbers DEF Pending
    <3>2. (Interval - timer'[q]) + Interval * k = (Interval - timer[q]) + Interval * k + 1
      <4>1. Interval * k \in Nat
        BY <3>1, Multiples
      <4> QED
        BY <2>2, <4>1, Numbers
    <3>3. Round(p, q, k)' = [Round(p, q, k) EXCEPT !.age = @ + 1]
      BY <1>1, <3>2 DEF Round
    <3>4. Round(p, q, k)' \in net'
      BY <3>1, <3>3 DEF Tick
    <3> QED
      BY <1>1, <3>1, <3>4, PendingNext
  <2>4. Patience(p, q) + 1 <= Patience(p, q)' /\ Patience(p, q) \in Nat /\ Patience(p, q)' \in Nat
    <3> DEFINE c == Cardinality(Pending(p, q))
               e == Cardinality(Pending(p, q)')
    <3>1. c <= e /\ c \in Nat /\ e \in Nat
      BY <1>1, <2>3, RoundFacts, PendingNext, FS_Subset
    <3>2. /\ Patience(p, q) = Interval * (losses + c) + (Interval - timer[q])
          /\ Patience(p, q)' = Interval * (losses + e) + (Interval - timer'[q])
      BY <1>1 DEF Patience
    <3> HIDE DEF c, e
    <3>3. losses \in Nat /\ losses + c \in Nat /\ losses + e \in Nat /\ losses + c <= losses + e
      BY <1>1, <3>1, RoundFacts
    <3>4. /\ Interval * (losses + c) <= Interval * (losses + e)
          /\ Interval * (losses + c) \in Nat /\ Interval * (losses + e) \in Nat
      BY <3>3, Multiples
    <3> QED
      BY <2>2, <3>2, <3>4, Numbers
  <2>5. Silent(p, q, Patience(p, q))
    BY <1>4, <2>1 DEF RebuildInv, HeardOfInTime
  <2>6. ASSUME NEW m \in Nat, NEW n \in Nat, n + 1 <= m, Silent(p, q, n)
        PROVE  Silent(p, q, m)'
    <3>1. CASE table[p][q] # NoEntry /\ table[p][q].port = port[q] /\ table[p][q].age <= n
      <4>1. table[p][q] \in Entry /\ table[p][q].age \in 0..(Ttl + 1)
        BY <1>1, <3>1, TypeFacts DEF Entry
      <4>2. table'[p][q] = [table[p][q] EXCEPT !.age =
              IF table[p][q].age < Ttl + 1 THEN table[p][q].age + 1 ELSE Ttl + 1]
        BY <3>1 DEF Tick
      <4>3. (IF table[p][q].age < Ttl + 1 THEN table[p][q].age + 1 ELSE Ttl + 1)
              \in 0..(Ttl + 1)
        BY <4>1, Numbers
      <4>4. table'[p][q] \in Entry /\ table'[p][q].port = port'[q]
        BY <1>1, <3>1, <4>1, <4>2, <4>3 DEF Entry
      <4>5. table'[p][q].age <= m
        BY <2>6, <3>1, <4>1, <4>2, Numbers DEF Entry
      <4> QED
        BY <4>4, <4>5, EntryAssumption DEF Silent
    <3>2. CASE since[p] <= n
      BY <1>2, <2>6, <3>2 DEF Silent
    <3>3. CASE since[q] <= n + Transit
      <4>1. since'[q] <= m + Transit
        BY <1>2, <2>6, <3>3, Numbers
      <4> QED
        BY <4>1 DEF Silent
    <3> QED
      BY <2>6, <3>1, <3>2, <3>3 DEF Silent
  <2>7. ASSUME NEW m \in Nat, m = Patience(p, q)' PROVE Silent(p, q, m)'
    BY <2>4, <2>5, <2>6, <2>7
  <2> QED
    BY <2>4, <2>7 DEF Silent
<1> QED
  BY <1>3, <1>4 DEF RebuildInv, HeardOfInTime

LEMMA NextRebuild ==
  ASSUME RowsOutliveLosses, IInv, IInv', RebuildInv, [Next]_vars
  PROVE  RebuildInv'
<1>1. ASSUME NEW p \in Peer, Send(p) \/ Peers(p) \/ Start(p) \/ Stop(p)
      PROVE  RebuildInv'
  BY <1>1, SendRebuild, PeersRebuild, StartStopRebuild
<1>2. ASSUME NEW d \in net, Receive(d) \/ Duplicate(d)
      PROVE  RebuildInv'
  BY <1>2, HandleRebuild DEF Receive, Duplicate
<1>3. ASSUME NEW d \in net, Vanish(d) \/ Lose(d)
      PROVE  RebuildInv'
  BY <1>3, DropRebuild
<1>4. ASSUME Tick PROVE RebuildInv'
  BY <1>4, TickRebuild
<1>5. ASSUME UNCHANGED vars PROVE RebuildInv'
  BY <1>5 DEF vars, RebuildInv, HeardOfInTime, OldLives, Silent, Patience, Pending, Round,
              Reaches, Residents
<1> QED
  BY <1>1, <1>2, <1>3, <1>4, <1>5 DEF Next

LEMMA InitRebuild == Init => RebuildInv
<1> SUFFICES ASSUME Init PROVE RebuildInv
  OBVIOUS
<1>1. OldLives
  BY DEF Init, OldLives
<1>2. ASSUME NEW p \in Peer, NEW q \in Peer PROVE Silent(p, q, Patience(p, q))
  <2>1. TypeOK
    BY InitIInv DEF IInv
  <2>2. Patience(p, q) \in Nat /\ since[p] = 0
    BY <2>1, PatienceNat DEF Init
  <2> QED
    BY <2>2 DEF Silent
<1> QED
  BY <1>1, <1>2 DEF RebuildInv, HeardOfInTime

(* Tables rebuild themselves in time (discovery.py:5-7), however datagrams *)
(* are delayed, reordered, repeated and lost and however often peers stop  *)
(* and start, if a row is kept for as long as a beacon can be missing: p   *)
(* lists q with its present port once both have been up for an interval,   *)
(* one more for each datagram lost, and the time two datagrams take.       *)
THEOREM TablesAreRebuilt ==
  ASSUME RowsOutliveLosses
  PROVE  Spec => []RebuiltInTime
<1>1. RebuildInv /\ IInv /\ IInv' /\ [Next]_vars => RebuildInv'
  BY NextRebuild
<1>2. IInv /\ RebuildInv => RebuiltInTime
  <2> SUFFICES ASSUME IInv, RebuildInv, NEW p \in Peer, NEW q \in Peer,
                      p # q, Reaches(q, p), up[p], up[q],
                      since[p] > Interval * (losses + 1) + 2 * Transit,
                      since[q] > Interval * (losses + 1) + 2 * Transit
               PROVE  q \in Listed(p) /\ table[p][q].port = port[q]
    BY DEF RebuiltInTime
  <2>1. TypeOK
    BY DEF IInv
  <2>2. Silent(p, q, Patience(p, q))
    BY DEF RebuildInv, HeardOfInTime
  <2>3. /\ Patience(p, q) <= Ttl /\ Patience(p, q) \in Nat
        /\ Patience(p, q) <= Interval * (losses + 1) + Transit
    BY <2>1, PatienceInTtl, PatienceEnds
  <2>4. Interval * (losses + 1) \in Nat
    BY <2>1, RoundFacts, Multiples
  <2>5. ~(since[p] <= Patience(p, q)) /\ ~(since[q] <= Patience(p, q) + Transit)
    BY <2>1, <2>3, <2>4, TypeFacts, Numbers
  <2>6. table[p][q] # NoEntry /\ table[p][q].port = port[q] /\ table[p][q].age <= Patience(p, q)
    BY <2>2, <2>5 DEF Silent
  <2>7. table[p][q].age \in Nat
    BY <2>1, <2>6, TypeFacts, Numbers DEF Entry
  <2>8. ~Expired(table[p][q])
    BY <2>3, <2>6, <2>7, Numbers DEF Expired
  <2> QED
    BY <2>6, <2>8 DEF Listed
<1> QED
  BY <1>1, <1>2, InitRebuild, DiscoveryInvariant, PTL DEF Spec


=============================================================================
