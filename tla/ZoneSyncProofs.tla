--------------------------- MODULE ZoneSyncProofs ---------------------------
(***************************************************************************)
(* Proofs about ZoneSync, for any number of nodes and zones, any pinned    *)
(* tables, any announce interval, time to live and network delay.          *)
(***************************************************************************)
EXTENDS ZoneSync, FiniteSetTheorems, TLAPS

-----------------------------------------------------------------------------
(* Lemmas about the table operations of DynamicZoneTable. *)

\* Every operation of the table returns a table.
LEMMA TableTypes ==
    ASSUME NEW t \in Tables, NEW z \in Zones, NEW a \in Addrs
    PROVE  /\ EmptyTable \in Tables
           /\ Learn(t, z, a) \in Tables
           /\ ForgetStale(t) \in Tables
           /\ Age(t) \in Tables
  <1> USE EntryTTLAssumption
  <1>1. Absent \in Entry
    BY DEF Absent, Entry
  <1>2. \A y \in Zones : t[y] \in Entry
    BY DEF Tables
  <1>3. EmptyTable \in Tables
    BY <1>1 DEF EmptyTable, Tables
  <1>4. Learn(t, z, a) \in Tables
    <2>1. [addr |-> a, age |-> 0] \in Entry
      BY DEF Entry
    <2> QED
      BY <2>1 DEF Learn, Tables
  <1>5. ForgetStale(t) \in Tables
    BY <1>1, <1>2 DEF ForgetStale, Tables
  <1>6. Age(t) \in Tables
    <2>1. ASSUME NEW e \in Entry
          PROVE  AgeEntry(e) \in Entry
      BY DEF Entry, AgeEntry, Expired
    <2> QED
      BY <1>1, <1>2, <2>1 DEF Age, Tables
  <1> QED
    BY <1>3, <1>4, <1>5, <1>6

\* forget_stale changes no answer of addr_for: the table may be pruned at any
\* moment between two look-ups.
LEMMA ForgettingIsInvisible ==
    ASSUME NEW t \in Tables, NEW pinned \in PinnedTables, NEW z \in Zones
    PROVE  AddrFor(ForgetStale(t), pinned, z) = AddrFor(t, pinned, z)
  BY EntryTTLAssumption DEF AddrFor, ForgetStale, Fresh, Expired, Absent, Tables, Entry

\* The zones known_zones counts are the ones addr_for has an address for.
LEMMA KnownMeansRoutable ==
    ASSUME NEW t \in Tables, NEW pinned \in PinnedTables
    PROVE  KnownZones(t, pinned) = {z \in Zones : AddrFor(t, pinned, z) # NoAddr}
  BY DEF KnownZones, AddrFor, Fresh

-----------------------------------------------------------------------------
(* Type correctness. *)

LEMMA InitTypeOK == Init => TypeOK
  <1> SUFFICES ASSUME Init PROVE TypeOK
    OBVIOUS
  <1> USE EntryTTLAssumption, TimingAssumption, BootsAssumption DEF Init
  <1>1. EmptyTable \in Tables
    BY DEF EmptyTable, Tables, Absent, Entry
  <1>2. learned \in [Nodes -> Tables]
    BY <1>1
  <1>3. MaxSilent \in 0 .. MaxSilent
    BY DEF MaxSilent
  <1>4. silent \in [Nodes -> [Zones -> 0 .. MaxSilent]]
    BY <1>3
  <1>5. missed \in [Nodes -> [Nodes -> 0 .. MaxMissed]]
    OBVIOUS
  <1> QED
    BY <1>2, <1>4, <1>5 DEF TypeOK

\* A broadcast consists of datagrams.
LEMMA AnnouncementType ==
    ASSUME NEW n \in Nodes, NEW z \in Zones
    PROVE  Announcement(n, z) \subseteq Datagram
  <1>1. 0 \in 0 .. MaxDelay
    BY TimingAssumption
  <1>2. \A m \in Nodes :
            [to |-> m, node |-> n, zone |-> z, age |-> 0, copy |-> FALSE] \in Datagram
    BY <1>1 DEF Datagram
  <1> QED
    BY <1>2 DEF Announcement

LEMMA NextTypeOK == TypeOK /\ [Next]_vars => TypeOK'
  <1> SUFFICES ASSUME TypeOK, [Next]_vars PROVE TypeOK'
    OBVIOUS
  <1> USE EntryTTLAssumption, TimingAssumption, BootsAssumption, NodesAssumption
  <1>1. ASSUME NEW n \in Nodes, NEW z \in Zones, Start(n, z)
        PROVE  TypeOK'
    <2>1. EmptyTable \in Tables
      BY DEF EmptyTable, Tables, Absent, Entry
    <2>2. learned' \in [Nodes -> Tables]
      BY <1>1, <2>1 DEF Start, TypeOK
    <2>3. net' \subseteq Datagram
      BY <1>1, AnnouncementType DEF Start, TypeOK
    <2>4. silent' \in [Nodes -> [Zones -> 0 .. MaxSilent]]
      BY <1>1 DEF Start, TypeOK, MaxSilent
    <2> QED
      BY <1>1, <2>2, <2>3, <2>4 DEF Start, TypeOK
  <1>2. ASSUME NEW n \in Nodes, Stop(n)
        PROVE  TypeOK'
    <2>1. EmptyTable \in Tables
      BY DEF EmptyTable, Tables, Absent, Entry
    <2>2. learned' \in [Nodes -> Tables]
      BY <1>2, <2>1 DEF Stop, TypeOK
    <2>3. missed' \in [Nodes -> [Nodes -> 0 .. MaxMissed]]
      BY <1>2 DEF Stop, TypeOK
    <2>4. heard' \in [Nodes -> SUBSET Nodes]
      BY <1>2 DEF Stop, TypeOK
    <2> QED
      BY <1>2, <2>2, <2>3, <2>4 DEF Stop, TypeOK
  <1>3. ASSUME NEW n \in Nodes, Announce(n)
        PROVE  TypeOK'
    <2>1. ForgetStale(learned[n]) \in Tables
      BY <1>3 DEF TypeOK, ForgetStale, Tables, Absent, Entry
    <2>2. learned' \in [Nodes -> Tables]
      BY <1>3, <2>1 DEF Announce, TypeOK
    <2>3. net' \subseteq Datagram
      BY <1>3, AnnouncementType DEF Announce, TypeOK
    <2> QED
      BY <1>3, <2>2, <2>3 DEF Announce, TypeOK
  <1>4. ASSUME NEW d \in net, NEW again \in BOOLEAN, Deliver(d, again)
        PROVE  TypeOK'
    <2>1. d \in Datagram /\ d.to \in Nodes /\ d.node \in Nodes /\ d.zone \in Zones
      BY DEF TypeOK, Datagram
    <2>2. OnControl(learned[d.to], d.to, d) \in Tables
      BY <2>1, TableTypes DEF TypeOK, OnControl
    <2>3. learned' \in [Nodes -> Tables]
      BY <1>4, <2>1, <2>2 DEF Deliver, TypeOK
    <2>4. [d EXCEPT !.copy = TRUE] \in Datagram
      BY <2>1 DEF Datagram
    <2>5. net' \subseteq Datagram
      BY <1>4, <2>4 DEF Deliver, TypeOK
    <2>6. heard' \in [Nodes -> SUBSET Nodes]
      BY <1>4, <2>1 DEF Deliver, TypeOK
    <2>7. missed' \in [Nodes -> [Nodes -> 0 .. MaxMissed]]
      BY <1>4, <2>1 DEF Deliver, TypeOK
    <2> QED
      BY <1>4, <2>3, <2>5, <2>6, <2>7 DEF Deliver, TypeOK
  <1>5. ASSUME NEW d \in net, Lose(d)
        PROVE  TypeOK'
    <2>1. d.to \in Nodes /\ d.node \in Nodes
      BY DEF TypeOK, Datagram
    <2>2. missed' \in [Nodes -> [Nodes -> 0 .. MaxMissed]]
      <3>1. CASE up[d.to] /\ ~d.copy
        <4>1. missed[d.to][d.node] + 1 \in 0 .. MaxMissed
          BY <1>5, <2>1, <3>1 DEF Lose, TypeOK
        <4>2. missed' = [missed EXCEPT ![d.to][d.node] = @ + 1]
          BY <1>5, <3>1 DEF Lose
        <4>3. missed \in [Nodes -> [Nodes -> 0 .. MaxMissed]]
          BY DEF TypeOK
        <4> QED
          BY <2>1, <4>1, <4>2, <4>3
      <3>2. CASE ~(up[d.to] /\ ~d.copy)
        BY <1>5, <3>2 DEF Lose, TypeOK
      <3> QED
        BY <3>1, <3>2
    <2> QED
      BY <1>5, <2>2 DEF Lose, TypeOK
  <1>6. ASSUME Tick
        PROVE  TypeOK'
    <2>1. timer' \in [Nodes -> 0 .. Interval]
      BY <1>6 DEF Tick, TypeOK
    <2>2. net' \subseteq Datagram
      <3>1. ASSUME NEW d \in net PROVE [d EXCEPT !.age = @ + 1] \in Datagram
        <4>1. d \in Datagram /\ d.age < MaxDelay
          BY <1>6 DEF Tick, TypeOK
        <4> QED
          BY <4>1 DEF Datagram
      <3> QED
        BY <1>6, <3>1 DEF Tick
    <2>3. learned' \in [Nodes -> Tables]
      <3>1. ASSUME NEW n \in Nodes PROVE Age(learned[n]) \in Tables
        <4>1. learned[n] \in Tables
          BY DEF TypeOK
        <4>2. Absent \in Entry
          BY DEF Absent, Entry
        <4>3. ASSUME NEW e \in Entry PROVE AgeEntry(e) \in Entry
          BY DEF Entry, AgeEntry, Expired
        <4> QED
          BY <4>1, <4>2, <4>3 DEF Age, Tables
      <3> QED
        BY <1>6, <3>1 DEF Tick
    <2>4. silent' \in [Nodes -> [Zones -> 0 .. MaxSilent]]
      <3>1. ASSUME NEW n \in Nodes, NEW z \in Zones
            PROVE  (IF Serves(n, z) THEN 0
                    ELSE IF silent[n][z] = MaxSilent THEN MaxSilent
                    ELSE silent[n][z] + 1) \in 0 .. MaxSilent
        <4>1. silent[n][z] \in 0 .. MaxSilent /\ MaxSilent \in Nat
          BY DEF TypeOK, MaxSilent
        <4> QED
          BY <4>1
      <3> QED
        BY <1>6, <3>1 DEF Tick
    <2>5. UNCHANGED <<up, zone, boots, heard, missed>>
      BY <1>6 DEF Tick
    <2> QED
      BY <2>1, <2>2, <2>3, <2>4, <2>5 DEF TypeOK
  <1>7. CASE UNCHANGED vars
    BY <1>7 DEF vars, TypeOK
  <1> QED
    BY <1>1, <1>2, <1>3, <1>4, <1>5, <1>6, <1>7 DEF Next, Receive

\* Every reachable state of the gossip has the types of TypeOK.
THEOREM TypeCorrect == Spec => []TypeOK
  BY InitTypeOK, NextTypeOK, PTL DEF Spec

-----------------------------------------------------------------------------
(* Departed nodes age out.                                                 *)
(*                                                                         *)
(* DepartedNodesAgeOut is not inductive: it speaks of the entries only     *)
(* while an old announcement may still be on its way.  The strengthening   *)
(* follows an announcement from the node that makes it (NowServing) over   *)
(* the network (InFlightRecent) into a table (EntriesRecent): at each      *)
(* place its age bounds the time since the announcing node served the zone.*)

NowServing == \A n \in Nodes : up[n] => silent[n][zone[n]] = 0

InFlightRecent == \A d \in net : silent[d.node][d.zone] <= d.age

EntriesRecent ==
    \A n \in Nodes : \A z \in Zones : Fresh(learned[n], z) =>
        silent[learned[n][z].addr][z] <= learned[n][z].age + MaxDelay

AgeInv == NowServing /\ InFlightRecent /\ EntriesRecent

LEMMA InitAgeInv == Init => AgeInv
  <1> SUFFICES ASSUME Init PROVE AgeInv
    OBVIOUS
  <1>1. NowServing
    BY DEF Init, NowServing
  <1>2. InFlightRecent
    BY DEF Init, InFlightRecent
  <1>3. EntriesRecent
    BY DEF Init, EntriesRecent, Fresh, EmptyTable, Absent
  <1> QED
    BY <1>1, <1>2, <1>3 DEF AgeInv

LEMMA NextAgeInv == TypeOK /\ AgeInv /\ [Next]_vars => AgeInv'
  <1> SUFFICES ASSUME TypeOK, AgeInv, [Next]_vars PROVE AgeInv'
    OBVIOUS
  <1> USE EntryTTLAssumption, TimingAssumption, NodesAssumption, NoAddrAssumption
  <1>a. \A n \in Nodes, z \in Zones :
            /\ silent[n][z] \in Nat
            /\ learned[n][z].age \in Nat
            /\ learned[n][z].addr \in Nodes \cup {NoAddr}
            /\ Fresh(learned[n], z) => learned[n][z].addr \in Nodes
    BY DEF TypeOK, MaxSilent, Tables, Entry, Fresh
  <1>b. \A d \in net : /\ d \in Datagram
                       /\ d.to \in Nodes /\ d.node \in Nodes /\ d.zone \in Zones
                       /\ d.age \in 0 .. MaxDelay
    BY DEF TypeOK, Datagram
  <1>1. ASSUME NEW n \in Nodes, NEW z \in Zones, Start(n, z)
        PROVE  AgeInv'
    <2>1. \A m \in Nodes, y \in Zones :
              /\ silent'[m][y] \in Nat
              /\ silent'[m][y] <= silent[m][y]
              /\ m = n /\ y = z => silent'[m][y] = 0
      BY <1>1, <1>a DEF Start, TypeOK
    <2>2. NowServing'
      BY <1>1, <2>1, <1>a DEF Start, TypeOK, AgeInv, NowServing
    <2>3. InFlightRecent'
      <3> SUFFICES ASSUME NEW d \in net' PROVE silent'[d.node][d.zone] <= d.age
        BY DEF InFlightRecent
      <3>1. CASE d \in net
        BY <3>1, <2>1, <1>a, <1>b DEF AgeInv, InFlightRecent
      <3>2. CASE d \in Announcement(n, z)
        BY <3>2, <2>1 DEF Announcement
      <3> QED
        BY <1>1, <3>1, <3>2 DEF Start
    <2>4. EntriesRecent'
      <3> SUFFICES ASSUME NEW m \in Nodes, NEW y \in Zones, Fresh(learned'[m], y)
                   PROVE  silent'[learned'[m][y].addr][y] <= learned'[m][y].age + MaxDelay
        BY DEF EntriesRecent, Fresh
      <3>1. m # n
        BY <1>1 DEF Start, TypeOK, Fresh, EmptyTable, Absent
      <3>2. learned'[m] = learned[m]
        BY <1>1, <3>1 DEF Start, TypeOK
      <3>3. silent[learned[m][y].addr][y] <= learned[m][y].age + MaxDelay
        BY <3>2 DEF AgeInv, EntriesRecent
      <3> QED
        BY <3>2, <3>3, <2>1, <1>a
    <2> QED
      BY <2>2, <2>3, <2>4 DEF AgeInv
  <1>2. ASSUME NEW n \in Nodes, Stop(n)
        PROVE  AgeInv'
    <2>1. NowServing'
      BY <1>2 DEF Stop, TypeOK, AgeInv, NowServing
    <2>2. InFlightRecent'
      BY <1>2 DEF Stop, AgeInv, InFlightRecent
    <2>3. EntriesRecent'
      <3> SUFFICES ASSUME NEW m \in Nodes, NEW y \in Zones, Fresh(learned'[m], y)
                   PROVE  silent'[learned'[m][y].addr][y] <= learned'[m][y].age + MaxDelay
        BY DEF EntriesRecent, Fresh
      <3>1. m # n
        BY <1>2 DEF Stop, TypeOK, Fresh, EmptyTable, Absent
      <3>2. learned'[m] = learned[m] /\ silent' = silent
        BY <1>2, <3>1 DEF Stop, TypeOK
      <3> QED
        BY <3>2 DEF AgeInv, EntriesRecent
    <2> QED
      BY <2>1, <2>2, <2>3 DEF AgeInv
  <1>3. ASSUME NEW n \in Nodes, Announce(n)
        PROVE  AgeInv'
    <2>1. NowServing'
      BY <1>3 DEF Announce, AgeInv, NowServing
    <2>2. InFlightRecent'
      <3> SUFFICES ASSUME NEW d \in net' PROVE silent[d.node][d.zone] <= d.age
        BY <1>3 DEF InFlightRecent, Announce
      <3>1. CASE d \in net
        BY <3>1 DEF AgeInv, InFlightRecent
      <3>2. CASE d \in Announcement(n, zone[n])
        <4>1. silent[n][zone[n]] = 0
          BY <1>3 DEF Announce, AgeInv, NowServing
        <4> QED
          BY <3>2, <4>1 DEF Announcement
      <3> QED
        BY <1>3, <3>1, <3>2 DEF Announce
    <2>3. EntriesRecent'
      <3> SUFFICES ASSUME NEW m \in Nodes, NEW y \in Zones, Fresh(learned'[m], y)
                   PROVE  silent'[learned'[m][y].addr][y] <= learned'[m][y].age + MaxDelay
        BY DEF EntriesRecent, Fresh
      <3>1. learned'[m] = (IF m = n THEN ForgetStale(learned[n]) ELSE learned[m]) /\ silent' = silent
        BY <1>3 DEF Announce, TypeOK
      <3>2. learned'[m][y] = learned[m][y] /\ Fresh(learned[m], y)
        BY <3>1 DEF ForgetStale, Fresh, Absent
      <3> QED
        BY <3>1, <3>2 DEF AgeInv, EntriesRecent
    <2> QED
      BY <2>1, <2>2, <2>3 DEF AgeInv
  <1>4. ASSUME NEW d \in net, NEW again \in BOOLEAN, Deliver(d, again)
        PROVE  AgeInv'
    <2>1. silent' = silent /\ up' = up /\ zone' = zone
      BY <1>4 DEF Deliver
    <2>2. NowServing'
      BY <2>1 DEF AgeInv, NowServing
    <2>3. silent[d.node][d.zone] <= d.age
      BY DEF AgeInv, InFlightRecent
    <2>4. InFlightRecent'
      <3> SUFFICES ASSUME NEW e \in net' PROVE silent[e.node][e.zone] <= e.age
        BY <2>1 DEF InFlightRecent
      <3>1. CASE e \in net
        BY <3>1 DEF AgeInv, InFlightRecent
      <3>2. CASE e = [d EXCEPT !.copy = TRUE]
        <4>1. e.node = d.node /\ e.zone = d.zone /\ e.age = d.age
          BY <3>2, <1>b DEF Datagram
        <4> QED
          BY <4>1, <2>3
      <3> QED
        BY <1>4, <3>1, <3>2 DEF Deliver
    <2>5. EntriesRecent'
      <3> SUFFICES ASSUME NEW m \in Nodes, NEW y \in Zones, Fresh(learned'[m], y)
                   PROVE  silent[learned'[m][y].addr][y] <= learned'[m][y].age + MaxDelay
        BY <2>1 DEF EntriesRecent, Fresh
      <3>1. learned'[m] = (IF m = d.to THEN OnControl(learned[m], m, d) ELSE learned[m])
        BY <1>4, <1>b DEF Deliver, TypeOK
      <3>2. CASE learned'[m] = learned[m]
        BY <3>2 DEF AgeInv, EntriesRecent
      <3>3. CASE learned'[m] = Learn(learned[m], d.zone, d.node)
        <4>1. learned[m] \in Tables
          BY DEF TypeOK
        <4>2. CASE y = d.zone
          <5>1. learned'[m][y] = [addr |-> d.node, age |-> 0]
            BY <3>3, <4>1, <4>2, <1>b DEF Learn, Tables
          <5> QED
            BY <5>1, <4>2, <2>3, <1>a, <1>b
        <4>3. CASE y # d.zone
          <5>1. learned'[m][y] = learned[m][y]
            BY <3>3, <4>1, <4>3 DEF Learn, Tables
          <5> QED
            BY <5>1 DEF AgeInv, EntriesRecent, Fresh
        <4> QED
          BY <4>2, <4>3
      <3> QED
        BY <3>1, <3>2, <3>3 DEF OnControl
    <2> QED
      BY <2>2, <2>4, <2>5 DEF AgeInv
  <1>5. ASSUME NEW d \in net, Lose(d)
        PROVE  AgeInv'
    BY <1>5 DEF Lose, AgeInv, NowServing, InFlightRecent, EntriesRecent, Fresh
  <1>6. ASSUME Tick
        PROVE  AgeInv'
    <2>1. \A m \in Nodes, y \in Zones :
              /\ silent'[m][y] \in Nat
              /\ silent'[m][y] <= silent[m][y] + 1
              /\ Serves(m, y) => silent'[m][y] = 0
      <3> SUFFICES ASSUME NEW m \in Nodes, NEW y \in Zones
                   PROVE  /\ silent'[m][y] \in Nat
                          /\ silent'[m][y] <= silent[m][y] + 1
                          /\ Serves(m, y) => silent'[m][y] = 0
        OBVIOUS
      <3>1. silent'[m][y] = IF Serves(m, y) THEN 0
                            ELSE IF silent[m][y] = MaxSilent THEN MaxSilent
                            ELSE silent[m][y] + 1
        BY <1>6 DEF Tick
      <3>2. MaxSilent \in Nat
        BY DEF MaxSilent
      <3> QED
        BY <3>1, <3>2, <1>a
    <2>2. NowServing'
      BY <1>6, <2>1 DEF Tick, NowServing, Serves, TypeOK
    <2>3. InFlightRecent'
      <3> SUFFICES ASSUME NEW d \in net
                   PROVE  silent'[d.node][d.zone] <= d.age + 1
        <4>1. ASSUME NEW e \in net' PROVE silent'[e.node][e.zone] <= e.age
          <5>1. PICK d \in net : e = [d EXCEPT !.age = @ + 1]
            BY <1>6 DEF Tick
          <5>2. e.node = d.node /\ e.zone = d.zone /\ e.age = d.age + 1
            BY <5>1, <1>b DEF Datagram
          <5> QED
            BY <5>2
        <4> QED
          BY <4>1 DEF InFlightRecent
      <3>1. silent[d.node][d.zone] <= d.age
        BY DEF AgeInv, InFlightRecent
      <3> QED
        BY <3>1, <2>1, <1>a, <1>b
    <2>4. EntriesRecent'
      <3> SUFFICES ASSUME NEW m \in Nodes, NEW y \in Zones, Fresh(learned'[m], y)
                   PROVE  silent'[learned'[m][y].addr][y] <= learned'[m][y].age + MaxDelay
        BY DEF EntriesRecent, Fresh
      <3>1. learned'[m][y] = IF learned[m][y].addr = NoAddr THEN Absent
                             ELSE AgeEntry(learned[m][y])
        BY <1>6 DEF Tick, Age
      <3>2. learned[m][y].addr # NoAddr
        BY <3>1 DEF Fresh, Absent
      <3>3. learned[m][y] \in Entry
        BY DEF TypeOK, Tables
      <3>4. /\ learned'[m][y].addr = learned[m][y].addr
            /\ learned'[m][y].age = IF Expired(learned[m][y].age) THEN learned[m][y].age
                                    ELSE learned[m][y].age + 1
        BY <3>1, <3>2, <3>3 DEF AgeEntry, Entry
      <3>5. ~Expired(learned[m][y].age)
        BY <3>4 DEF Fresh
      <3>6. Fresh(learned[m], y)
        BY <3>2, <3>5 DEF Fresh
      <3>7. silent[learned[m][y].addr][y] <= learned[m][y].age + MaxDelay
        BY <3>6 DEF AgeInv, EntriesRecent
      <3>8. learned[m][y].addr \in Nodes
        BY <3>6, <1>a
      <3> QED
        BY <3>4, <3>5, <3>7, <3>8, <2>1, <1>a
    <2> QED
      BY <2>2, <2>3, <2>4 DEF AgeInv
  <1>7. CASE UNCHANGED vars
    BY <1>7 DEF vars, AgeInv, NowServing, InFlightRecent, EntriesRecent, Fresh
  <1> QED
    BY <1>1, <1>2, <1>3, <1>4, <1>5, <1>6, <1>7 DEF Next, Receive

\* A fresh entry is at most EntryTTL old, so what it says is not older than
\* EntryTTL plus the longest delivery.
LEMMA AgeInvImplies == TypeOK /\ AgeInv => DepartedNodesAgeOut
  <1> SUFFICES ASSUME TypeOK, AgeInv, NEW n \in Nodes, NEW z \in Zones,
                      Route(n, z) # NoAddr, Route(n, z) # Pinned[n][z]
               PROVE  RecentlyServed(Route(n, z), z)
    BY DEF DepartedNodesAgeOut
  <1>1. Fresh(learned[n], z) /\ Route(n, z) = learned[n][z].addr
    BY DEF Route, AddrFor
  <1>2. silent[learned[n][z].addr][z] <= learned[n][z].age + MaxDelay
    BY <1>1 DEF AgeInv, EntriesRecent
  <1>3. learned[n][z].age \in Nat /\ learned[n][z].age <= EntryTTL
    BY <1>1, EntryTTLAssumption DEF Fresh, Expired, TypeOK, Tables, Entry
  <1>4. silent[learned[n][z].addr][z] \in Nat
    <2>1. learned[n][z].addr \in Nodes
      BY <1>1, NodesAssumption DEF Fresh, TypeOK, Tables, Entry
    <2> QED
      BY <2>1, EntryTTLAssumption, TimingAssumption DEF TypeOK, MaxSilent
  <1> QED
    BY <1>1, <1>2, <1>3, <1>4, EntryTTLAssumption, TimingAssumption DEF RecentlyServed

\* In every reachable state a learned route leads to a node that served the
\* zone within the last EntryTTL + MaxDelay ticks.
THEOREM AgeOut == Spec => []DepartedNodesAgeOut
  <1>1. Init => TypeOK /\ AgeInv
    BY InitTypeOK, InitAgeInv
  <1>2. TypeOK /\ AgeInv /\ [Next]_vars => (TypeOK /\ AgeInv)'
    BY NextTypeOK, NextAgeInv
  <1>3. TypeOK /\ AgeInv => DepartedNodesAgeOut
    BY AgeInvImplies
  <1> QED
    BY <1>1, <1>2, <1>3, PTL DEF Spec

-----------------------------------------------------------------------------
(* No node routes to itself. *)

LEMMA NextNeverRoutesToItself ==
    TypeOK /\ NeverRoutesToItself /\ [Next]_vars => NeverRoutesToItself'
  <1> SUFFICES ASSUME TypeOK, NeverRoutesToItself, [Next]_vars,
                      NEW m \in Nodes, NEW y \in Zones
               PROVE  learned'[m][y].addr # m
    BY DEF NeverRoutesToItself
  <1> USE NodesAssumption, NoAddrAssumption
  <1>a. learned[m][y].addr # m /\ learned[m] \in Tables
    BY DEF NeverRoutesToItself, TypeOK
  <1>b. EmptyTable[y].addr # m
    BY DEF EmptyTable, Absent
  <1>1. ASSUME NEW n \in Nodes, NEW z \in Zones, Start(n, z)
        PROVE  learned'[m][y].addr # m
    BY <1>1, <1>a, <1>b DEF Start, TypeOK
  <1>2. ASSUME NEW n \in Nodes, Stop(n)
        PROVE  learned'[m][y].addr # m
    BY <1>2, <1>a, <1>b DEF Stop, TypeOK
  <1>3. ASSUME NEW n \in Nodes, Announce(n)
        PROVE  learned'[m][y].addr # m
    <2>1. learned'[m] = learned[m] \/ learned'[m] = ForgetStale(learned[m])
      BY <1>3 DEF Announce, TypeOK
    <2> QED
      BY <2>1, <1>a DEF ForgetStale, Absent
  <1>4. ASSUME NEW d \in net, NEW again \in BOOLEAN, Deliver(d, again)
        PROVE  learned'[m][y].addr # m
    <2>1. d.to \in Nodes /\ d.zone \in Zones
      BY DEF TypeOK, Datagram
    <2>2. \/ learned'[m] = learned[m]
          \/ d.node # m /\ learned'[m] = Learn(learned[m], d.zone, d.node)
      BY <1>4, <2>1 DEF Deliver, TypeOK, OnControl
    <2> QED
      BY <2>1, <2>2, <1>a DEF Learn, Tables
  <1>5. ASSUME NEW d \in net, Lose(d)
        PROVE  learned'[m][y].addr # m
    BY <1>5, <1>a DEF Lose
  <1>6. ASSUME Tick
        PROVE  learned'[m][y].addr # m
    <2>1. learned'[m][y] = Absent \/ learned'[m][y] = AgeEntry(learned[m][y])
      BY <1>6 DEF Tick, Age
    <2>2. AgeEntry(learned[m][y]).addr = learned[m][y].addr
      BY <1>a DEF AgeEntry, Tables, Entry
    <2> QED
      BY <2>1, <2>2, <1>a DEF Absent
  <1>7. CASE UNCHANGED vars
    BY <1>7, <1>a DEF vars
  <1> QED
    BY <1>1, <1>2, <1>3, <1>4, <1>5, <1>6, <1>7 DEF Next, Receive

\* No reachable table names its own node: _on_control filters the echo even
\* where the receive loop's address filter does not.
THEOREM NoSelfRoute == Spec => []NeverRoutesToItself
  <1>1. Init => NeverRoutesToItself
    BY NodesAssumption, NoAddrAssumption DEF Init, NeverRoutesToItself, EmptyTable, Absent
  <1> QED
    BY <1>1, InitTypeOK, NextTypeOK, NextNeverRoutesToItself, PTL DEF Spec

-----------------------------------------------------------------------------
(* The peer count.  It is a statement about how many zones are known, so   *)
(* it needs the set of zones to be finite (ZonesAssumption).               *)

\* Every zone that known_zones lists is pinned, or was served recently by the
\* node its entry names.
LEMMA AgeInvBoundsPeers == TypeOK /\ AgeInv => PeerCountIsCurrent
  <1> SUFFICES ASSUME TypeOK, AgeInv, NEW n \in Nodes
               PROVE  PeerCount(learned[n], Pinned[n], zone[n]) <=
                        Cardinality({z \in Zones \ {zone[n]} :
                          Pinned[n][z] # NoAddr \/ \E m \in Nodes : RecentlyServed(m, z)})
    BY DEF PeerCountIsCurrent
  <1> DEFINE known == KnownZones(learned[n], Pinned[n]) \ {zone[n]}
             current == {z \in Zones \ {zone[n]} :
                           Pinned[n][z] # NoAddr \/ \E m \in Nodes : RecentlyServed(m, z)}
  <1>1. known \subseteq current
    <2> SUFFICES ASSUME NEW z \in Zones, z # zone[n], Fresh(learned[n], z)
                 PROVE  \E m \in Nodes : RecentlyServed(m, z)
      BY DEF KnownZones
    <2>1. learned[n][z].addr \in Nodes
      BY NodesAssumption DEF Fresh, TypeOK, Tables, Entry
    <2>2. silent[learned[n][z].addr][z] <= learned[n][z].age + MaxDelay
      BY DEF AgeInv, EntriesRecent
    <2>3. learned[n][z].age \in Nat /\ learned[n][z].age <= EntryTTL
      BY EntryTTLAssumption DEF Fresh, Expired, TypeOK, Tables, Entry
    <2>4. silent[learned[n][z].addr][z] \in Nat
      BY <2>1, EntryTTLAssumption, TimingAssumption DEF TypeOK, MaxSilent
    <2>5. RecentlyServed(learned[n][z].addr, z)
      BY <2>2, <2>3, <2>4, EntryTTLAssumption, TimingAssumption DEF RecentlyServed
    <2> QED
      BY <2>1, <2>5
  <1>2. IsFiniteSet(current)
    BY ZonesAssumption, FS_Subset
  <1>3. Cardinality(known) <= Cardinality(current)
    BY <1>1, <1>2, FS_Subset
  <1> QED
    BY <1>3 DEF PeerCount

\* In every reachable state the number of peers a heartbeat reports is at most
\* the number of other zones that are pinned or were served recently.
THEOREM PeerCountCurrent == Spec => []PeerCountIsCurrent
  <1>1. Init => TypeOK /\ AgeInv
    BY InitTypeOK, InitAgeInv
  <1>2. TypeOK /\ AgeInv /\ [Next]_vars => (TypeOK /\ AgeInv)'
    BY NextTypeOK, NextAgeInv
  <1>3. TypeOK /\ AgeInv => PeerCountIsCurrent
    BY AgeInvBoundsPeers
  <1> QED
    BY <1>1, <1>2, <1>3, PTL DEF Spec

-----------------------------------------------------------------------------
(* A zone that is heard of stays routable.                                 *)
(*                                                                         *)
(* LiveZonesStayRoutable bounds nothing by itself.  The strengthening      *)
(* bounds the age of n's entry for the zone of m, whom n has heard, by     *)
(* m's announcements since: one interval for each that n missed, one if    *)
(* the latest is still under way, and the time since that one.             *)

\* The time to live covers MaxMissed announcements in a row.
Timely == (MaxMissed + 1) * Interval + MaxDelay <= EntryTTL /\ MaxDelay < Interval

\* Ticks since m's latest announcement.
Since(m) == Interval - timer[m]

\* The latest announcement of m is still on its way to n.
UnderWay(n, m) ==
    \E d \in net : /\ d.to = n /\ d.node = m /\ d.zone = zone[m]
                   /\ ~d.copy /\ d.age = Since(m)

HeardAreUp == \A n \in Nodes : \A m \in heard[n] : up[n] /\ up[m]

\* What m announced before it moved is older than its first announcement since,
\* so it cannot be under way when m announces again.
OldZonesAreOlder ==
    \A d \in net : up[d.node] /\ d.zone # zone[d.node] => Since(d.node) <= d.age

\* While such a datagram is under way, n's entry is from after the move: the
\* datagram resets the count of missed announcements, but not the entry's age.
SinceMove(n, m) ==
    \A d \in net : d.node = m /\ d.zone # zone[m] => learned[n][zone[m]].age <= Since(m)

KeepsUp(n, m) ==
    /\ learned[n][zone[m]].addr # NoAddr
    /\ learned[n][zone[m]].age <=
          Since(m) + missed[n][m] * Interval + (IF UnderWay(n, m) THEN Interval ELSE 0)

EntriesKeepUp == \A n \in Nodes : \A m \in heard[n] \ {n} : SinceMove(n, m) /\ KeepsUp(n, m)

LiveInv == HeardAreUp /\ OldZonesAreOlder /\ EntriesKeepUp

\* Counting in intervals.
LEMMA Products ==
    ASSUME NEW a \in Nat, NEW i \in Nat
    PROVE  /\ a * i \in Nat
           /\ (a + 1) * i = a * i + i
           /\ \A b \in Nat : a <= b => a * i <= b * i
  <1>1. a * i \in Nat /\ (a + 1) * i = a * i + i
    OBVIOUS
  <1>2. ASSUME NEW b \in Nat, a <= b PROVE a * i <= b * i
    <2>1. PICK c \in Nat : b = a + c
      BY <1>2
    <2>2. c * i \in Nat /\ b * i = a * i + c * i
      BY <2>1
    <2> QED
      BY <1>1, <2>2
  <1> QED
    BY <1>1, <1>2

\* The types the steps below compare.
LEMMA LiveTypes ==
    ASSUME TypeOK
    PROVE  /\ \A m \in Nodes : zone[m] \in Zones /\ Since(m) \in Nat /\ Since(m) <= Interval
           /\ \A n \in Nodes, m \in Nodes : missed[n][m] \in 0 .. MaxMissed
                                            /\ missed[n][m] * Interval \in Nat
           /\ \A n \in Nodes, z \in Zones : learned[n] \in Tables /\ learned[n][z] \in Entry
                                            /\ learned[n][z].age \in Nat
           /\ \A n \in Nodes : heard[n] \subseteq Nodes
           /\ \A d \in net : /\ d \in Datagram /\ d.to \in Nodes /\ d.node \in Nodes
                             /\ d.zone \in Zones /\ d.age \in Nat /\ d.age <= MaxDelay
  <1> USE TimingAssumption, EntryTTLAssumption
  <1>1. \A m \in Nodes : zone[m] \in Zones /\ Since(m) \in Nat /\ Since(m) <= Interval
    BY DEF TypeOK, Since
  <1>2. \A n \in Nodes, m \in Nodes : missed[n][m] \in 0 .. MaxMissed
    BY DEF TypeOK
  <1>3. \A n \in Nodes, m \in Nodes : missed[n][m] * Interval \in Nat
    BY <1>2, Products
  <1>4. \A n \in Nodes, z \in Zones : learned[n] \in Tables /\ learned[n][z] \in Entry
                                      /\ learned[n][z].age \in Nat
    BY DEF TypeOK, Tables, Entry
  <1>5. \A n \in Nodes : heard[n] \subseteq Nodes
    BY DEF TypeOK
  <1>6. \A d \in net : /\ d \in Datagram /\ d.to \in Nodes /\ d.node \in Nodes
                       /\ d.zone \in Zones /\ d.age \in Nat /\ d.age <= MaxDelay
    BY DEF TypeOK, Datagram
  <1> QED
    BY <1>1, <1>2, <1>3, <1>4, <1>5, <1>6

\* Under Timely the bound of EntriesKeepUp never exceeds the time to live: when
\* the latest announcement is under way, at most MaxDelay ticks have passed.
LEMMA LiveEntriesAreFresh ==
    ASSUME Timely, TypeOK, LiveInv, NEW n \in Nodes, NEW m \in heard[n] \ {n}
    PROVE  /\ learned[n][zone[m]].addr # NoAddr
           /\ learned[n][zone[m]].age <= EntryTTL
  <1> USE TimingAssumption, EntryTTLAssumption
  <1>1. m \in Nodes
    BY LiveTypes
  <1>2. /\ learned[n][zone[m]].addr # NoAddr
        /\ learned[n][zone[m]].age <=
              Since(m) + missed[n][m] * Interval + (IF UnderWay(n, m) THEN Interval ELSE 0)
    BY DEF LiveInv, EntriesKeepUp, KeepsUp
  <1>3. /\ missed[n][m] * Interval <= MaxMissed * Interval
        /\ MaxMissed * Interval \in Nat
        /\ (MaxMissed + 1) * Interval = MaxMissed * Interval + Interval
    BY <1>1, LiveTypes, Products
  <1>4. MaxMissed * Interval + Interval + MaxDelay <= EntryTTL
    BY <1>3 DEF Timely
  <1>5. /\ Since(m) \in Nat /\ Since(m) <= Interval
        /\ missed[n][m] * Interval \in Nat /\ learned[n][zone[m]].age \in Nat
    BY <1>1, LiveTypes
  <1>6. CASE UnderWay(n, m)
    <2>1. Since(m) <= MaxDelay
      BY <1>6, LiveTypes DEF UnderWay
    <2>2. learned[n][zone[m]].age <= Since(m) + missed[n][m] * Interval + Interval
      BY <1>2, <1>6
    <2> HIDE DEF Since
    <2> QED
      BY <1>2, <1>3, <1>4, <1>5, <2>1, <2>2
  <1>7. CASE ~UnderWay(n, m)
    <2>1. learned[n][zone[m]].age <= Since(m) + missed[n][m] * Interval
      BY <1>2, <1>5, <1>7
    <2> QED
      BY <1>2, <1>3, <1>4, <1>5, <2>1
  <1> QED
    BY <1>6, <1>7

LEMMA InitLiveInv == Init => LiveInv
  BY DEF Init, LiveInv, HeardAreUp, OldZonesAreOlder, EntriesKeepUp

\* A pair of nodes that a step does not concern: what bounds the entry before
\* bounds it after.
LEMMA PairKept ==
    ASSUME TypeOK, LiveInv, NEW n \in Nodes, NEW m \in heard[n] \ {n},
           zone'[m] = zone[m], timer'[m] = timer[m], missed'[n][m] = missed[n][m],
           learned'[n][zone[m]] = learned[n][zone[m]],
           UnderWay(n, m) => UnderWay(n, m)'
    PROVE  KeepsUp(n, m)'
  <1>1. KeepsUp(n, m)
    BY DEF LiveInv, EntriesKeepUp
  <1>2. Since(m)' = Since(m)
    BY DEF Since
  <1>3. /\ Since(m) \in Nat /\ missed[n][m] * Interval \in Nat
        /\ learned[n][zone[m]].age \in Nat /\ Interval \in Nat
    BY LiveTypes, TimingAssumption
  <1> QED
    BY <1>1, <1>2, <1>3 DEF KeepsUp

LEMMA NextLiveInv == Timely /\ TypeOK /\ LiveInv /\ [Next]_vars => LiveInv'
  <1> SUFFICES ASSUME Timely, TypeOK, LiveInv, [Next]_vars PROVE LiveInv'
    OBVIOUS
  <1> USE TimingAssumption, EntryTTLAssumption
  <1>t. TypeOK'
    BY NextTypeOK
  <1>h. HeardAreUp /\ OldZonesAreOlder /\ EntriesKeepUp
    BY DEF LiveInv
  <1>1. ASSUME NEW n \in Nodes, NEW z \in Zones, Start(n, z)
        PROVE  LiveInv'
    <2>1. heard' = heard /\ missed' = missed /\ net \subseteq net'
      BY <1>1 DEF Start
    <2>2. \A m \in Nodes : m # n => /\ up'[m] = up[m] /\ zone'[m] = zone[m]
                                    /\ timer'[m] = timer[m] /\ learned'[m] = learned[m]
      BY <1>1 DEF Start, TypeOK
    <2>3. \A k \in Nodes : \A m \in heard[k] : k # n /\ m # n
      BY <1>1, <1>h DEF Start, HeardAreUp
    <2>4. HeardAreUp'
      BY <1>h, <2>1, <2>2, <2>3, LiveTypes DEF HeardAreUp
    <2>5. OldZonesAreOlder'
      <3> SUFFICES ASSUME NEW d \in net', up'[d.node], d.zone # zone'[d.node]
                   PROVE  Since(d.node)' <= d.age
        BY DEF OldZonesAreOlder
      <3>1. d \in net
        <4>1. d \notin Announcement(n, z)
          BY <1>1 DEF Announcement, Start, TypeOK
        <4> QED
          BY <1>1, <4>1 DEF Start
      <3>2. CASE d.node = n
        <4>1. Since(n)' = 0
          BY <1>1 DEF Since, Start, TypeOK
        <4> QED
          BY <3>1, <3>2, <4>1, LiveTypes
      <3>3. CASE d.node # n
        BY <1>h, <2>2, <3>1, <3>3, LiveTypes DEF OldZonesAreOlder, Since
      <3> QED
        BY <3>2, <3>3
    <2>6. EntriesKeepUp'
      <3> SUFFICES ASSUME NEW k \in Nodes, NEW m \in heard[k] \ {k}
                   PROVE  SinceMove(k, m)' /\ KeepsUp(k, m)'
        BY <2>1 DEF EntriesKeepUp
      <3>1. k # n /\ m # n /\ m \in Nodes
        BY <2>3, LiveTypes
      <3>2. /\ zone'[m] = zone[m] /\ timer'[m] = timer[m] /\ learned'[k] = learned[k]
        BY <2>2, <3>1
      <3>3. UnderWay(k, m) => UnderWay(k, m)'
        BY <2>1, <3>2 DEF UnderWay, Since
      <3>4. SinceMove(k, m)'
        <4>1. \A d \in net' : d.node = m => d \in net
          BY <1>1, <3>1 DEF Start, Announcement
        <4> QED
          BY <1>h, <3>2, <4>1 DEF SinceMove, EntriesKeepUp, Since
      <3> QED
        BY <2>1, <3>2, <3>3, <3>4, PairKept
    <2> QED
      BY <2>4, <2>5, <2>6 DEF LiveInv
  <1>2. ASSUME NEW n \in Nodes, Stop(n)
        PROVE  LiveInv'
    <2>1. zone' = zone /\ net' = net
      BY <1>2 DEF Stop
    <2>2. \A m \in Nodes : m # n => /\ up'[m] = up[m] /\ timer'[m] = timer[m]
                                    /\ learned'[m] = learned[m]
      BY <1>2 DEF Stop, TypeOK
    <2>3. \A k \in Nodes : \A m \in heard'[k] : k # n /\ m # n /\ m \in heard[k] /\ m \in Nodes
      BY <1>2, LiveTypes DEF Stop
    <2>4. \A k \in Nodes, m \in Nodes : k # n /\ m # n => missed'[k][m] = missed[k][m]
      BY <1>2 DEF Stop
    <2>5. HeardAreUp'
      BY <1>h, <2>2, <2>3 DEF HeardAreUp
    <2>6. OldZonesAreOlder'
      <3> SUFFICES ASSUME NEW d \in net, up'[d.node], d.zone # zone[d.node]
                   PROVE  Since(d.node)' <= d.age
        BY <2>1 DEF OldZonesAreOlder
      <3>1. d.node # n
        BY <1>2 DEF Stop, TypeOK
      <3> QED
        BY <1>h, <2>2, <3>1, LiveTypes DEF OldZonesAreOlder, Since
    <2>7. EntriesKeepUp'
      <3> SUFFICES ASSUME NEW k \in Nodes, NEW m \in heard'[k] \ {k}
                   PROVE  SinceMove(k, m)' /\ KeepsUp(k, m)'
        BY DEF EntriesKeepUp
      <3>1. /\ m \in heard[k] \ {k} /\ zone'[m] = zone[m] /\ timer'[m] = timer[m]
            /\ learned'[k] = learned[k] /\ missed'[k][m] = missed[k][m]
        BY <2>1, <2>2, <2>3, <2>4
      <3>2. UnderWay(k, m) => UnderWay(k, m)'
        BY <2>1, <3>1 DEF UnderWay, Since
      <3>3. SinceMove(k, m)'
        BY <1>h, <2>1, <3>1 DEF SinceMove, EntriesKeepUp, Since
      <3> QED
        BY <3>1, <3>2, <3>3, PairKept
    <2> QED
      BY <2>5, <2>6, <2>7 DEF LiveInv
  <1>3. ASSUME NEW n \in Nodes, Announce(n)
        PROVE  LiveInv'
    <2>1. up' = up /\ zone' = zone /\ heard' = heard /\ missed' = missed /\ net \subseteq net'
      BY <1>3 DEF Announce
    <2>2. Since(n) = Interval /\ Since(n)' = 0
      BY <1>3 DEF Announce, Since, TypeOK
    <2>3. \A m \in Nodes : m # n => timer'[m] = timer[m] /\ Since(m)' = Since(m)
      BY <1>3 DEF Announce, Since, TypeOK
    \* Nothing that n announced before is still under way.
    <2>4. \A d \in net : d.node = n => d.zone = zone[n]
      BY <1>3, <1>h, <2>2, LiveTypes DEF OldZonesAreOlder, Timely, Announce
    <2>5. \A d \in net' : d.zone # zone[d.node] => d \in net /\ d.node # n
      BY <1>3, <2>4 DEF Announce, Announcement
    \* n drops no entry that matters.
    <2>6. ASSUME NEW k \in Nodes, NEW m \in heard[k] \ {k}
          PROVE  learned'[k][zone[m]] = learned[k][zone[m]]
      <3>1. m \in Nodes /\ zone[m] \in Zones /\ learned[k][zone[m]].age \in Nat
        BY LiveTypes
      <3>2. ~Expired(learned[k][zone[m]].age)
        BY <3>1, LiveEntriesAreFresh DEF Expired
      <3>3. learned'[k] = IF k = n THEN ForgetStale(learned[k]) ELSE learned[k]
        BY <1>3 DEF Announce, TypeOK
      <3> QED
        BY <3>1, <3>2, <3>3 DEF ForgetStale
    <2>7. HeardAreUp'
      BY <1>h, <2>1 DEF HeardAreUp
    <2>8. OldZonesAreOlder'
      BY <1>h, <2>1, <2>3, <2>5, LiveTypes DEF OldZonesAreOlder
    <2>9. EntriesKeepUp'
      <3> SUFFICES ASSUME NEW k \in Nodes, NEW m \in heard[k] \ {k}
                   PROVE  SinceMove(k, m)' /\ KeepsUp(k, m)'
        BY <2>1 DEF EntriesKeepUp
      <3>1. m \in Nodes /\ learned'[k][zone[m]] = learned[k][zone[m]]
        BY <2>6, LiveTypes
      <3>2. SinceMove(k, m)'
        <4> SUFFICES ASSUME NEW d \in net', d.node = m, d.zone # zone[m]
                     PROVE  learned[k][zone[m]].age <= Since(m)'
          BY <2>1, <3>1 DEF SinceMove
        <4>1. d \in net /\ m # n
          BY <2>5
        <4> QED
          BY <1>h, <2>3, <3>1, <4>1 DEF EntriesKeepUp, SinceMove
      <3>3. CASE m # n
        <4>1. UnderWay(k, m) => UnderWay(k, m)'
          BY <2>1, <2>3, <3>1, <3>3 DEF UnderWay
        <4>2. KeepsUp(k, m)'
          BY <2>1, <2>3, <3>1, <3>3, <4>1, PairKept
        <4> QED
          BY <3>2, <4>2
      <3>4. CASE m = n
        <4>1. UnderWay(k, m)'
          <5> DEFINE d == [to |-> k, node |-> n, zone |-> zone[n], age |-> 0, copy |-> FALSE]
          <5>1. d \in net'
            BY <1>3 DEF Announce, Announcement
          <5>2. /\ d.to = k /\ d.node = m /\ d.zone = zone'[m] /\ ~d.copy /\ d.age = Since(m)'
            BY <2>1, <2>2, <3>4
          <5> QED
            BY <5>1, <5>2 DEF UnderWay
        <4>2. ~UnderWay(k, m)
          BY <2>2, <3>4, LiveTypes DEF UnderWay, Timely
        <4>3. /\ learned[k][zone[m]].addr # NoAddr
              /\ learned[k][zone[m]].age <= Since(m) + missed[k][m] * Interval
          BY <1>h, <2>2, <3>1, <3>4, <4>2, LiveTypes DEF EntriesKeepUp, KeepsUp
        <4>4. learned[k][zone[m]].age <= Since(m)' + missed[k][m] * Interval + Interval
          BY <2>2, <3>1, <3>4, <4>3, LiveTypes
        <4>5. KeepsUp(k, m)'
          BY <2>1, <3>1, <4>1, <4>3, <4>4 DEF KeepsUp
        <4> QED
          BY <3>2, <4>5
      <3> QED
        BY <3>3, <3>4
    <2> QED
      BY <2>7, <2>8, <2>9 DEF LiveInv
  <1>4. ASSUME NEW d \in net, NEW again \in BOOLEAN, Deliver(d, again)
        PROVE  LiveInv'
    <2>1. up' = up /\ zone' = zone /\ timer' = timer /\ net \ {d} \subseteq net'
      BY <1>4 DEF Deliver
    <2>2. d.to \in Nodes /\ d.node \in Nodes /\ d.zone \in Zones
      BY LiveTypes
    <2>3. \A m \in Nodes : Since(m)' = Since(m)
      BY <2>1 DEF Since
    <2>4. \A e \in net' : \E f \in net : e.node = f.node /\ e.zone = f.zone /\ e.age = f.age
      <3>1. ASSUME NEW e \in net', e = [d EXCEPT !.copy = TRUE]
            PROVE  e.node = d.node /\ e.zone = d.zone /\ e.age = d.age
        BY <3>1, LiveTypes DEF Datagram
      <3> QED
        BY <1>4, <3>1 DEF Deliver
    <2>5. \A k \in Nodes : \A m \in heard'[k] :
             m \in heard[k] \/ (k = d.to /\ m = d.node /\ Serves(d.node, d.zone))
      BY <1>4, <2>2 DEF Deliver, TypeOK
    <2>6. \A k \in Nodes, m \in Nodes :
             missed'[k][m] = IF k = d.to /\ m = d.node THEN 0 ELSE missed[k][m]
      BY <1>4, <2>2 DEF Deliver, TypeOK
    \* The entry of the announced zone is new, the others are left alone.
    <2>7. ASSUME NEW k \in Nodes, NEW z \in Zones
          PROVE  \/ learned'[k][z] = learned[k][z]
                 \/ k = d.to /\ z = d.zone /\ learned'[k][z] = [addr |-> d.node, age |-> 0]
      <3>1. learned'[k] = IF k = d.to THEN OnControl(learned[k], k, d) ELSE learned[k]
        BY <1>4, <2>2 DEF Deliver, TypeOK
      <3> QED
        BY <2>2, <3>1, LiveTypes DEF OnControl, Learn, Tables
    <2>8. d.node # d.to => learned'[d.to][d.zone] = [addr |-> d.node, age |-> 0]
      <3>1. learned'[d.to] = OnControl(learned[d.to], d.to, d)
        BY <1>4, <2>2 DEF Deliver, TypeOK
      <3> QED
        BY <2>2, <3>1, LiveTypes DEF OnControl, OwnEndpoint, Learn, Tables
    <2>9. HeardAreUp'
      BY <1>4, <1>h, <2>1, <2>5 DEF HeardAreUp, Deliver, Serves
    <2>10. OldZonesAreOlder'
      BY <1>h, <2>1, <2>3, <2>4, LiveTypes DEF OldZonesAreOlder
    <2>11. EntriesKeepUp'
      <3> SUFFICES ASSUME NEW k \in Nodes, NEW m \in heard'[k] \ {k}
                   PROVE  SinceMove(k, m)' /\ KeepsUp(k, m)'
        BY DEF EntriesKeepUp
      <3>1. /\ m \in Nodes /\ zone[m] \in Zones /\ Since(m) \in Nat
            /\ missed'[k][m] * Interval \in Nat
        BY <1>t, <2>2, <2>5, <2>6, LiveTypes, Products
      \* A new entry is younger than any bound.
      <3>2. CASE learned'[k][zone[m]].addr # NoAddr /\ learned'[k][zone[m]].age = 0
        <4>1. SinceMove(k, m)'
          BY <2>1, <2>3, <3>1, <3>2 DEF SinceMove
        <4>2. 0 <= Since(m)' + missed'[k][m] * Interval + (IF UnderWay(k, m)' THEN Interval ELSE 0)
          BY <2>3, <3>1
        <4>3. KeepsUp(k, m)'
          BY <2>1, <3>2, <4>2 DEF KeepsUp
        <4> QED
          BY <4>1, <4>3
      <3>3. CASE ~(learned'[k][zone[m]].addr # NoAddr /\ learned'[k][zone[m]].age = 0)
        <4>1. learned'[k][zone[m]] = learned[k][zone[m]]
          BY <2>2, <2>7, <3>1, <3>3, NoAddrAssumption, NodesAssumption
        <4>2. ~(k = d.to /\ m = d.node /\ d.zone = zone[m])
          BY <2>2, <2>8, <3>3, NoAddrAssumption, NodesAssumption
        <4>3. m \in heard[k] \ {k}
          BY <2>5, <4>2 DEF Serves
        <4>4. SinceMove(k, m) /\ KeepsUp(k, m)
          BY <1>h, <4>3 DEF EntriesKeepUp
        <4>5. SinceMove(k, m)'
          BY <2>1, <2>3, <2>4, <3>1, <4>1, <4>4 DEF SinceMove
        <4>6. UnderWay(k, m) => UnderWay(k, m)'
          BY <2>1, <2>3, <3>1, <4>2 DEF UnderWay
        <4>7. CASE k = d.to /\ m = d.node
          <5>1. learned[k][zone[m]].age <= Since(m)
            BY <4>2, <4>4, <4>7 DEF SinceMove
          <5>2. learned[k][zone[m]].addr # NoAddr
            BY <4>4 DEF KeepsUp
          <5>3. learned[k][zone[m]].age <= Since(m)' + missed'[k][m] * Interval
                                            + (IF UnderWay(k, m)' THEN Interval ELSE 0)
            BY <2>3, <3>1, <5>1, LiveTypes
          <5>4. KeepsUp(k, m)'
            BY <2>1, <4>1, <5>2, <5>3 DEF KeepsUp
          <5> QED
            BY <4>5, <5>4
        <4>8. CASE ~(k = d.to /\ m = d.node)
          <5>1. missed'[k][m] = missed[k][m]
            BY <2>6, <3>1, <4>8
          <5> QED
            BY <2>1, <4>1, <4>3, <4>5, <4>6, <5>1, PairKept
        <4> QED
          BY <4>7, <4>8
      <3> QED
        BY <3>2, <3>3
    <2> QED
      BY <2>9, <2>10, <2>11 DEF LiveInv
  <1>5. ASSUME NEW d \in net, Lose(d)
        PROVE  LiveInv'
    <2>1. /\ up' = up /\ zone' = zone /\ timer' = timer /\ heard' = heard /\ learned' = learned
          /\ net' = net \ {d}
      BY <1>5 DEF Lose
    <2>2. d.to \in Nodes /\ d.node \in Nodes
      BY LiveTypes
    <2>3. \A m \in Nodes : Since(m)' = Since(m)
      BY <2>1 DEF Since
    <2>4. \A k \in Nodes, m \in Nodes :
             missed'[k][m] = IF k = d.to /\ m = d.node /\ up[d.to] /\ ~d.copy
                             THEN missed[k][m] + 1 ELSE missed[k][m]
      BY <1>5, <2>2 DEF Lose, TypeOK
    <2>5. HeardAreUp'
      BY <1>h, <2>1 DEF HeardAreUp
    <2>6. OldZonesAreOlder'
      BY <1>h, <2>1, <2>3, <2>2, LiveTypes DEF OldZonesAreOlder
    <2>7. EntriesKeepUp'
      <3> SUFFICES ASSUME NEW k \in Nodes, NEW m \in heard[k] \ {k}
                   PROVE  SinceMove(k, m)' /\ KeepsUp(k, m)'
        BY <2>1 DEF EntriesKeepUp
      <3>1. /\ m \in Nodes /\ Since(m) \in Nat /\ missed[k][m] \in Nat
            /\ missed[k][m] * Interval \in Nat /\ learned[k][zone[m]].age \in Nat
        BY LiveTypes
      <3>2. SinceMove(k, m) /\ KeepsUp(k, m)
        BY <1>h DEF EntriesKeepUp
      <3>3. SinceMove(k, m)'
        BY <2>1, <2>3, <3>1, <3>2 DEF SinceMove
      \* The announcement that was under way now counts as missed.
      <3>4. CASE k = d.to /\ m = d.node /\ ~d.copy
        <4>1. up[d.to]
          BY <1>h, <3>4 DEF HeardAreUp
        <4>2. missed'[k][m] * Interval = missed[k][m] * Interval + Interval
          BY <2>4, <3>1, <3>4, <4>1, Products
        <4>3. learned[k][zone[m]].age <= Since(m)' + missed'[k][m] * Interval
                                          + (IF UnderWay(k, m)' THEN Interval ELSE 0)
          <5>1. learned[k][zone[m]].age <= Since(m) + missed[k][m] * Interval + Interval
            BY <3>1, <3>2 DEF KeepsUp
          <5> QED
            BY <2>3, <3>1, <4>2, <5>1
        <4>4. KeepsUp(k, m)'
          BY <2>1, <3>2, <4>3 DEF KeepsUp
        <4> QED
          BY <3>3, <4>4
      <3>5. CASE ~(k = d.to /\ m = d.node /\ ~d.copy)
        <4>1. missed'[k][m] = missed[k][m]
          BY <2>4, <3>1, <3>5
        <4>2. UnderWay(k, m) => UnderWay(k, m)'
          BY <2>1, <2>3, <3>1, <3>5 DEF UnderWay
        <4> QED
          BY <2>1, <3>3, <4>1, <4>2, PairKept
      <3> QED
        BY <3>4, <3>5
    <2> QED
      BY <2>5, <2>6, <2>7 DEF LiveInv
  <1>6. ASSUME Tick
        PROVE  LiveInv'
    <2>1. up' = up /\ zone' = zone /\ heard' = heard /\ missed' = missed
      BY <1>6 DEF Tick
    <2>2. \A m \in Nodes : up[m] => Since(m)' = Since(m) + 1
      BY <1>6 DEF Tick, Since, TypeOK
    <2>3. ASSUME NEW d \in net
          PROVE  /\ [d EXCEPT !.age = @ + 1] \in net'
                 /\ LET e == [d EXCEPT !.age = @ + 1] IN
                      /\ e.to = d.to /\ e.node = d.node /\ e.zone = d.zone /\ e.copy = d.copy
                      /\ e.age = d.age + 1
      BY <1>6, LiveTypes DEF Tick, Datagram
    <2>4. \A e \in net' : \E d \in net : e.node = d.node /\ e.zone = d.zone /\ e.age = d.age + 1
      <3> SUFFICES ASSUME NEW e \in net'
                   PROVE  \E d \in net : e.node = d.node /\ e.zone = d.zone /\ e.age = d.age + 1
        OBVIOUS
      <3>1. PICK d \in net : e = [d EXCEPT !.age = @ + 1]
        BY <1>6 DEF Tick
      <3> QED
        BY <2>3, <3>1
    <2>5. \A k \in Nodes, z \in Zones : learned[k][z].addr # NoAddr =>
              /\ learned'[k][z].addr = learned[k][z].addr
              /\ learned'[k][z].age <= learned[k][z].age + 1
      <3> SUFFICES ASSUME NEW k \in Nodes, NEW z \in Zones, learned[k][z].addr # NoAddr
                   PROVE  /\ learned'[k][z].addr = learned[k][z].addr
                          /\ learned'[k][z].age <= learned[k][z].age + 1
        OBVIOUS
      <3>1. learned'[k][z] = AgeEntry(learned[k][z])
        BY <1>6 DEF Tick, Age
      <3>2. learned[k][z] \in Entry
        BY LiveTypes
      <3> QED
        BY <3>1, <3>2 DEF AgeEntry, Entry, Expired
    <2>6. HeardAreUp'
      BY <1>h, <2>1 DEF HeardAreUp
    <2>7. OldZonesAreOlder'
      <3> SUFFICES ASSUME NEW e \in net', up[e.node], e.zone # zone[e.node]
                   PROVE  Since(e.node)' <= e.age
        BY <2>1 DEF OldZonesAreOlder
      <3>1. PICK d \in net : e.node = d.node /\ e.zone = d.zone /\ e.age = d.age + 1
        BY <2>4
      <3>2. Since(d.node) <= d.age
        BY <1>h, <3>1 DEF OldZonesAreOlder
      <3> QED
        BY <2>2, <3>1, <3>2, LiveTypes
    <2>8. EntriesKeepUp'
      <3> SUFFICES ASSUME NEW k \in Nodes, NEW m \in heard[k] \ {k}
                   PROVE  SinceMove(k, m)' /\ KeepsUp(k, m)'
        BY <2>1 DEF EntriesKeepUp
      <3>1. /\ m \in Nodes /\ zone[m] \in Zones /\ Since(m) \in Nat
            /\ missed[k][m] * Interval \in Nat /\ learned[k][zone[m]].age \in Nat
        BY LiveTypes
      <3>2. learned'[k][zone[m]].age \in Nat
        BY <1>t, <2>1, <3>1 DEF TypeOK, Tables, Entry
      <3>3. Since(m)' = Since(m) + 1
        BY <1>h, <2>2, <3>1 DEF HeardAreUp
      <3>4. SinceMove(k, m) /\ KeepsUp(k, m)
        BY <1>h DEF EntriesKeepUp
      <3>5. /\ learned'[k][zone[m]].addr # NoAddr
            /\ learned'[k][zone[m]].age <= learned[k][zone[m]].age + 1
        BY <2>5, <3>1, <3>4 DEF KeepsUp
      <3>6. SinceMove(k, m)'
        <4> SUFFICES ASSUME NEW e \in net', e.node = m, e.zone # zone[m]
                     PROVE  learned'[k][zone[m]].age <= Since(m)'
          BY <2>1 DEF SinceMove
        <4>1. PICK d \in net : e.node = d.node /\ e.zone = d.zone
          BY <2>4
        <4>2. learned[k][zone[m]].age <= Since(m)
          BY <3>4, <4>1 DEF SinceMove
        <4> QED
          BY <3>1, <3>2, <3>3, <3>5, <4>2
      <3>7. UnderWay(k, m) => UnderWay(k, m)'
        <4> SUFFICES ASSUME NEW d \in net, d.to = k, d.node = m, d.zone = zone[m],
                            ~d.copy, d.age = Since(m)
                     PROVE  UnderWay(k, m)'
          BY DEF UnderWay
        <4> DEFINE e == [d EXCEPT !.age = @ + 1]
        <4>1. /\ e \in net' /\ e.to = k /\ e.node = m /\ e.zone = zone'[m] /\ ~e.copy
              /\ e.age = Since(m)'
          BY <2>1, <2>3, <3>3
        <4> HIDE DEF e
        <4> QED
          BY <4>1 DEF UnderWay
      <3>8. KeepsUp(k, m)'
        <4>1. CASE UnderWay(k, m)
          <5>1. learned[k][zone[m]].age <= Since(m) + missed[k][m] * Interval + Interval
            BY <3>4, <4>1 DEF KeepsUp
          <5>2. learned'[k][zone[m]].age <= Since(m)' + missed[k][m] * Interval + Interval
            BY <3>1, <3>2, <3>3, <3>5, <5>1
          <5> QED
            BY <2>1, <3>5, <3>7, <4>1, <5>2 DEF KeepsUp
        <4>2. CASE ~UnderWay(k, m)
          <5>1. learned[k][zone[m]].age <= Since(m) + missed[k][m] * Interval
            BY <3>1, <3>4, <4>2 DEF KeepsUp
          <5>2. learned'[k][zone[m]].age <= Since(m)' + missed[k][m] * Interval
                                             + (IF UnderWay(k, m)' THEN Interval ELSE 0)
            BY <3>1, <3>2, <3>3, <3>5, <5>1
          <5> QED
            BY <2>1, <3>5, <5>2 DEF KeepsUp
        <4> QED
          BY <4>1, <4>2
      <3> QED
        BY <3>6, <3>8
    <2> QED
      BY <2>6, <2>7, <2>8 DEF LiveInv
  <1>7. CASE UNCHANGED vars
    BY <1>7 DEF vars, LiveInv, HeardAreUp, OldZonesAreOlder, EntriesKeepUp, SinceMove, KeepsUp,
                UnderWay, Since
  <1> QED
    BY <1>1, <1>2, <1>3, <1>4, <1>5, <1>6, <1>7 DEF Next, Receive

\* In every reachable state of a network whose delays and losses the time to
\* live covers, a node that n has heard keeps its route in n's table.
THEOREM LiveZonesRoutable == Spec => []LiveZonesStayRoutable
  <1>1. CASE ~Timely
    <2>1. LiveZonesStayRoutable
      BY <1>1 DEF LiveZonesStayRoutable, Timely
    <2> QED
      BY <2>1, PTL
  <1>2. CASE Timely
    <2>1. Init => TypeOK /\ LiveInv
      BY InitTypeOK, InitLiveInv
    <2>2. TypeOK /\ LiveInv /\ [Next]_vars => (TypeOK /\ LiveInv)'
      BY <1>2, NextTypeOK, NextLiveInv
    <2>3. TypeOK /\ LiveInv => LiveZonesStayRoutable
      <3> SUFFICES ASSUME TypeOK, LiveInv, NEW n \in Nodes, NEW m \in heard[n] \ {n}
                   PROVE  Route(n, zone[m]) # NoAddr
        BY DEF LiveZonesStayRoutable
      <3>1. /\ learned[n][zone[m]].addr # NoAddr
            /\ learned[n][zone[m]].age <= EntryTTL
        BY <1>2, LiveEntriesAreFresh
      <3>2. learned[n][zone[m]].age \in Nat
        BY LiveTypes
      <3> QED
        BY <3>1, <3>2, EntryTTLAssumption DEF Route, AddrFor, Fresh, Expired
    <2> QED
      BY <2>1, <2>2, <2>3, PTL DEF Spec
  <1> QED
    BY <1>1, <1>2
=============================================================================
