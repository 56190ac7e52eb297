-------------------------- MODULE RelayMeshProofs ---------------------------
(***************************************************************************)
(* Proofs about RelayMesh, for any set of nodes, phones and packets, any   *)
(* topology and routes, with and without loss, duplication and restarts.   *)
(***************************************************************************)
EXTENDS RelayMesh, TLAPS

-----------------------------------------------------------------------------
(* Type correctness. *)

\* What a node puts on the backhaul are datagrams that carry the same copy.
LEMMA BackhaulType ==
    ASSUME TypeOK, NEW n \in Nodes, NEW c \in Copy
    PROVE  /\ Backhaul(n, c) \subseteq Datagram
           /\ \A d \in Backhaul(n, c) : d.copy = c
  <1> USE NoneAssumption, TopologyAssumption, PacketAssumption
  <1>1. /\ BroadcastToAllNodes(n, c) \subseteq Datagram
        /\ \A d \in BroadcastToAllNodes(n, c) : d.copy = c
    BY DEF BroadcastToAllNodes, Datagram
  <1>2. ASSUME NEW z \in Zones
        PROVE  /\ ForwardToZone(n, z, c) \subseteq Datagram
               /\ \A d \in ForwardToZone(n, z, c) : d.copy = c
    <2>1. route[n][z] \in Nodes \cup {NoAddr}
      BY DEF TypeOK
    <2> QED
      BY <1>1, <2>1 DEF ForwardToZone, Datagram
  <1>3. Dest[c.p] \in Zones \cup {Broadcast}
    BY DEF Copy
  <1> QED
    BY <1>1, <1>2, <1>3 DEF Backhaul

\* Fan-out leaves phones with what they had and copies with one hop less.
LEMMA FanOutType ==
    ASSUME TypeOK, NEW n \in Nodes, NEW peer, NEW c \in Copy, FanOut(n, peer, c)
    PROVE  /\ held' \in [Phones -> SUBSET Copy]
           /\ \A ph \in Phones : \A e \in held'[ph] : e \in held[ph] \/ e.p = c.p
  <1>1. CASE DecrementTtl(c).ttl > 0
    <2>1. DecrementTtl(c) \in Copy /\ DecrementTtl(c).p = c.p
      BY <1>1 DEF DecrementTtl, Copy
    <2>2. PICK R : GiveTo(R, DecrementTtl(c))
      BY <1>1 DEF FanOut
    <2>3. held' = [ph \in Phones |-> IF ph \in R THEN held[ph] \cup {DecrementTtl(c)}
                                                ELSE held[ph]]
      BY <2>2 DEF GiveTo
    <2>4. held \in [Phones -> SUBSET Copy]
      BY DEF TypeOK
    <2> QED
      BY <2>1, <2>3, <2>4
  <1>2. CASE ~(DecrementTtl(c).ttl > 0)
    BY <1>2 DEF FanOut, TypeOK
  <1> QED
    BY <1>1, <1>2

LEMMA HandleType ==
    ASSUME TypeOK, NEW n \in Nodes, NEW peer, NEW c \in Copy, NEW rest \in SUBSET Datagram,
           HandlePacket(n, peer, c, rest)
    PROVE  /\ seen' \in [Nodes -> SUBSET Packets]
           /\ presented' \in [Nodes -> SUBSET Packets]
           /\ attested' \in [Nodes -> SUBSET Keys]
           /\ net' \subseteq Datagram
           /\ held' \in [Phones -> SUBSET Copy]
  <1> USE PacketAssumption
  <1>a. c.p \in Packets
    BY DEF Copy
  <1>1. CASE Drop(n, c, rest)
    BY <1>1, <1>a DEF Drop, Marked, TypeOK
  <1>2. CASE Terminate(n, c, rest)
    BY <1>2, <1>a DEF Terminate, TypeOK
  <1>3. CASE Relay(n, peer, c, rest)
    <2>1. seen' = [seen EXCEPT ![n] = @ \cup {c.p}] /\ UNCHANGED <<presented, attested>>
      BY <1>3 DEF Relay
    <2>2. net' \subseteq Datagram
      BY <1>3, BackhaulType DEF Relay
    <2>3. held' \in [Phones -> SUBSET Copy]
      BY <1>3, FanOutType DEF Relay
    <2> QED
      BY <2>1, <2>2, <2>3, <1>a DEF TypeOK
  <1>4. CASE RejectPresentation(n, c, rest)
    <2>1. PICK s \in {presented[n], presented[n] \cup {c.p}} :
              presented' = [presented EXCEPT ![n] = s]
      BY <1>4 DEF RejectPresentation, Marked
    <2>2. presented \in [Nodes -> SUBSET Packets] /\ s \in SUBSET Packets
      BY <2>1, <1>a DEF TypeOK
    <2>3. presented' \in [Nodes -> SUBSET Packets]
      BY <2>1, <2>2
    <2> QED
      BY <1>4, <2>3 DEF RejectPresentation, TypeOK
  <1>5. CASE AcceptPresentation(n, c, rest)
    <2>1. /\ presented' = [presented EXCEPT ![n] = @ \cup {c.p}]
          /\ attested' = [attested EXCEPT ![n] = @ \cup {Token[c.p]}]
          /\ Token[c.p] # NoKey
          /\ UNCHANGED <<seen, held>>
      BY <1>5 DEF AcceptPresentation
    <2>2. net' \subseteq Datagram
      BY <1>5, BackhaulType DEF AcceptPresentation
    <2> QED
      BY <2>1, <2>2, <1>a DEF TypeOK
  <1> QED
    BY <1>1, <1>2, <1>3, <1>4, <1>5 DEF HandlePacket

LEMMA InitTypeOK == Init => TypeOK
  <1> SUFFICES ASSUME Init PROVE TypeOK
    OBVIOUS
  <1> USE PacketAssumption, WorldAssumption
  <1>1. held \in [Phones -> SUBSET Copy]
    <2>1. \A q \in Packets : [p |-> q, ttl |-> Ttl[q]] \in Copy
      BY DEF Copy
    <2> QED
      BY <2>1 DEF Init
  <1>2. link \in [Phones -> SUBSET Nodes]
    BY DEF Init
  <1>3. world.restarts \in Nat /\ world.moves \in Nat
    BY DEF Init, World
  <1> QED
    BY <1>1, <1>2, <1>3 DEF Init, TypeOK

LEMMA NextTypeOK == TypeOK /\ [Next]_vars => TypeOK'
  <1> SUFFICES ASSUME TypeOK, [Next]_vars PROVE TypeOK'
    OBVIOUS
  <1> world.restarts \in Nat /\ world.moves \in Nat
    BY WorldAssumption DEF TypeOK, World
  <1>1. ASSUME NEW ph \in Phones, NEW n \in Nodes, NEW c \in held[ph], PhoneSend(ph, n, c)
        PROVE  TypeOK'
    <2>1. c \in Copy /\ net \in SUBSET Datagram
      BY DEF TypeOK
    <2>2. HandlePacket(n, ph, c, net) /\ UNCHANGED <<world, route, link, restarts, moves>>
      BY <1>1 DEF PhoneSend
    <2> QED
      BY <2>1, <2>2, HandleType DEF TypeOK
  <1>2. ASSUME NEW d \in net, NEW again \in BOOLEAN, Receive(d, again)
        PROVE  TypeOK'
    <2> DEFINE rest == IF again THEN net ELSE net \ {d}
    <2>1. d.to \in Nodes /\ d.copy \in Copy /\ rest \in SUBSET Datagram
      BY DEF TypeOK, Datagram
    <2>2. CASE OwnEndpoint(d.to, d)
      BY <1>2, <2>2, <2>1 DEF Receive, TypeOK
    <2>3. CASE ~OwnEndpoint(d.to, d)
      <3>1. HandlePacket(d.to, NoAddr, d.copy, rest) /\ UNCHANGED <<world, route, link, restarts, moves>>
        BY <1>2, <2>3 DEF Receive
      <3> QED
        BY <2>1, <3>1, HandleType DEF TypeOK
    <2> QED
      BY <2>2, <2>3
  <1>3. ASSUME NEW d \in net, Lose(d)
        PROVE  TypeOK'
    BY <1>3 DEF Lose, TypeOK
  <1>4. ASSUME NEW n \in Nodes, NEW z \in Zones, NEW a \in Nodes, LearnRoute(n, z, a)
        PROVE  TypeOK'
    BY <1>4 DEF LearnRoute, TypeOK
  <1>5. ASSUME NEW n \in Nodes, NEW z \in Zones, ExpireRoute(n, z)
        PROVE  TypeOK'
    BY <1>5 DEF ExpireRoute, TypeOK
  <1>6. ASSUME NEW n \in Nodes, Restart(n)
        PROVE  TypeOK'
    BY <1>6 DEF Restart, TypeOK
  <1>7. ASSUME NEW ph \in Phones, NEW n \in Nodes, Roam(ph, n)
        PROVE  TypeOK'
    BY <1>7 DEF Roam, TypeOK
  <1>8. CASE UNCHANGED vars
    BY <1>8 DEF vars, TypeOK
  <1> QED
    BY <1>1, <1>2, <1>3, <1>4, <1>5, <1>6, <1>7, <1>8 DEF Next

\* Every reachable state of the mesh has the types of TypeOK.
THEOREM TypeCorrect == Spec => []TypeOK
  BY InitTypeOK, NextTypeOK, PTL DEF Spec

-----------------------------------------------------------------------------
(* Only credentialed traffic, and private traffic stays private.           *)
(*                                                                         *)
(* Both properties are inductive together with the types.  One lemma says  *)
(* what a single handler call can add to the state; both proofs rest on it.*)

\* A handler call that sends something has accepted the packet: on a gated
\* node the sender is attested there, and it is no beacon and not forged.
LEMMA HandleEffects ==
    ASSUME TypeOK, NEW n \in Nodes, NEW peer, NEW c \in Copy, NEW rest \in SUBSET Datagram,
           HandlePacket(n, peer, c, rest)
    PROVE  /\ \A m \in Nodes : \A k \in attested'[m] :
                  k \in attested[m] \/ (Kind[c.p] = "present" /\ Token[c.p] # NoKey /\ k = Token[c.p])
           /\ \A d \in net' : d \in rest \/
                  /\ d.copy = c
                  /\ Kind[c.p] \notin {"beacon", "forged"}
                  /\ Gated /\ Kind[c.p] # "present" => Sender[c.p] \in attested[n]
           /\ \A ph \in Phones : \A e \in held'[ph] : e \in held[ph] \/
                  /\ e.p = c.p
                  /\ Kind[c.p] \notin {"beacon", "forged"}
                  /\ Gated => Kind[c.p] # "present" /\ Sender[c.p] \in attested[n]
  <1>1. CASE Drop(n, c, rest)
    BY <1>1 DEF Drop, TypeOK
  <1>2. CASE Terminate(n, c, rest)
    BY <1>2 DEF Terminate, TypeOK
  <1>3. CASE Relay(n, peer, c, rest)
    <2>1. /\ Kind[c.p] \notin {"beacon", "forged"}
          /\ Gated => Kind[c.p] # "present" /\ Sender[c.p] \in attested[n]
      BY <1>3 DEF Relay, Accepts, Terminated, Refused, Unattested, IsPresentation
    <2>2. \A d \in net' : d \in rest \/ d.copy = c
      BY <1>3, BackhaulType DEF Relay
    <2>3. \A ph \in Phones : \A e \in held'[ph] : e \in held[ph] \/ e.p = c.p
      BY <1>3, FanOutType DEF Relay
    <2>4. attested' = attested
      BY <1>3 DEF Relay
    <2> QED
      BY <2>1, <2>2, <2>3, <2>4
  <1>4. CASE RejectPresentation(n, c, rest)
    BY <1>4 DEF RejectPresentation, TypeOK
  <1>5. CASE AcceptPresentation(n, c, rest)
    <2>1. Kind[c.p] = "present" /\ Token[c.p] # NoKey /\ held' = held
      BY <1>5 DEF AcceptPresentation, IsPresentation
    <2>2. \A d \in net' : d \in rest \/ d.copy = c
      BY <1>5, BackhaulType DEF AcceptPresentation
    <2>3. attested' = [attested EXCEPT ![n] = @ \cup {Token[c.p]}]
      BY <1>5 DEF AcceptPresentation
    <2>4. \A m \in Nodes : \A k \in attested'[m] : k \in attested[m] \/ k = Token[c.p]
      BY <2>3 DEF TypeOK
    <2> QED
      BY <2>1, <2>2, <2>4
  <1> QED
    BY <1>1, <1>2, <1>3, <1>4, <1>5 DEF HandlePacket

\* The two properties survive a handler call on a copy that is a phone's own
\* or already obeys them.
LEMMA HandleTraffic ==
    ASSUME TypeOK, OnlyCredentialedTraffic, PrivateTrafficStaysPrivate,
           NEW n \in Nodes, NEW peer, NEW c \in Copy, NEW rest \in SUBSET net,
           HandlePacket(n, peer, c, rest)
    PROVE  OnlyCredentialedTraffic' /\ PrivateTrafficStaysPrivate'
  <1>a. rest \in SUBSET Datagram /\ c.p \in Packets
    BY DEF TypeOK, Copy
  <1>1. /\ \A m \in Nodes : \A k \in attested'[m] :
              k \in attested[m] \/ (Kind[c.p] = "present" /\ Token[c.p] # NoKey /\ k = Token[c.p])
        /\ \A d \in net' : d \in rest \/
              /\ d.copy = c
              /\ Kind[c.p] \notin {"beacon", "forged"}
              /\ Gated /\ Kind[c.p] # "present" => Sender[c.p] \in attested[n]
        /\ \A ph \in Phones : \A e \in held'[ph] : e \in held[ph] \/
              /\ e.p = c.p
              /\ Kind[c.p] \notin {"beacon", "forged"}
              /\ Gated => Kind[c.p] # "present" /\ Sender[c.p] \in attested[n]
    BY <1>a, HandleEffects, Zenon
  <1>2. \A d \in net' : d \in net \/
            /\ d.copy = c
            /\ Kind[c.p] \notin {"beacon", "forged"}
            /\ Gated /\ Kind[c.p] # "present" => Sender[c.p] \in attested[n]
    BY <1>1
  <1>4. Gated => attested[n] \subseteq Credentialed
    BY DEF OnlyCredentialedTraffic
  <1>5. ASSUME NEW ph \in Phones, NEW p \in Packets, Delivered(ph, p)'
        PROVE  \/ Delivered(ph, p)
               \/ /\ p = c.p
                  /\ Kind[c.p] \notin {"beacon", "forged"}
                  /\ Gated => Kind[c.p] # "present" /\ Sender[c.p] \in attested[n]
    BY <1>1, <1>5 DEF Delivered
  <1>6. OnlyCredentialedTraffic'
    <2> SUFFICES ASSUME Gated PROVE OnlyCredentialedTraffic'
      BY DEF OnlyCredentialedTraffic
    <2>1. \A m \in Nodes : attested'[m] \subseteq Credentialed
      BY <1>1, <1>a DEF OnlyCredentialedTraffic, Credentialed
    <2>2. \A d \in net' : Kind[d.copy.p] # "present" => Sender[d.copy.p] \in Credentialed
      BY <1>2, <1>4 DEF OnlyCredentialedTraffic
    <2>3. \A ph \in Phones : \A p \in Packets : Delivered(ph, p)' => Sender[p] \in Credentialed
      BY <1>4, <1>5 DEF OnlyCredentialedTraffic
    <2> QED
      BY <2>1, <2>2, <2>3 DEF OnlyCredentialedTraffic
  <1>7. PrivateTrafficStaysPrivate'
    <2>1. \A d \in net' : Kind[d.copy.p] \notin {"beacon", "forged"}
      BY <1>2 DEF PrivateTrafficStaysPrivate
    <2>2. \A ph \in Phones : \A p \in Packets : Delivered(ph, p)' =>
              Kind[p] \notin {"beacon", "forged"} \cup (IF Gated THEN {"present"} ELSE {})
      BY <1>5 DEF PrivateTrafficStaysPrivate
    <2> QED
      BY <2>1, <2>2 DEF PrivateTrafficStaysPrivate
  <1> QED
    BY <1>6, <1>7

LEMMA InitTraffic == Init => OnlyCredentialedTraffic /\ PrivateTrafficStaysPrivate
  <1> SUFFICES ASSUME Init PROVE OnlyCredentialedTraffic /\ PrivateTrafficStaysPrivate
    OBVIOUS
  <1>1. \A ph \in Phones : \A p \in Packets : ~Delivered(ph, p)
    BY DEF Init, Delivered
  <1>2. net = {} /\ \A n \in Nodes : attested[n] = {}
    BY DEF Init
  <1> QED
    BY <1>1, <1>2 DEF OnlyCredentialedTraffic, PrivateTrafficStaysPrivate

LEMMA NextTraffic ==
    /\ TypeOK /\ OnlyCredentialedTraffic /\ PrivateTrafficStaysPrivate
    /\ [Next]_vars
    => OnlyCredentialedTraffic' /\ PrivateTrafficStaysPrivate'
  <1> SUFFICES ASSUME TypeOK, OnlyCredentialedTraffic, PrivateTrafficStaysPrivate, [Next]_vars
               PROVE  OnlyCredentialedTraffic' /\ PrivateTrafficStaysPrivate'
    OBVIOUS
  <1> DEFINE Kept == /\ \A n \in Nodes : attested'[n] \subseteq attested[n]
                     /\ net' \subseteq net
                     /\ held' = held
  <1>a. ASSUME Kept
        PROVE  OnlyCredentialedTraffic' /\ PrivateTrafficStaysPrivate'
    BY <1>a DEF OnlyCredentialedTraffic, PrivateTrafficStaysPrivate, Delivered
  <1>1. ASSUME NEW ph \in Phones, NEW n \in Nodes, NEW c \in held[ph], PhoneSend(ph, n, c)
        PROVE  OnlyCredentialedTraffic' /\ PrivateTrafficStaysPrivate'
    <2>1. c \in Copy /\ net \in SUBSET net
      BY DEF TypeOK
    <2>2. HandlePacket(n, ph, c, net)
      BY <1>1 DEF PhoneSend
    <2> QED
      BY <2>1, <2>2, HandleTraffic
  <1>2. ASSUME NEW d \in net, NEW again \in BOOLEAN, Receive(d, again)
        PROVE  OnlyCredentialedTraffic' /\ PrivateTrafficStaysPrivate'
    <2> DEFINE rest == IF again THEN net ELSE net \ {d}
    <2>1. d.to \in Nodes /\ d.copy \in Copy /\ rest \in SUBSET net
      BY DEF TypeOK, Datagram
    <2>2. CASE OwnEndpoint(d.to, d)
      <3>1. Kept
        BY <1>2, <2>2, <2>1 DEF Receive
      <3> QED
        BY <3>1, <1>a
    <2>3. CASE ~OwnEndpoint(d.to, d)
      <3>1. HandlePacket(d.to, NoAddr, d.copy, rest)
        BY <1>2, <2>3 DEF Receive
      <3> HIDE DEF rest
      <3> QED
        BY <2>1, <3>1, HandleTraffic
    <2> QED
      BY <2>2, <2>3
  <1>3. ASSUME NEW d \in net, Lose(d)
        PROVE  Kept
    BY <1>3 DEF Lose
  <1>4. ASSUME NEW n \in Nodes, NEW z \in Zones, NEW a \in Nodes, LearnRoute(n, z, a)
        PROVE  Kept
    BY <1>4 DEF LearnRoute
  <1>5. ASSUME NEW n \in Nodes, NEW z \in Zones, ExpireRoute(n, z)
        PROVE  Kept
    BY <1>5 DEF ExpireRoute
  <1>6. ASSUME NEW n \in Nodes, Restart(n)
        PROVE  Kept
    BY <1>6 DEF Restart, TypeOK
  <1>7. ASSUME NEW ph \in Phones, NEW n \in Nodes, Roam(ph, n)
        PROVE  Kept
    BY <1>7 DEF Roam
  <1>8. CASE UNCHANGED vars
    <2>1. Kept
      BY <1>8 DEF vars
    <2> QED
      BY <2>1, <1>a
  <1> HIDE DEF Kept
  <1> QED
    BY <1>1, <1>2, <1>3, <1>4, <1>5, <1>6, <1>7, <1>8, <1>a DEF Next

\* On a gated mesh nothing from a sender without an organiser's token is ever
\* delivered or forwarded, for any topology, traffic, loss and restarts.
THEOREM CredentialedTraffic == Spec => []OnlyCredentialedTraffic
  <1>1. Init => TypeOK /\ OnlyCredentialedTraffic /\ PrivateTrafficStaysPrivate
    BY InitTypeOK, InitTraffic
  <1>2. TypeOK /\ OnlyCredentialedTraffic /\ PrivateTrafficStaysPrivate /\ [Next]_vars
        => (TypeOK /\ OnlyCredentialedTraffic /\ PrivateTrafficStaysPrivate)'
    BY NextTypeOK, NextTraffic
  <1> QED
    BY <1>1, <1>2, PTL DEF Spec

\* Beacons, presentations and forged packets never reach a phone, and beacons
\* and forged packets never another node, in any reachable state.
THEOREM PrivateTraffic == Spec => []PrivateTrafficStaysPrivate
  <1>1. Init => TypeOK /\ OnlyCredentialedTraffic /\ PrivateTrafficStaysPrivate
    BY InitTypeOK, InitTraffic
  <1>2. TypeOK /\ OnlyCredentialedTraffic /\ PrivateTrafficStaysPrivate /\ [Next]_vars
        => (TypeOK /\ OnlyCredentialedTraffic /\ PrivateTrafficStaysPrivate)'
    BY NextTypeOK, NextTraffic
  <1> QED
    BY <1>1, <1>2, PTL DEF Spec
=============================================================================
