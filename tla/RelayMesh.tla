----------------------------- MODULE RelayMesh ------------------------------
(***************************************************************************)
(* The relay of signed mesh packets: several nodes, each a NodeRelay       *)
(* (node/relay.py) between the phones of its cell and the UDP backhaul     *)
(* (node/backhaul/batman_backhaul.py).  One handler call is one step here; *)
(* module NodeRelay splits it into the steps threads can interleave.       *)
(*                                                                         *)
(* The pipeline and the attestation cache are the vendored meshlink-core,  *)
(* which is not in the repository: they are modelled from how relay.py     *)
(* uses them.  A packet is a name with attributes; its ttl is the only     *)
(* field that changes on the way.                                          *)
(***************************************************************************)
EXTENDS Naturals, FiniteSets

CONSTANTS
    Nodes, Phones, Keys, Zones, Packets,
    Broadcast,      \* BROADCAST_ZONE
    NoAddr, NoKey,  \* None
    ZoneOf,         \* ZoneOf[n]: the zone node n serves
    Masked,         \* nodes that receive their own broadcasts (see ZoneSync)
    BlePhones,      \* phones connected over BLE; the others use Wi-Fi
    Kind, Sender, Dest, Ttl, Token, Origin,     \* attributes of the packets
    Gated,          \* nodes have the organiser's key: attestation is not None
    Worlds          \* circumstances a behaviour may meet, see World

\* "data" is every message that is relayed on, whatever its type.
Kinds == {"data", "beacon", "present", "forged"}

\* The circumstances of a behaviour: whether datagrams and sends get lost and
\* the pipeline rate-limits, which pairs <<z, a>> zone-sync announcements may
\* carry, and how many node restarts and moves of phones there are at most.
World ==
    [lossy : BOOLEAN, announced : SUBSET (Zones \X Nodes), restarts : Nat, moves : Nat]

ASSUME NoneAssumption == NoAddr \notin Nodes /\ NoKey \notin Keys /\ Broadcast \notin Zones
ASSUME TopologyAssumption ==
    /\ ZoneOf \in [Nodes -> Zones]
    /\ Masked \subseteq Nodes
    /\ BlePhones \subseteq Phones
ASSUME PacketAssumption ==
    /\ Kind \in [Packets -> Kinds]
    /\ Sender \in [Packets -> Keys]
    /\ Dest \in [Packets -> Zones \cup {Broadcast}]
    /\ Ttl \in [Packets -> Nat]
    /\ Token \in [Packets -> Keys \cup {NoKey}]
    /\ Origin \in [Packets -> Phones]
ASSUME GatedAssumption == Gated \in BOOLEAN
ASSUME WorldAssumption == Worlds \subseteq World

VARIABLES
    world,      \* one of Worlds, for good
    seen,       \* seen[n]: msg_ids in the dedup cache of _pipeline
    presented,  \* presented[n]: the same of _presentation_pipeline
    attested,   \* attested[n]: keys in the AttestationCache
    route,      \* route[n][z]: what addr_for returns
    net,        \* datagrams between nodes
    link,       \* link[ph]: the nodes whose cell phone ph is in
    held,       \* held[ph]: copies of packets phone ph has
    restarts, moves

vars == <<world, seen, presented, attested, route, net, link, held, restarts, moves>>

Copy == [p : Packets, ttl : Nat]
Datagram == [to : Nodes, from : Nodes, copy : Copy]

\* Keys for which some packet carries a token the organiser really signed.
Credentialed == {Token[p] : p \in {q \in Packets : Kind[q] = "present"}} \ {NoKey}

Init ==
    /\ world \in Worlds
    /\ seen = [n \in Nodes |-> {}]
    /\ presented = [n \in Nodes |-> {}]
    /\ attested = [n \in Nodes |-> {}]
    /\ route = [n \in Nodes |-> [z \in Zones |-> NoAddr]]
    /\ net = {}
    /\ link \in [Phones -> {{n} : n \in Nodes}]
    /\ held = [ph \in Phones |->
                  {[p |-> q, ttl |-> Ttl[q]] : q \in {r \in Packets : Origin[r] = ph}}]
    /\ restarts = 0
    /\ moves = 0

-----------------------------------------------------------------------------
(* Sending: BatmanBackhaul and the transports. *)

DecrementTtl(c) == [c EXCEPT !.ttl = @ - 1]

BroadcastToAllNodes(n, c) == [to : Nodes, from : {n}, copy : {c}]

\* A node that does not know the zone drops the packet.
ForwardNoFlood(n, z, c) ==
    IF z = ZoneOf[n] \/ route[n][z] = NoAddr THEN {}
    ELSE {[to |-> route[n][z], from |-> n, copy |-> c]}

ForwardToZone(n, z, c) ==
    IF z = ZoneOf[n] THEN {}
    ELSE IF route[n][z] = NoAddr THEN BroadcastToAllNodes(n, c)
    ELSE {[to |-> route[n][z], from |-> n, copy |-> c]}

\* Cross-node routing sends the packet as it came, ttl and all.
Backhaul(n, c) ==
    IF Dest[c.p] = Broadcast THEN BroadcastToAllNodes(n, c)
    ELSE ForwardToZone(n, Dest[c.p], c)

Peers(n) == {ph \in Phones : n \in link[ph]}

\* A send to one BLE peer is notified to every subscribed central.
Reach(n, targets) ==
    (targets \ BlePhones) \cup
    (IF targets \cap BlePhones # {} THEN Peers(n) \cap BlePhones ELSE {})

\* What may come of sending to a set of phones: send() swallows every error.
Reached(phones) == IF world.lossy THEN SUBSET phones ELSE {phones}

GiveTo(phones, c) ==
    held' = [ph \in Phones |-> IF ph \in phones THEN held[ph] \cup {c} ELSE held[ph]]

FanOut(n, peer, c) ==
    IF DecrementTtl(c).ttl > 0
    THEN \E R \in Reached(Reach(n, Peers(n) \ {peer})) : GiveTo(R, DecrementTtl(c))
    ELSE UNCHANGED held

-----------------------------------------------------------------------------
(* The pipeline (meshlink-core): external. *)

\* Reasons to drop that do not depend on load.
Refused(cache, c) == c.ttl = 0 \/ c.p \in cache \/ Kind[c.p] = "forged"

Unattested(n, c) == Gated /\ Sender[c.p] \notin attested[n]

\* A drop may come before or after the dedup step has recorded the msg_id.
Marked(cache, c) == {cache, cache \cup {c.p}}

IsPresentation(c) == Gated /\ Kind[c.p] = "present"

-----------------------------------------------------------------------------
(* NodeRelay._handle_packet, with "rest" the datagrams left in the network. *)

\* The pipeline says DROP.
Drop(n, c, rest) ==
    /\ ~IsPresentation(c)
    /\ Refused(seen[n], c) \/ Unattested(n, c) \/ world.lossy
    /\ \E s \in Marked(seen[n], c) : seen' = [seen EXCEPT ![n] = s]
    /\ net' = rest
    /\ UNCHANGED <<presented, attested, held>>

\* The attestation step is left out.
AcceptUnattested(n, c) == ~IsPresentation(c) /\ ~Refused(seen[n], c)

Accepts(n, c) == ~IsPresentation(c) /\ ~Refused(seen[n], c) /\ ~Unattested(n, c)

\* Beacons are relayed like any other message.
NothingTerminated(c) == FALSE

\* handle_node_terminated consumes a beacon: no forwarding, no fan-out.  A
\* location query it answers and yet returns False for (service.py:98), so a
\* query is relayed to the cell as "data" is, although the comment at
\* relay.py:176-177 counts it among the consumed messages.
Terminated(c) == Kind[c.p] = "beacon"

Terminate(n, c, rest) ==
    /\ Accepts(n, c)
    /\ Terminated(c)
    /\ seen' = [seen EXCEPT ![n] = @ \cup {c.p}]
    /\ net' = rest
    /\ UNCHANGED <<presented, attested, held>>

\* The msg_id is not recorded.
RelayUnmarked(n, peer, c, rest) ==
    /\ Accepts(n, c)
    /\ ~Terminated(c)
    /\ seen' = seen
    /\ net' = rest \cup Backhaul(n, c)
    /\ FanOut(n, peer, c)
    /\ UNCHANGED <<presented, attested>>

Relay(n, peer, c, rest) ==
    /\ Accepts(n, c)
    /\ ~Terminated(c)
    /\ seen' = [seen EXCEPT ![n] = @ \cup {c.p}]
    /\ net' = rest \cup Backhaul(n, c)
    /\ FanOut(n, peer, c)
    /\ UNCHANGED <<presented, attested>>

\* _handle_presentation: the ungated pipeline, then add_token.
RejectPresentation(n, c, rest) ==
    /\ IsPresentation(c)
    /\ \/ /\ Refused(presented[n], c) \/ world.lossy
          /\ \E s \in Marked(presented[n], c) : presented' = [presented EXCEPT ![n] = s]
       \/ /\ ~Refused(presented[n], c)
          /\ Token[c.p] = NoKey
          /\ presented' = [presented EXCEPT ![n] = @ \cup {c.p}]
    /\ net' = rest
    /\ UNCHANGED <<seen, attested, held>>

\* add_token's ValueError is not caught.
PresentUnchecked(n, c, rest) ==
    /\ IsPresentation(c)
    /\ ~Refused(presented[n], c)
    /\ presented' = [presented EXCEPT ![n] = @ \cup {c.p}]
    /\ attested' = [attested EXCEPT ![n] = @ \cup {Token[c.p]}]
    /\ net' = rest \cup Backhaul(n, c)
    /\ UNCHANGED <<seen, held>>

\* The token is cached but not passed on.
PresentQuietly(n, c, rest) ==
    /\ IsPresentation(c)
    /\ ~Refused(presented[n], c)
    /\ Token[c.p] # NoKey
    /\ presented' = [presented EXCEPT ![n] = @ \cup {c.p}]
    /\ attested' = [attested EXCEPT ![n] = @ \cup {Token[c.p]}]
    /\ net' = rest
    /\ UNCHANGED <<seen, held>>

AcceptPresentation(n, c, rest) ==
    /\ IsPresentation(c)
    /\ ~Refused(presented[n], c)
    /\ Token[c.p] # NoKey
    /\ presented' = [presented EXCEPT ![n] = @ \cup {c.p}]
    /\ attested' = [attested EXCEPT ![n] = @ \cup {Token[c.p]}]
    /\ net' = rest \cup Backhaul(n, c)
    /\ UNCHANGED <<seen, held>>

HandlePacket(n, peer, c, rest) ==
    \/ Drop(n, c, rest)
    \/ Terminate(n, c, rest)
    \/ Relay(n, peer, c, rest)
    \/ RejectPresentation(n, c, rest)
    \/ AcceptPresentation(n, c, rest)

-----------------------------------------------------------------------------

\* A phone hands a node of its cell a packet it made or was given.
PhoneSend(ph, n, c) ==
    /\ n \in link[ph]
    /\ HandlePacket(n, ph, c, net)
    /\ UNCHANGED <<world, route, link, restarts, moves>>

OwnEndpoint(n, d) == d.from = n /\ n \notin Masked

\* _recv_loop hands a datagram to the relay, or skips the node's own echo.
\* With "again" the network delivers it once more later.
Receive(d, again) ==
    LET rest == IF again THEN net ELSE net \ {d} IN
    /\ IF OwnEndpoint(d.to, d)
       THEN net' = rest /\ UNCHANGED <<seen, presented, attested, held>>
       ELSE HandlePacket(d.to, NoAddr, d.copy, rest)
    /\ UNCHANGED <<world, route, link, restarts, moves>>

\* UDP loses a datagram, or _send fails and only logs.
Lose(d) ==
    /\ world.lossy
    /\ net' = net \ {d}
    /\ UNCHANGED <<world, seen, presented, attested, route, link, held, restarts, moves>>

\* Zone-sync learns an address, or an entry ages out (see ZoneSync).
LearnRoute(n, z, a) ==
    /\ <<z, a>> \in world.announced
    /\ a # n
    /\ route' = [route EXCEPT ![n][z] = a]
    /\ UNCHANGED <<world, seen, presented, attested, net, link, held, restarts, moves>>

ExpireRoute(n, z) ==
    /\ route[n][z] # NoAddr
    /\ route' = [route EXCEPT ![n][z] = NoAddr]
    /\ UNCHANGED <<world, seen, presented, attested, net, link, held, restarts, moves>>

\* The process crashes and comes back: every cache is in memory.
Restart(n) ==
    /\ restarts < world.restarts
    /\ restarts' = restarts + 1
    /\ seen' = [seen EXCEPT ![n] = {}]
    /\ presented' = [presented EXCEPT ![n] = {}]
    /\ attested' = [attested EXCEPT ![n] = {}]
    /\ route' = [route EXCEPT ![n] = [z \in Zones |-> NoAddr]]
    /\ UNCHANGED <<world, net, link, held, moves>>

\* A phone enters or leaves the cell of a node.
Roam(ph, n) ==
    /\ moves < world.moves
    /\ moves' = moves + 1
    /\ link' = [link EXCEPT ![ph] = IF n \in @ THEN @ \ {n} ELSE @ \cup {n}]
    /\ UNCHANGED <<world, seen, presented, attested, route, net, held, restarts>>

Next ==
    \/ \E ph \in Phones : \E n \in Nodes : \E c \in held[ph] : PhoneSend(ph, n, c)
    \/ \E d \in net : \E again \in BOOLEAN : Receive(d, again)
    \/ \E d \in net : Lose(d)
    \/ \E n \in Nodes : \E z \in Zones : \E a \in Nodes : LearnRoute(n, z, a)
    \/ \E n \in Nodes : \E z \in Zones : ExpireRoute(n, z)
    \/ \E n \in Nodes : Restart(n)
    \/ \E ph \in Phones : \E n \in Nodes : Roam(ph, n)

Spec == Init /\ [][Next]_vars

\* The receive loops run: while datagrams are in the network, one is received.
Fairness == WF_vars(\E d \in net : Receive(d, FALSE))

FairSpec == Spec /\ Fairness

-----------------------------------------------------------------------------

\* Type correctness of the mesh.
TypeOK ==
    /\ world \in Worlds
    /\ seen \in [Nodes -> SUBSET Packets]
    /\ presented \in [Nodes -> SUBSET Packets]
    /\ attested \in [Nodes -> SUBSET Keys]
    /\ route \in [Nodes -> [Zones -> Nodes \cup {NoAddr}]]
    /\ net \subseteq Datagram
    /\ link \in [Phones -> SUBSET Nodes]
    /\ held \in [Phones -> SUBSET Copy]
    /\ restarts \in 0 .. world.restarts
    /\ moves \in 0 .. world.moves

\* Phone ph has a copy of packet p that some node relayed to it.
Delivered(ph, p) == Origin[p] # ph /\ \E c \in held[ph] : c.p = p

\* On a gated mesh, no phone and no other node is ever given a packet whose
\* sender has no token of the organiser, however copies, presentations and
\* restarts interleave: each node checks for itself, and what it caches as
\* attested comes from a token it verified.
OnlyCredentialedTraffic ==
    Gated =>
        /\ \A n \in Nodes : attested[n] \subseteq Credentialed
        /\ \A d \in net : Kind[d.copy.p] # "present" => Sender[d.copy.p] \in Credentialed
        /\ \A ph \in Phones : \A p \in Packets :
              Delivered(ph, p) => Sender[p] \in Credentialed

\* A raw coordinate reaches neither a phone nor another node, a token
\* presentation reaches no phone ("never delivered to phones", relay.py:216),
\* and a forged packet travels nowhere.  Location queries are not in
\* the set: the code relays them (see Terminated).
PrivateTrafficStaysPrivate ==
    /\ \A d \in net : Kind[d.copy.p] \notin {"beacon", "forged"}
    /\ \A ph \in Phones : \A p \in Packets : Delivered(ph, p) =>
          Kind[p] \notin {"beacon", "forged"} \cup (IF Gated THEN {"present"} ELSE {})

\* Nodes forward a packet with the ttl it came with, so ttl never ends a
\* cross-node loop: "dedup is what stops cross-node loops" (relay.py:113).
\* Every flood dies out, with stale routes that point in circles, duplicated
\* datagrams, echoes and nodes that lose their dedup cache in a restart.
FloodsDieOut == <>[](net = {})

\* Every phone in the cell of n, other than the sender, has p.
CellHas(n, p) == \A ph \in Peers(n) : Origin[p] = ph \/ Delivered(ph, p)

Serving(p) == {m \in Nodes : ZoneOf[m] = Dest[p]}

Deliverable(p) == Kind[p] = "data" /\ Ttl[p] > 1

\* Some node took packet p from a phone or from another node.
Taken(p) == \E n \in Nodes : p \in seen[n]

\* Nothing is lost, no node restarts, no phone moves.
Calm == ~world.lossy /\ world.restarts = 0 /\ world.moves = 0

\* Who is announced for the zone of packet p serves it.
Accurate(p) == \A m \in Nodes : <<Dest[p], m>> \in world.announced => m \in Serving(p)

\* In a calm world, a packet any node takes reaches the phones of a node that
\* serves its zone, by whichever mix of learned routes and floods, while
\* routes come and go under it (backhaul/base.py:20, "deliver to the node(s)").
ZoneIsReached ==
    \A p \in Packets : Deliverable(p) /\ Serving(p) # {} =>
        (Calm /\ Accurate(p) /\ Taken(p) ~> \E m \in Serving(p) : CellHas(m, p))

\* A sender whose presentation is addressed to all nodes and accepted by one
\* becomes attested at every node, if nothing is lost and no node restarts,
\* whatever other traffic the receive loops have to deal with.
PresentationsSpread ==
    \A p \in Packets : Gated /\ Kind[p] = "present" /\ Dest[p] = Broadcast /\ Token[p] # NoKey =>
        ((~world.lossy /\ \E n \in Nodes : Token[p] \in attested[n]) ~>
            (restarts > 0 \/ \A n \in Nodes : Token[p] \in attested[n]))
=============================================================================
