---------------------------- MODULE MCRelayMesh -----------------------------
(* Instances of RelayMesh for TLC. *)
EXTENDS RelayMesh

CONSTANTS n1, n2, n3, ann, bob, kAnn, kEve

MCZones == {1, 2, 3}
MCBroadcast == 65535

\* Three nodes, one per zone.
MCZoneOf == [n \in Nodes |-> CASE n = n1 -> 1 [] n = n2 -> 2 [] OTHER -> 3]

\* A gated mesh meets one restart and no announcements.
MCRestart == {[lossy |-> FALSE, announced |-> {}, restarts |-> 1, moves |-> 0]}

\* Routes are as they should be and nothing goes wrong; or n1 and n3 are both
\* said to serve zone 2, as after nodes changed zones, and there are losses and
\* a restart, or a phone that moves.
MCCircular == {<<2, n1>>, <<2, n3>>}
MCRouting ==
    {[lossy |-> FALSE, announced |-> {<<ZoneOf[n], n>> : n \in Nodes}, restarts |-> 0, moves |-> 0],
     [lossy |-> TRUE, announced |-> MCCircular, restarts |-> 1, moves |-> 0],
     [lossy |-> FALSE, announced |-> MCCircular, restarts |-> 0, moves |-> 1]}

\* Packets by name: "message" is data for another zone, "other" is from Eve, whose only token is not signed by the
\* organiser, and "forged" claims to be from Ann.
Attr(data, message, beacon, present, forged, other) ==
    [p \in Packets |-> CASE p = "data" -> data [] p = "message" -> message
        [] p = "beacon" -> beacon [] p = "present" -> present
        [] p = "forged" -> forged [] OTHER -> other]
MCKind == [p \in Packets |-> IF p \in {"message", "other"} THEN "data"
                             ELSE IF p = "badtoken" THEN "present" ELSE p]
MCSender == Attr(kAnn, kAnn, kAnn, kAnn, kAnn, kEve)
MCOrigin == Attr(ann, ann, ann, ann, bob, bob)
MCDest == Attr(3, 2, 2, Broadcast, Broadcast, Broadcast)
MCTtl == Attr(2, 2, 3, 3, 3, 3)
MCToken == Attr(NoKey, NoKey, NoKey, kAnn, NoKey, NoKey)
=============================================================================
