----------------------------- MODULE MCZoneSync -----------------------------
(* Instances of ZoneSync for TLC. *)
EXTENDS ZoneSync

CONSTANTS a, b

MCZones == {1, 2}
\* Node a has an operator-pinned seed for zone 2 that points at node b.
MCPinnedB == [n \in Nodes |-> [z \in Zones |->
                IF n = a /\ z = 2 THEN b ELSE NoAddr]]
=============================================================================
