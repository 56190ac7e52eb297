---------------------------- MODULE MCNodeRelay -----------------------------
(* Instances of NodeRelay for TLC: packets are named after their kind. *)
EXTENDS NodeRelay

CONSTANTS kAnn, kEve

MCKind == [p \in Packets |-> CASE p = "text" -> "data" [] p = "spent" -> "data"
              [] p = "stranger" -> "data" [] p = "badtoken" -> "present" [] OTHER -> p]
MCSender == [p \in Packets |-> IF p = "stranger" THEN kEve ELSE kAnn]
MCToken == [p \in Packets |-> IF p = "present" THEN kAnn ELSE NoKey]
\* "spent" arrives with its last hop.
MCTtl == [p \in Packets |-> IF p = "spent" THEN 1 ELSE 3]
MCScope == [p \in Packets |-> CASE p = "text" -> "all" [] p = "query" -> "own" [] OTHER -> "other"]
=============================================================================
