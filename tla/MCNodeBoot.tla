----------------------------- MODULE MCNodeBoot -----------------------------
(* Instances of NodeBoot for TLC: a listing and a later one, two choices. *)
EXTENDS NodeBoot

CONSTANTS first, later, home, office
=============================================================================
