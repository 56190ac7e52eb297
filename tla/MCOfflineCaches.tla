-------------------------- MODULE MCOfflineCaches ---------------------------
(* Instances of OfflineCaches for TLC: the first listing and a later one. *)
EXTENDS OfflineCaches

CONSTANTS first, later
=============================================================================
