---------------------------- MODULE MCGattStream ----------------------------
(* Instances of GattStream for TLC. *)
EXTENDS GattStream

\* Two chunks each, as an ordinary packet needs with 180-byte notifications.
MCSize == [p \in Packets |-> 2]
=============================================================================
