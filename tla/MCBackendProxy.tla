--------------------------- MODULE MCBackendProxy ---------------------------
(* Instances of BackendProxy for TLC: bytes of two values, so that lengths go
   up to 3, packets up to 2, and 3 is a length out of range. *)
EXTENDS BackendProxy

CONSTANTS wifi, ble, w1

\* A packet of the mesh, a request that is forwarded and one that is too long.
\* Streams out of step also yield <<1>> and <<1, 0>>, which are refused.
MCMessages == {<<0>>, <<1, 1>>, <<1, 1, 1>>}
MCRequests == {<<1>>, <<1, 1>>, <<1, 0>>}
MCAllowed == {<<1, 1>>}
=============================================================================
