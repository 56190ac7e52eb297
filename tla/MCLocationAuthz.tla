-------------------------- MODULE MCLocationAuthz ---------------------------
(* Instances of LocationAuthz for TLC: ann is located, bob asks. *)
EXTENDS LocationAuthz

CONSTANTS ann, bob, good, fake

MCIssuer == [k \in Tokens |-> ann]
MCGrantee == [k \in Tokens |-> bob]
\* Tokens expire before the clock's bound; "fake" is not signed by ann.
MCUntil == [k \in Tokens |-> MaxClock - 1]
MCGenuine == [k \in Tokens |-> k # fake]
MCShrinking == {Users, {ann}}
MCNoFix == -1
=============================================================================
