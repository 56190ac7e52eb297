--------------------------- MODULE RelayContract ----------------------------
(***************************************************************************)
(* What one node promises about the packets it relays, whatever threads    *)
(* call its handler: it takes a packet at most once, only from a sender it *)
(* has reason to trust, and offers what it took to its cell at most once,  *)
(* never anything that is meant for nodes only.                            *)
(***************************************************************************)
EXTENDS Naturals

CONSTANTS Keys, Packets, Sender, NodeOnly, Gated

VARIABLES
    trusted,    \* keys whose token the node verified
    taken,      \* packets the node accepted
    given       \* given[p]: how often p was offered to the phones of the cell

Init ==
    /\ trusted = {}
    /\ taken = {}
    /\ given = [p \in Packets |-> 0]

Trust(k) ==
    /\ trusted' = trusted \cup {k}
    /\ UNCHANGED <<taken, given>>

Take(p) ==
    /\ p \notin taken
    /\ Gated => Sender[p] \in trusted
    /\ taken' = taken \cup {p}
    /\ UNCHANGED <<trusted, given>>

Give(p) ==
    /\ p \in taken \ NodeOnly
    /\ given[p] = 0
    /\ given' = [given EXCEPT ![p] = 1]
    /\ UNCHANGED <<trusted, taken>>

Next ==
    \/ \E k \in Keys : Trust(k)
    \/ \E p \in Packets : Take(p) \/ Give(p)

Spec == Init /\ [][Next]_<<trusted, taken, given>>
=============================================================================
