------------------------------ MODULE ZoneSync ------------------------------
(***************************************************************************)
(* The zone-sync gossip of the node mesh: every node broadcasts "node n    *)
(* serves zone z at address a" once per interval over UDP, and records     *)
(* what the others broadcast in its DynamicZoneTable, where an entry that  *)
(* is not refreshed ages out.  Models node/backhaul/zone_sync.py with the  *)
(* control path of node/backhaul/batman_backhaul.py and the table of       *)
(* node/backhaul/dynamic_zone_table.py.                                    *)
(*                                                                         *)
(* Nodes boot, crash and boot again, possibly assigned to another zone by  *)
(* their operator; datagrams are lost, duplicated, delayed and reordered.  *)
(* A node advertises one address for its life, so an address is a node.    *)
(***************************************************************************)
EXTENDS DynamicZoneTable

CONSTANTS
    Nodes,      \* the nodes; a node is also its own backhaul address
    Pinned,     \* MESHLINK_ZONE_TABLE of each node: never expires
    Masked,     \* nodes whose datagrams do not carry their advertised address
    Interval,   \* interval_s of the announce loop, in ticks
    MaxDelay,   \* a datagram not delivered after MaxDelay ticks is lost
    MaxMissed,  \* announcements of one node another one may miss in a row
    Duplicates, \* whether the network duplicates datagrams
    MaxBoots    \* bound on the number of boots

ASSUME NodesAssumption == Addrs = Nodes
ASSUME PinnedAssumption == Pinned \in [Nodes -> PinnedTables]
ASSUME MaskedAssumption == Masked \subseteq Nodes
ASSUME TimingAssumption ==
    Interval \in Nat \ {0} /\ MaxDelay \in Nat /\ MaxMissed \in Nat
ASSUME NetworkAssumption == Duplicates \in BOOLEAN
ASSUME BootsAssumption == MaxBoots \in Nat

VARIABLES
    up,         \* up[n]: the node process runs
    zone,       \* zone[n]: NODE_ZONE_ID of the node's last boot
    learned,    \* learned[n]: its table's _learned
    timer,      \* timer[n]: ticks until its announce loop wakes
    net,        \* announcements in flight, one datagram per receiver
    boots,      \* number of boots so far
    \* What the properties compare the tables with; the code has none of it.
    silent,     \* silent[n][z]: ticks since n last served z, up to MaxSilent
    heard,      \* heard[n]: nodes n has heard since both booted
    missed      \* missed[n][m]: announcements of m that n missed in a row

vars == <<up, zone, learned, timer, net, boots, silent, heard, missed>>

MaxSilent == EntryTTL + MaxDelay + 1

\* "copy" marks a datagram of which the receiver already got a duplicate.
Datagram == [to : Nodes, node : Nodes, zone : Zones, age : 0 .. MaxDelay,
             copy : BOOLEAN]

Route(n, z) == AddrFor(learned[n], Pinned[n], z)

Serves(n, z) == up[n] /\ zone[n] = z

-----------------------------------------------------------------------------

Init ==
    /\ up = [n \in Nodes |-> FALSE]
    /\ zone \in [Nodes -> Zones]
    /\ learned = [n \in Nodes |-> EmptyTable]
    /\ timer = [n \in Nodes |-> 0]
    /\ net = {}
    /\ boots = 0
    /\ silent = [n \in Nodes |-> [z \in Zones |-> MaxSilent]]
    /\ heard = [n \in Nodes |-> {}]
    /\ missed = [n \in Nodes |-> [m \in Nodes |-> 0]]

\* announce_now: one broadcast, echoed to the sender too.
Announcement(n, z) ==
    {[to |-> m, node |-> n, zone |-> z, age |-> 0, copy |-> FALSE] : m \in Nodes}

\* The process comes up with an empty table and announces at once.
Start(n, z) ==
    /\ ~up[n]
    /\ boots < MaxBoots
    /\ boots' = boots + 1
    /\ up' = [up EXCEPT ![n] = TRUE]
    /\ zone' = [zone EXCEPT ![n] = z]
    /\ learned' = [learned EXCEPT ![n] = EmptyTable]
    /\ timer' = [timer EXCEPT ![n] = Interval]
    /\ net' = net \cup Announcement(n, z)
    /\ silent' = [silent EXCEPT ![n][z] = 0]
    /\ UNCHANGED <<heard, missed>>

\* A crash, a reboot or stop(): nothing of the table survives.
Stop(n) ==
    /\ up[n]
    /\ up' = [up EXCEPT ![n] = FALSE]
    /\ learned' = [learned EXCEPT ![n] = EmptyTable]
    /\ timer' = [timer EXCEPT ![n] = 0]
    /\ heard' = [m \in Nodes |-> IF m = n THEN {} ELSE heard[m] \ {n}]
    /\ missed' = [m \in Nodes |-> [k \in Nodes |->
                    IF n \in {m, k} THEN 0 ELSE missed[m][k]]]
    /\ UNCHANGED <<zone, net, boots, silent>>

\* One turn of the announce loop.
Announce(n) ==
    /\ up[n]
    /\ timer[n] = 0
    /\ net' = net \cup Announcement(n, zone[n])
    /\ learned' = [learned EXCEPT ![n] = ForgetStale(@)]
    /\ timer' = [timer EXCEPT ![n] = Interval]
    /\ UNCHANGED <<up, zone, boots, silent, heard, missed>>

\* _recv_loop drops what comes from the node's own endpoint.
OwnEndpoint(n, d) == d.node = n /\ n \notin Masked

\* The node_id is not compared.
LearnAnything(t, n, d) ==
    IF OwnEndpoint(n, d) THEN t ELSE Learn(t, d.zone, d.node)

\* Announcements of nodes in the same zone are ignored too.
LearnOtherZones(t, n, d) ==
    IF OwnEndpoint(n, d) \/ d.node = n \/ d.zone = zone[n] THEN t
    ELSE Learn(t, d.zone, d.node)

\* _on_control ignores the node's own announcement, and learns any other.
OnControl(t, n, d) ==
    IF OwnEndpoint(n, d) \/ d.node = n THEN t ELSE Learn(t, d.zone, d.node)

\* A datagram reaches a running node; the network may deliver it once more.
Deliver(d, again) ==
    /\ up[d.to]
    /\ again => Duplicates /\ ~d.copy
    /\ net' = (net \ {d}) \cup (IF again THEN {[d EXCEPT !.copy = TRUE]} ELSE {})
    /\ learned' = [learned EXCEPT ![d.to] = OnControl(@, d.to, d)]
    /\ heard' = [heard EXCEPT ![d.to] =
                    IF Serves(d.node, d.zone) THEN @ \cup {d.node} ELSE @]
    /\ missed' = [missed EXCEPT ![d.to][d.node] = 0]
    /\ UNCHANGED <<up, zone, timer, boots, silent>>

\* A datagram is lost, or a send failed (_send only logs an OSError).
Lose(d) ==
    /\ net' = net \ {d}
    /\ IF up[d.to] /\ ~d.copy
       THEN /\ missed[d.to][d.node] < MaxMissed
            /\ missed' = [missed EXCEPT ![d.to][d.node] = @ + 1]
       ELSE UNCHANGED missed
    /\ UNCHANGED <<up, zone, learned, timer, boots, silent, heard>>

\* Time passes for everybody once the due work is done.
Tick ==
    /\ \A n \in Nodes : up[n] => timer[n] > 0
    /\ \A d \in net : d.age < MaxDelay
    /\ timer' = [n \in Nodes |-> IF up[n] THEN timer[n] - 1 ELSE timer[n]]
    /\ net' = {[d EXCEPT !.age = @ + 1] : d \in net}
    /\ learned' = [n \in Nodes |-> Age(learned[n])]
    /\ silent' = [n \in Nodes |-> [z \in Zones |->
                    IF Serves(n, z) THEN 0
                    ELSE IF silent[n][z] = MaxSilent THEN MaxSilent
                    ELSE silent[n][z] + 1]]
    /\ UNCHANGED <<up, zone, boots, heard, missed>>

Receive(d) == \E again \in BOOLEAN : Deliver(d, again)

Next ==
    \/ \E n \in Nodes : \E z \in Zones : Start(n, z)
    \/ \E n \in Nodes : Stop(n)
    \/ \E n \in Nodes : Announce(n)
    \/ \E d \in net : Receive(d)
    \/ \E d \in net : Lose(d)
    \/ Tick

Spec == Init /\ [][Next]_vars

\* The announce thread wakes after every interval, time passes, and the
\* network settles the fate of every datagram.
Fairness ==
    /\ WF_vars(Tick)
    /\ \A n \in Nodes : WF_vars(Announce(n))
    /\ WF_vars(\E d \in net : Deliver(d, FALSE) \/ Lose(d))

FairSpec == Spec /\ Fairness

-----------------------------------------------------------------------------

\* Type correctness of the state of the gossip.
TypeOK ==
    /\ up \in [Nodes -> BOOLEAN]
    /\ zone \in [Nodes -> Zones]
    /\ learned \in [Nodes -> Tables]
    /\ timer \in [Nodes -> 0 .. Interval]
    /\ net \subseteq Datagram
    /\ boots \in 0 .. MaxBoots
    /\ silent \in [Nodes -> [Zones -> 0 .. MaxSilent]]
    /\ heard \in [Nodes -> SUBSET Nodes]
    /\ missed \in [Nodes -> [Nodes -> 0 .. MaxMissed]]

\* Node n's table may send z to a only while a is known to have served z
\* within the last EntryTTL + MaxDelay ticks.
RecentlyServed(a, z) == silent[a][z] <= EntryTTL + MaxDelay

\* addr_for never sends traffic for a zone to a node that left it longer ago
\* than the entry's life plus the longest time an announcement can be under
\* way ("a departed node's entry simply ages out"): not after a crash, a move
\* to another zone, a duplicate or a reordered announcement.
DepartedNodesAgeOut ==
    \A n \in Nodes : \A z \in Zones :
        Route(n, z) # NoAddr => Route(n, z) = Pinned[n][z] \/ RecentlyServed(Route(n, z), z)

\* peer_count, reported in heartbeats, counts no zone that was deserted for
\* longer than that, even before forget_stale has run.
PeerCountIsCurrent ==
    \A n \in Nodes :
        PeerCount(learned[n], Pinned[n], zone[n]) <=
            Cardinality({z \in Zones \ {zone[n]} :
                Pinned[n][z] # NoAddr \/ \E m \in Nodes : RecentlyServed(m, z)})

\* A node never learns itself as the way to any zone, although it hears its
\* own broadcasts, also those of an earlier boot in another zone.
NeverRoutesToItself ==
    \A n \in Nodes : \A z \in Zones : learned[n][z].addr # n

\* Once n has heard m, n keeps a route to m's zone for as long as both run and
\* n misses no more than MaxMissed announcements of m in a row, provided the
\* time to live covers them: the expiry test never drops a live zone.
LiveZonesStayRoutable ==
    (MaxMissed + 1) * Interval + MaxDelay <= EntryTTL /\ MaxDelay < Interval =>
        \A n \in Nodes : up[n] =>
            \A m \in heard[n] \ {n} : up[m] => Route(n, zone[m]) # NoAddr

\* All routes lead to nodes that run and serve the zone, and every running
\* node's zone has a route at every other running node.
Converged ==
    \A n \in Nodes : up[n] =>
        /\ \A z \in Zones : learned[n][z].addr # NoAddr /\ Fresh(learned[n], z) =>
              Serves(learned[n][z].addr, z)
        /\ \A m \in Nodes \ {n} : up[m] => Route(n, zone[m]) # NoAddr

\* When nodes stop booting and crashing, the tables converge to the mesh as it
\* is and stay so, whatever was lost, duplicated or reordered before.
EventuallyConverged == <>[]Converged
=============================================================================
