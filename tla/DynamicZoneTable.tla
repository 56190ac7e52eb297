-------------------------- MODULE DynamicZoneTable --------------------------
(***************************************************************************)
(* node/backhaul/dynamic_zone_table.py: the routing table of one node.     *)
(*                                                                         *)
(* The code stores zone -> (addr, last_seen) and compares clock() -        *)
(* last_seen with the time to live.  Only that difference is ever used, so *)
(* an entry keeps it directly, as the "age" of the entry; ages stop at     *)
(* EntryTTL + 1, the first expired value, which loses nothing.  A zone     *)
(* without an entry maps to Absent.                                        *)
(***************************************************************************)
EXTENDS Naturals, FiniteSets

CONSTANTS
    Zones,      \* zone ids
    Addrs,      \* backhaul addresses
    NoAddr,     \* None
    EntryTTL    \* entry_ttl_s, in clock ticks

ASSUME NoAddrAssumption == NoAddr \notin Addrs
ASSUME EntryTTLAssumption == EntryTTL \in Nat
ASSUME ZonesAssumption == IsFiniteSet(Zones)

Absent == [addr |-> NoAddr, age |-> 0]

Entry == [addr : Addrs \cup {NoAddr}, age : 0 .. (EntryTTL + 1)]

Tables == [Zones -> Entry]

PinnedTables == [Zones -> Addrs \cup {NoAddr}]

EmptyTable == [z \in Zones |-> Absent]

\* The boundary counts as expired.
ExpiredEarly(age) == age >= EntryTTL

Expired(age) == age > EntryTTL

Fresh(t, z) == t[z].addr # NoAddr /\ ~Expired(t[z].age)

\* The two arguments of learn() swapped.
LearnSwapped(t, z, a) == [t EXCEPT ![z] = [addr |-> z, age |-> 0]]

Learn(t, z, a) == [t EXCEPT ![z] = [addr |-> a, age |-> 0]]

\* addr_for relies on forget_stale alone.
AddrForStale(t, pinned, z) ==
    IF t[z].addr # NoAddr THEN t[z].addr ELSE pinned[z]

AddrFor(t, pinned, z) == IF Fresh(t, z) THEN t[z].addr ELSE pinned[z]

ForgetStale(t) == [z \in Zones |-> IF Expired(t[z].age) THEN Absent ELSE t[z]]

\* So does known_zones.
KnownZonesStale(t, pinned) ==
    {z \in Zones : t[z].addr # NoAddr \/ pinned[z] # NoAddr}

KnownZones(t, pinned) ==
    {z \in Zones : Fresh(t, z)} \cup {z \in Zones : pinned[z] # NoAddr}

PeerCount(t, pinned, own) == Cardinality(KnownZones(t, pinned) \ {own})

\* One clock tick seen from the table: every entry is one tick older.
AgeEntry(e) == [e EXCEPT !.age = IF Expired(@) THEN @ ELSE @ + 1]

Age(t) == [z \in Zones |-> IF t[z].addr = NoAddr THEN Absent ELSE AgeEntry(t[z])]
=============================================================================
