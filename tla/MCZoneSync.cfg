\* Churn: three boots of two nodes that may change zones; announcements are
\* lost (never two in a row), duplicated and reordered; node a hears its own
\* broadcasts and has a pinned entry.  The time to live covers one missed
\* announcement exactly.
CONSTANTS
    a = a
    b = b
    NoAddr = NoAddr
    Nodes = {a, b}
    Addrs = {a, b}
    Masked = {a}
    Zones <- MCZones
    Pinned <- MCPinnedB
    Interval = 1
    EntryTTL = 2
    MaxDelay = 0
    MaxMissed = 1
    Duplicates = TRUE
    MaxBoots = 3
SPECIFICATION FairSpec
INVARIANTS
    TypeOK
    DepartedNodesAgeOut
    PeerCountIsCurrent
    NeverRoutesToItself
    LiveZonesStayRoutable
PROPERTIES
    EventuallyConverged
