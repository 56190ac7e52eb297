\* A gated mesh: genuine, forged and unattested traffic, and a node restart.
CONSTANTS
    n1 = n1
    n2 = n2
    n3 = n3
    ann = ann
    bob = bob
    kAnn = kAnn
    kEve = kEve
    NoAddr = NoAddr
    NoKey = NoKey
    Nodes = {n1, n2}
    Phones = {ann, bob}
    BlePhones = {ann}
    Keys = {kAnn, kEve}
    Zones <- MCZones
    Broadcast <- MCBroadcast
    Packets = {"data", "beacon", "forged", "present", "other", "badtoken"}
    ZoneOf <- MCZoneOf
    Masked = {}
    Kind <- MCKind
    Sender <- MCSender
    Dest <- MCDest
    Ttl <- MCTtl
    Token <- MCToken
    Origin <- MCOrigin
    Gated = TRUE
    Worlds <- MCRestart
SPECIFICATION FairSpec
INVARIANTS
    TypeOK
    OnlyCredentialedTraffic
    PrivateTrafficStaysPrivate
PROPERTIES
    PresentationsSpread
