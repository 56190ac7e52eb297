\* A message for zone 2 in a mesh that is well, and in one that is not.
CONSTANTS
    n1 = n1
    n2 = n2
    n3 = n3
    ann = ann
    bob = bob
    kAnn = kAnn
    kEve = kEve
    NoAddr = NoAddr
    NoKey = NoKey
    Nodes = {n1, n2, n3}
    Phones = {ann, bob}
    BlePhones = {ann}
    Keys = {kAnn, kEve}
    Zones <- MCZones
    Broadcast <- MCBroadcast
    Packets = {"message"}
    ZoneOf <- MCZoneOf
    Masked = {n1}
    Kind <- MCKind
    Sender <- MCSender
    Dest <- MCDest
    Ttl <- MCTtl
    Token <- MCToken
    Origin <- MCOrigin
    Gated = FALSE
    Worlds <- MCRouting
SPECIFICATION FairSpec
PROPERTIES
    ZoneIsReached
    FloodsDieOut
