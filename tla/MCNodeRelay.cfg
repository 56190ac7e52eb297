\* Two threads in the handler, one packet of every kind.
CONSTANTS
    kAnn = kAnn
    kEve = kEve
    NoKey = NoKey
    NoPacket = NoPacket
    Threads = {"ble", "backhaul"}
    Keys = {kAnn, kEve}
    Packets = {"text", "query", "beacon", "present", "stranger", "badtoken", "spent",
               "telemetry"}
    Kind <- MCKind
    Sender <- MCSender
    Token <- MCToken
    Ttl <- MCTtl
    Scope <- MCScope
    Gated = TRUE
    MaxArrivals = 4
SPECIFICATION Spec
INVARIANTS
    TypeOK
    ReceivedIsAccountedFor
    SendsAreCounted
    HeartbeatIsConsistent
PROPERTIES
    KeepsContract
