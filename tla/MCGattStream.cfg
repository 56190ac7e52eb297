\* The main loop and another thread send three packets of two chunks
\* through a transmit queue of one place.
CONSTANTS
    Backends = {"bluez", "corebluetooth", "wifi"}
    Main = main
    Workers = {w1}
    Packets = {p1, p2, p3}
    Size <- MCSize
    Window = 1
    NoPacket = NoPacket
SPECIFICATION FairSpec
CHECK_DEADLOCK FALSE
INVARIANTS
    TypeOK
    ChunksStayInOrder
    NoChunkIsLost
PROPERTIES
    BacklogIsFlushed
