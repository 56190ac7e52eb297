\* The same threads and packets on the two Bluetooth stacks: the chunks of two
\* packets mix on the one TX characteristic.
CONSTANTS
    Backends = {"bluez", "corebluetooth"}
    Main = main
    Workers = {w1}
    Packets = {p1, p2, p3}
    Size <- MCSize
    Window = 1
    NoPacket = NoPacket
SPECIFICATION Spec
CHECK_DEADLOCK FALSE
INVARIANTS
    PacketsStayWhole
