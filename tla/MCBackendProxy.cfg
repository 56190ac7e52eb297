\* A Wi-Fi phone and a BLE phone, a few links and packets between them, and a pool of one worker.
CONSTANTS
    wifi = wifi
    ble = ble
    w1 = w1
    Idle = Idle
    Base = 2
    MaxFrame = 2
    Phones = {wifi, ble}
    BlePhones = {ble}
    Messages <- MCMessages
    Requests <- MCRequests
    Allowed <- MCAllowed
    Workers = {w1}
    Bodies = {3, 4, 6}
    Note = 1
    MaxResponse = 5
    MaxLinks = 2
    MaxSent = 3
SPECIFICATION FairSpec
INVARIANTS
    TypeOK
    StreamIsWhole
PROPERTIES
    RequestsAreAnswered
    ReceivePathStaysFree
    NoCallAfterStop
