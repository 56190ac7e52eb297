\* A Wi-Fi phone and a BLE phone, on either Bluetooth stack, come and go and
\* answer pings until the node shuts down.  Nothing reads the age of a report
\* but its limit, so one tick of life stands for all.
CONSTANTS
    NoPhone = NoPhone
    Wifi = {w1}
    Ble = {b1}
    ReportTtl = 0
SPECIFICATION FairSpec
INVARIANTS
    TypeOK
    PeersHaveReaders
PROPERTIES
    PingsEnd
    DepartedPhonesDisappear
    PhonesGetPinged
