\* Two threads race; the clock may be stepped back; one restart; a token that
\* expires, a forged one, and a directory that loses the requester.
CONSTANTS
    ann = ann
    bob = bob
    good = good
    fake = fake
    NoToken = NoToken
    NoFix <- MCNoFix
    Users = {ann, bob}
    Tokens = {good, fake}
    Issuer <- MCIssuer
    Grantee <- MCGrantee
    Until <- MCUntil
    Genuine <- MCGenuine
    Threads = {"ble", "backhaul"}
    Sharers = {ann}
    Listings <- MCShrinking
    Cell = {bob}
    MinInterval = 2
    Epoch = 2
    MaxClock = 5
    MaxBack = 1
    MaxFixes = 1
    MaxQueries = 2
    MaxRestarts = 1
SPECIFICATION Spec
INVARIANTS
    TypeOK
    ConsentBehindEveryResponse
    ResponsesAreSpaced
    RevocationHolds
