\* A query that came over the backhaul.
CONSTANTS
    ann = ann
    bob = bob
    good = good
    fake = fake
    NoToken = NoToken
    NoFix <- MCNoFix
    Users = {ann, bob}
    Tokens = {good}
    Issuer <- MCIssuer
    Grantee <- MCGrantee
    Until <- MCUntil
    Genuine <- MCGenuine
    Threads = {"ble"}
    Sharers = {ann}
    Listings <- MCShrinking
    Cell = {ann}
    MinInterval = 2
    Epoch = 2
    MaxClock = 3
    MaxBack = 1
    MaxFixes = 1
    MaxQueries = 2
    MaxRestarts = 0
SPECIFICATION Spec
INVARIANTS
    ResponsesReachRequester
