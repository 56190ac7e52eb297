\* The backend lists one incomplete row, then recovers.
CONSTANTS
    NoFile = NoFile
    Torn = Torn
    first = first
    later = later
    Listings = {first, later}
    Empty = Empty
    Replies = {"badrow"}
    DiskFails = FALSE
    MaxBoots = 1
    MaxChanges = 3
SPECIFICATION FairSpec
CHECK_DEADLOCK FALSE
PROPERTIES
    DirectoryCatchesUp
