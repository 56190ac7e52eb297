\* Three boots with crashes, outages, bad answers, a failing disk and an edit.
CONSTANTS
    NoFile = NoFile
    Torn = Torn
    first = first
    later = later
    home = home
    office = office
    Listings = {first, later}
    Empty = Empty
    Replies = {"offline", "garbled", "badrow"}
    DiskFails = TRUE
    Choices = {home, office}
    MaxBoots = 3
    MaxChanges = 3
    MaxEdits = 1
SPECIFICATION FairBootSpec
CHECK_DEADLOCK FALSE
INVARIANTS
    BootTypeOK
    IndexWasServed
    NoNodeWithoutKey
    OriginalIsSafe
PROPERTIES
    DirectoryTracksBackend
