SPECIFICATION RoomSpec
CONSTANTS
    Identities = {alex}
    MaxPosts = 1
    MaxLinks = 1
    ReplayFirst = 1
    ReplayMax = 2
    MaxFaults = 0
    MaxChanges = 1
    Links = {k1}
    OwnerOf <- OneOwner
    Buf = 2
    MaxHeld = 2
    MaxLost = 0
    MaxLeaks = 0
    NoLink = NoLink
INVARIANT RemovedAreOut
CHECK_DEADLOCK FALSE
