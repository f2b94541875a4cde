SPECIFICATION RoomSpec
CONSTANTS
    Identities = {alex}
    MaxPosts = 2
    MaxLinks = 2
    ReplayFirst = 1
    ReplayMax = 2
    MaxFaults = 1
    MaxChanges = 0
    Links = {k1, k2}
    OwnerOf <- OneOwner
    Buf = 2
    MaxHeld = 1
    MaxLost = 2
    MaxLeaks = 1
    NoLink = NoLink
SYMMETRY Symmetry
INVARIANTS NothingLost PresenceCountsLinks NewSentOnce
CHECK_DEADLOCK FALSE
