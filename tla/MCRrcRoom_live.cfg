SPECIFICATION FairRoomSpec
CONSTANTS
    Identities = {alex}
    MaxPosts = 2
    MaxLinks = 2
    ReplayFirst = 1
    ReplayMax = 2
    MaxFaults = 1
    MaxChanges = 1
    Links = {k1}
    OwnerOf <- OneOwner
    Buf = 2
    MaxHeld = 2
    MaxLost = 1
    MaxLeaks = 1
    NoLink = NoLink
INVARIANTS NothingLost NewSentOnce
PROPERTY Delivered
CHECK_DEADLOCK FALSE
