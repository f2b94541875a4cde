SPECIFICATION FairRoomsSpec
CONSTANTS
    member = member
    mod = mod
    Identities <- MCIdentities
    Rank <- MCRank
    Default = FALSE
    MaxLinks = 2
    Nil = Nil
INVARIANTS BannedAreOut NoRightOutlivesTheRoom
PROPERTIES AbandonedRoomsGo
