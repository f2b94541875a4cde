SPECIFICATION Spec
CONSTANTS
    Identities = {alex, bryn}
    MaxPosts = 3
    MaxLinks = 2
    ReplayFirst = 1
    ReplayMax = 2
    MaxFaults = 1
    MaxChanges = 2
SYMMETRY Symmetry
INVARIANTS TypeOK MissedIsReplayed OnlyMissedIsReplayed
PROPERTY CursorsOnlyAdvance
CHECK_DEADLOCK FALSE
