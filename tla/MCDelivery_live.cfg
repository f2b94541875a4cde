SPECIFICATION FairSpec
CONSTANTS
    Identities = {m1, m2}
    Senders = {s1}
    MaxPosts = 1
    Parts <- OneEach
    DirectAttempts = 1
    HasNode = FALSE
    Limit = 2
    Window = 3
    MaxFaults = 1
    MaxChanges = 0
    NoJob = NoJob
PROPERTY Settles
CHECK_DEADLOCK FALSE
