SPECIFICATION FairSpec
CONSTANTS
    Identities = {m1}
    Senders = {s1, s2}
    MaxPosts = 1
    Parts <- TwoThenOne
    DirectAttempts = 2
    HasNode = TRUE
    Limit = 1
    Window = 3
    MaxFaults = 1
    MaxChanges = 2
    NoJob = NoJob
INVARIANTS TypeOK PartsSentOnce NoDeliveryLost AttemptIsCurrent
PROPERTIES FinalIsFinal KeepsPromise
CHECK_DEADLOCK FALSE
