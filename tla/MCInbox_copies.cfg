SPECIFICATION FairInboxSpec
CONSTANTS
    p = p
    j = j
    l = l
    b = b
    Messages = {p, j, l, b}
    Kind <- Kinds
    InboxMax = 1
    SeenMax = 2
    ReplyMax = 1
    PerMinute = 2
    Minute = 3
    MaxFaults = 1
    None = None
INVARIANTS DeletedStaysDeleted CommandsRunOnce SeenIsAnswered RateKept
PROPERTY ReceiverReturns
