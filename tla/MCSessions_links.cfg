SPECIFICATION FairSpec
CONSTANTS
    Links = {l1}
    Whispers = {w1}
    JobQueue = 2
    SendQueue = 1
    EventQueue = 1
    MaxPending = 1
    MaxFrames = 2
    MaxFailed = 1
    None = None
INVARIANTS NoGhosts NoWhisperMissed AtMostTwoCopies BannedIsClosed
PROPERTIES SilentLinksEnd
CHECK_DEADLOCK FALSE
