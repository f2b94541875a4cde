SPECIFICATION FairSpec
CONSTANTS
    Callers = {c1, c2, c3}
    Subs = {rrc}
    ReqBuf = 1
    SubBuf = 1
    NoCaller = NoCaller
INVARIANTS ResultIsTrue MemoryFollowsStore EventsAccounted
PROPERTIES CallsReturn Stops
CHECK_DEADLOCK FALSE
