SPECIFICATION FairSpec
CONSTANTS
    s1 = s1
    s2 = s2
    p1 = p1
    Subs = {s1, s2}
    Callers = {p1}
    BufSize = 1
    MaxHubs = 2
    MaxPushes = 3
INVARIANT TypeOK
INVARIANT ServedIsOpen
INVARIANT NothingMissed
INVARIANT DrainNeverWaits
PROPERTY BroadcastReturns
PROPERTY DroppedIsClosed
CHECK_DEADLOCK FALSE
