SPECIFICATION FairSpec
CONSTANTS
    k1 = k1
    k2 = k2
    a1 = a1
    a2 = a2
    Conns = {k1, k2}
    Addrs = {a1}
    AddrOf <- Twice
    Allowed = {a1}
    Nobody = nobody
    Acceptor = acceptor
    Cleaner = cleaner
    MaxReloads = 1
INVARIANT TypeOK
INVARIANT EntryHasOwner
INVARIANT InUseStaysOpen
PROPERTY AcceptorReturns
PROPERTY ConnectionsEnd
CHECK_DEADLOCK FALSE
