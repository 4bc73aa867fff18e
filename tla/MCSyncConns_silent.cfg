SPECIFICATION ServerSpec
CONSTANTS
    k1 = k1
    k2 = k2
    a1 = a1
    a2 = a2
    Conns = {k1, k2}
    Addrs = {a1, a2}
    AddrOf <- Distinct
    Allowed = {a1, a2}
    Nobody = nobody
    Acceptor = acceptor
    Cleaner = cleaner
    MaxReloads = 0
PROPERTY AcceptorReturns
CHECK_DEADLOCK FALSE
