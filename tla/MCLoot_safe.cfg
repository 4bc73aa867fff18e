SPECIFICATION Spec
CONSTANTS
    h1 = h1
    hw = hw
    u1 = u1
    w1 = w1
    y1 = y1
    Hosts = {h1, hw}
    Users = {}
    Passwords = {}
    Payloads = {y1}
    Procs = {p1, p2}
    Idle = idle
    Blank = blank
    Cut = cut
    DiskFails = TRUE
    Plans <- SafePlans
SYMMETRY Goroutines
INVARIANT TypeOK
INVARIANT WhitelistedNeverKept
INVARIANT ListedPayloadsRecorded
INVARIANT DiskWithinKnown
INVARIANT GaugeCovers
