SPECIFICATION Spec
CONSTANTS
    h1 = h1
    hw = hw
    u1 = u1
    w1 = w1
    y1 = y1
    Hosts = {h1}
    Users = {u1}
    Passwords = {w1}
    Payloads = {y1}
    Procs = {p1, p2}
    Idle = idle
    Blank = blank
    Cut = cut
    DiskFails = FALSE
    Plans <- RacePlans
INVARIANT SavedStaysSaved
