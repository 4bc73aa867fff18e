SPECIFICATION Spec
CONSTANTS
    c1 = c1
    c2 = c2
    h1 = h1
    h2 = h2
    none = none
    o1 = o1
    o2 = o2
    o3 = o3
    o4 = o4
    o5 = o5
    o6 = o6
    Conns = {c1}
    Chans = {h1}
    ConnOf <- Single
    Whitelisted = {}
    Objs = {o1, o2, o3}
    NoObj = none
    NoChan = none
    Cleaner = cleaner
    OrphanAfter = 1
    MaxAge = 0
    MaxCalls = 2
INVARIANT ServiceSurvives
