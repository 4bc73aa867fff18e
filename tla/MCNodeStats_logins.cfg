SPECIFICATION FairSpec
CONSTANTS
    a1 = a1
    a2 = a2
    a3 = a3
    a4 = a4
    a5 = a5
    h1 = h1
    h2 = h2
    h3 = h3
    u1 = u1
    u2 = u2
    w1 = w1
    spaces = spaces
    blank = blank
    word = word
    empty = empty
    k1 = k1
    nokey = nokey
    p1 = p1
    n1 = n1
    Attempts = {a1, a2, a3, a4, a5}
    HostOf <- TheHosts
    UserOf <- TheUsers
    PasswordOf <- ThePasswords
    KeyOf <- TheKeys
    NoKey = nokey
    Whitelisted = {h3}
    Stored <- TheStored
    Blank = blank
    Learned = {w1}
    InitLoot = {u1}
    NoLogin = nologin
    Peers = {p1}
    PeerHost <- ThePeers
    Foreign = {}
    None = none
    Nil = nil
    MaxLogins = 1
    MaxInFlight = 2
    Plans <- ThePlans
INVARIANT TypeOK
INVARIANT NothingNewStaysOut
INVARIANT CountersExact
INVARIANT LostOnlyInRace
INVARIANT SnapshotBehind
INVARIANT TotalBehind
PROPERTY HandlersReturn
PROPERTY TotalsCatchUp
