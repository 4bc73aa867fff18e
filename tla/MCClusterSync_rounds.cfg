SPECIFICATION FairSpec
CONSTANTS
    n1 = n1
    n2 = n2
    n3 = n3
    i1 = i1
    i2 = i2
    i12 = i12
    Nodes = {n1, n2, n3}
    Peers <- Line
    Sections = {"hosts", "users"}
    SectionOrder <- TwoOrder
    Items = {i1}
    Pieces <- OneWord
    Whitelist <- EndKnows
    MaxCollected = 2
    MaxFailures = 1
INVARIANT TypeOK
INVARIANT NothingInvented
INVARIANT WhitelistHolds
PROPERTY ImplementsGossip
