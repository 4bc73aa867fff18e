SPECIFICATION FairSpec
CONSTANTS
    n1 = n1
    n2 = n2
    n3 = n3
    i1 = i1
    i2 = i2
    i12 = i12
    Nodes = {n1, n2}
    Peers <- Pair
    Sections = {"passwords"}
    SectionOrder <- PasswordsOrder
    Items = {i1, i2, i12}
    Pieces <- TwoWords
    Whitelist <- NoWhitelist
    MaxCollected = 1
    MaxFailures = 0
PROPERTY Convergence
