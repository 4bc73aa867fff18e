SPECIFICATION FairSpec
CONSTANTS
    s1 = s1
    s2 = s2
    Shells = {s1, s2}
    Names <- TheNames
    Bytes <- TheBytes
    User <- TheUsers
    DefaultFS <- TheFS
    Plans <- ThePlans
    Dir = dir
    Outside = outside
    NoFile = nofile
    DiskFails <- DiskPlans
INVARIANT TypeOK
INVARIANT NamedAsSent
INVARIANT CapturedWhole
INVARIANT UploadCaptured
INVARIANT HistoryAsRun
PROPERTY SessionsEnd
CHECK_DEADLOCK FALSE
