CONSTANTS
    Sealer = {s1, s2}
    File = {f1}
    NoKey = NoKey
    HalfKey = HalfKey
    MaxEvents = 2
    MaxCrashes = 1
    MaxTears = 0
    MaxClears = 1
SPECIFICATION FairSpec
PROPERTIES LedgerSpec EventuallySealed
