SPECIFICATION FairSpec
CONSTANTS
    File = {f1, f2}
    Since = {TRUE, FALSE}
    MaxSize = 2
    Keep = 2
    None = None
    MaxEvents = 3
    MaxKills = 1
    MaxRemovals = 1
INVARIANTS AtLeastOnce KeptFiles
PROPERTIES NotRepeated EventuallyExported
