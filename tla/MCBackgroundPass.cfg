SPECIFICATION FairSpec
CONSTANTS
    Hook = {h1}
    Child = {c1}
    Manual = {m1}
    None = None
    Torn = Torn
    MinInterval = 1
    StaleAge = 1
    Period = 1
    MaxGap = 1
    MaxManual = 1
    MaxFailures = 1
INVARIANTS PendingKept
PROPERTIES GapKept EventuallyAnalysed
