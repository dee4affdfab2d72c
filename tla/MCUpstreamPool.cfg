SPECIFICATION FairSpec
CONSTANTS
    Client = {k1, k2, k3}
    Call = {c1, c2}
    None = None
    InitialDelay = 1
    GiveUpDelay = 2
    Transport = {"stdio", "http"}
    SessionAt <- MCSessionAt
    MaxVersions <- MCVersions
    MaxRetries = 1
INVARIANTS OneAtATime ToolsCurrent GivesUp ObservationKept
CHECK_DEADLOCK FALSE
PROPERTIES Recovers
