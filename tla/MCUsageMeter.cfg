SPECIFICATION FairSpec
CONSTANTS
    Session = {s1, s2}
    Id = {1, 2}
    None = None
    Meter = {"usage", "signals"}
    MaxAge = 1
    MaxCalls = 2
    MaxCrashes = 1
INVARIANTS BilledOnce Accounted NothingMissed
PROPERTIES Settles
