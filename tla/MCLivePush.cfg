SPECIFICATION Spec
CONSTANTS
    Hook = {h1, h2}
    Proxy = Proxy
    Stream = Stream
    None = None
    Deployment = {"hooks", "stream"}
    BackoffMin = 1
    BackoffMax = 2
    MaxDeferred = 1
    MaxBatch = 2
    MaxEvents = 3
    MaxCrashes = 1
SYMMETRY Symmetry
INVARIANTS EachOnce InOrder GateTells EndIsDrained
