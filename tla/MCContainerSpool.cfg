SPECIFICATION SpoolSpec
CONSTANTS
    Hook = {h1, h2}
    File = {f1, f2, f3, f4}
    None = None
    MaxSpool = 2
    MaxBatch = 1
    MaxPending = 1
    MaxEvents = 2
    MaxFaults = 2
SYMMETRY Alike
INVARIANTS KeptUntilSent SentOnce
