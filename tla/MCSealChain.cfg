CONSTANTS
    Sealer = {s1, s2}
    File = {f1, f2}
    NoKey = NoKey
    HalfKey = HalfKey
    MaxEvents = 2
    MaxCrashes = 1
    MaxTears = 1
    MaxClears = 0
SPECIFICATION Spec
SYMMETRY Symmetry
INVARIANTS NothingSkipped SealedOnce ChainUnforked
