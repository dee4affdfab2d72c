SPECIFICATION Spec
CONSTANTS
    File = {f1}
    Since = {FALSE}
    MaxSize = 2
    Keep = 1
    None = None
    MaxEvents = 2
    MaxKills = 1
    MaxRemovals = 0
INVARIANTS NeverSkipped
