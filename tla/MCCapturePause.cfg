CONSTANTS
    Hook = {h1}
    Person = {u1}
    None = None
    MaxTime = 1
    MaxPauses = 2
    MaxFaults = 2
    MaxEvents = 1
SPECIFICATION Spec
SYMMETRY Symmetry
INVARIANTS IntentKept PauseObeyed MarkersTellAll LocalOnlyKept
