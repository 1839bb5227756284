SPECIFICATION Spec
CONSTANTS
    Edits = {u}
    Policies = {"quarantine"}
    Roots = {"overlays"}
    CleanupAfter = 1
    RetainFor = 2
    Cap = 0
    MaxId = 1
    MaxName = 1
    Budget = 1
PROPERTY
    QuarantineRetained
CHECK_DEADLOCK FALSE
