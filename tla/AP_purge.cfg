SPECIFICATION FairSpec
CONSTANTS
    Edits = {u, v}
    Policies = {"quarantine", "delete", "retain"}
    Roots = {"old", "new"}
    CleanupAfter = 1
    RetainFor = 1
    Cap = 1
    MaxId = 2
    MaxName = 2
    Budget = 2
INVARIANTS
    OverlayInv
PROPERTIES
    GoneIsPurged
CHECK_DEADLOCK FALSE
