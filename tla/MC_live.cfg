SPECIFICATION FairSpec
CONSTANTS
    p1 = p1
    p2 = p2
    a1 = a1
    a2 = a2
    a3 = a3
    Paths = {p1, p2}
    Archives = {a1, a2}
    PathOf <- TwoPaths
    Contents = {x}
    Gone = gone
    NoArchive = no_archive
    Children = {k1, k2, k3}
    NoChild = no_child
    MaxAttempts = 2
    MaxIndex = 1
    MaxMount = 1
    ResetHooksOnChange = TRUE
    RerunFailedHooks = FALSE
    HookOutcomes = {"success", "failed", "retry"}
    LowDiskValues = {FALSE}
    Budget = 1
INVARIANTS
    IndexSlotsBounded
PROPERTIES
    DeadMountNoticed
    FileSettles
    GoneFileLeaves
