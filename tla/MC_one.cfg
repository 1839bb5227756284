SPECIFICATION Spec
CONSTANTS
    p1 = p1
    p2 = p2
    a1 = a1
    a2 = a2
    a3 = a3
    Paths = {p1}
    Archives = {a1, a2}
    PathOf <- OnePathTwice
    Contents = {x, y}
    Gone = gone
    NoArchive = no_archive
    Children = {k1, k2, k3, k4}
    NoChild = no_child
    MaxAttempts = 2
    MaxIndex = 1
    MaxMount = 1
    ResetHooksOnChange = TRUE
    RerunFailedHooks = FALSE
    HookOutcomes = {"success", "failed"}
    LowDiskValues = {FALSE, TRUE}
    Budget = 3
SYMMETRY ChildSymmetry
INVARIANTS
    TypeOK
    OneMounter
    RowsConsistent
    RowsMatchSystem
PROPERTIES
    HealthyMountKept
    MountFailureKeepsIndex
    BootLeavesNoOrphan
