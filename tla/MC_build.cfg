SPECIFICATION Spec
CONSTANTS
    p1 = p1
    p2 = p2
    a1 = a1
    a2 = a2
    a3 = a3
    Paths = {p1}
    Archives = {a1}
    PathOf <- OnePathOnce
    Contents = {x, y}
    Gone = gone
    NoArchive = no_archive
    Children = {k1, k2, k3}
    NoChild = no_child
    MaxAttempts = 2
    MaxIndex = 1
    MaxMount = 1
    ResetHooksOnChange = TRUE
    RerunFailedHooks = FALSE
    HookOutcomes = {"success", "failed", "retry"}
    LowDiskValues = {FALSE}
    Budget = 2
PROPERTY
    FinishedBuildKept
