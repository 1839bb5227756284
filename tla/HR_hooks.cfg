SPECIFICATION FairSpec
CONSTANTS
    h1 = h1
    h2 = h2
    Hooks = {h1, h2}
    Order <- Sorted
    Contents = {x, y}
    Children = {}
    NoChild = no_child
    MaxAttempts = 1
    MaxRetries = 1
    Modes <- AnyMode
    RerunFailed = FALSE
    ResetHooks = TRUE
    Budget = 3
INVARIANTS
    HookInv
PROPERTIES
    KeepsHookPromise
    SuccessNotRepeated
    HooksSettle
CHECK_DEADLOCK FALSE
