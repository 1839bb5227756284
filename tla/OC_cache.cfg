SPECIFICATION FairSpec
CONSTANTS
    d = d
    e = e
    Procs = {d, e}
    Setups <- AloneOrUsers
    MaxVersion = 2
    Solid = {1, 2}
    Budget = 2
INVARIANTS
    CacheInv
PROPERTIES
    HandedIsWhole
    AcceptedCopyKept
    LeftoversGo
    WaiterServed
CHECK_DEADLOCK FALSE
