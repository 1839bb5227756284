SPECIFICATION FairSpec
CONSTANTS
    p1 = p1
    p2 = p2
    a1 = a1
    a2 = a2
    a3 = a3
    Paths = {p1, p2}
    Archives = {a1, a2, a3}
    PathOf <- TwoPathsOneTwice
    Contents = {x}
    Gone = gone
    Children = {k}
    NoChild = no_child
    MaxAttempts = 2
    Convertible = {p1, p2}
    MoveToLinux = TRUE
    MaxConvert = 1
    MaxIndex = 1
    Budget = 1
INVARIANTS
    TypeOK
    ConvertSlotsBounded
PROPERTIES
    LastCopyKept
    ProductNotOverwritten
    ConvertingEnds
    ArchiveServed
