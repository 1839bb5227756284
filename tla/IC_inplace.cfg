CONSTANTS
    loose = loose
    n = n
    inside = inside
    junk = junk
    b1 = b1
    b2 = b2
    x1 = x1
    x2 = x2
    Nothing = Nothing
    Broken = Broken
    Members <- AllMembers
    Nested = {n, b1, b2}
    Top = {loose, n, b1}
    Inside <- InsideOf
    Within <- Ways
    Names <- NamesOf
    Name <- NameOf
    Under <- UnderOf
    Excluded = {junk}
    MaxVersion = 3
    Budget = 4
SPECIFICATION Spec
INVARIANTS ContentKept BesideInv
CHECK_DEADLOCK FALSE
