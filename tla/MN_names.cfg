CONSTANTS
    a = a
    b = b
    zip = zip
    Ids = {a, b}
    Clean <- SameName
    MaxTry = 1
    Budget = 3
SPECIFICATION Spec
INVARIANTS PathsDistinct MountShowsItsArchive DirInv
PROPERTIES StaleDirsGo
CHECK_DEADLOCK FALSE
