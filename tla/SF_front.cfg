CONSTANTS
    t1 = t1
    p1 = p1
    p2 = p2
    hot = hot
    Bad = Bad
    Nobody = Nobody
    Loop = Loop
    Tabs = {t1}
    Peers = {p1, p2}
    Keys = {hot}
    Values <- SomeTexts
    Budget = 3
SPECIFICATION FairSpec
INVARIANTS FrontInv
PROPERTIES SetInEffect ReloadTaken NobodyStuck
CHECK_DEADLOCK FALSE
