SPECIFICATION FairStreamSpec
CONSTANTS
    up = up
    touched = touched
    failed = failed
    Clients = {c1}
    Archives = {a1}
    Rows = {up, touched, failed}
    Watched <- Watches
    NoRow = no_row
    Marks = {0, 1}
    FullEvery = 2
    Room = 1
    Closed = closed
    None = none
    Asked = asked
    MaxChanges = 4
INVARIANTS
    StreamInv
PROPERTIES
    DashboardsConverge
