\* Two variables and one that cannot be stored, one value each is kept; passes may be slow.
CONSTANTS
    None = None
    x = x  y = y  z = z
    w1 = w1
    Names = {x, y, z}
    Unstorable = {z}
    Limit = 1
    Workers = {w1}
    CleansAreFast = FALSE
    NotifyFails = TRUE
    MaxTime = 1
    MaxQueue = 2
SPECIFICATION Spec
SYMMETRY Symmetry
CHECK_DEADLOCK FALSE
INVARIANTS KnownTablesExist RowsAreKnown
PROPERTIES ImplementsJournal
