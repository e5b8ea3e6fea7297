\* A pass of the cleaning that meets a table with no more rows than the limit.
CONSTANTS
    None = None
    x = x  y = y  z = z
    w1 = w1
    Names = {x, y}
    Unstorable = {}
    Limit = 1
    Workers = {w1}
    CleansAreFast = TRUE
    NotifyFails = FALSE
    MaxTime = 1
    MaxQueue = 2
SPECIFICATION FairSpec
CHECK_DEADLOCK FALSE
PROPERTIES RowLimitHolds
