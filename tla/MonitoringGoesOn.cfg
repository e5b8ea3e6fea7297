\* What must happen in the end: two variables and one that cannot be stored.
\* With a limit of 0 every row is due for deletion as soon as it is written.
CONSTANTS
    None = None
    x = x  y = y  z = z
    w1 = w1
    Names = {x, y, z}
    Unstorable = {z}
    Limit = 0
    Workers = {w1}
    CleansAreFast = TRUE
    NotifyFails = FALSE
    MaxTime = 0
    MaxQueue = 1
SPECIFICATION FairSpec
CHECK_DEADLOCK FALSE
PROPERTIES ValuesGetWritten StopEnds CleaningGoesOn OldValuesGo
