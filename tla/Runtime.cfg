\* A thread that sets a parameter, two overlapping calls, kills and restarts.
CONSTANTS
    None = None
    v1 = v1  v2 = v2
    w1 = w1
    c1 = c1  c2 = c2
    Parameters = {p1}
    Values = {v1, v2}
    Initial <- FirstValues
    Threads = {w1}
    Calls = {c1, c2}
    TakeTurns = TRUE
    ClockAdvances = TRUE
    MaxTime = 3
    MaxQueue = 2
SPECIFICATION Spec
SYMMETRY Symmetry
INVARIANTS HistoryFollows PairsMatch
