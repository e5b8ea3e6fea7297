\* Two threads, one post of a notification at a time, cleared at any time.
CONSTANTS
    None = None
    k1 = k1  k2 = k2
    w1 = w1  w2 = w2
    Keys = {k1, k2}
    Timer <- MCTimer
    Workers = {w1, w2}
    TakeTurns = TRUE
    MaxTime = 4
    MaxCount = 3
SPECIFICATION Spec
SYMMETRY Symmetry
INVARIANT WindowInv
PROPERTIES MailsKeepWindow CountsPosts
