\* One version, two threads, two ports to search and one that is asked for.
CONSTANTS
    None = None
    s1 = s1  s2 = s2
    w1 = w1  w2 = w2
    i1 = i1  i2 = i2  i3 = i3
    Services = {s1}
    Ids = {i1, i2, i3}
    LastPort = 2
    Fixed = 0
    Workers = {w1, w2}
    KillsWait = TRUE
SPECIFICATION FairSpec
PROPERTIES SearchSparesRunning SearchEnds PolicyGetsSet
