\* Two shells, two hosts with two tokens, and two versions of one service.
CONSTANTS
    None = None
    Absent = Absent
    Torn = Torn
    h1 = h1  h2 = h2
    s1 = s1  s2 = s2
    t1 = t1  t2 = t2
    v1 = v1  v2 = v2
    Shells = {s1, s2}
    Hosts = {h1, h2}
    Tokens = {t1, t2}
    Names = {n1}
    Versions = {v1, v2}
    TakeTurns = TRUE
SPECIFICATION Spec
SYMMETRY Symmetry
INVARIANTS ActiveHostIsKnown LoginsAreKept
PROPERTIES OrderlyKill KillEndsClean
