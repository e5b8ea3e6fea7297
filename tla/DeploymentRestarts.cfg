\* Liveness across restarts that find no proxy files: no symmetry.
CONSTANTS
    None = None
    n1 = n1  n2 = n2
    v1 = v1  v2 = v2  v3 = v3
    p1 = p1  p2 = p2
    t1 = t1  t2 = t2  t3 = t3  t4 = t4
    w1 = w1  w2 = w2
    Names = {n1}
    Versions = {v1, v2}
    Ports = {p1, p2}
    Tokens = {t1, t2, t3}
    Workers = {w1}
    TakeTurns = TRUE
    UsersRevoke = FALSE
    Crashes = {"container"}
SPECIFICATION FairSpec
INVARIANTS RoutesAreRecorded
PROPERTIES AcceptedIsServed ManagerRestarts RecordsGetRouted
