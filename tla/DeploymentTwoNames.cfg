\* Two names, two versions, one request per name at a time, every crash.
CONSTANTS
    None = None
    n1 = n1  n2 = n2
    v1 = v1  v2 = v2  v3 = v3
    p1 = p1  p2 = p2
    t1 = t1  t2 = t2  t3 = t3  t4 = t4
    w1 = w1  w2 = w2
    Names = {n1, n2}
    Versions = {v1, v2}
    Ports = {p1}
    Tokens = {t1, t2, t3}
    Workers = {w1, w2}
    TakeTurns = TRUE
    UsersRevoke = FALSE
    Crashes = {"process", "container"}
SPECIFICATION Spec
SYMMETRY Symmetry
INVARIANTS TypeOK OneMain TurnsInv RecordsAreRouted
PROPERTIES TokenOutlivesContainer AssignedIsMain KillCleansUp ImplementsCatalog
