\* Two users beside the admin, two threads, and a manager that starts twice.
CONSTANTS
    None = None
    u = u  v = v
    w1 = w1  w2 = w2
    Names = {u, v}
    Admin = Admin
    Passwords = {p1, p2}
    Secrets = {s1, s2}
    Uuids = {t1}
    Workers = {w1, w2}
    TakeTurns = TRUE
    MaxId = 4
    MaxStarts = 2
SPECIFICATION Spec
SYMMETRY Symmetry
CHECK_DEADLOCK FALSE
INVARIANTS AdminCanLogIn IssuedTokensVerify
PROPERTIES DeletesSpareOthers ImplementsDirectory
