SPECIFICATION Spec
CONSTANTS
    r1 = r1
    r2 = r2
    t1 = t1
    t2 = t2
    Token = {t1, t2}
    Old = {t1}
    Request = {r1, r2}
    Ops = {"login", "use", "logout", "password", "admin"}
    MaxFails = 1
    MaxTime = 2
    MaxRequests = 3
SYMMETRY RequestSymmetry
CONSTRAINT NotAllExposed
INVARIANTS TypeOK RevokedIsRefused LiveIsServed
CHECK_DEADLOCK FALSE
