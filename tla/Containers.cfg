SPECIFICATION Spec
CONSTANTS
    x1 = x1
    x2 = x2
    j1 = j1
    j2 = j2
    j3 = j3
    p1 = p1
    p2 = p2
    JSession = {x1, x2}
    MaxJSessions = 1
    MaxJid = 2
    MaxBoots = 2
    MaxCliFails = 1
    Point = {p1}
    Rule = {j1, j2, j3}
    Foreign = {j3}
    Setting = {p1, p2}
    ConfigRequest = {x1, x2}
    MaxConfigOps = 3
    Job = {j1, j2, j3}
    MaxJobs = 2
    MaxLogKept = 2
    MaxLines = 4
    ZipName = {p1}
    MaxEndings = 1
    ZipRequest = {x1, x2}
    Jail = {j1, j2}
    MaxZipOps = 3
    Proc = {x1, x2, j3}
    Ops = {"read", "renew", "start", "save", "lock", "unlock", "count"}
SYMMETRY Symmetry
INVARIANTS TypeOK JailsHold ContainerWorkHolds NoCircularWait
CHECK_DEADLOCK FALSE
