SPECIFICATION Spec
CONSTANTS
    c1 = c1
    s1 = s1
    u1 = u1
    u2 = u2
    Path <- Tree
    SysPath <- ListPath
    Client = {c1}
    Savers = {}
    Unlocker = {u1}
    Ops = {"write", "move", "mkdir"}
    Faults = {}
    MaxObjs = 1
INVARIANTS TypeOK NoAlias
PROPERTIES FlushKeepsOthers
CONSTRAINT FewEntries
