SPECIFICATION Spec
CONSTANTS
    c1 = c1
    s1 = s1
    u1 = u1
    u2 = u2
    Path <- Flat
    SysPath <- ListPath
    Client = {c1}
    Savers = {s1}
    Unlocker = {u1}
    Ops = {"write", "remove"}
    Faults = {"crash", "flush", "load"}
    MaxObjs = 3
INVARIANTS CrashKeepsFlushed OpenIndexIntact
