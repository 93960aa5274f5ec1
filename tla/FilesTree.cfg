SPECIFICATION TreesSpec
CONSTANTS
    f1 = f1
    f2 = f2
    File = {f1, f2}
    Ops = {"stop", "kill", "exit", "edit", "lock", "crash", "shutdown", "fail"}
    MaxWrites = 4
    MaxUnlocks = 2
    MaxTime = 2
    FileCount = 3
    BatchSize = 2
    MaxVersions = 3
    MaxOpens = 3
    MaxMoveFails = 2
SYMMETRY FileSymmetry
CONSTRAINT InScope
INVARIANTS  TreesTypeOK TreesHold
