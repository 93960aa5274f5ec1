SPECIFICATION LiveSpec
CONSTANTS
    h1 = h1
    h2 = h2
    a = a
    Handler = {h1, h2}
    Kinds = {"edit", "update", "start", "stop", "restart"}
    Faults = {}
    MaxChanges = 1
    MaxUnlocks = 2
    Pull = {a}
    Entry = {1, 2}
    MaxVersion = 1
    MaxPolls = 1
    MaxMirrorOps = 1
    MaxPullFails = 1
INVARIANTS UnlockKeepsChanges ShutdownSaves
PROPERTIES ChangeReachesDisk PullsEnd
CHECK_DEADLOCK FALSE
