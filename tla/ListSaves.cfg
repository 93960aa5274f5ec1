SPECIFICATION Spec
CONSTANTS
    h1 = h1
    h2 = h2
    Handler = {h1}
    Kinds = {"edit", "start", "stop", "restart"}
    Faults = {"crash", "write"}
    MaxChanges = 2
    MaxUnlocks = 2
INVARIANTS TypeOK DirtyCoversChanges SavedStaysSaved

