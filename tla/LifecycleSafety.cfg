SPECIFICATION Spec
CONSTANTS
    r1 = r1
    r2 = r2
    Request = {r1, r2}
    Boot = Boot
    Main = Main
    Ops = {"restart", "kill"}
    AutoStart = FALSE
    Faults = {"kill"}
    MaxProcs = 2
SYMMETRY RequestSymmetry
INVARIANTS TypeOK OneProcessUnlessBypassed PublishedIsWatched NoOrphanAfterShutdown
PROPERTIES StoppedNotRestarted ImplementsSlot
