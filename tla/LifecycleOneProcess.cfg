SPECIFICATION Spec
CONSTANTS
    r1 = r1
    r2 = r2
    Request = {r1, r2}
    Boot = Boot
    Main = Main
    Ops = {"start"}
    AutoStart = FALSE
    Faults = {}
    MaxProcs = 3
INVARIANT OneProcess
