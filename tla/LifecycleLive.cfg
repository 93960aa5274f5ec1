SPECIFICATION FairSpec
CONSTANTS
    r1 = r1
    Request = {r1}
    Boot = Boot
    Main = Main
    Ops = {"start", "stop", "restart", "kill", "remove"}
    AutoStart = TRUE
    Faults = {"record", "forget", "kill"}
    MaxProcs = 1
PROPERTIES RequestsAnswered BusyReleased ShutdownCompletes
