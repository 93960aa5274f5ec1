SPECIFICATION Spec
CONSTANTS
    a = a
    b = b
    c = c
    u = u
    v = v
    TrashPath = {a, b}
    MaxFiles = 3
    MaxTrashed = 2
    MaxTrashFails = 1
    Second = {1, 2}
    BackupRequest = {a, b}
    MaxBackupOps = 3
    MaxEdits = 1
    Tunnel = {u, v}
    FrpRequest = {a, b}
    MaxFrpOps = 3
    MaxFrpc = 3
    MaxFrpFails = 1
    Task = {a, b, c}
    MaxTasks = 2
    TaskTTL = 1
    MaxTaskTime = 3
    Ticket = {a, b}
    PlainName = {c}
    Transfer = {a, b}
    MaxTickets = 1
    TicketLife = 1
    MaxTicketTime = 2
    MaxUploads = 2
    JdkInstall = {a, b}
    MaxUninstalls = 2
    MaxInstallFails = 1
    CoreDownload = {a, b}
    MaxCoreFails = 1
    Pull = {a, b}
    Entry = {1, 2}
    MaxVersion = 1
    MaxPolls = 1
    MaxMirrorOps = 1
    MaxPullFails = 1
    MaxLines = 3
    PipeSize = 1
    QueueSize = 2
    MaxSize = 1
    Keep = 1
    MaxClears = 1
    MaxLogFails = 1
CONSTRAINT SomePullIsAlone
SYMMETRY Symmetry
INVARIANTS TypeOK FilesHold WorkHolds FrpHolds LogHolds
CHECK_DEADLOCK FALSE
