SPECIFICATION Spec
CONSTANTS
    x1 = x1
    x2 = x2
    y1 = y1
    y2 = y2
    y3 = y3
    a1 = a1
    NoToken = NoToken
    Endpoint = {x1, x2}
    PermRequest = {y1, y2}
    MaxPermRequests = 3
    MaxPermFails = 1
    User = {y1, y2, y3}
    Address = {a1}
    Login = {x1, x2}
    MaxFails = 2
    MaxFailsIP = 3
    MaxKeys = 2
    Window = 2
    MaxCount = 7
    VUser = {x1, x2}
    Token = {y1, y2}
    MaxSaveFails = 1
    MaxTOTPFails = 2
    MaxFresh = 3
SYMMETRY Symmetry
INVARIANTS TypeOK PermissionsHold LimiterHolds VaultAccountsHold
CHECK_DEADLOCK FALSE
