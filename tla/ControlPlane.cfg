SPECIFICATION Spec
CONSTANTS
    Browser = {b1, b2}
    Device = {d1}
    NoDevice = NoDevice
    Nothing = Nothing
    Settings <- SomeSettings
    MaxRequests = 3
    Publisher = {d1, d2}
    Listener = {b1}
    Capacity = 2
    MaxFrames = 4
    Account = {a1}
    IP = {i1, i2}
    Login = {l1, l2, l3}
    accountLimit = 2
    ipLimit = 3
    window = 2
    NoLogin = NoLogin
    Handler = {h1, h2, h3, h4}
    MaxPendingAgentHandshakes = 2
    Upload = {u1, u2}
    Name = {n1, n2}
    Task = {t1}
    NoAsset = NoAsset
    Broken = Broken
    MaxRestarts = 2
INVARIANTS
    HubInv
    FanoutInv
    LimiterInv
    HandshakeInv
    LibraryInv
PROPERTIES
    NewestIsKeptInOrder
CHECK_DEADLOCK FALSE
