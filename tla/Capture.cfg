SPECIFICATION Spec
CONSTANTS
    Client = {v1, v2}
    Source = {"display", "camera"}
    x = x
    v1 = v1
    y = y
    Profile = {x, y}
    Plain = x
    Offers <- SomeOffers
    Nothing = Nothing
    GroupControl = TRUE
    MaxPeers = 3
    MaxConn = 2
    Viewer = {v1, v2}
    Requests <- SomeRequests
    Rates = {4, 10, 42, 70}
    Absent = Absent
    Caller = {g1}
    Args = {a1, a2}
    MaxLaunch = 2
INVARIANTS
    
    BridgeInv
PROPERTIES
    CommandSuitsEveryone
    EndsForItsOwnReason
    LastViewerStopsCapture
    ExitIsReported
CHECK_DEADLOCK FALSE
