SPECIFICATION Spec
CONSTANTS
    d1 = d1
    Task = {t1}
    Device = {d1}
    Conn = {c1, c2}
    ConnDevice <- OneDevice
    NoConn = NoConn
    NoTask = NoTask
    Janitor = Janitor
    Admin = Admin
    DbMayFail = FALSE
    MaxInFlight = 1
    MaxFaults = 1
PROPERTIES
    ReplacedAgentKeepsPresence
