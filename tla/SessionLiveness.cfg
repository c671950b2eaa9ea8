SPECIFICATION FairApartSpec
CONSTANTS
    User = {u1}
    Share = {s1}
    Token = {k1}
    Conn = {c1}
    Rights = {r1, r2}
    Request = {q1}
    Janitor = Janitor
    None = None
    DbMayFail = TRUE
    MaxVersion = 1
    MaxChanges = 2
    MaxRestarts = 1
PROPERTIES
    LogoutIsFinal
    LogoutClosesSockets
    StaleBrowserLeavesHub
CHECK_DEADLOCK FALSE
