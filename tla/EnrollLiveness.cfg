SPECIFICATION FairSpec
CONSTANTS
    Device = {d1}
    Cred = {}
    Enr = {e1, e2, e3, e4, e5}
    Tok = {t1, t2, t3, t4}
    G = {g1, g2}
    Janitor = Janitor
    Jwt = Jwt
    Deployer = Jwt
    None = None
    FaultKinds = {"reset", "worker", "link", "lapse", "save", "db", "restart"}
    MaxFaults = 2
PROPERTIES
    HostAgentComesOnline
    HealthRecovers
