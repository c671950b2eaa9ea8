SPECIFICATION Spec
CONSTANTS
    Device = {d1}
    Cred = {c1}
    Enr = {e1, e2}
    Tok = {t1, t2}
    G = {g1, g2}
    Janitor = Janitor
    Jwt = Jwt
    Deployer = c1
    None = None
    FaultKinds = {"link", "worker", "save", "db", "restart", "lapse"}
    MaxFaults = 3
SYMMETRY GoroutineSymmetry
INVARIANTS
    AcknowledgedIsDurable
    IdentityStaysValid
    OneIdentityPerEnrollment
PROPERTIES
    RevokedIssuerEnrollsNobody
