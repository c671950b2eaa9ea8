SPECIFICATION ApartSpec
CONSTANTS
    User = {u1}
    Share = {s1, s2}
    Token = {k1}
    Conn = {c1}
    Rights = {r1, r2}
    Request = {q1, q2}
    Janitor = Janitor
    None = None
    DbMayFail = FALSE
    MaxVersion = 1
    MaxChanges = 3
    MaxRestarts = 1
SYMMETRY SessionSymmetry
PROPERTIES
    WithdrawalIsFinal
CHECK_DEADLOCK FALSE
