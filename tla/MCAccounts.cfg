SPECIFICATION Spec
CONSTANTS
    Names = {n1}
    Passwords = {p1, p2}
    Codes = {c1, c2}
    NoCode = NoCode
    Ids = {i1, i2}
    Tokens = {t1, t2}
    Workers = {w1, w2}
SYMMETRY Symmetry
INVARIANTS
    UniqueNames
    LogoutEndsSessions
    ResetOnce
PROPERTIES
    LateStaysUnconfirmed
    ImplementsSessions
CHECK_DEADLOCK FALSE
