CONSTANTS
    Calls = {c1, c2, c3}
    Databases = {d1, d2}
    Roles = {analyst, admin}
    RawRoles = {admin}
    Forms = {f1, f2}
    CacheSize = 1
    Ttl = 1
    MaxClock = 2
    None = None
SPECIFICATION Spec
SYMMETRY Symmetry
INVARIANTS
    TypeOK
    ExecutedWasApproved
    CacheIsBounded
CHECK_DEADLOCK FALSE
