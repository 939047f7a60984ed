CONSTANTS
    s1 = s1
    s2 = s2
    a = a
    b = b
    d = d
    analyst = analyst
    steward = steward
    Calls = {c1, c2}
    Schemas = {s1, s2}
    Objects = {a, b, d}
    SchemaOf <- TwoAndOne
    Views <- SomeViews
    Order <- Names
    MaxRows = 1
    Roles = {analyst, steward}
    SchemasFor <- RoleSchemas
    Clearance <- RoleClearance
    Policies <- SomePolicies
    AllSchemas = AllSchemas
    Ttl = 1
    MaxClock = 1
    MaxViews = 2
    None = None
SPECIFICATION Spec
SYMMETRY Symmetry
INVARIANTS
    TypeOK
    AnswersAreRecent
    ListingAgrees
CHECK_DEADLOCK FALSE
