CONSTANTS
    t = t
    v = v
    x = x
    id = id
    mail = mail
    secret = secret
    note = note
    alias = alias
    business = business
    analyst = analyst
    admin = admin
    Objects = {t, v, x}
    Columns = {id, mail, secret, note}
    ColumnsOf <- TableColumns
    Aliases = {alias}
    NameRules <- SomeNameRules
    PathRules <- SomePathRules
    Contents <- SomeContents
    Position <- SomePositions
    Roles = {business, analyst, admin}
    Clearance <- SomeClearances
    RowCap <- SomeCaps
    ServerCap = 2
    Policies <- SomePolicies
    MayCross = {admin}
    Statements <- SomeStatements
    CatalogSql <- Catalog
    CountName = alias
    RawRoles = {admin}
    Reconcilers = {analyst, admin}
    Pinned = analyst
    Default = business
    MaxTurns = 2
    MaxCalls = 2
    None = None
SPECIFICATION Spec
INVARIANTS
    TypeOK
    
    RewritingIsFinal
    
    EveryCallIsAnswered
PROPERTIES
    RequestsEnd
CHECK_DEADLOCK FALSE
