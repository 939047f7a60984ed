CONSTANTS
    Calls = {c1}
    Runs = {r1, r2}
    Rules = {1, 2, 3}
    Measured <- SomeCounts
    Caps = {1, 2}
    MaxRecords = 3
    None = None
SPECIFICATION Spec
SYMMETRY Symmetry
INVARIANTS
    TypeOK
    ReportMissesNothing
    MailsAreAccountedFor
    OverallIsBetween
    PercentageIsNearest
    PercentagesAddUp
    SeverityIsTheBand
CHECK_DEADLOCK FALSE
