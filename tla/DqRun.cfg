CONSTANTS
    Calls = {c1, c2}
    Runs = {r1, r2}
    Rules = {u1}
    Populations = {p1, p2}
    SourceStates <- TwoSourceStates
    BatchSize = 2
    MaxDetails = 2
    SinkMayFail = FALSE
    MaxClock = 1
    MaxChanges = 1
    None = None
SPECIFICATION Spec
SYMMETRY Symmetry
INVARIANTS
    TypeOK
    WholeRunOrNothing
    SuccessIsDurable
    BaselineIsLikeForLike
    HistoryFollowsDatabase
    TornLinesAreContained
    AnswerMatchesAudit
PROPERTY ImplementsLedger
CHECK_DEADLOCK FALSE
