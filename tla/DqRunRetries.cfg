CONSTANTS
    Calls = {c1, c2}
    Runs = {r1}
    Rules = {u1}
    Populations = {p1}
    SourceStates <- ThreeSourceStates
    BatchSize = 2
    MaxDetails = 2
    SinkMayFail = TRUE
    MaxClock = 0
    MaxChanges = 1
    None = None
SPECIFICATION FairSpec
INVARIANTS
    HoldersGoOn
    AnswerMatchesAudit
PROPERTIES
    CallsEnd
    ImplementsLedger
    OnlyForward
CHECK_DEADLOCK FALSE
