CONSTANTS
    Calls = {c1}
    Runs = {r1}
    Rules = {u1}
    Populations = {p1}
    SourceStates <- TwoSourceStates
    BatchSize = 2
    MaxDetails = 2
    SinkMayFail = FALSE
    MaxClock = 0
    MaxChanges = 1
    None = None
SPECIFICATION Spec
INVARIANT EveryInvocationIsAudited
CHECK_DEADLOCK FALSE
