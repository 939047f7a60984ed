CONSTANTS
    Calls = {c1, c2, c3}
    ReaderSizes <- Sizes
    WriterMax = 1
    MaxFetches = 2
SPECIFICATION FairSafeSpec
INVARIANTS
    TypeOK
    IdlePoolsAreComplete
    ConnectionsInOrder
    SomeoneCanRun
PROPERTY CallsEnd
CHECK_DEADLOCK FALSE
