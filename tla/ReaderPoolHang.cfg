CONSTANTS
    Calls = {c1, c2}
    ReaderSizes <- Two
    WriterMax = 2
    MaxFetches = 1
SPECIFICATION FairSpec
PROPERTY CallsEnd
CHECK_DEADLOCK FALSE
