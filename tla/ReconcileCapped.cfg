CONSTANTS
    k = k
    kk = kk
    j = j
    hidden = hidden
    Texts = {k, kk, j, hidden}
    Normal <- Spelling
    Shown <- Masking
    Rows <- SomeRows
    Cap = 2
    Asked = {0, 1, 3}
    MaxChanges = 1
    None = None
SPECIFICATION Spec
INVARIANT CappingIsReported
CHECK_DEADLOCK FALSE
