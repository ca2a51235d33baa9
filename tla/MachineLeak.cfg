SPECIFICATION FairSpec
CONSTANTS
    Rows = {r1, r2}
    None = None
    Said = {}
    Asked = {}
    Sweeps = TRUE
    RecordsDemo = FALSE
    MaxMaps = 1
    MaxChain = 1
    MaxMishaps = 1
CHECK_DEADLOCK FALSE
PROPERTIES
    RowIsClosed
