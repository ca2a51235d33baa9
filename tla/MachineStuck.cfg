SPECIFICATION FaultySpec
CONSTANTS
    Rows = {r1}
    None = None
    Said = {}
    Asked = {}
    Sweeps = TRUE
    RecordsDemo = FALSE
    MaxMaps = 1
    MaxChain = 1
    MaxMishaps = 1
CHECK_DEADLOCK FALSE
PROPERTIES
    EventuallyEnds
