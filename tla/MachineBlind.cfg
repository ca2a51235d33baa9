SPECIFICATION Spec
CONSTANTS
    Rows = {r1}
    None = None
    Said = {"server_ready"}
    Asked = {}
    Sweeps = FALSE
    RecordsDemo = FALSE
    MaxMaps = 1
    MaxChain = 1
    MaxMishaps = 0
CHECK_DEADLOCK FALSE
INVARIANTS
    WaitsHaveDeadlines
