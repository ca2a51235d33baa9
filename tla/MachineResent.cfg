SPECIFICATION Spec
CONSTANTS
    Rows = {r1}
    None = None
    Said = {"server_ready", "going_live", "series_end", "demo_available"}
    Asked = {}
    Sweeps = FALSE
    RecordsDemo = TRUE
    MaxMaps = 2
    MaxChain = 1
    MaxMishaps = 1
CHECK_DEADLOCK FALSE
PROPERTIES
    EveryDemoHasCome
