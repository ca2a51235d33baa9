SPECIFICATION LivingSpec
CONSTANTS
    Rows = {r1, r2}
    None = None
    Said = {"server_ready", "going_live", "round_end"}
    Asked = {"reprovision"}
    Sweeps = FALSE
    RecordsDemo = FALSE
    MaxMaps = 1
    MaxChain = 2
    MaxMishaps = 0
SYMMETRY RowSymmetry
CHECK_DEADLOCK FALSE
INVARIANTS
    SignIsItsOwn
