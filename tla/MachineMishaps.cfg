SPECIFICATION Spec
CONSTANTS
    Rows = {r1, r2}
    None = None
    Said = {"server_ready", "going_live", "backup_restored", "hello"}
    Asked = {"restore", "reprovision", "pause", "unpause", "force_end"}
    Sweeps = FALSE
    RecordsDemo = FALSE
    MaxMaps = 1
    MaxChain = 1
    MaxMishaps = 2
SYMMETRY RowSymmetry
CHECK_DEADLOCK FALSE
INVARIANTS
    TerminalIsClosed
    OneOpenRow
    MishapsStrandRows
    Attended
    Watched
PROPERTIES
    StaysEnded
    ImplementsLifecycle
