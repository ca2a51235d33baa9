SPECIFICATION Spec
CONSTANTS
    MaxIds = 2
    Foreign = {}
    Walks = {w1, w2}
    MaxInstances = 1
    Warm = 1
    Jobs = {j1, j2}
    MaxSockets = 2
    MaxSnapshots = 1
    Mishaps = {"restart", "drop", "fault", "refusal", "late"}
    MaxMishaps = 1
    NoOne = NoOne
INVARIANTS OneMatchEach SessionIsTheMatchs OnlyTheEndStops
SYMMETRY Symmetry
CHECK_DEADLOCK FALSE
