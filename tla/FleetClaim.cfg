SPECIFICATION Spec
CONSTANTS
    MaxIds = 2
    Foreign = {}
    Walks = {w1}
    MaxInstances = 1
    Warm = 1
    Jobs = {j1}
    MaxSockets = 2
    MaxSnapshots = 1
    Mishaps = {"restart"}
    MaxMishaps = 1
    NoOne = NoOne
INVARIANTS ClaimIsAssigned
CHECK_DEADLOCK FALSE
