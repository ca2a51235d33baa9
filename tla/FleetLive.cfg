SPECIFICATION FairSpec
CONSTANTS
    MaxIds = 3
    Foreign = {1}
    Walks = {w1}
    MaxInstances = 2
    Warm = 1
    Jobs = {j1}
    MaxSockets = 2
    MaxSnapshots = 1
    Mishaps = {"restart", "break", "agent", "fault", "expiry"}
    MaxMishaps = 1
    NoOne = NoOne
INVARIANTS ForeignIsLeftAlone
PROPERTIES StraysAreStopped PictureCatchesUp
CHECK_DEADLOCK FALSE
