SPECIFICATION FairSpec
CONSTANTS
    MaxIds = 1
    Foreign = {}
    Walks = {w1}
    MaxInstances = 1
    Warm = 1
    Jobs = {j1}
    MaxSockets = 2
    MaxSnapshots = 1
    Mishaps = {"unheard","break"}
    MaxMishaps = 1
    NoOne = NoOne
PROPERTIES PictureCatchesUp
CHECK_DEADLOCK FALSE
