SPECIFICATION Spec
CONSTANTS
    Plans = {"full", "crash"}
    Asked = {"reprovision", "pause", "unpause"}
    Recovers = {TRUE}
    MaxServers = 3
    MaxChain = 2
    MaxSends = 4
INVARIANTS Watched
CHECK_DEADLOCK FALSE
