SPECIFICATION FairSpec
CONSTANTS
    Plans = {"full", "crash", "bare"}
    Asked = {"restore", "force_end", "reprovision", "pause", "unpause"}
    Recovers = {TRUE, FALSE}
    MaxServers = 3
    MaxChain = 2
    MaxSends = 4
INVARIANTS RowsAreHeld
PROPERTIES ImplementsLifecycle EventuallyEnds
CHECK_DEADLOCK FALSE
