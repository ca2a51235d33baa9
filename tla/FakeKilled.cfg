SPECIFICATION KilledSpec
CONSTANTS
    Plans = {"full"}
    Asked = {}
    Recovers = {TRUE}
    MaxServers = 3
    MaxChain = 2
    MaxSends = 2
PROPERTIES ImplementsLifecycle
CHECK_DEADLOCK FALSE
