SPECIFICATION SteadySpec
CONSTANTS
    None = None
    Sockets = {s1, s2}
    Mishaps = {"crash"}
    MaxSaid = 2
    MaxDrops = 1
    MaxMishaps = 1
PROPERTIES ImplementsFeed
CHECK_DEADLOCK FALSE
