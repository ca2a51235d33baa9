SPECIFICATION Spec
CONSTANTS
    None = None
    Sockets = {s1, s2}
    Mishaps = {"reload"}
    MaxSaid = 2
    MaxDrops = 0
    MaxMishaps = 1
INVARIANT KeptThroughReloads
CHECK_DEADLOCK FALSE
