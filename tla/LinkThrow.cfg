SPECIFICATION Spec
CONSTANTS
    None = None
    Sockets = {s1, s2}
    Mishaps = {"throw"}
    MaxSaid = 2
    MaxDrops = 1
    MaxMishaps = 1
INVARIANT KeptThroughThrows
CHECK_DEADLOCK FALSE
