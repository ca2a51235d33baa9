SPECIFICATION Spec
SYMMETRY SocketSymmetry
CONSTANTS
    None = None
    Sockets = {s1, s2}
    Mishaps = {"crash", "throw", "wipe", "reload"}
    MaxSaid = 3
    MaxDrops = 2
    MaxMishaps = 1
INVARIANTS NothingLost InOrder LoggedOnce NeverAhead
CHECK_DEADLOCK FALSE
