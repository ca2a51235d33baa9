SPECIFICATION FairSpec
CONSTANTS
    Streams = {s1, s2}
    Widgets = {p1}
    MaxFacts = 2
    PageLimit = 1
    Mishaps = {"lost", "throw", "slow", "break", "stop"}
    MaxMishaps = 1
    NoSocket = NoSocket
INVARIANTS Unbroken EndIsToldFirst LastPageIsLast
PROPERTIES SocketsClose FollowedToTheEnd
CHECK_DEADLOCK FALSE
