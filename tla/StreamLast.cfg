SPECIFICATION Spec
CONSTANTS
    Streams = {s1}
    Widgets = {p1}
    MaxFacts = 2
    PageLimit = 1
    Mishaps = {}
    MaxMishaps = 0
    NoSocket = NoSocket
INVARIANTS EndIsLast
CHECK_DEADLOCK FALSE
