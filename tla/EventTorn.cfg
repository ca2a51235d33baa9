SPECIFICATION Spec
CONSTANTS
    Threshold = 2
    MaxSaid = 4
    MaxCrashes = 3
    MaxTears = 1
INVARIANTS CountGoesOn
CHECK_DEADLOCK FALSE
