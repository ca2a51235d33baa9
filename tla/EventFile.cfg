SPECIFICATION Spec
CONSTANTS
    Threshold = 2
    MaxSaid = 5
    MaxCrashes = 3
    MaxTears = 2
INVARIANTS FilesBounded LostAtMostTwoPerTear
PROPERTIES StepsOfABuffer
CHECK_DEADLOCK FALSE
