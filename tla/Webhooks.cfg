SPECIFICATION FairSpec
CONSTANTS
    Matches = {1, 2}
    Concurrency = 1
    Batch = 2
    MaxAttempts = 2
    MaxFacts = 2
    MaxSaid = 3
    MaxMishaps = 1
INVARIANTS AttemptsBounded
PROPERTIES FirstInOrder NothingAfterGone EverySettled
CHECK_DEADLOCK FALSE
