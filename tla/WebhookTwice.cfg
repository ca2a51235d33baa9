SPECIFICATION ConsumerSpec
CONSTANTS
    Matches = {1}
    Concurrency = 1
    Batch = 1
    MaxAttempts = 2
    MaxFacts = 1
    MaxSaid = 1
    MaxMishaps = 0
INVARIANTS HandledOnce
CHECK_DEADLOCK FALSE
