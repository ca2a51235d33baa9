SPECIFICATION FairSpec
CONSTANTS
    Rows = {r1, r2}
    Accounts = {a1, a2}
    Max = 1
    Mishaps = {"dathost", "steam", "vanish", "website", "crash", "slow"}
    MaxMishaps = 1
    None = None
INVARIANTS OneServerPerToken
PROPERTIES OnlyOrphansAreReaped RentEnds PoolHeals
