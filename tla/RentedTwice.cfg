SPECIFICATION Spec
CONSTANTS
    Rows = {r1, r2}
    Accounts = {a1, a2, a3}
    Max = 1
    Mishaps = {"dathost", "steam", "vanish", "website", "crash", "slow"}
    MaxMishaps = 2
    None = None
INVARIANTS TypeOK OneServerPerToken
PROPERTIES OnlyOrphansAreReaped
