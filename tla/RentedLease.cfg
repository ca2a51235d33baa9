SPECIFICATION FairSpec
CONSTANTS
    Rows = {r1, r2}
    Accounts = {a1, a2}
    Max = 1
    Mishaps = {"crash"}
    MaxMishaps = 1
    None = None
PROPERTIES CrashLeaksNoLease
