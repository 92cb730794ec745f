CONSTANTS
    c1 = c1
    c2 = c2
    NoOne = NoOne
    Orphan = Orphan
    Requests = {c1}
    SqlHooks <- MCOneHook
    MaxSleepFaults = 1
    MaxStalls = 0
    MaxRescues = 0
SPECIFICATION HomeSpec
INVARIANTS RestLeadsToRecovery
