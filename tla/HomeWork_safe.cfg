CONSTANTS
    c1 = c1
    c2 = c2
    NoOne = NoOne
    Orphan = Orphan
    Requests = {c1, c2}
    SqlHooks <- MCTwoHooks
    MaxSleepFaults = 2
    MaxStalls = 1
    MaxRescues = 1
    a1 = a1
    a2 = a2
    hero = hero
    NoAction = NoAction
    Actions = {a1, a2}
    FixedIDs = {a2}
    Actors = {hero}
    ActorOf <- MCActorOf
    Workers = {w1}
    Callers = {r1}
    Cancellers = {}
    MaxFaults = 2
    MaxCrashes = 1
SPECIFICATION HomeWorkSpec
SYMMETRY MCSymmetry
INVARIANTS HomeTypeOK TemporaryJobEnds VerifiedWakeOwed AcceptedWorkKept RecordsReachable
PROPERTIES RecoveryOnlyWhenOwed RecoveryComplete CompensationKeepsSleep OutcomesAreFinal ImplementsOnceWork
