CONSTANTS
    a1 = a1
    a2 = a2
    hero = hero
    NoAction = NoAction
    Actions = {a1}
    FixedIDs = {}
    Actors = {hero}
    ActorOf <- MCActorOf
    Workers = {w1}
    Callers = {c1}
    Cancellers = {x1}
    MaxFaults = 2
    MaxCrashes = 1
    NoOne = NoOne
    Orphan = Orphan
    Requests = {c1}
    SqlHooks <- MCTwoHooks
    MaxSleepFaults = 2
    MaxStalls = 0
    MaxRescues = 1
    gil = gil
    hal = hal
    Parties = {q1}
    Nobody = Nobody
    NoParty = NoParty
    Elsewhere = Elsewhere
    Vacant = Vacant
    Left = Left
    MaxLeaseLapses = 0
    MaxMishaps = 1
    Kit = {hal}
    NoReference = NoReference
    MaxExpeditions = 1
    MaxEvents = 3
SPECIFICATION WorkSpec
INVARIANTS CancelKeepsDiscovery HandledAtMostOnce
PROPERTIES DueWorkHandled OutcomesFinalized SleeperWakes HandoffCleared SettlementCompletes
CHECK_DEADLOCK FALSE
