CONSTANTS
    a1 = a1
    a2 = a2
    hero = hero
    NoAction = NoAction
    Actions = {a1}
    FixedIDs = {}
    Actors = {hero}
    ActorOf <- MCActorOf
    Workers = {w1}
    Callers = {c1}
    Cancellers = {x1}
    MaxFaults = 0
    MaxCrashes = 0
SPECIFICATION Spec
PROPERTIES CancelledWorkNotHandled
