CONSTANTS
    p1 = p1
    p2 = p2
    ann = ann
    bob = bob
    gil = gil
    hal = hal
    r1 = r1
    red = red
    blue = blue
    NoTeam = NoTeam
    Nobody = Nobody
    NoRoom = NoRoom
    Free = Free
    Orphan = Orphan
    Callers = {p1, p2}
    Characters = {ann, bob}
    Rooms = {r1}
    Teams = {red, blue}
    Bet = 2
    Purse = 4
    MaxMoney = 4
    MinMembers = 2
    MaxMembers = 2
    TargetWins = 1
    MaxRounds = 1
    MaxFaults = 0
    MaxLapses = 1
    MaxExpiries = 0
    MaxVersion = 2
    Delvers = {gil, hal}
    Kit = {hal}
    NoReference = NoReference
    MaxExpeditions = 2
    MaxEvents = 3
SPECIFICATION SettlementsSpec
SYMMETRY SettlementsSymmetry
INVARIANTS SettlementsTypeOK EnrolledOnce
PROPERTIES ImplementsEscrow LedgerSettledOnce
CHECK_DEADLOCK FALSE
