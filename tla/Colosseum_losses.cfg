CONSTANTS
    p1 = p1
    p2 = p2
    ann = ann
    bob = bob
    cid = cid
    r1 = r1
    r2 = r2
    red = red
    blue = blue
    NoTeam = NoTeam
    Nobody = Nobody
    NoRoom = NoRoom
    Free = Free
    Orphan = Orphan
    Callers = {p1}
    Characters = {ann, bob}
    Rooms = {r1, r2}
    Teams = {red, blue}
    Bet = 2
    Purse = 4
    MaxMoney = 9
    MinMembers = 2
    MaxMembers = 2
    TargetWins = 1
    MaxRounds = 1
    MaxFaults = 1
    MaxLapses = 1
    MaxExpiries = 1
    MaxVersion = 2
SPECIFICATION Spec
SYMMETRY MCSymmetry
INVARIANTS ClaimsMatchStakes CacheFollowsClaim
