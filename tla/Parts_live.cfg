CONSTANTS
    p1 = p1
    p2 = p2
    ann = ann
    bob = bob
    gil = gil
    hal = hal
    r1 = r1
    r2 = r2
    red = red
    blue = blue
    sword = sword
    herb = herb
    l1 = l1
    l2 = l2
    s1 = s1
    q1 = q1
    q2 = q2
    Nobody = Nobody
    Callers = {p1}
    Parts = {"bets", "challenge", "match"}
    NoTeam = NoTeam
    NoRoom = NoRoom
    Free = Free
    Orphan = Orphan
    Characters = {ann, bob}
    Rooms = {r1}
    Teams = {red, blue}
    Bet = 2
    Purse = 3
    MaxMoney = 9
    MinMembers = 2
    MaxMembers = 2
    TargetWins = 2
    MaxRounds = 3
    MaxFaults = 2
    MaxLapses = 0
    MaxExpiries = 0
    MaxVersion = 2
    Challengers = {ann, bob}
    Runs = {r1}
    NoRun = NoRun
    MaxRevision = 2
    MaxRunFaults = 1
    MaxCuts = 0
    MaxDeadlines = 1
    Fighters = {gil, hal}
    Guilds = {red, blue}
    NoGuild = NoGuild
    GuildOf <- MCGuildOf
    GvRooms = {r1}
    NoGvRoom = NoGvRoom
    InitialPrizeGP = 2
    JoinPrizeGP = 1
    RoundWinGP = 3
    MatchParticipantGP = 4
    MinFighters = 2
    MaxFighters = 3
    MaxGuildMembers = 2
    GvTargetWins = 2
    MaxGvRounds = 3
    MaxGvFaults = 2
    MaxGvLapses = 0
    MaxGvExpiries = 1
    Limit = 2
    BatchSize = 3
    MaxScan = 7
    MaxQueue = 0
    Traders = {gil, hal}
    IdOrder <- MCIdOrder
    Goods = {sword, herb}
    Stackable = {herb}
    Prize = herb
    Listings = {l1, l2}
    Sales = {s1}
    NoRow = NoRow
    Gift = 1
    Price = 2
    StorePrice = 2
    TicketPrice = 1
    MaxWallet = 3
    MaxDeposit = 1
    DepotCapacity = 2
    BoxCapacity = 2
    ServerMaxListings = 1
    MaxListingsPerCharacter = 1
    MaxSales = 1
    MaxTownStores = 1
    MaxTickets = 2
    StartGold = 2
    StartDepot <- MCStartDepot
    StartBag <- MCStartBag
    Starts <- MCStarts
    MaxDeals = 0
    Heroes = {gil, hal}
    MemberOrder <- MCIdOrder
    Parties = {q1}
    NoParty = NoParty
    Elsewhere = Elsewhere
    Vacant = Vacant
    Left = Left
    MaxSeats = 2
    MaxLeaseLapses = 0
    MaxMishaps = 0
SPECIFICATION FairPartsSpec
PROPERTIES BetsReturn ImplementsPaidRoster ClaimsReturn MatchEnds
CHECK_DEADLOCK FALSE
