------------------------------- MODULE Market -------------------------------
(***************************************************************************)
(* What characters give and sell each other: gold (internal/economy,       *)
(* bank), items between inventories and depots (depot, auction), gems      *)
(* (gemstore), the flea market, player stores, and the lottery whose draw  *)
(* delivers into depots.  Every operation is one SQL transaction at READ   *)
(* COMMITTED: it locks rows one by one, reads each when it has it, and     *)
(* writes all at the commit.  A row that it only looks at may change       *)
(* before that commit.  Item metadata, equipment slots and the collection  *)
(* book are left out; the guard that an actor is awake, a limit that is    *)
(* not modelled and a failing statement are all the step Fail.             *)
(***************************************************************************)
EXTENDS Actors, Sequences, Functions, FiniteSetsExt

CONSTANTS
    Traders,
    IdOrder,      \* the ascending order of character IDs
    Goods,        \* item definitions
    Stackable,    \* the kinds whose units share one slot
    Prize,        \* the kind that the lottery pays
    Listings,     \* IDs of flea market listings
    Sales,        \* IDs of store sales
    NoRow,        \* a statement that locks nothing
    Gift, Price, StorePrice, TicketPrice,
    MaxWallet, MaxDeposit,
    DepotCapacity, BoxCapacity,
    ServerMaxListings, MaxListingsPerCharacter, MaxSales, MaxTownStores, MaxTickets,
    StartGold, StartDepot, StartBag,
    Starts,       \* what is listed, for sale, built and ticketed at first
    MaxDeals      \* bound on the transactions of a behaviour

ASSUME MarketAssumption ==
    /\ IsFiniteSet(Traders) /\ IsFiniteSet(Goods) /\ IsFiniteSet(Listings) /\ IsFiniteSet(Sales)
    /\ IdOrder \in [Traders -> Nat] /\ IsInjective(IdOrder)
    /\ Stackable \subseteq Goods /\ Prize \in Goods
    /\ Nobody \notin Traders
    /\ Gift \in Nat /\ Price \in Nat /\ StorePrice \in Nat /\ TicketPrice \in Nat
    /\ MaxWallet \in Nat /\ MaxDeposit \in Nat /\ StartGold \in 0..MaxWallet
    /\ {DepotCapacity, BoxCapacity, ServerMaxListings, MaxListingsPerCharacter,
        MaxSales, MaxTownStores, MaxTickets, MaxDeals} \subseteq Nat
    /\ BoxCapacity >= 1

VARIABLES
    gold, saved,  \* characters.money, characters.deposit
    depot, bag,   \* depot_items, inventory_items: units of each kind
    box,          \* gem_box_items
    listing,      \* fleamarket_listings
    sale,         \* store_sales
    store,        \* character_stores
    tickets, won, \* takarakuji_tickets of the active round, and the winners of the drawn one
    held,         \* who has locked which row
    deal,         \* what each transaction does and how far it has come
    deals         \* how many have begun

purses == <<gold, saved>>
items == <<depot, bag, box>>
offers == <<listing, sale, store>>
lottery == <<tickets, won>>
marketVars == <<purses, items, offers, lottery, held, deal, deals>>

Rows ==
    ({"listing"} \X Listings) \cup ({"sale"} \X Sales) \cup {<<"market">>, <<"round">>}
        \cup ({"character", "bag", "depot", "box"} \X Traders)

ASSUME RowsAssumption == NoRow \notin Rows

Character(c) == <<"character", c>>
Depot(c) == <<"depot", c>>

Listed == [state : {"none", "active", "sold", "cancelled"}, seller : Traders \cup {Nobody},
           item : Goods]
Offered == [state : {"none", "gold", "barter"}, seller : Traders \cup {Nobody},
            item : Goods, wish : Goods]

NoListing == [state |-> "none", seller |-> Nobody, item |-> Prize]
NoSale == [state |-> "none", seller |-> Nobody, item |-> Prize, wish |-> Prize]

\* The slots of a depot.  The units of a stackable kind share one.
SlotsOf(d, k) == IF k \in Stackable /\ d[k] > 0 THEN 1 ELSE d[k]
Slots(d) == Cardinality(UNION {{k} \X (1..SlotsOf(d, k)) : k \in Goods})

\* What is listed and for sale in the tables L and S, and what is by one seller.
ActiveIn(L) == {l \in Listings : L[l].state = "active"}
ListedIn(L, c) == {l \in ActiveIn(L) : L[l].seller = c}
ForSaleIn(S, c) == {s \in Sales : S[s].state # "none" /\ S[s].seller = c}

\* The limits of listings, sales and tickets.
WithinLimits(L, S, sold) ==
    /\ Cardinality(ActiveIn(L)) <= ServerMaxListings /\ Cardinality(sold) <= MaxTickets
    /\ \A c \in Traders :
         /\ Cardinality(ListedIn(L, c)) <= MaxListingsPerCharacter
         /\ Cardinality(ForSaleIn(S, c)) <= MaxSales

ASSUME StartsAssumption ==
    /\ StartDepot \in [Traders -> [Goods -> Nat]] /\ StartBag \in [Traders -> [Goods -> Nat]]
    /\ \A c \in Traders : Slots(StartDepot[c]) <= DepotCapacity
    /\ \A s \in Starts :
         /\ s.listing \in [Listings -> Listed] /\ s.sale \in [Sales -> Offered]
         /\ \A l \in Listings : s.listing[l].state # "none" => s.listing[l].seller # Nobody
         /\ \A x \in Sales : s.sale[x].state # "none" => s.sale[x].seller # Nobody
         /\ s.store \in [Traders -> {"none", "open"}] /\ s.tickets \subseteq Traders
         /\ WithinLimits(s.listing, s.sale, s.tickets)

\* A request: who asks, the other character, the listing or sale, the item, the
\* winners of a draw, and how many statements its transaction has executed.
NoDeal == [op |-> "none", me |-> Nobody, you |-> Nobody, id |-> NoRow, item |-> Prize,
           winners |-> {}, at |-> 0]

MarketInit ==
    /\ gold = [c \in Traders |-> StartGold] /\ saved = [c \in Traders |-> 0]
    /\ depot = StartDepot /\ bag = StartBag
    /\ box = [c \in Traders |-> 1]
    /\ \E s \in Starts :
         listing = s.listing /\ sale = s.sale /\ store = s.store /\ tickets = s.tickets
    /\ won = {}
    /\ held = [r \in Rows |-> Nobody]
    /\ deal = [p \in Callers |-> NoDeal] /\ deals = 0

-----------------------------------------------------------------------------
(* The items of a depot.                                                   *)
Fits(d, k) == (k \in Stackable /\ d[k] > 0) \/ Slots(d) < DepotCapacity

Put(d, c, k, n) == [d EXCEPT ![c][k] = @ + n]
Drop(d, c, k, n) == [d EXCEPT ![c][k] = @ - n]

\* The units of one instance of a depot: a stack is one.
Instance(d, k) == IF k \in Stackable THEN d[k] ELSE 1

\* DeductMoney of one wallet and AddMoney to another, which holds MaxWallet at most.
Pay(from, to, n) ==
    [gold EXCEPT ![from] = @ - n, ![to] = IF @ > MaxWallet - n THEN MaxWallet ELSE @ + n]

ActiveListings == ActiveIn(listing)
ListingsOf(c) == ListedIn(listing, c)
SalesOf(c) == ForSaleIn(sale, c)

-----------------------------------------------------------------------------
(* The statements of an operation before it writes: the row each one locks *)
(* and what the operation requires of what it has read by then.            *)
Take(row) == [row |-> row, ok |-> TRUE]
TakeIf(row, ok) == [row |-> row, ok |-> ok]
Look(ok) == [row |-> NoRow, ok |-> ok]

\* Rows of several characters, in the ascending order of their IDs (id.Sort2).
Nth(S, i) == CHOOSE c \in S : Cardinality({d \in S : IdOrder[d] < IdOrder[c]}) = i - 1
Ascending(table, S) == [i \in 1..Cardinality(S) |-> Take(<<table, Nth(S, i)>>)]

\* (mutant) The giver is locked first.
GiftsUnsorted(x) == <<Take(Character(x.me)), Take(Character(x.you))>>

Gifts(x) == Ascending("character", {x.me, x.you})

\* (mutant) Creators are not serialized.
ListPlanUnlocked(x) ==
    <<Look(Cardinality(ActiveListings) < ServerMaxListings),
      TakeIf(Character(x.me), Cardinality(ListingsOf(x.me)) < MaxListingsPerCharacter),
      Take(Depot(x.me))>>

ListPlan(x) ==
    <<Take(<<"market">>), Look(Cardinality(ActiveListings) < ServerMaxListings),
      TakeIf(Character(x.me), Cardinality(ListingsOf(x.me)) < MaxListingsPerCharacter),
      Take(Depot(x.me))>>

BuyPlan(x) ==
    LET seller == listing[x.id].seller IN
    <<TakeIf(<<"listing", x.id>>, x.id \in ActiveListings /\ seller # x.me)>>
        \o Ascending("character", {x.me, seller} \cap Traders)
        \o <<Look(gold[x.me] >= Price), Take(Depot(x.me))>>

CancelPlan(x) ==
    <<TakeIf(<<"listing", x.id>>, x.id \in ListingsOf(x.me)),
      Take(Character(x.me)), Take(Depot(x.me))>>

\* ListGoldItem and ListBarterItem.
OfferPlan(x) ==
    <<Take(Character(x.me)), Take(Depot(x.me)),
      Look(store[x.me] = "open" /\ Cardinality(SalesOf(x.me)) < MaxSales)>>

\* (mutant) The sale is only read.
WithdrawPlanUnlocked(x) ==
    <<Look(x.id \in SalesOf(x.me)), Take(Character(x.me)), Take(Depot(x.me))>>

WithdrawPlan(x) ==
    <<TakeIf(<<"sale", x.id>>, x.id \in SalesOf(x.me)),
      Take(Character(x.me)), Take(Depot(x.me))>>

\* BuyItem and TradeItem, which find their kind of sale.
DealPlan(x, kind, funds) ==
    LET seller == sale[x.id].seller IN
    <<TakeIf(<<"sale", x.id>>, sale[x.id].state = kind /\ seller # x.me)>>
        \o Ascending("character", {x.me, seller} \cap Traders) \o <<Look(gold[x.me] >= funds)>>
        \o Ascending("depot", {x.me, seller} \cap Traders)

\* BuildStore counts the stores of the town without a lock.
BuildPlan(x) ==
    <<TakeIf(Character(x.me), gold[x.me] >= StorePrice /\ store[x.me] # "open"),
      Look(Cardinality({c \in Traders : store[c] = "open"}) < MaxTownStores)>>

TicketPlan(x) ==
    <<TakeIf(<<"round">>, won = {}),
      Look(Cardinality(tickets) < MaxTickets /\ x.me \notin tickets), Take(Character(x.me))>>

\* A delivery locks the winner's depot alone; the row it inserts there makes
\* InnoDB lock the character that its foreign key names.
DrawPlan(x) ==
    LET Delivery(i) == IF i % 2 = 1 THEN Depot(Nth(x.winners, (i + 1) \div 2))
                       ELSE Character(Nth(x.winners, i \div 2))
    IN
    <<TakeIf(<<"round">>, won = {} /\ x.winners \subseteq tickets)>>
        \o [i \in 1..(2 * Cardinality(x.winners)) |-> Take(Delivery(i))]

Plan(x) ==
    CASE x.op = "gold" -> Gifts(x)
      [] x.op = "money" -> Gifts(x) \o <<Take(Depot(x.me))>>
      [] x.op \in {"save", "spend"} -> <<Take(Character(x.me))>>
      [] x.op \in {"stow", "fetch"} ->
           <<Take(Character(x.me)), Take(<<"bag", x.me>>), Take(Depot(x.me))>>
      [] x.op = "send" ->
           Gifts(x) \o <<Take(<<"bag", x.me>>), Take(Depot(x.you)), Take(Depot(x.me))>>
      [] x.op = "auction" -> Gifts(x) \o <<Take(<<"bag", x.me>>), Take(Depot(x.you))>>
      [] x.op = "gem" -> Gifts(x) \o Ascending("box", {x.me, x.you})
      [] x.op = "list" -> ListPlan(x)
      [] x.op = "buy" -> BuyPlan(x)
      [] x.op = "cancel" -> CancelPlan(x)
      [] x.op \in {"offer", "barter"} -> OfferPlan(x)
      [] x.op = "withdraw" -> WithdrawPlan(x)
      [] x.op = "purchase" -> DealPlan(x, "gold", Price)
      [] x.op = "trade" -> DealPlan(x, "barter", 0)
      [] x.op = "build" -> BuildPlan(x)
      [] x.op = "ticket" -> TicketPlan(x)
      [] x.op = "draw" -> DrawPlan(x)
      [] OTHER -> <<>>

-----------------------------------------------------------------------------
(* Requests, in as far as the checks before the transaction let them pass. *)
Gives == [op : {"gold", "money", "gem"}, me : Traders, you : Traders]
Sends == [op : {"send", "auction"}, me : Traders, you : Traders, item : Goods]
Moves == [op : {"stow", "fetch", "list", "offer", "barter"}, me : Traders, item : Goods]
Alone == [op : {"save", "spend", "build", "ticket"}, me : Traders]
Takes == [op : {"buy", "cancel"}, me : Traders, id : Listings]
             \cup [op : {"withdraw", "purchase"}, me : Traders, id : Sales]
Trades == [op : {"trade"}, me : Traders, id : Sales, item : Goods]
Draws == [op : {"draw"}, winners : SUBSET Traders]

Requests == Gives \cup Sends \cup Moves \cup Alone \cup Takes \cup Trades \cup Draws

BeginDeal(p) ==
    \E x \in Requests :
        /\ deal[p] = NoDeal /\ deals < MaxDeals
        /\ x.op \in {"gold", "money", "gem", "send", "auction"} => x.me # x.you
        /\ deal' = [deal EXCEPT ![p] =
               [f \in DOMAIN NoDeal |-> IF f \in DOMAIN x THEN x[f] ELSE NoDeal[f]]]
        /\ deals' = deals + 1
        /\ UNCHANGED <<purses, items, offers, lottery, held>>

NextStatement(p) == Plan(deal[p])[deal[p].at + 1]

\* The next SELECT ... FOR UPDATE, or count, succeeds and the operation goes on.
Execute(p) ==
    /\ deal[p] # NoDeal /\ deal[p].at < Len(Plan(deal[p]))
    /\ LET s == NextStatement(p) IN
       /\ s.ok
       /\ s.row # NoRow => held[s.row] \in {Nobody, p}
       /\ held' = IF s.row = NoRow THEN held ELSE [held EXCEPT ![s.row] = p]
    /\ deal' = [deal EXCEPT ![p].at = @ + 1]
    /\ UNCHANGED <<purses, items, offers, lottery, deals>>

End(p) ==
    /\ held' = [r \in Rows |-> IF held[r] = p THEN Nobody ELSE held[r]]
    /\ deal' = [deal EXCEPT ![p] = NoDeal]
    /\ UNCHANGED deals

\* A refusal, a failing statement or a lost connection: nothing is written.
Fail(p) == deal[p] # NoDeal /\ End(p) /\ UNCHANGED <<purses, items, offers, lottery>>

\* The rows are locked; the operation writes and commits.
Commits(p, ops) ==
    deal[p].op \in ops /\ deal[p].at = Len(Plan(deal[p])) /\ End(p)

-----------------------------------------------------------------------------
(* Gold.                                                                   *)

\* TransferGold, SendMoney and Send.
TransferGold(p) ==
    /\ Commits(p, {"gold", "money"})
    /\ gold[deal[p].me] >= Gift
    /\ gold' = Pay(deal[p].me, deal[p].you, Gift)
    /\ UNCHANGED <<saved, items, offers, lottery>>

CalculateDeposit(p) ==
    LET c == deal[p].me IN
    /\ Commits(p, {"save"})
    /\ \E amount \in 1..gold[c] :
         /\ saved[c] <= MaxDeposit - amount
         /\ gold' = [gold EXCEPT ![c] = @ - amount]
         /\ saved' = [saved EXCEPT ![c] = @ + amount]
    /\ UNCHANGED <<items, offers, lottery>>

\* What the wallet has no room for stays in the bank.
CalculateWithdrawal(p) ==
    LET c == deal[p].me IN
    /\ Commits(p, {"spend"})
    /\ \E amount \in 1..saved[c] :
         LET n == Min({amount, MaxWallet - gold[c]}) IN
         /\ gold' = [gold EXCEPT ![c] = @ + n]
         /\ saved' = [saved EXCEPT ![c] = @ - n]
    /\ UNCHANGED <<items, offers, lottery>>

-----------------------------------------------------------------------------
(* Items.  The inventory holds instances, of which a stackable one has any *)
(* number of units; the number of its instances is left out.               *)
Units(c, k) == 1..(IF k \in Stackable THEN bag[c][k] ELSE Min({1, bag[c][k]}))

\* DepositItem and SendItem, to one's own depot or that of another.
FromInventory(p) ==
    LET x == deal[p]
        owner == IF x.op = "stow" THEN x.me ELSE x.you
    IN
    /\ Commits(p, {"stow", "send"})
    /\ Fits(depot[owner], x.item)
    /\ \E n \in Units(x.me, x.item) :
         /\ bag' = Drop(bag, x.me, x.item, n)
         /\ depot' = Put(depot, owner, x.item, n)
    /\ UNCHANGED <<purses, box, offers, lottery>>

\* The slot is emptied whatever it holds.
WithdrawItem(p) ==
    LET x == deal[p]  n == Instance(depot[x.me], x.item) IN
    /\ Commits(p, {"fetch"})
    /\ depot[x.me][x.item] > 0
    /\ depot' = Drop(depot, x.me, x.item, n)
    /\ bag' = Put(bag, x.me, x.item, n)
    /\ UNCHANGED <<purses, box, offers, lottery>>

\* One unit.
SendAuctionItem(p) ==
    LET x == deal[p] IN
    /\ Commits(p, {"auction"})
    /\ bag[x.me][x.item] > 0 /\ Fits(depot[x.you], x.item)
    /\ bag' = Drop(bag, x.me, x.item, 1)
    /\ depot' = Put(depot, x.you, x.item, 1)
    /\ UNCHANGED <<purses, box, offers, lottery>>

SendGem(p) ==
    LET x == deal[p] IN
    /\ Commits(p, {"gem"})
    /\ box[x.you] < BoxCapacity /\ box[x.me] > 0
    /\ box' = [box EXCEPT ![x.me] = @ - 1, ![x.you] = @ + 1]
    /\ UNCHANGED <<purses, depot, bag, offers, lottery>>

-----------------------------------------------------------------------------
(* The flea market.                                                        *)
CreateListing(p) ==
    LET x == deal[p] IN
    /\ Commits(p, {"list"})
    /\ depot[x.me][x.item] > 0
    /\ depot' = Drop(depot, x.me, x.item, 1)
    /\ \E l \in Listings :
         /\ listing[l].state = "none"
         /\ listing' = [listing EXCEPT
                ![l] = [state |-> "active", seller |-> x.me, item |-> x.item]]
    /\ UNCHANGED <<purses, bag, box, sale, store, lottery>>

\* UpdateListing changes a listing that is active still.
CloseListing(l, s) ==
    /\ listing[l].state = "active"
    /\ listing' = [listing EXCEPT ![l].state = s]

PurchaseListing(p) ==
    LET x == deal[p]  sold == listing[x.id] IN
    /\ Commits(p, {"buy"})
    /\ gold' = Pay(x.me, sold.seller, Price)
    /\ Fits(depot[x.me], sold.item)
    /\ depot' = Put(depot, x.me, sold.item, 1)
    /\ CloseListing(x.id, "sold")
    /\ UNCHANGED <<saved, bag, box, sale, store, lottery>>

CancelListing(p) ==
    LET x == deal[p]  k == listing[x.id].item IN
    /\ Commits(p, {"cancel"})
    /\ Fits(depot[x.me], k)
    /\ depot' = Put(depot, x.me, k, 1)
    /\ CloseListing(x.id, "cancelled")
    /\ UNCHANGED <<purses, bag, box, sale, store, lottery>>

-----------------------------------------------------------------------------
(* Player stores.  The sales of a store outlive it.                        *)
BuildStore(p) ==
    LET c == deal[p].me IN
    /\ Commits(p, {"build"})
    /\ gold' = [gold EXCEPT ![c] = @ - StorePrice]
    /\ store' = [store EXCEPT ![c] = "open"]
    /\ UNCHANGED <<saved, items, listing, sale, lottery>>

ListSale(p) ==
    LET x == deal[p] IN
    /\ Commits(p, {"offer", "barter"})
    /\ depot[x.me][x.item] > 0
    /\ depot' = Drop(depot, x.me, x.item, 1)
    /\ \E s \in Sales, wish \in Goods :
         /\ sale[s].state = "none"
         /\ sale' = [sale EXCEPT ![s] =
                [state |-> IF x.op = "offer" THEN "gold" ELSE "barter",
                 seller |-> x.me, item |-> x.item, wish |-> wish]]
    /\ UNCHANGED <<purses, bag, box, listing, store, lottery>>

\* DeleteSale does not ask whether the row is there.
DeleteSale(s) == sale' = [sale EXCEPT ![s] = NoSale]

WithdrawListing(p) ==
    LET x == deal[p]  k == sale[x.id].item IN
    /\ Commits(p, {"withdraw"})
    /\ Fits(depot[x.me], k)
    /\ depot' = Put(depot, x.me, k, 1)
    /\ DeleteSale(x.id)
    /\ UNCHANGED <<purses, bag, box, listing, store, lottery>>

BuyItem(p) ==
    LET x == deal[p]  sold == sale[x.id] IN
    /\ Commits(p, {"purchase"})
    /\ gold' = Pay(x.me, sold.seller, Price)
    /\ Fits(depot[x.me], sold.item)
    /\ depot' = Put(depot, x.me, sold.item, 1)
    /\ DeleteSale(x.id)
    /\ UNCHANGED <<saved, bag, box, listing, store, lottery>>

\* The seller's depot takes the item wished for first, then the buyer's the one sold.
TradeItem(p) ==
    LET x == deal[p]
        sold == sale[x.id]
        paid == Drop(depot, x.me, x.item, 1)
    IN
    /\ Commits(p, {"trade"})
    /\ depot[x.me][x.item] > 0 /\ x.item = sold.wish
    /\ Fits(depot[sold.seller], x.item) /\ Fits(paid[x.me], sold.item)
    /\ depot' = Put(Put(paid, sold.seller, x.item, 1), x.me, sold.item, 1)
    /\ DeleteSale(x.id)
    /\ UNCHANGED <<purses, bag, box, listing, store, lottery>>

-----------------------------------------------------------------------------
(* The lottery.  One round is drawn; the next one is not modelled.         *)
PurchaseTakarakujiTicket(p) ==
    LET c == deal[p].me IN
    /\ Commits(p, {"ticket"})
    /\ gold[c] >= TicketPrice
    /\ gold' = [gold EXCEPT ![c] = @ - TicketPrice]
    /\ tickets' = tickets \cup {c}
    /\ UNCHANGED <<saved, items, offers, won>>

\* A full depot of one winner undoes the draw.
DrawTakarakuji(p) ==
    LET x == deal[p] IN
    /\ Commits(p, {"draw"})
    /\ \A c \in x.winners : Fits(depot[c], Prize)
    /\ depot' = [c \in Traders |->
           IF c \in x.winners THEN [depot[c] EXCEPT ![Prize] = @ + 1] ELSE depot[c]]
    /\ won' = x.winners
    /\ UNCHANGED <<purses, bag, box, offers, tickets>>

-----------------------------------------------------------------------------
MarketNext ==
    \E p \in Callers :
        \/ BeginDeal(p) \/ Execute(p) \/ Fail(p)
        \/ TransferGold(p) \/ CalculateDeposit(p) \/ CalculateWithdrawal(p)
        \/ FromInventory(p) \/ WithdrawItem(p) \/ SendAuctionItem(p) \/ SendGem(p)
        \/ CreateListing(p) \/ PurchaseListing(p) \/ CancelListing(p)
        \/ BuildStore(p) \/ ListSale(p) \/ WithdrawListing(p) \/ BuyItem(p) \/ TradeItem(p)
        \/ PurchaseTakarakujiTicket(p) \/ DrawTakarakuji(p)

MarketSpec == MarketInit /\ [][MarketNext]_marketVars

-----------------------------------------------------------------------------
(* Properties.                                                             *)

\* Purses, depots, offers and locks keep their types.  (The rows of the tables)
MarketTypeOK ==
    /\ gold \in [Traders -> 0..MaxWallet] /\ saved \in [Traders -> 0..MaxDeposit]
    /\ depot \in [Traders -> [Goods -> Nat]] /\ bag \in [Traders -> [Goods -> Nat]]
    /\ box \in [Traders -> Nat]
    /\ listing \in [Listings -> Listed] /\ sale \in [Sales -> Offered]
    /\ store \in [Traders -> {"none", "open"}]
    /\ tickets \subseteq Traders /\ won \subseteq tickets
    /\ held \in [Rows -> Callers \cup {Nobody}]
    /\ DOMAIN deal = Callers /\ deals \in 0..MaxDeals

Existing(k) ==
    Cardinality({l \in ActiveListings : listing[l].item = k})
        + Cardinality({s \in Sales : sale[s].state # "none" /\ sale[s].item = k})
        + SumFunction([c \in Traders |-> depot[c][k] + bag[c][k]])

Wealth == SumFunction([c \in Traders |-> gold[c] + saved[c]])

\* Whatever is given, listed, sold or cancelled at the same time, a unit of an
\* item is in one place, and one comes into the world only with a prize.  Gold
\* is paid by one and received by another; some is lost only to a full wallet,
\* a store or a ticket.  (The locks and writes of every transfer)
NothingIsMade ==
    [][/\ \A k \in Goods :
            Existing(k)' = Existing(k) + (IF k = Prize THEN Cardinality(won' \ won) ELSE 0)
       /\ SumFunction(box') = SumFunction(box)
       /\ Wealth' <= Wealth
       /\ Wealth' < Wealth =>
            \/ store' # store \/ tickets' # tickets
            \/ \E c \in Traders : gold'[c] = MaxWallet /\ \E d \in Traders : gold'[d] < gold[d]]_marketVars

\* No limit is exceeded by transactions that count at the same time: listings
\* of the server and of a seller, sales of a store, slots of a depot, gems of a
\* box, tickets of a round.  (LockListingCapacityForUpdate and the owner's row)
PlacesHold ==
    /\ WithinLimits(listing, sale, tickets)
    /\ \A c \in Traders : Slots(depot[c]) <= DepotCapacity /\ box[c] <= BoxCapacity

\* The transactions that hold the row that p's next statement locks.
Blockers(p) ==
    IF deal[p] # NoDeal /\ deal[p].at < Len(Plan(deal[p])) /\ NextStatement(p).row # NoRow
    THEN {held[NextStatement(p).row]} \ {Nobody, p}
    ELSE {}

LockCycleIn(P) == \E S \in SUBSET P : S # {} /\ \A p \in S : Blockers(p) \cap S # {}

\* No set of transfers waits for each other's rows: shared rows first, then
\* characters in ascending order, then what they own.  (The lock hierarchy)
NoLockCycle == ~LockCycleIn({p \in Callers : deal[p].op # "draw"})

\* Nor does the draw, which locks the winners' depots in ascending order
\* "to guarantee deterministic Rank 5 lock ordering and prevent deadlocks".
\* (deliverPrizeToDepot)
DrawNeverDeadlocks == ~LockCycleIn(Callers)
=============================================================================
