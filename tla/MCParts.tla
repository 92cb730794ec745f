------------------------------ MODULE MCParts ------------------------------
(***************************************************************************)
(* Small instances for TLC of the components that share no state.  A       *)
(* behaviour is one of a single part; the variables of the other parts     *)
(* stay as they were initialised, so that the states of a run are the sum  *)
(* of those of its parts and not their product.                            *)
(***************************************************************************)
EXTENDS Colosseum, ChallengeRun, GuildMatch, FetchDueScan, Market, PartyLobby, TLC

CONSTANTS
    p1, p2, ann, bob, gil, hal, r1, r2, red, blue, sword, herb, l1, l2, s1, q1, q2,
    Parts       \* the parts that the run looks at

ASSUME PartsAssumption == Parts \subseteq {"bets", "challenge", "match", "scan", "market", "party"}

VARIABLE part

\* Of two traders only hal has an offer; a store that is not open has expired.
MCIdOrder == [c \in {gil, hal} |-> IF c = gil THEN 1 ELSE 2]
MCStartDepot ==
    [c \in {gil, hal} |-> [k \in {sword, herb} |-> IF k = herb THEN 2 ELSE IF c = gil THEN 1 ELSE 0]]
MCStartBag == [c \in {gil, hal} |-> [k \in {sword, herb} |-> IF c = gil THEN 1 ELSE 0]]
Listing(s) == [l \in {l1, l2} |->
    IF l = l2 THEN NoListing ELSE [state |-> s, seller |-> hal, item |-> sword]]
Sale(s) == [x \in {s1} |-> [state |-> s, seller |-> hal, item |-> sword, wish |-> herb]]
Stores(S) == [c \in {gil, hal} |-> IF c \in S THEN "open" ELSE "none"]
MCNoStart == [listing |-> [l \in {l1, l2} |-> NoListing], sale |-> [x \in {s1} |-> NoSale],
              store |-> Stores({}), tickets |-> {}]
MCStarts ==
    {[MCNoStart EXCEPT !.store = Stores({gil})],
     [listing |-> Listing("active"), sale |-> Sale("gold"), store |-> Stores({hal}),
      tickets |-> {gil, hal}],
     [listing |-> Listing("sold"), sale |-> Sale("barter"), store |-> Stores({}),
      tickets |-> {hal}]}

MCGuildOf == [c \in Fighters |-> IF c = gil THEN red ELSE blue]

PartsInit ==
    /\ part \in Parts
    /\ Init /\ RunInit /\ MatchInit /\ ScanInit /\ MarketInit /\ LobbyInit
    /\ part # "scan" => kind = <<>>
    /\ part # "market" => store = Stores({})

\* The variables of the other parts do not change.
Only(a) ==
    /\ part = a /\ UNCHANGED part
    /\ a # "bets" => UNCHANGED vars
    /\ a # "challenge" => UNCHANGED runVars
    /\ a # "match" => UNCHANGED gvVars
    /\ a # "scan" => UNCHANGED scanVars
    /\ a # "market" => UNCHANGED marketVars
    /\ a # "party" => UNCHANGED partyVars

PartsNext ==
    \/ Only("bets") /\ Next
    \/ Only("challenge") /\ RunNext
    \/ Only("match") /\ MatchNext
    \/ Only("scan") /\ ScanNext
    \/ Only("market") /\ MarketNext
    \/ Only("party") /\ LobbyNext

PartsSpec ==
    PartsInit /\ [][PartsNext]_<<part, vars, runVars, gvVars, scanVars, marketVars, partyVars>>

FairPartsSpec == PartsSpec /\ Fairness /\ RunFairness /\ MatchFairness

PartsSymmetry == Permutations(Callers) \cup Permutations(Challengers)

\* Every store, message and request keeps its type.  (Each part's)
PartsTypeOK ==
    TypeOK /\ RunTypeOK /\ MatchTypeOK /\ ScanTypeOK /\ MarketTypeOK /\ LobbyTypeOK
=============================================================================
