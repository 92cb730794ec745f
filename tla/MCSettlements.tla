--------------------------- MODULE MCSettlements ---------------------------
(***************************************************************************)
(* A small instance for TLC of two components that share no state, both of *)
(* which settle in SQL what is played in Valkey: dungeon expeditions and   *)
(* the bets of the Colosseum.  A behaviour is one of either part.          *)
(***************************************************************************)
EXTENDS Colosseum, DungeonExpedition, TLC

CONSTANTS p1, p2, ann, bob, gil, hal, r1, red, blue

VARIABLE part

InDungeon == part = "dungeon" /\ UNCHANGED <<part, vars>>
AtBets == part = "bets" /\ UNCHANGED <<part, delveVars>>

SettlementsInit == part \in {"dungeon", "bets"} /\ DelveInit /\ Init

SettlementsNext == (InDungeon /\ DelveNext) \/ (AtBets /\ Next)

SettlementsSpec == SettlementsInit /\ [][SettlementsNext]_<<part, delveVars, vars>>

SettlementsSymmetry ==
    Permutations(Callers) \cup Permutations(Characters) \cup Permutations(Teams)

\* Every store and request keeps its type, and no wallet passes its limit.
\* (AddMoney)
SettlementsTypeOK == DelveTypeOK /\ TypeOK
=============================================================================
