------------------------------- MODULE MCWork -------------------------------
(***************************************************************************)
(* A small instance for TLC of four components that share no state: the    *)
(* queue of scheduled work, the sleep of a character, the lobby of a party *)
(* and a dungeon expedition.  A behaviour is one of a single part, and the *)
(* fairness of a part is that of its steps.                                *)
(***************************************************************************)
EXTENDS MCScheduledWork, Sequences

CONSTANTS
    Requests,       \* of a player at home, in a lobby or in a dungeon
    SqlHooks, NoOne, Orphan, MaxSleepFaults, MaxStalls, MaxRescues,
    gil, hal, Parties, Nobody, NoParty, Elsewhere, Vacant, Left, MaxLeaseLapses, MaxMishaps,
    Kit, NoReference, MaxExpeditions, MaxEvents

VARIABLES
    part,
    pendingWake, tempJob, used, row, claim, sleep, asleep, pc, lost, seen,
    hook, owed, sleepFaults, stalls, rescues,
    lobby, belongs, ready, lease, runRow, heroRow, admission, engaged, born, request,
    leaseLapses, mishaps,
    buffer, spoils, memberOf, finished, pack, delverRow, delve, handed, moves, gone, delveFaults,
    delveCuts

MCTwoHooks == <<"fullness", "chapel">>

Home == INSTANCE HomeSleep

Lobby == INSTANCE PartyLobby WITH
    Callers <- Requests, Heroes <- {gil, hal}, MaxSeats <- 2,
    MemberOrder <- [h \in {gil, hal} |-> IF h = gil THEN 1 ELSE 2]

Dungeon == INSTANCE DungeonExpedition WITH Callers <- Requests, Delvers <- {gil, hal}

homeVars == <<pendingWake, tempJob, used, row, claim, sleep, asleep, pc, lost, seen, hook,
              owed, sleepFaults, stalls, rescues>>
lobbyVars == <<lobby, belongs, ready, lease, runRow, heroRow, admission, engaged, born, request,
               leaseLapses, mishaps>>
delveVars == <<buffer, spoils, memberOf, finished, pack, delverRow, delve, handed, moves, gone,
               delveFaults, delveCuts>>
allVars == <<part, vars, homeVars, lobbyVars, delveVars>>

InQueue == part = "queue" /\ UNCHANGED <<part, homeVars, lobbyVars, delveVars>>
AtHome == part = "home" /\ UNCHANGED <<part, vars, lobbyVars, delveVars>>
InLobby == part = "lobby" /\ UNCHANGED <<part, vars, homeVars, delveVars>>
InDungeon == part = "dungeon" /\ UNCHANGED <<part, vars, homeVars, lobbyVars>>

WorkInit ==
    /\ part \in {"queue", "home", "lobby", "dungeon"}
    /\ Init /\ Home!HomeInit /\ Lobby!LobbyInit /\ Dungeon!DelveInit

WorkNext ==
    \/ InQueue /\ Next
    \/ AtHome /\ Home!HomeNext
    \/ InLobby /\ Lobby!LobbyNext
    \/ InDungeon /\ Dungeon!DelveNext

WorkFairness ==
    /\ \A w \in Workers : WF_allVars(InQueue /\ WorkerStep(w))
    /\ \A a \in Actions : WF_allVars(InQueue /\ LockExpires(a))
    /\ \A c \in Requests :
         WF_allVars(AtHome /\ Home!CallStep(c)) /\ SF_allVars(AtHome /\ Home!BeginWake(c))
    /\ \A c \in Requests : WF_allVars(InLobby /\ Lobby!LobbyStep(c))
    /\ \A q \in Parties :
         /\ WF_allVars(InLobby /\ Lobby!LeaseExpires(q))
         /\ SF_allVars(InLobby /\ \E c \in Requests, h \in {gil, hal} : Lobby!EnterAgain(c, h, q))
    /\ \A c \in Requests : WF_allVars(InDungeon /\ Dungeon!DelveStep(c))
    /\ \A h \in {gil, hal} : SF_allVars(InDungeon /\ \E c \in Requests : Dungeon!AskAgain(c, h))
    /\ WF_allVars(AtHome /\ Home!ClaimLapses) /\ WF_allVars(AtHome /\ Home!SleepExpires)

WorkSpec == WorkInit /\ [][WorkNext]_allVars /\ WorkFairness

\* A player that keeps asking is woken up at last, recovered.  (Wake)
SleeperWakes == Home!SleeperWakes

\* The lobby of an admitted run is cleared, with the keys that name it.  (EnterParty)
HandoffCleared == Lobby!HandoffCleared

\* A frozen expedition is settled and cleaned up.  (resumeSettlement)
SettlementCompletes == Dungeon!SettlementCompletes
=============================================================================
