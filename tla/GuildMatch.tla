----------------------------- MODULE GuildMatch -----------------------------
(***************************************************************************)
(* Guild versus guild (internal/gvg).  A room with its members is one key  *)
(* of Valkey, the room a character is in another; both expire.  A round    *)
(* is committed in one SQL transaction with the guild points it earns and  *)
(* with the room that follows from it, which is then written to Valkey.    *)
(* Only the latest round is retained.  Calls work under a room lock of     *)
(* 10 s that nobody renews; CreateRoom takes none.  Each step below is one *)
(* command or one SQL transaction; reads that follow each other are one    *)
(* step, together with the lock that precedes them.                        *)
(***************************************************************************)
EXTENDS Actors, Functions

CONSTANTS
    Fighters,          \* characters in guilds that do battle
    Guilds, NoGuild,
    GuildOf,           \* the guild of each fighter
    GvRooms, NoGvRoom,
    InitialPrizeGP, JoinPrizeGP, RoundWinGP, MatchParticipantGP,
    MinFighters, MaxFighters, MaxGuildMembers, GvTargetWins, MaxGvRounds,
    MaxGvFaults,       \* bound on failed commands and process stops
    MaxGvLapses,       \* bound on locks that expire under a live call
    MaxGvExpiries      \* bound on rooms and mappings that expire

ASSUME GuildMatchAssumption ==
    /\ IsFiniteSet(Fighters) /\ Nobody \notin Fighters
    /\ IsFiniteSet(Guilds) /\ NoGuild \notin Guilds /\ GuildOf \in [Fighters -> Guilds]
    /\ IsFiniteSet(GvRooms) /\ NoGvRoom \notin GvRooms
    /\ InitialPrizeGP \in Nat /\ JoinPrizeGP \in 0..InitialPrizeGP
    /\ RoundWinGP \in Nat /\ MatchParticipantGP \in Nat
    /\ MinFighters \in Nat /\ MaxFighters \in Nat /\ MaxGuildMembers \in Nat
    /\ GvTargetWins \in Nat \ {0} /\ MaxGvRounds \in Nat \ {0}
    /\ MaxGvFaults \in Nat /\ MaxGvLapses \in Nat /\ MaxGvExpiries \in Nat

VARIABLES
    points,        \* guilds.points, gvg_standings.victory_points
    retained,      \* gvg_match_transitions
    gvRoom,        \* party2:gvg:room:<id>
    gvMapping,     \* party2:gvg:character:<id>
    gvLock,        \* party2:gvg:lock:room:<id>
    gvCall,        \* what each call is doing and remembers
    gvFaults, gvLapses, gvExpiries

gvSql == <<points, retained>>
gvCache == <<gvRoom, gvMapping>>
gvBounds == <<gvFaults, gvLapses, gvExpiries>>
gvVars == <<gvSql, gvCache, gvLock, gvCall, gvBounds>>

NoScore == [g \in Guilds |-> 0]

\* RoomDetail; "gone" stands for an absent key.
GvDetails ==
    [status : {"gone", "recruiting", "in_progress", "completed"},
     leader : Fighters \cup {Nobody}, members : SUBSET Fighters,
     pool : Nat, round : Nat, score : [Guilds -> Nat]]

NoRoomDetail ==
    [status |-> "gone", leader |-> Nobody, members |-> {}, pool |-> 0,
     round |-> 0, score |-> NoScore]

\* RoundTransition: the round it resolves, 0 for none, who won that round, and
\* the room that follows.
RoundTransitions == [round : Nat, winner : Guilds \cup {NoGuild}, detail : GvDetails]
NoRound == [round |-> 0, winner |-> NoGuild, detail |-> NoRoomDetail]

GvCalls ==
    [pc : {"idle", "commit", "save", "map", "unmap", "delete", "unlock"},
     op : {"create", "join", "leave", "start", "advance"},
     actor : Fighters \cup {Nobody}, at : GvRooms \cup {NoGvRoom},
     draft : RoundTransitions, gone : SUBSET Fighters]

NoGvCall == [pc |-> "idle", op |-> "create", actor |-> Nobody, at |-> NoGvRoom,
             draft |-> NoRound, gone |-> {}]

MatchInit ==
    /\ points = NoScore
    /\ retained = [r \in GvRooms |-> NoRound]
    /\ gvRoom = [r \in GvRooms |-> NoRoomDetail]
    /\ gvMapping = [c \in Fighters |-> NoGvRoom]
    /\ gvLock = [r \in GvRooms |-> Nobody]
    /\ gvCall = [p \in Callers |-> NoGvCall]
    /\ gvFaults = 0 /\ gvLapses = 0 /\ gvExpiries = 0

GvTurns(p, x) == gvCall' = [gvCall EXCEPT ![p] = x]
GvGoto(p, step) == GvTurns(p, [gvCall[p] EXCEPT !.pc = step])

\* WithRoomLock; a call that is refused under the lock changes nothing.
GvBegin(p, op, c, r) ==
    /\ gvCall[p].pc = "idle"
    /\ gvLock[r] = Nobody
    /\ gvLock' = [gvLock EXCEPT ![r] = p]
    /\ UNCHANGED <<gvSql, gvCache, gvBounds>>

GvDoing(op, c, r, step, d) ==
    [pc |-> step, op |-> op, actor |-> c, at |-> r,
     draft |-> [NoRound EXCEPT !.detail = d], gone |-> {}]

-----------------------------------------------------------------------------
(* The lobby                                                               *)

\* CreateRoom: the mapping is read, the ID is new, no lock is held.
CreateMatch(p, c, r) ==
    /\ gvCall[p].pc = "idle"
    /\ gvMapping[c] = NoGvRoom
    /\ gvRoom[r] = NoRoomDetail /\ retained[r] = NoRound
    /\ \A q \in Callers : gvCall[q].at # r
    /\ \A f \in Fighters : gvMapping[f] # r
    /\ GvTurns(p, GvDoing("create", c, r, "save",
          [NoRoomDetail EXCEPT !.status = "recruiting", !.leader = c, !.members = {c},
                               !.pool = InitialPrizeGP]))
    /\ UNCHANGED <<gvSql, gvCache, gvLock, gvBounds>>

JoinMatch(p, c, r) ==
    LET d == gvRoom[r] IN
    /\ GvBegin(p, "join", c, r)
    /\ gvMapping[c] = NoGvRoom
    /\ d.status = "recruiting"
    /\ c \notin d.members
    /\ Cardinality(d.members) < MaxFighters
    /\ Cardinality({m \in d.members : GuildOf[m] = GuildOf[c]}) < MaxGuildMembers
    /\ GvTurns(p, GvDoing("join", c, r, "save",
          [d EXCEPT !.members = @ \cup {c}, !.pool = @ + JoinPrizeGP]))

\* LeaveRoom: by the leader, or after the end, the room is given up.
LeaveMatch(p, c, r) ==
    LET d == gvRoom[r] IN
    /\ GvBegin(p, "leave", c, r)
    /\ c \in d.members
    /\ \/ /\ d.leader = c \/ d.status = "completed"
          /\ GvTurns(p, [GvDoing("leave", c, r, "unmap", NoRoomDetail) EXCEPT !.gone = d.members])
       \/ /\ d.leader # c /\ d.status = "recruiting"
          /\ GvTurns(p, [GvDoing("leave", c, r, "unmap",
                           [d EXCEPT !.members = @ \ {c},
                                     !.pool = IF @ > InitialPrizeGP THEN @ - JoinPrizeGP ELSE @])
                         EXCEPT !.gone = {c}])

StartGvMatch(p, c, r) ==
    LET d == gvRoom[r] IN
    /\ GvBegin(p, "start", c, r)
    /\ d.leader = c
    /\ d.status = "recruiting" /\ d.round = 0
    /\ Cardinality(d.members) >= MinFighters
    /\ Cardinality({GuildOf[m] : m \in d.members}) >= 2
    /\ GvTurns(p, GvDoing("start", c, r, "save", [d EXCEPT !.status = "in_progress", !.round = 1]))

-----------------------------------------------------------------------------
(* AdvanceRound                                                            *)
Completed(t) == t.detail.status = "completed"

\* (mutant) a room is behind only when its round is
BehindRound(d, t) == t.round > 0 /\ d.round < t.detail.round

\* The room in Valkey is behind the retained round.
Behind(d, t) ==
    t.round > 0 /\ (d.round < t.detail.round \/ (d.status = "in_progress" /\ Completed(t)))

\* The score counts the round; the match ends with enough wins or rounds.
Resolved(d, w) ==
    LET s == IF w = NoGuild THEN d.score ELSE [d.score EXCEPT ![w] = @ + 1]
        over == (w # NoGuild /\ s[w] >= GvTargetWins) \/ d.round >= MaxGvRounds IN
    [round |-> d.round, winner |-> w,
     detail |-> [d EXCEPT !.score = s, !.status = IF over THEN "completed" ELSE @,
                          !.round = IF over THEN @ ELSE @ + 1]]

\* (mutant) a round is answered from what is retained only while the room is behind
RecoverOrPlayRecoversFirst(p, c, r, k) ==
    LET d == gvRoom[r]
        t == retained[r] IN
    IF Behind(d, t)
    THEN GvTurns(p, GvDoing("advance", c, r, "save", t.detail))
    ELSE /\ d.status = "in_progress" /\ k = d.round
         /\ \E w \in {GuildOf[m] : m \in d.members} \cup {NoGuild} :
               GvTurns(p, [GvDoing("advance", c, r, "commit", NoRoomDetail)
                             EXCEPT !.draft = Resolved(d, w)])

\* What is retained is published again, and answers its own round; or the
\* round is fought, which one guild survives or none or both.
RecoverOrPlay(p, c, r, k) ==
    LET d == gvRoom[r]
        t == retained[r] IN
    IF Behind(d, t)
    THEN /\ k = t.round \/ (~Completed(t) /\ k = t.detail.round)
         /\ GvTurns(p, GvDoing("advance", c, r, "save", t.detail))
    ELSE /\ k > t.round
         /\ d.status = "in_progress" /\ k = d.round
         /\ \E w \in {GuildOf[m] : m \in d.members} \cup {NoGuild} :
               GvTurns(p, [GvDoing("advance", c, r, "commit", NoRoomDetail)
                             EXCEPT !.draft = Resolved(d, w)])

AdvanceMatch(p, c, r, k) ==
    /\ GvBegin(p, "advance", c, r)
    /\ gvRoom[r].leader = c
    /\ RecoverOrPlay(p, c, r, k)

-----------------------------------------------------------------------------
(* The SQL transaction of a round                                          *)
Champion(t) ==
    IF Completed(t) /\ t.winner # NoGuild /\ t.detail.score[t.winner] >= GvTargetWins
    THEN t.winner ELSE NoGuild

\* (mutant) the round that decides a match is paid as a won round too
GuildRewardGPTwice(t, g) ==
    (IF Champion(t) = NoGuild THEN 0
     ELSE MatchParticipantGP * Cardinality({c \in t.detail.members : GuildOf[c] = g})
          + IF g = Champion(t) THEN t.detail.pool ELSE 0)
    + IF g = t.winner THEN RoundWinGP ELSE 0

\* A decided match pays its participants and the pool in place of the round.
GuildRewardGP(t, g) ==
    IF Champion(t) # NoGuild
    THEN MatchParticipantGP * Cardinality({c \in t.detail.members : GuildOf[c] = g})
         + IF g = Champion(t) THEN t.detail.pool ELSE 0
    ELSE IF g = t.winner THEN RoundWinGP ELSE 0

\* (mutant) the rounds claimed before are not compared
UnclaimedAny(t, u) == ~Completed(t)

\* (mutant) a match that is over can be claimed with another round
UnclaimedRound(t, u) == t.round < u.round

Unclaimed(t, u) == t.round < u.round /\ ~Completed(t)

RoundEffect(p) ==
    LET x == gvCall[p] IN
    /\ Unclaimed(retained[x.at], x.draft)
    /\ retained' = [retained EXCEPT ![x.at] = x.draft]
    /\ points' = [g \in Guilds |-> points[g] + GuildRewardGP(x.draft, g)]
    /\ UNCHANGED <<gvCache, gvLock>>

\* CommitRoundTransition returns the transition that is retained now.
CommitRound(p) ==
    LET x == gvCall[p] IN
    /\ x.pc = "commit"
    /\ \/ RoundEffect(p)
       \/ ~Unclaimed(retained[x.at], x.draft) /\ UNCHANGED <<gvSql, gvCache, gvLock>>
    /\ GvTurns(p, [x EXCEPT !.pc = "save", !.draft = retained'[x.at]])
    /\ UNCHANGED gvBounds

-----------------------------------------------------------------------------
(* The commands of the calls                                               *)
SaveRoomEffect(p) ==
    /\ gvRoom' = [gvRoom EXCEPT ![gvCall[p].at] = gvCall[p].draft.detail]
    /\ UNCHANGED <<gvSql, gvMapping, gvLock>>

SaveRoom(p) ==
    /\ gvCall[p].pc = "save"
    /\ SaveRoomEffect(p)
    /\ GvGoto(p, IF gvCall[p].op \in {"create", "join"} THEN "map" ELSE "unlock")
    /\ UNCHANGED gvBounds

MapEffect(p) ==
    /\ gvMapping' = [gvMapping EXCEPT ![gvCall[p].actor] = gvCall[p].at]
    /\ UNCHANGED <<gvSql, gvRoom, gvLock>>

SetCharacterRoom(p) ==
    /\ gvCall[p].pc = "map"
    /\ MapEffect(p)
    /\ GvGoto(p, "unlock")
    /\ UNCHANGED gvBounds

GvUnmapEffect(p, c) ==
    /\ gvMapping' = [gvMapping EXCEPT ![c] = NoGvRoom]
    /\ UNCHANGED <<gvSql, gvRoom, gvLock>>

DeleteCharacterRoom(p, c) ==
    LET x == gvCall[p] IN
    /\ x.pc = "unmap" /\ c \in x.gone
    /\ GvUnmapEffect(p, c)
    /\ GvTurns(p, [x EXCEPT !.gone = @ \ {c},
          !.pc = IF x.gone # {c} THEN "unmap"
                 ELSE IF x.draft.detail = NoRoomDetail THEN "delete" ELSE "save"])
    /\ UNCHANGED gvBounds

DeleteEffect(p) ==
    /\ gvRoom' = [gvRoom EXCEPT ![gvCall[p].at] = NoRoomDetail]
    /\ UNCHANGED <<gvSql, gvMapping, gvLock>>

DeleteRoom(p) ==
    /\ gvCall[p].pc = "delete"
    /\ DeleteEffect(p)
    /\ GvGoto(p, "unlock")
    /\ UNCHANGED gvBounds

\* The release compares the token.
GvUnlocked(p) == [r \in GvRooms |-> IF gvLock[r] = p THEN Nobody ELSE gvLock[r]]

GvUnlock(p) ==
    /\ gvCall[p].pc = "unlock"
    /\ gvLock' = GvUnlocked(p)
    /\ GvTurns(p, NoGvCall)
    /\ UNCHANGED <<gvSql, gvCache, gvBounds>>

-----------------------------------------------------------------------------
(* Faults                                                                  *)

\* A command fails, or its answer is lost, after it was carried out or not;
\* CreateRoom deletes the room when its mapping fails.
GvStepFails(p) ==
    LET x == gvCall[p] IN
    /\ gvFaults < MaxGvFaults
    /\ x.pc \notin {"idle", "unlock"}
    /\ gvFaults' = gvFaults + 1
    /\ \/ UNCHANGED <<gvSql, gvCache, gvLock>>
       \/ x.pc = "commit" /\ RoundEffect(p)
       \/ x.pc = "save" /\ SaveRoomEffect(p)
       \/ x.pc = "map" /\ MapEffect(p)
       \/ x.pc = "unmap" /\ \E c \in x.gone : GvUnmapEffect(p, c)
       \/ x.pc = "delete" /\ DeleteEffect(p)
    /\ GvGoto(p, IF x.pc = "map" /\ x.op = "create" THEN "delete" ELSE "unlock")
    /\ UNCHANGED <<gvLapses, gvExpiries>>

\* The process stops; its lock is left to its expiry.
GvStops(p) ==
    /\ gvFaults < MaxGvFaults
    /\ gvCall[p].pc # "idle"
    /\ gvFaults' = gvFaults + 1
    /\ gvLock' = GvUnlocked(p)
    /\ GvTurns(p, NoGvCall)
    /\ UNCHANGED <<gvSql, gvCache, gvLapses, gvExpiries>>

GvLockLapses(p) ==
    /\ gvLapses < MaxGvLapses
    /\ \E r \in GvRooms : gvLock[r] = p
    /\ gvLapses' = gvLapses + 1
    /\ gvLock' = GvUnlocked(p)
    /\ UNCHANGED <<gvSql, gvCache, gvCall, gvFaults, gvExpiries>>

\* Half an hour after the last SaveRoom, or after SetCharacterRoom: a room is
\* written again by what goes on in it, a mapping is not.
GvRoomExpires(r) ==
    /\ gvExpiries < MaxGvExpiries
    /\ gvRoom[r] # NoRoomDetail
    /\ gvRoom' = [gvRoom EXCEPT ![r] = NoRoomDetail]
    /\ gvExpiries' = gvExpiries + 1
    /\ UNCHANGED <<gvSql, gvMapping, gvLock, gvCall, gvFaults, gvLapses>>

GvMappingExpires(c) ==
    /\ gvExpiries < MaxGvExpiries
    /\ gvMapping[c] # NoGvRoom
    /\ gvMapping' = [gvMapping EXCEPT ![c] = NoGvRoom]
    /\ gvExpiries' = gvExpiries + 1
    /\ UNCHANGED <<gvSql, gvRoom, gvLock, gvCall, gvFaults, gvLapses>>

-----------------------------------------------------------------------------
GvRequest(p) ==
    \E c \in Fighters, r \in GvRooms :
        \/ CreateMatch(p, c, r) \/ JoinMatch(p, c, r) \/ LeaveMatch(p, c, r)
        \/ StartGvMatch(p, c, r)
        \/ \E k \in 1..MaxGvRounds : AdvanceMatch(p, c, r, k)

GvStep(p) ==
    \/ CommitRound(p) \/ SaveRoom(p) \/ SetCharacterRoom(p) \/ DeleteRoom(p) \/ GvUnlock(p)
    \/ \E c \in Fighters : DeleteCharacterRoom(p, c)

GvFault ==
    \/ \E p \in Callers : GvStepFails(p) \/ GvStops(p) \/ GvLockLapses(p)
    \/ \E r \in GvRooms : GvRoomExpires(r)
    \/ \E c \in Fighters : GvMappingExpires(c)

MatchNext == (\E p \in Callers : GvRequest(p) \/ GvStep(p)) \/ GvFault

MatchSpec == MatchInit /\ [][MatchNext]_gvVars

\* The leader of a started match keeps asking for the round it is shown.
AsksForRound(r) ==
    /\ gvRoom[r].status = "in_progress"
    /\ \E p \in Callers : AdvanceMatch(p, gvRoom[r].leader, r, gvRoom[r].round)

MatchFairness ==
    /\ \A p \in Callers : WF_gvVars(GvStep(p))
    /\ \A r \in GvRooms : SF_gvVars(AsksForRound(r))

FairMatchSpec == MatchSpec /\ MatchFairness

-----------------------------------------------------------------------------
MatchTypeOK ==
    /\ points \in [Guilds -> Nat]
    /\ retained \in [GvRooms -> RoundTransitions]
    /\ gvRoom \in [GvRooms -> GvDetails]
    /\ gvMapping \in [Fighters -> GvRooms \cup {NoGvRoom}]
    /\ gvLock \in [GvRooms -> Callers \cup {Nobody}]
    /\ gvCall \in [Callers -> GvCalls]
    /\ gvFaults \in 0..MaxGvFaults /\ gvLapses \in 0..MaxGvLapses
    /\ gvExpiries \in 0..MaxGvExpiries

\* What a room has earned a guild: each round it won, or in place of the round
\* that decided the match, its participants and the pool.
EarnedIn(r, g) ==
    LET t == retained[r] IN
    RoundWinGP * t.detail.score[g]
    + (IF Champion(t) = NoGuild THEN 0
       ELSE MatchParticipantGP * Cardinality({c \in t.detail.members : GuildOf[c] = g})
            + IF g = Champion(t) THEN t.detail.pool - RoundWinGP ELSE 0)

\* Guild points are the rounds that were won and the matches that were decided,
\* each counted once, although a lock lapses under the call that fights the
\* round and older rooms are written over newer ones.
PointsMatchScores ==
    \A g \in Guilds : points[g] = SumFunction([r \in GvRooms |-> EarnedIn(r, g)])

\* Rounds follow each other, the score and the roster of the latest continue
\* those of the one before, and nothing follows the end of the match.
RoundsFollow ==
    [][\A r \in GvRooms :
          LET t == retained[r]
              u == retained'[r] IN
          t # u =>
              /\ ~Completed(t)
              /\ u.round = t.round + 1
              /\ \A g \in Guilds :
                    u.detail.score[g] = t.detail.score[g] + IF u.winner = g THEN 1 ELSE 0
              /\ t.round > 0 => /\ u.detail.members = t.detail.members
                                /\ u.detail.pool = t.detail.pool]_gvVars

\* A match that was started ends, although commands fail: the room that is
\* behind the retained round is brought up to it.
MatchEnds ==
    \A r \in GvRooms :
        gvRoom[r].status = "in_progress" ~> gvRoom[r].status \in {"completed", "gone"} \/ gvLapses > 0

\* Single active room: a character is in one room that is not over.
OneRoomEach ==
    \A c \in Fighters : Cardinality({r \in GvRooms :
        c \in gvRoom[r].members /\ gvRoom[r].status \in {"recruiting", "in_progress"}}) <= 1
=============================================================================
