-------------------------- MODULE GuildMatchProofs --------------------------
(***************************************************************************)
(* Proofs about GuildMatch, for every number of calls, rooms, fighters and *)
(* guilds, whatever fails and whenever locks, rooms and mappings expire.   *)
(*                                                                         *)
(* The inductive invariant does not mention the locks.  Any room that can  *)
(* be played from, in Valkey or yet to be written there, is an earlier one *)
(* or the one that follows the retained round (Progress); so the round     *)
(* that is fought from it comes late and is refused, or is the next one    *)
(* and continues the score of the latest (Play).                           *)
(***************************************************************************)
EXTENDS GuildMatch, SumProofs, TLAPS

\* A room d, when t is the retained round.
Progress(d, t) ==
    /\ d.status = "recruiting" => d.round = 0 /\ d.score = NoScore
    /\ d.status = "in_progress" /\ ~Completed(t) =>
          /\ d.round >= 1
          /\ t.round = 0 => d.round = 1 /\ d.score = NoScore
          /\ t.round > 0 =>
                /\ d.round <= t.detail.round
                /\ d.round = t.detail.round =>
                      d.score = t.detail.score /\ d.members = t.detail.members /\ d.pool = t.detail.pool

\* A round with the room that follows it.
Round(y) ==
    /\ y.round >= 1 /\ y.detail.status \in {"in_progress", "completed"}
    /\ y.detail.round = IF Completed(y) THEN y.round ELSE y.round + 1
    /\ Champion(y) # NoGuild => Champion(y) = y.winner

\* A round y that continues t.
Continues(y, t) ==
    /\ \A g \in Guilds : y.detail.score[g] = t.detail.score[g] + IF y.winner = g THEN 1 ELSE 0
    /\ t.round > 0 => y.detail.members = t.detail.members /\ y.detail.pool = t.detail.pool

\* A round that is to be committed, when t is the retained one.
Play(y, t) ==
    /\ Round(y)
    /\ ~Completed(t) =>
          /\ y.round <= t.round + 1
          /\ y.round = t.round + 1 => Continues(y, t)

RetainedInv == \A r \in GvRooms : retained[r] = NoRound \/ Round(retained[r])

RoomsInv == \A r \in GvRooms : Progress(gvRoom[r], retained[r])

\* A call x, when R is what is retained.
CallOK(x, R) ==
    /\ x.pc # "idle" => x.at \in GvRooms /\ x.actor \in Fighters
    /\ x.pc = "commit" => Play(x.draft, R[x.at])
    /\ x.pc \in {"save", "unmap"} => Progress(x.draft.detail, R[x.at])

CallsInv == \A p \in Callers : CallOK(gvCall[p], retained)

MatchIInv == MatchTypeOK /\ RetainedInv /\ RoomsInv /\ CallsInv

-----------------------------------------------------------------------------
(* Rounds and rooms                                                        *)

LEMMA NoRoundTyped ==
    /\ NoScore \in [Guilds -> Nat] /\ NoRoomDetail \in GvDetails /\ NoRound \in RoundTransitions
    /\ NoGvCall \in GvCalls /\ ~Completed(NoRound) /\ NoRound.round = 0 /\ NoGvCall.pc = "idle"
    /\ NoRound.detail = NoRoomDetail /\ NoRoomDetail.status = "gone" /\ NoRoomDetail.round = 0
    /\ NoRound.detail.score = NoScore
<1>1. NoScore \in [Guilds -> Nat]
    BY DEF NoScore
<1>2. NoRoomDetail \in GvDetails /\ NoRoomDetail.status = "gone" /\ NoRoomDetail.round = 0
      /\ NoRoomDetail.score = NoScore
    BY <1>1 DEF NoRoomDetail, GvDetails
<1>3. NoRound \in RoundTransitions /\ NoRound.detail = NoRoomDetail /\ NoRound.round = 0
    BY <1>2 DEF NoRound, RoundTransitions
<1>4. NoGvCall \in GvCalls /\ NoGvCall.pc = "idle"
    BY <1>3 DEF NoGvCall, GvCalls
<1> QED
    BY <1>1, <1>2, <1>3, <1>4 DEF Completed

\* What fighting a round makes of the room.
LEMMA ResolvedRound ==
    ASSUME NEW d \in GvDetails, NEW w \in Guilds \cup {NoGuild}, d.status = "in_progress"
    PROVE  /\ Resolved(d, w) \in RoundTransitions
           /\ Resolved(d, w).round = d.round /\ Resolved(d, w).winner = w
           /\ Resolved(d, w).detail.members = d.members /\ Resolved(d, w).detail.pool = d.pool
           /\ \A g \in Guilds :
                 Resolved(d, w).detail.score[g] = d.score[g] + IF w = g THEN 1 ELSE 0
           /\ Resolved(d, w).detail.status \in {"in_progress", "completed"}
           /\ Resolved(d, w).detail.round =
                 IF Completed(Resolved(d, w)) THEN d.round ELSE d.round + 1
<1> DEFINE s == IF w = NoGuild THEN d.score ELSE [d.score EXCEPT ![w] = @ + 1]
           over == (w # NoGuild /\ s[w] >= GvTargetWins) \/ d.round >= MaxGvRounds
           e == [d EXCEPT !.score = s, !.status = IF over THEN "completed" ELSE @,
                          !.round = IF over THEN @ ELSE @ + 1]
<1>1. d.score \in [Guilds -> Nat] /\ d.round \in Nat
    BY DEF GvDetails
<1>2. s \in [Guilds -> Nat] /\ \A g \in Guilds : s[g] = d.score[g] + IF w = g THEN 1 ELSE 0
    BY <1>1, GuildMatchAssumption
<1>3. PICK o \in BOOLEAN : o = over
    OBVIOUS
<1>4. Resolved(d, w) = [round |-> d.round, winner |-> w, detail |-> e]
    BY DEF Resolved
<1> HIDE DEF s, over
<1>5. e \in GvDetails
    <2>1. PICK st : st = (IF over THEN "completed" ELSE d.status)
        OBVIOUS
    <2>2. PICK rd : rd = (IF over THEN d.round ELSE d.round + 1)
        OBVIOUS
    <2>3. st \in {"gone", "recruiting", "in_progress", "completed"} /\ rd \in Nat
        BY <1>1, <2>1, <2>2
    <2>4. [d EXCEPT !.score = s, !.status = st, !.round = rd] \in GvDetails
        BY <1>2, <2>3 DEF GvDetails
    <2>5. e = [d EXCEPT !.score = s, !.status = st, !.round = rd]
        BY <2>1, <2>2, Zenon
    <2> QED
        BY <2>4, <2>5
<1>6. e.score = s /\ e.members = d.members /\ e.pool = d.pool
    BY DEF GvDetails
<1>7. e.status = (IF over THEN "completed" ELSE "in_progress")
      /\ e.round = (IF over THEN d.round ELSE d.round + 1)
    BY <1>3 DEF GvDetails
<1> HIDE DEF e
<1>8. Resolved(d, w) \in RoundTransitions /\ Resolved(d, w).round = d.round
      /\ Resolved(d, w).winner = w /\ Resolved(d, w).detail = e
    BY <1>1, <1>4, <1>5 DEF RoundTransitions
<1>9. Completed(Resolved(d, w)) <=> over
    BY <1>3, <1>7, <1>8 DEF Completed
<1> QED
    BY <1>2, <1>3, <1>6, <1>7, <1>8, <1>9

\* What is retained may be published again.
LEMMA RetainedProgress ==
    ASSUME NEW t \in RoundTransitions, t = NoRound \/ Round(t)
    PROVE  Progress(t.detail, t)
<1>1. CASE t = NoRound
    BY <1>1, NoRoundTyped DEF Progress
<1>2. CASE Round(t)
    <2>1. t.round \in Nat /\ t.detail \in GvDetails /\ t.detail.round \in Nat
        BY DEF RoundTransitions, GvDetails
    <2>2. t.detail.status # "recruiting"
        BY <1>2 DEF Round
    <2>3. ~Completed(t) => t.detail.round = t.round + 1 /\ t.round >= 1
        BY <1>2 DEF Round
    <2> QED
        BY <2>1, <2>2, <2>3 DEF Progress
<1> QED
    BY <1>1, <1>2

\* The round that is fought in a room which is not behind comes next.
LEMMA FoughtRound ==
    ASSUME NEW d \in GvDetails, NEW t \in RoundTransitions, NEW w \in Guilds \cup {NoGuild},
           t = NoRound \/ Round(t), Progress(d, t), d.status = "in_progress", d.round > t.round
    PROVE  Play(Resolved(d, w), t)
<1>1. PICK y \in RoundTransitions : y = Resolved(d, w)
    BY ResolvedRound
<1>2. /\ y.round = d.round /\ y.winner = w
      /\ y.detail.members = d.members /\ y.detail.pool = d.pool
      /\ \A g \in Guilds : y.detail.score[g] = d.score[g] + IF w = g THEN 1 ELSE 0
      /\ y.detail.status \in {"in_progress", "completed"}
      /\ y.detail.round = IF Completed(y) THEN d.round ELSE d.round + 1
    BY <1>1, ResolvedRound
<1>3. d.round \in Nat /\ t.round \in Nat /\ t.detail.round \in Nat
    BY DEF GvDetails, RoundTransitions
<1>4. Round(y)
    BY <1>2, <1>3 DEF Round, Champion
<1>5. ASSUME ~Completed(t)
      PROVE  y.round <= t.round + 1 /\ (y.round = t.round + 1 => Continues(y, t))
    <2>1. CASE t = NoRound
        <3>1. t.round = 0 /\ t.detail.score = NoScore
            BY <2>1, NoRoundTyped
        <3>2. d.round = 1 /\ d.score = NoScore
            BY <1>5, <3>1 DEF Progress
        <3>3. \A g \in Guilds : y.detail.score[g] = t.detail.score[g] + IF y.winner = g THEN 1 ELSE 0
            BY <1>2, <3>1, <3>2
        <3> QED
            BY <1>2, <1>3, <3>1, <3>2, <3>3 DEF Continues
    <2>2. CASE Round(t)
        <3>1. t.round > 0 /\ t.detail.round = t.round + 1
            BY <1>3, <1>5, <2>2 DEF Round
        <3>2. d.round <= t.detail.round
              /\ (d.round = t.detail.round =>
                     d.score = t.detail.score /\ d.members = t.detail.members /\ d.pool = t.detail.pool)
            BY <1>5, <3>1 DEF Progress
        <3>3. ASSUME y.round = t.round + 1
              PROVE  Continues(y, t)
            <4>1. d.score = t.detail.score /\ d.members = t.detail.members /\ d.pool = t.detail.pool
                BY <1>2, <3>1, <3>2, <3>3
            <4> QED
                BY <1>2, <4>1 DEF Continues
        <3> QED
            BY <1>2, <1>3, <3>1, <3>2, <3>3
    <2> QED
        BY <2>1, <2>2
<1>6. Play(y, t)
    BY <1>4, <1>5 DEF Play
<1> QED
    BY <1>1, <1>6

\* A round u that is committed over t comes next, and no room or round is
\* further than it.
LEMMA CommittedRound ==
    ASSUME NEW t \in RoundTransitions, NEW u \in RoundTransitions,
           t = NoRound \/ Round(t), Play(u, t), Unclaimed(t, u)
    PROVE  /\ u.round = t.round + 1 /\ ~Completed(t) /\ Continues(u, t) /\ Round(u)
           /\ \A d \in GvDetails : Progress(d, t) => Progress(d, u)
           /\ \A y \in RoundTransitions : Play(y, t) => Play(y, u)
<1>1. t.round \in Nat /\ u.round \in Nat /\ t.detail.round \in Nat /\ u.detail.round \in Nat
    BY DEF RoundTransitions, GvDetails
<1>2. ~Completed(t) /\ t.round < u.round
    BY DEF Unclaimed
<1>3. u.round = t.round + 1 /\ Continues(u, t) /\ Round(u)
    BY <1>1, <1>2 DEF Play
<1>4. t.round > 0 => t.detail.round = t.round + 1
    BY <1>1, <1>2, NoRoundTyped DEF Round
<1>5. ~Completed(u) => u.detail.round = u.round + 1
    BY <1>3 DEF Round
<1>6. ASSUME NEW d \in GvDetails, Progress(d, t)
      PROVE  Progress(d, u)
    <2>1. d.round \in Nat
        BY DEF GvDetails
    <2>2. d.status = "in_progress" => d.round >= 1 /\ d.round <= t.round + 1
        BY <1>1, <1>2, <1>4, <1>6, <2>1 DEF Progress
    <2>3. d.status = "recruiting" => d.round = 0 /\ d.score = NoScore
        BY <1>6 DEF Progress
    <2>4. u.round > 0
        BY <1>1, <1>3
    <2>5. d.status = "in_progress" /\ ~Completed(u) => d.round < u.detail.round
        BY <1>1, <1>3, <1>5, <2>1, <2>2
    <2> QED
        BY <1>1, <2>1, <2>2, <2>3, <2>4, <2>5 DEF Progress
<1>7. ASSUME NEW y \in RoundTransitions, Play(y, t)
      PROVE  Play(y, u)
    <2>1. y.round \in Nat
        BY DEF RoundTransitions
    <2>2. Round(y) /\ y.round <= t.round + 1
        BY <1>2, <1>7 DEF Play
    <2> QED
        BY <1>1, <1>3, <2>1, <2>2 DEF Play
<1> QED
    BY <1>2, <1>3, <1>6, <1>7

-----------------------------------------------------------------------------
(* The invariant holds initially                                           *)

LEMMA MatchInitially == MatchInit => MatchIInv
<1> SUFFICES ASSUME MatchInit PROVE MatchIInv
    OBVIOUS
<1> USE DEF MatchInit
<1>1. MatchTypeOK
    BY NoRoundTyped, GuildMatchAssumption DEF MatchTypeOK
<1>2. RetainedInv
    BY DEF RetainedInv
<1>3. RoomsInv
    BY NoRoundTyped DEF RoomsInv, Progress
<1>4. CallsInv
    BY NoRoundTyped DEF CallsInv, CallOK
<1> QED
    BY <1>1, <1>2, <1>3, <1>4 DEF MatchIInv

-----------------------------------------------------------------------------
(* What a step has to show                                                 *)

\* A call takes another turn, and no round is committed.
LEMMA TurnKeepsCalls ==
    ASSUME MatchIInv, retained' = retained, NEW p \in Callers, NEW y \in GvCalls,
           CallOK(y, retained), GvTurns(p, y)
    PROVE  gvCall' \in [Callers -> GvCalls] /\ CallsInv'
<1>1. gvCall \in [Callers -> GvCalls] /\ CallsInv
    BY DEF MatchIInv, MatchTypeOK
<1>2. gvCall' = [gvCall EXCEPT ![p] = y]
    BY DEF GvTurns
<1>3. \A q \in Callers : CallOK(gvCall'[q], retained)
    BY <1>1, <1>2 DEF CallsInv
<1> QED
    BY <1>1, <1>2, <1>3 DEF CallsInv

\* A call that goes on without a draft of its own.
LEMMA GotoKeepsCalls ==
    ASSUME MatchIInv, retained' = retained, NEW p \in Callers, NEW step \in {"idle", "delete", "unlock"},
           gvCall[p].pc # "idle", GvGoto(p, step)
    PROVE  gvCall' \in [Callers -> GvCalls] /\ CallsInv'
<1>1. PICK x \in GvCalls : x = gvCall[p]
    BY DEF MatchIInv, MatchTypeOK
<1>2. x.at \in GvRooms /\ x.actor \in Fighters
    BY <1>1 DEF MatchIInv, CallsInv, CallOK
<1>3. PICK y : y = [x EXCEPT !.pc = step]
    OBVIOUS
<1>4. y \in GvCalls /\ y.pc = step /\ y.at = x.at /\ y.actor = x.actor
    BY <1>3 DEF GvCalls
<1>5. GvTurns(p, y)
    BY <1>1, <1>3 DEF GvGoto
<1>6. CallOK(y, retained)
    BY <1>2, <1>4 DEF CallOK
<1> QED
    BY <1>4, <1>5, <1>6, TurnKeepsCalls

\* A call ends.
LEMMA IdleKeepsCalls ==
    ASSUME MatchIInv, retained' = retained, NEW p \in Callers, GvTurns(p, NoGvCall)
    PROVE  gvCall' \in [Callers -> GvCalls] /\ CallsInv'
<1>1. CallOK(NoGvCall, retained)
    BY NoRoundTyped DEF CallOK
<1> QED
    BY <1>1, NoRoundTyped, TurnKeepsCalls

LEMMA DoingTyped ==
    ASSUME NEW op \in {"create", "join", "leave", "start", "advance"}, NEW c \in Fighters,
           NEW r \in GvRooms, NEW step \in {"commit", "save", "map", "unmap", "delete", "unlock"},
           NEW d \in GvDetails
    PROVE  /\ GvDoing(op, c, r, step, d) \in GvCalls
           /\ GvDoing(op, c, r, step, d).pc = step /\ GvDoing(op, c, r, step, d).at = r
           /\ GvDoing(op, c, r, step, d).op = op
           /\ GvDoing(op, c, r, step, d).actor = c /\ GvDoing(op, c, r, step, d).draft.detail = d
<1>1. PICK e : e = [NoRound EXCEPT !.detail = d]
    OBVIOUS
<1>2. e \in RoundTransitions /\ e.detail = d
    BY <1>1, NoRoundTyped DEF RoundTransitions
<1>3. GvDoing(op, c, r, step, d) =
         [pc |-> step, op |-> op, actor |-> c, at |-> r, draft |-> e, gone |-> {}]
    BY <1>1 DEF GvDoing
<1> QED
    BY <1>2, <1>3 DEF GvCalls

\* A room is written, and no round is committed.
LEMMA RoomWritten ==
    ASSUME MatchIInv, retained' = retained, NEW r \in GvRooms, NEW d \in GvDetails,
           Progress(d, retained[r]), gvRoom' = [gvRoom EXCEPT ![r] = d]
    PROVE  gvRoom' \in [GvRooms -> GvDetails] /\ RoomsInv'
<1>1. gvRoom \in [GvRooms -> GvDetails] /\ RoomsInv
    BY DEF MatchIInv, MatchTypeOK
<1>2. \A s \in GvRooms : Progress(gvRoom'[s], retained[s])
    BY <1>1 DEF RoomsInv
<1> QED
    BY <1>1, <1>2 DEF RoomsInv

LEMMA RoomsKept ==
    ASSUME MatchIInv, retained' = retained, gvRoom' = gvRoom
    PROVE  gvRoom' \in [GvRooms -> GvDetails] /\ RoomsInv'
BY DEF MatchIInv, MatchTypeOK, RoomsInv

LEMMA CallsKept ==
    ASSUME MatchIInv, retained' = retained, gvCall' = gvCall
    PROVE  gvCall' \in [Callers -> GvCalls] /\ CallsInv'
BY DEF MatchIInv, MatchTypeOK, CallsInv

\* The room is absent.
LEMMA AbsentProgress == ASSUME NEW t PROVE Progress(NoRoomDetail, t)
BY NoRoundTyped DEF Progress

LEMMA LocksTyped ==
    ASSUME MatchIInv, NEW p \in Callers, gvLock' = GvUnlocked(p)
    PROVE  gvLock' \in [GvRooms -> Callers \cup {Nobody}]
BY DEF MatchIInv, MatchTypeOK, GvUnlocked

\* A step that commits no round: its calls and rooms are shown above.
LEMMA QuietStep ==
    ASSUME MatchIInv, gvSql' = gvSql,
           gvCall' \in [Callers -> GvCalls], CallsInv', gvRoom' \in [GvRooms -> GvDetails], RoomsInv',
           gvMapping' \in [Fighters -> GvRooms \cup {NoGvRoom}],
           gvLock' \in [GvRooms -> Callers \cup {Nobody}],
           gvFaults' \in 0..MaxGvFaults, gvLapses' \in 0..MaxGvLapses, gvExpiries' \in 0..MaxGvExpiries
    PROVE  MatchIInv'
<1>1. points' \in [Guilds -> Nat] /\ retained' \in [GvRooms -> RoundTransitions] /\ RetainedInv'
    BY DEF gvSql, MatchIInv, MatchTypeOK, RetainedInv
<1> QED
    BY <1>1 DEF MatchIInv, MatchTypeOK

\* The tables and the cache stay, the lock is free or taken by the call.
LEMMA LobbyStep ==
    ASSUME MatchIInv, NEW p \in Callers, NEW y \in GvCalls, CallOK(y, retained), GvTurns(p, y),
           UNCHANGED <<gvSql, gvCache, gvBounds>>, gvLock' \in [GvRooms -> Callers \cup {Nobody}]
    PROVE  MatchIInv'
<1>1. retained' = retained /\ gvRoom' = gvRoom /\ gvMapping' = gvMapping
      /\ gvFaults' = gvFaults /\ gvLapses' = gvLapses /\ gvExpiries' = gvExpiries
    BY DEF gvSql, gvCache, gvBounds
<1>2. gvCall' \in [Callers -> GvCalls] /\ CallsInv'
    BY <1>1, TurnKeepsCalls
<1>3. gvRoom' \in [GvRooms -> GvDetails] /\ RoomsInv'
    BY <1>1, RoomsKept
<1> QED
    BY <1>1, <1>2, <1>3, QuietStep DEF MatchIInv, MatchTypeOK

LEMMA BegunLock ==
    ASSUME MatchIInv, NEW p \in Callers, NEW op, NEW c, NEW r \in GvRooms, GvBegin(p, op, c, r)
    PROVE  UNCHANGED <<gvSql, gvCache, gvBounds>> /\ gvLock' \in [GvRooms -> Callers \cup {Nobody}]
BY DEF MatchIInv, MatchTypeOK, GvBegin

-----------------------------------------------------------------------------
(* The lobby                                                               *)

LEMMA CreateMatchStep ==
    ASSUME MatchIInv, NEW p \in Callers, NEW c \in Fighters, NEW r \in GvRooms, CreateMatch(p, c, r)
    PROVE  MatchIInv'
<1>1. PICK d : d = [NoRoomDetail EXCEPT !.status = "recruiting", !.leader = c, !.members = {c},
                                        !.pool = InitialPrizeGP]
    OBVIOUS
<1>2. d \in GvDetails /\ d.status = "recruiting" /\ d.round = 0 /\ d.score = NoScore
    BY <1>1, NoRoundTyped, GuildMatchAssumption DEF GvDetails, NoRoomDetail
<1>3. PICK y \in GvCalls : y = GvDoing("create", c, r, "save", d) /\ y.pc = "save" /\ y.at = r /\ y.actor = c
                           /\ y.draft.detail = d
    BY <1>2, DoingTyped
<1>4. CallOK(y, retained)
    BY <1>2, <1>3 DEF CallOK, Progress
<1>5. GvTurns(p, y) /\ UNCHANGED <<gvSql, gvCache, gvLock, gvBounds>>
    BY <1>1, <1>3 DEF CreateMatch
<1> QED
    BY <1>4, <1>5, LobbyStep DEF MatchIInv, MatchTypeOK

LEMMA JoinMatchStep ==
    ASSUME MatchIInv, NEW p \in Callers, NEW c \in Fighters, NEW r \in GvRooms, JoinMatch(p, c, r)
    PROVE  MatchIInv'
<1>1. PICK d \in GvDetails : d = gvRoom[r] /\ Progress(d, retained[r])
    BY DEF MatchIInv, MatchTypeOK, RoomsInv
<1>2. PICK e : e = [d EXCEPT !.members = @ \cup {c}, !.pool = @ + JoinPrizeGP]
    OBVIOUS
<1>3. d.members \cup {c} \in SUBSET Fighters /\ d.pool + JoinPrizeGP \in Nat
    BY GuildMatchAssumption DEF GvDetails
<1>4. e \in GvDetails /\ e.status = d.status /\ e.round = d.round /\ e.score = d.score
    BY <1>2, <1>3 DEF GvDetails
<1>5. PICK y \in GvCalls : y = GvDoing("join", c, r, "save", e) /\ y.pc = "save" /\ y.at = r /\ y.actor = c
                           /\ y.draft.detail = e
    BY <1>4, DoingTyped
<1>6. GvBegin(p, "join", c, r) /\ d.status = "recruiting" /\ GvTurns(p, y)
    BY <1>1, <1>2, <1>5 DEF JoinMatch
<1>7. CallOK(y, retained)
    BY <1>1, <1>4, <1>5, <1>6 DEF CallOK, Progress
<1> QED
    BY <1>6, <1>7, BegunLock, LobbyStep

LEMMA LeaveMatchStep ==
    ASSUME MatchIInv, NEW p \in Callers, NEW c \in Fighters, NEW r \in GvRooms, LeaveMatch(p, c, r)
    PROVE  MatchIInv'
<1>1. PICK d \in GvDetails : d = gvRoom[r] /\ Progress(d, retained[r])
    BY DEF MatchIInv, MatchTypeOK, RoomsInv
<1>2. GvBegin(p, "leave", c, r)
    BY DEF LeaveMatch
<1>3. d.members \in SUBSET Fighters /\ d.pool \in Nat
    BY DEF GvDetails
<1>4. CASE GvTurns(p, [GvDoing("leave", c, r, "unmap", NoRoomDetail) EXCEPT !.gone = d.members])
    <2>1. PICK x \in GvCalls : x = GvDoing("leave", c, r, "unmap", NoRoomDetail) /\ x.pc = "unmap"
                               /\ x.at = r /\ x.actor = c /\ x.draft.detail = NoRoomDetail
        BY DoingTyped, NoRoundTyped
    <2>2. PICK y : y = [x EXCEPT !.gone = d.members]
        OBVIOUS
    <2>3. y \in GvCalls /\ y.pc = "unmap" /\ y.at = r /\ y.actor = c /\ y.draft = x.draft
        BY <1>3, <2>1, <2>2 DEF GvCalls
    <2>4. GvTurns(p, y)
        BY <1>4, <2>1, <2>2
    <2>5. CallOK(y, retained)
        BY <2>1, <2>3, AbsentProgress DEF CallOK
    <2> QED
        BY <1>2, <2>3, <2>4, <2>5, BegunLock, LobbyStep
<1>5. CASE /\ d.leader # c /\ d.status = "recruiting"
           /\ GvTurns(p, [GvDoing("leave", c, r, "unmap",
                           [d EXCEPT !.members = @ \ {c},
                                     !.pool = IF @ > InitialPrizeGP THEN @ - JoinPrizeGP ELSE @])
                         EXCEPT !.gone = {c}])
    <2>1. PICK e : e = [d EXCEPT !.members = @ \ {c},
                                 !.pool = IF @ > InitialPrizeGP THEN @ - JoinPrizeGP ELSE @]
        OBVIOUS
    <2>2. d.members \ {c} \in SUBSET Fighters
          /\ (IF d.pool > InitialPrizeGP THEN d.pool - JoinPrizeGP ELSE d.pool) \in Nat
        BY <1>3, GuildMatchAssumption
    <2>3. e \in GvDetails /\ e.status = d.status /\ e.round = d.round /\ e.score = d.score
        BY <2>1, <2>2 DEF GvDetails
    <2>4. PICK x \in GvCalls : x = GvDoing("leave", c, r, "unmap", e) /\ x.pc = "unmap"
                               /\ x.at = r /\ x.actor = c /\ x.draft.detail = e
        BY <2>3, DoingTyped
    <2>5. PICK y : y = [x EXCEPT !.gone = {c}]
        OBVIOUS
    <2>6. y \in GvCalls /\ y.pc = "unmap" /\ y.at = r /\ y.actor = c /\ y.draft = x.draft
        BY <1>3, <2>4, <2>5 DEF GvCalls
    <2>7. GvTurns(p, y)
        BY <1>5, <2>1, <2>4, <2>5
    <2>8. CallOK(y, retained)
        BY <1>1, <1>5, <2>3, <2>4, <2>6 DEF CallOK, Progress
    <2> QED
        BY <1>2, <2>6, <2>7, <2>8, BegunLock, LobbyStep
<1> QED
    BY <1>1, <1>4, <1>5 DEF LeaveMatch

LEMMA StartGvMatchStep ==
    ASSUME MatchIInv, NEW p \in Callers, NEW c \in Fighters, NEW r \in GvRooms, StartGvMatch(p, c, r)
    PROVE  MatchIInv'
<1>1. PICK d \in GvDetails : d = gvRoom[r] /\ Progress(d, retained[r])
    BY DEF MatchIInv, MatchTypeOK, RoomsInv
<1>2. PICK t \in RoundTransitions : t = retained[r] /\ (t = NoRound \/ Round(t))
    BY DEF MatchIInv, MatchTypeOK, RetainedInv
<1>3. PICK e : e = [d EXCEPT !.status = "in_progress", !.round = 1]
    OBVIOUS
<1>4. e \in GvDetails /\ e.status = "in_progress" /\ e.round = 1 /\ e.score = d.score
    BY <1>3 DEF GvDetails
<1>5. PICK y \in GvCalls : y = GvDoing("start", c, r, "save", e) /\ y.pc = "save" /\ y.at = r /\ y.actor = c
                           /\ y.draft.detail = e
    BY <1>4, DoingTyped
<1>6. GvBegin(p, "start", c, r) /\ d.status = "recruiting" /\ GvTurns(p, y)
    BY <1>1, <1>3, <1>5 DEF StartGvMatch
<1>7. e.score = NoScore
    BY <1>1, <1>4, <1>6 DEF Progress
<1>8. t.round > 0 /\ ~Completed(t) => t.detail.round = t.round + 1
    BY <1>2, NoRoundTyped DEF Round
<1>9. t.round \in Nat
    BY DEF RoundTransitions
<1>10. Progress(e, t)
    BY <1>4, <1>7, <1>8, <1>9 DEF Progress
<1>11. CallOK(y, retained)
    BY <1>2, <1>5, <1>10 DEF CallOK
<1> QED
    BY <1>6, <1>11, BegunLock, LobbyStep

-----------------------------------------------------------------------------
(* AdvanceRound                                                            *)

LEMMA AdvanceMatchStep ==
    ASSUME MatchIInv, NEW p \in Callers, NEW c \in Fighters, NEW r \in GvRooms, NEW k \in Nat,
           AdvanceMatch(p, c, r, k)
    PROVE  MatchIInv'
<1>1. PICK d \in GvDetails : d = gvRoom[r] /\ Progress(d, retained[r])
    BY DEF MatchIInv, MatchTypeOK, RoomsInv
<1>2. PICK t \in RoundTransitions : t = retained[r] /\ (t = NoRound \/ Round(t))
    BY DEF MatchIInv, MatchTypeOK, RetainedInv
<1>3. GvBegin(p, "advance", c, r) /\ RecoverOrPlay(p, c, r, k)
    BY DEF AdvanceMatch
<1>4. CASE Behind(d, t)
    <2>1. t.detail \in GvDetails
        BY DEF RoundTransitions
    <2>2. PICK y \in GvCalls : y = GvDoing("advance", c, r, "save", t.detail) /\ y.pc = "save"
                               /\ y.at = r /\ y.actor = c /\ y.draft.detail = t.detail
        BY <2>1, DoingTyped
    <2>3. GvTurns(p, y)
        BY <1>1, <1>2, <1>3, <1>4, <2>2 DEF RecoverOrPlay
    <2>4. CallOK(y, retained)
        BY <1>2, <2>2, RetainedProgress DEF CallOK
    <2> QED
        BY <1>3, <2>3, <2>4, BegunLock, LobbyStep
<1>5. CASE ~Behind(d, t)
    <2>1. /\ k > t.round /\ d.status = "in_progress" /\ k = d.round
          /\ \E w \in {GuildOf[m] : m \in d.members} \cup {NoGuild} :
               GvTurns(p, [GvDoing("advance", c, r, "commit", NoRoomDetail)
                             EXCEPT !.draft = Resolved(d, w)])
        BY <1>1, <1>2, <1>3, <1>5 DEF RecoverOrPlay
    <2>2. \A m \in d.members : GuildOf[m] \in Guilds
        BY GuildMatchAssumption DEF GvDetails
    <2>3. PICK w \in Guilds \cup {NoGuild} :
               GvTurns(p, [GvDoing("advance", c, r, "commit", NoRoomDetail)
                             EXCEPT !.draft = Resolved(d, w)])
        BY <2>1, <2>2
    <2>4. PICK z \in RoundTransitions : z = Resolved(d, w)
        BY <2>1, ResolvedRound
    <2>5. Play(z, t)
        BY <1>1, <1>2, <2>1, <2>4, FoughtRound
    <2>6. PICK x \in GvCalls : x = GvDoing("advance", c, r, "commit", NoRoomDetail)
                               /\ x.pc = "commit" /\ x.at = r /\ x.actor = c
        BY DoingTyped, NoRoundTyped
    <2>7. PICK y : y = [x EXCEPT !.draft = z]
        OBVIOUS
    <2>8. y \in GvCalls /\ y.pc = "commit" /\ y.at = r /\ y.actor = c /\ y.draft = z
        BY <2>6, <2>7 DEF GvCalls
    <2>9. GvTurns(p, y)
        BY <2>3, <2>4, <2>6, <2>7
    <2>10. CallOK(y, retained)
        BY <1>2, <2>5, <2>8 DEF CallOK
    <2> QED
        BY <1>3, <2>8, <2>9, <2>10, BegunLock, LobbyStep
<1> QED
    BY <1>4, <1>5

-----------------------------------------------------------------------------
(* The transaction of a round                                              *)

LEMMA RewardTyped ==
    ASSUME NEW u \in RoundTransitions, NEW g \in Guilds
    PROVE  GuildRewardGP(u, g) \in Nat
<1>1. u.detail.members \subseteq Fighters /\ u.detail.pool \in Nat
    BY DEF RoundTransitions, GvDetails
<1>2. PICK n \in Nat : n = Cardinality({c \in u.detail.members : GuildOf[c] = g})
    <2>1. IsFiniteSet({c \in u.detail.members : GuildOf[c] = g})
        BY <1>1, GuildMatchAssumption, FS_Subset
    <2> QED
        BY <2>1, FS_CardinalityType
<1>3. PICK m \in Nat : m = MatchParticipantGP * n
    BY GuildMatchAssumption
<1> QED
    BY <1>1, <1>2, <1>3, GuildMatchAssumption DEF GuildRewardGP

\* A round is committed and its call takes another turn.
LEMMA CommitKeepsAll ==
    ASSUME MatchIInv, NEW p \in Callers, gvCall[p].pc = "commit", RoundEffect(p),
           NEW y \in GvCalls, CallOK(y, retained'), GvTurns(p, y),
           gvFaults' \in 0..MaxGvFaults, gvLapses' \in 0..MaxGvLapses, gvExpiries' \in 0..MaxGvExpiries
    PROVE  MatchIInv'
<1>1. PICK x \in GvCalls : x = gvCall[p]
    BY DEF MatchIInv, MatchTypeOK
<1>2. x.pc = "commit" /\ x.at \in GvRooms /\ x.actor \in Fighters /\ Play(x.draft, retained[x.at])
    BY <1>1 DEF MatchIInv, CallsInv, CallOK
<1>3. PICK r \in GvRooms : r = x.at
    BY <1>2
<1>4. PICK u \in RoundTransitions : u = x.draft
    BY DEF GvCalls
<1>5. PICK t \in RoundTransitions : t = retained[r] /\ (t = NoRound \/ Round(t))
    BY DEF MatchIInv, MatchTypeOK, RetainedInv
<1>6. Unclaimed(t, u) /\ retained' = [retained EXCEPT ![r] = u]
      /\ points' = [g \in Guilds |-> points[g] + GuildRewardGP(u, g)] /\ UNCHANGED <<gvCache, gvLock>>
    BY <1>1, <1>3, <1>4, <1>5 DEF RoundEffect
<1>7. Play(u, t)
    BY <1>2, <1>3, <1>4, <1>5
<1>8. /\ Round(u)
      /\ \A d \in GvDetails : Progress(d, t) => Progress(d, u)
      /\ \A z \in RoundTransitions : Play(z, t) => Play(z, u)
    BY <1>5, <1>6, <1>7, CommittedRound
<1>9. retained \in [GvRooms -> RoundTransitions] /\ gvRoom \in [GvRooms -> GvDetails]
      /\ gvCall \in [Callers -> GvCalls] /\ points \in [Guilds -> Nat]
    BY DEF MatchIInv, MatchTypeOK
<1>10. /\ retained' \in [GvRooms -> RoundTransitions] /\ retained'[r] = u
       /\ \A s \in GvRooms \ {r} : retained'[s] = retained[s]
    BY <1>6, <1>9
<1>11. RetainedInv'
    BY <1>8, <1>10 DEF MatchIInv, RetainedInv
<1>12. points' \in [Guilds -> Nat]
    BY <1>6, <1>9, RewardTyped
<1>13. gvRoom' = gvRoom /\ gvMapping' = gvMapping /\ gvLock' = gvLock
    BY <1>6 DEF gvCache
<1>14. RoomsInv'
    <2>1. \A s \in GvRooms : Progress(gvRoom[s], retained'[s])
        BY <1>5, <1>8, <1>9, <1>10 DEF MatchIInv, RoomsInv
    <2> QED
        BY <1>13, <2>1 DEF RoomsInv
<1>15. gvCall' = [gvCall EXCEPT ![p] = y]
    BY DEF GvTurns
<1>16. ASSUME NEW q \in Callers \ {p}
       PROVE  CallOK(gvCall[q], retained')
    <2>1. PICK z \in GvCalls : z = gvCall[q] /\ CallOK(z, retained)
        BY <1>9 DEF MatchIInv, CallsInv
    <2>2. z.draft \in RoundTransitions /\ z.draft.detail \in GvDetails
        BY DEF GvCalls, RoundTransitions
    <2>3. z.pc # "idle" => z.at \in GvRooms
        BY <2>1 DEF CallOK
    <2>4. z.pc = "commit" => Play(z.draft, retained'[z.at])
        BY <1>5, <1>8, <1>10, <2>1, <2>2, <2>3 DEF CallOK
    <2>5. z.pc \in {"save", "unmap"} => Progress(z.draft.detail, retained'[z.at])
        BY <1>5, <1>8, <1>10, <2>1, <2>2, <2>3 DEF CallOK
    <2> QED
        BY <2>1, <2>4, <2>5 DEF CallOK
<1>17. \A q \in Callers : CallOK(gvCall'[q], retained')
    BY <1>9, <1>15, <1>16
<1>18. CallsInv'
    BY <1>17 DEF CallsInv
<1>19. MatchTypeOK'
    BY <1>9, <1>10, <1>12, <1>13, <1>15 DEF MatchIInv, MatchTypeOK
<1> QED
    BY <1>11, <1>14, <1>18, <1>19 DEF MatchIInv

LEMMA CommitRoundStep ==
    ASSUME MatchIInv, NEW p \in Callers, CommitRound(p)
    PROVE  MatchIInv'
<1>1. PICK x \in GvCalls : x = gvCall[p]
    BY DEF MatchIInv, MatchTypeOK
<1>2. x.pc = "commit" /\ x.at \in GvRooms /\ x.actor \in Fighters /\ Play(x.draft, retained[x.at])
    BY <1>1 DEF MatchIInv, CallsInv, CallOK, CommitRound
<1>3. PICK r \in GvRooms : r = x.at
    BY <1>2
<1>4. PICK u \in RoundTransitions : u = x.draft
    BY DEF GvCalls
<1>5. PICK t \in RoundTransitions : t = retained[r] /\ (t = NoRound \/ Round(t))
    BY DEF MatchIInv, MatchTypeOK, RetainedInv
<1>6. retained \in [GvRooms -> RoundTransitions]
    BY DEF MatchIInv, MatchTypeOK
<1>7. UNCHANGED gvBounds /\ GvTurns(p, [x EXCEPT !.pc = "save", !.draft = retained'[r]])
    BY <1>1, <1>3 DEF CommitRound
<1>8. gvFaults' \in 0..MaxGvFaults /\ gvLapses' \in 0..MaxGvLapses /\ gvExpiries' \in 0..MaxGvExpiries
    BY <1>7 DEF gvBounds, MatchIInv, MatchTypeOK
<1>9. CASE RoundEffect(p)
    <2>1. Unclaimed(t, u) /\ retained' = [retained EXCEPT ![r] = u]
        BY <1>1, <1>3, <1>4, <1>5, <1>9 DEF RoundEffect
    <2>2. retained'[r] = u
        BY <1>6, <2>1
    <2>3. Round(u)
        BY <1>2, <1>3, <1>4 DEF Play
    <2>4. Progress(u.detail, u)
        BY <2>3, RetainedProgress
    <2>5. PICK y : y = [x EXCEPT !.pc = "save", !.draft = u]
        OBVIOUS
    <2>6. y \in GvCalls /\ y.pc = "save" /\ y.at = r /\ y.actor = x.actor /\ y.draft = u
        BY <1>3, <2>5 DEF GvCalls
    <2>7. GvTurns(p, y)
        BY <1>7, <2>2, <2>5
    <2>8. CallOK(y, retained')
        BY <1>2, <2>2, <2>4, <2>6 DEF CallOK
    <2> QED
        BY <1>1, <1>2, <1>8, <1>9, <2>6, <2>7, <2>8, CommitKeepsAll
<1>10. CASE ~Unclaimed(retained[x.at], x.draft) /\ UNCHANGED <<gvSql, gvCache, gvLock>>
    <2>1. retained' = retained /\ gvRoom' = gvRoom /\ gvMapping' = gvMapping /\ gvLock' = gvLock
        BY <1>10 DEF gvSql, gvCache
    <2>2. Progress(t.detail, t)
        BY <1>5, RetainedProgress
    <2>3. PICK y : y = [x EXCEPT !.pc = "save", !.draft = t]
        OBVIOUS
    <2>4. y \in GvCalls /\ y.pc = "save" /\ y.at = r /\ y.actor = x.actor /\ y.draft = t
        BY <1>3, <2>3 DEF GvCalls
    <2>5. GvTurns(p, y)
        BY <1>5, <1>7, <2>1, <2>3
    <2>6. CallOK(y, retained)
        BY <1>2, <1>5, <2>2, <2>4 DEF CallOK
    <2>7. gvLock' \in [GvRooms -> Callers \cup {Nobody}]
        BY <2>1 DEF MatchIInv, MatchTypeOK
    <2> QED
        BY <1>7, <1>10, <2>4, <2>5, <2>6, <2>7, LobbyStep
<1> QED
    BY <1>1, <1>9, <1>10 DEF CommitRound

-----------------------------------------------------------------------------
(* The commands                                                            *)

LEMMA SaveEffectKeeps ==
    ASSUME MatchIInv, NEW p \in Callers, gvCall[p].pc = "save", SaveRoomEffect(p)
    PROVE  /\ UNCHANGED <<gvSql, retained, gvMapping, gvLock>>
           /\ gvRoom' \in [GvRooms -> GvDetails] /\ RoomsInv'
<1>1. PICK x \in GvCalls : x = gvCall[p]
    BY DEF MatchIInv, MatchTypeOK
<1>2. x.at \in GvRooms /\ Progress(x.draft.detail, retained[x.at])
    BY <1>1 DEF MatchIInv, CallsInv, CallOK
<1>3. x.draft.detail \in GvDetails
    BY DEF GvCalls, RoundTransitions
<1>4. gvRoom' = [gvRoom EXCEPT ![x.at] = x.draft.detail] /\ UNCHANGED <<gvSql, retained, gvMapping, gvLock>>
    BY <1>1 DEF SaveRoomEffect, gvSql
<1> QED
    BY <1>2, <1>3, <1>4, RoomWritten

LEMMA SaveRoomStep ==
    ASSUME MatchIInv, NEW p \in Callers, SaveRoom(p)
    PROVE  MatchIInv'
<1>1. PICK x \in GvCalls : x = gvCall[p]
    BY DEF MatchIInv, MatchTypeOK
<1>2. x.pc = "save" /\ x.at \in GvRooms /\ x.actor \in Fighters
    BY <1>1 DEF MatchIInv, CallsInv, CallOK, SaveRoom
<1>3. UNCHANGED <<gvSql, retained, gvMapping, gvLock>> /\ gvRoom' \in [GvRooms -> GvDetails] /\ RoomsInv'
    BY <1>1, <1>2, SaveEffectKeeps DEF SaveRoom
<1>4. gvFaults' \in 0..MaxGvFaults /\ gvLapses' \in 0..MaxGvLapses /\ gvExpiries' \in 0..MaxGvExpiries
    BY DEF SaveRoom, gvBounds, MatchIInv, MatchTypeOK
<1>5. gvCall' \in [Callers -> GvCalls] /\ CallsInv'
    <2>1. CASE x.op \in {"create", "join"}
        <3>1. PICK y : y = [x EXCEPT !.pc = "map"]
            OBVIOUS
        <3>2. y \in GvCalls /\ y.pc = "map" /\ y.at = x.at /\ y.actor = x.actor
            BY <3>1 DEF GvCalls
        <3>3. GvTurns(p, y)
            BY <1>1, <2>1, <3>1 DEF SaveRoom, GvGoto
        <3>4. CallOK(y, retained)
            BY <1>2, <3>2 DEF CallOK
        <3> QED
            BY <1>3, <3>2, <3>3, <3>4, TurnKeepsCalls
    <2>2. CASE x.op \notin {"create", "join"}
        <3>1. GvGoto(p, "unlock")
            BY <1>1, <2>2 DEF SaveRoom
        <3> QED
            BY <1>1, <1>2, <1>3, <3>1, GotoKeepsCalls
    <2> QED
        BY <2>1, <2>2
<1> QED
    BY <1>3, <1>4, <1>5, QuietStep DEF MatchIInv, MatchTypeOK

LEMMA MapEffectKeeps ==
    ASSUME MatchIInv, NEW p \in Callers, gvCall[p].pc # "idle", MapEffect(p)
    PROVE  /\ UNCHANGED <<gvSql, retained, gvRoom, gvLock>>
           /\ gvMapping' \in [Fighters -> GvRooms \cup {NoGvRoom}]
<1>1. PICK x \in GvCalls : x = gvCall[p]
    BY DEF MatchIInv, MatchTypeOK
<1>2. x.at \in GvRooms
    BY <1>1 DEF MatchIInv, CallsInv, CallOK
<1>3. gvMapping' = [gvMapping EXCEPT ![x.actor] = x.at] /\ UNCHANGED <<gvSql, retained, gvRoom, gvLock>>
    BY <1>1 DEF MapEffect, gvSql
<1> QED
    BY <1>2, <1>3 DEF MatchIInv, MatchTypeOK

LEMMA SetCharacterRoomStep ==
    ASSUME MatchIInv, NEW p \in Callers, SetCharacterRoom(p)
    PROVE  MatchIInv'
<1>1. gvCall[p].pc # "idle" /\ MapEffect(p) /\ GvGoto(p, "unlock")
    BY DEF SetCharacterRoom
<1>2. /\ UNCHANGED <<gvSql, retained, gvRoom, gvLock>>
      /\ gvMapping' \in [Fighters -> GvRooms \cup {NoGvRoom}]
    BY <1>1, MapEffectKeeps
<1>3. gvCall' \in [Callers -> GvCalls] /\ CallsInv'
    BY <1>1, <1>2, GotoKeepsCalls
<1>4. gvRoom' \in [GvRooms -> GvDetails] /\ RoomsInv'
    BY <1>2, RoomsKept
<1>5. gvFaults' \in 0..MaxGvFaults /\ gvLapses' \in 0..MaxGvLapses /\ gvExpiries' \in 0..MaxGvExpiries
    BY DEF SetCharacterRoom, gvBounds, MatchIInv, MatchTypeOK
<1> QED
    BY <1>2, <1>3, <1>4, <1>5, QuietStep DEF MatchIInv, MatchTypeOK

LEMMA UnmapEffectKeeps ==
    ASSUME MatchIInv, NEW p \in Callers, NEW c, GvUnmapEffect(p, c)
    PROVE  /\ UNCHANGED <<gvSql, retained, gvRoom, gvLock>>
           /\ gvMapping' \in [Fighters -> GvRooms \cup {NoGvRoom}]
BY DEF GvUnmapEffect, gvSql, MatchIInv, MatchTypeOK

LEMMA DeleteCharacterRoomStep ==
    ASSUME MatchIInv, NEW p \in Callers, NEW c \in Fighters, DeleteCharacterRoom(p, c)
    PROVE  MatchIInv'
<1>1. PICK x \in GvCalls : x = gvCall[p]
    BY DEF MatchIInv, MatchTypeOK
<1>2. x.pc = "unmap" /\ x.at \in GvRooms /\ x.actor \in Fighters
      /\ Progress(x.draft.detail, retained[x.at])
    BY <1>1 DEF MatchIInv, CallsInv, CallOK, DeleteCharacterRoom
<1>3. GvUnmapEffect(p, c)
    BY DEF DeleteCharacterRoom
<1>4. PICK step : step = IF x.gone # {c} THEN "unmap"
                         ELSE IF x.draft.detail = NoRoomDetail THEN "delete" ELSE "save"
    OBVIOUS
<1>5. step \in {"unmap", "delete", "save"}
    BY <1>4
<1>6. PICK y : y = [x EXCEPT !.gone = @ \ {c}, !.pc = step]
    OBVIOUS
<1>7. x.gone \ {c} \in SUBSET Fighters
    BY DEF GvCalls
<1>8. y \in GvCalls /\ y.pc = step /\ y.at = x.at /\ y.actor = x.actor /\ y.draft = x.draft
    BY <1>5, <1>6, <1>7 DEF GvCalls
<1>9. GvTurns(p, y)
    BY <1>1, <1>4, <1>6 DEF DeleteCharacterRoom
<1>10. CallOK(y, retained)
    BY <1>2, <1>5, <1>8 DEF CallOK
<1>11. /\ UNCHANGED <<gvSql, retained, gvRoom, gvLock>>
       /\ gvMapping' \in [Fighters -> GvRooms \cup {NoGvRoom}]
    BY <1>3, UnmapEffectKeeps
<1>12. gvCall' \in [Callers -> GvCalls] /\ CallsInv'
    BY <1>8, <1>9, <1>10, <1>11, TurnKeepsCalls
<1>13. gvRoom' \in [GvRooms -> GvDetails] /\ RoomsInv'
    BY <1>11, RoomsKept
<1>14. gvFaults' \in 0..MaxGvFaults /\ gvLapses' \in 0..MaxGvLapses /\ gvExpiries' \in 0..MaxGvExpiries
    BY DEF DeleteCharacterRoom, gvBounds, MatchIInv, MatchTypeOK
<1> QED
    BY <1>11, <1>12, <1>13, <1>14, QuietStep DEF MatchIInv, MatchTypeOK

LEMMA DeleteEffectKeeps ==
    ASSUME MatchIInv, NEW p \in Callers, gvCall[p].pc # "idle", DeleteEffect(p)
    PROVE  /\ UNCHANGED <<gvSql, retained, gvMapping, gvLock>>
           /\ gvRoom' \in [GvRooms -> GvDetails] /\ RoomsInv'
<1>1. PICK x \in GvCalls : x = gvCall[p]
    BY DEF MatchIInv, MatchTypeOK
<1>2. x.at \in GvRooms
    BY <1>1 DEF MatchIInv, CallsInv, CallOK
<1>3. gvRoom' = [gvRoom EXCEPT ![x.at] = NoRoomDetail] /\ UNCHANGED <<gvSql, retained, gvMapping, gvLock>>
    BY <1>1 DEF DeleteEffect, gvSql
<1> QED
    BY <1>2, <1>3, RoomWritten, AbsentProgress, NoRoundTyped

LEMMA DeleteRoomStep ==
    ASSUME MatchIInv, NEW p \in Callers, DeleteRoom(p)
    PROVE  MatchIInv'
<1>1. gvCall[p].pc # "idle" /\ DeleteEffect(p) /\ GvGoto(p, "unlock")
    BY DEF DeleteRoom
<1>2. UNCHANGED <<gvSql, retained, gvMapping, gvLock>> /\ gvRoom' \in [GvRooms -> GvDetails] /\ RoomsInv'
    BY <1>1, DeleteEffectKeeps
<1>3. gvCall' \in [Callers -> GvCalls] /\ CallsInv'
    BY <1>1, <1>2, GotoKeepsCalls
<1>4. gvFaults' \in 0..MaxGvFaults /\ gvLapses' \in 0..MaxGvLapses /\ gvExpiries' \in 0..MaxGvExpiries
    BY DEF DeleteRoom, gvBounds, MatchIInv, MatchTypeOK
<1> QED
    BY <1>2, <1>3, <1>4, QuietStep DEF MatchIInv, MatchTypeOK

LEMMA GvUnlockStep ==
    ASSUME MatchIInv, NEW p \in Callers, GvUnlock(p)
    PROVE  MatchIInv'
<1>1. gvLock' = GvUnlocked(p) /\ GvTurns(p, NoGvCall) /\ UNCHANGED <<gvSql, gvCache, gvBounds>>
    BY DEF GvUnlock
<1>2. CallOK(NoGvCall, retained)
    BY NoRoundTyped DEF CallOK
<1> QED
    BY <1>1, <1>2, LocksTyped, LobbyStep, NoRoundTyped

-----------------------------------------------------------------------------
(* Faults                                                                  *)

LEMMA GvStepFailsStep ==
    ASSUME MatchIInv, NEW p \in Callers, GvStepFails(p)
    PROVE  MatchIInv'
<1>1. PICK x \in GvCalls : x = gvCall[p]
    BY DEF MatchIInv, MatchTypeOK
<1>2. x.pc # "idle" /\ x.at \in GvRooms /\ x.actor \in Fighters
    BY <1>1 DEF MatchIInv, CallsInv, CallOK, GvStepFails
<1>3. PICK step \in {"idle", "delete", "unlock"} : GvGoto(p, step)
    BY <1>1 DEF GvStepFails
<1>4. gvFaults' \in 0..MaxGvFaults /\ gvLapses' \in 0..MaxGvLapses /\ gvExpiries' \in 0..MaxGvExpiries
    BY GuildMatchAssumption DEF GvStepFails, MatchIInv, MatchTypeOK
<1>5. ASSUME UNCHANGED <<gvSql, retained, gvLock>>, gvRoom' \in [GvRooms -> GvDetails], RoomsInv',
             gvMapping' \in [Fighters -> GvRooms \cup {NoGvRoom}]
      PROVE  MatchIInv'
    <2>1. gvCall' \in [Callers -> GvCalls] /\ CallsInv'
        BY <1>1, <1>2, <1>3, <1>5, GotoKeepsCalls
    <2>2. gvLock' \in [GvRooms -> Callers \cup {Nobody}]
        BY <1>5 DEF MatchIInv, MatchTypeOK
    <2> QED
        BY <1>4, <1>5, <2>1, <2>2, QuietStep
<1>6. CASE UNCHANGED <<gvSql, gvCache, gvLock>>
    <2>1. UNCHANGED <<gvSql, retained, gvRoom, gvMapping, gvLock>>
        BY <1>6 DEF gvSql, gvCache
    <2> QED
        BY <1>5, <2>1, RoomsKept DEF MatchIInv, MatchTypeOK
<1>7. CASE x.pc = "commit" /\ RoundEffect(p)
    <2>1. PICK y : y = [x EXCEPT !.pc = step]
        OBVIOUS
    <2>2. y \in GvCalls /\ y.pc = step /\ y.at = x.at /\ y.actor = x.actor
        BY <2>1 DEF GvCalls
    <2>3. GvTurns(p, y)
        BY <1>1, <1>3, <2>1 DEF GvGoto
    <2>4. CallOK(y, retained')
        BY <1>2, <2>2 DEF CallOK
    <2> QED
        BY <1>1, <1>4, <1>7, <2>2, <2>3, <2>4, CommitKeepsAll
<1>8. CASE x.pc = "save" /\ SaveRoomEffect(p)
    BY <1>1, <1>5, <1>8, SaveEffectKeeps DEF MatchIInv, MatchTypeOK
<1>9. CASE x.pc = "map" /\ MapEffect(p)
    BY <1>1, <1>2, <1>5, <1>9, MapEffectKeeps, RoomsKept
<1>10. CASE x.pc = "unmap" /\ \E c \in x.gone : GvUnmapEffect(p, c)
    BY <1>5, <1>10, UnmapEffectKeeps, RoomsKept
<1>11. CASE x.pc = "delete" /\ DeleteEffect(p)
    BY <1>1, <1>2, <1>5, <1>11, DeleteEffectKeeps DEF MatchIInv, MatchTypeOK
<1> QED
    BY <1>1, <1>6, <1>7, <1>8, <1>9, <1>10, <1>11 DEF GvStepFails

LEMMA GvStopsStep ==
    ASSUME MatchIInv, NEW p \in Callers, GvStops(p)
    PROVE  MatchIInv'
<1>1. UNCHANGED <<gvSql, retained, gvRoom, gvMapping>> /\ GvTurns(p, NoGvCall) /\ gvLock' = GvUnlocked(p)
    BY DEF GvStops, gvSql, gvCache
<1>2. gvFaults' \in 0..MaxGvFaults /\ gvLapses' \in 0..MaxGvLapses /\ gvExpiries' \in 0..MaxGvExpiries
    BY GuildMatchAssumption DEF GvStops, MatchIInv, MatchTypeOK
<1>3. gvCall' \in [Callers -> GvCalls] /\ CallsInv'
    BY <1>1, IdleKeepsCalls
<1> QED
    BY <1>1, <1>2, <1>3, LocksTyped, RoomsKept, QuietStep DEF MatchIInv, MatchTypeOK

LEMMA GvLockLapsesStep ==
    ASSUME MatchIInv, NEW p \in Callers, GvLockLapses(p)
    PROVE  MatchIInv'
<1>1. UNCHANGED <<gvSql, retained, gvRoom, gvMapping, gvCall>> /\ gvLock' = GvUnlocked(p)
    BY DEF GvLockLapses, gvSql, gvCache
<1>2. gvFaults' \in 0..MaxGvFaults /\ gvLapses' \in 0..MaxGvLapses /\ gvExpiries' \in 0..MaxGvExpiries
    BY GuildMatchAssumption DEF GvLockLapses, MatchIInv, MatchTypeOK
<1> QED
    BY <1>1, <1>2, LocksTyped, RoomsKept, CallsKept, QuietStep DEF MatchIInv, MatchTypeOK

LEMMA GvRoomExpiresStep ==
    ASSUME MatchIInv, NEW r \in GvRooms, GvRoomExpires(r)
    PROVE  MatchIInv'
<1>1. UNCHANGED <<gvSql, retained, gvMapping, gvLock, gvCall>>
      /\ gvRoom' = [gvRoom EXCEPT ![r] = NoRoomDetail]
    BY DEF GvRoomExpires, gvSql
<1>2. gvFaults' \in 0..MaxGvFaults /\ gvLapses' \in 0..MaxGvLapses /\ gvExpiries' \in 0..MaxGvExpiries
    BY GuildMatchAssumption DEF GvRoomExpires, MatchIInv, MatchTypeOK
<1>3. gvRoom' \in [GvRooms -> GvDetails] /\ RoomsInv'
    BY <1>1, RoomWritten, AbsentProgress, NoRoundTyped
<1> QED
    BY <1>1, <1>2, <1>3, CallsKept, QuietStep DEF MatchIInv, MatchTypeOK

LEMMA GvMappingExpiresStep ==
    ASSUME MatchIInv, NEW c \in Fighters, GvMappingExpires(c)
    PROVE  MatchIInv'
<1>1. UNCHANGED <<gvSql, retained, gvRoom, gvLock, gvCall>>
      /\ gvMapping' = [gvMapping EXCEPT ![c] = NoGvRoom]
    BY DEF GvMappingExpires, gvSql
<1>2. gvFaults' \in 0..MaxGvFaults /\ gvLapses' \in 0..MaxGvLapses /\ gvExpiries' \in 0..MaxGvExpiries
    BY GuildMatchAssumption DEF GvMappingExpires, MatchIInv, MatchTypeOK
<1> QED
    BY <1>1, <1>2, RoomsKept, CallsKept, QuietStep DEF MatchIInv, MatchTypeOK

-----------------------------------------------------------------------------
(* Every step                                                              *)

LEMMA MatchStep == MatchIInv /\ [MatchNext]_gvVars => MatchIInv'
<1> SUFFICES ASSUME MatchIInv, [MatchNext]_gvVars PROVE MatchIInv'
    OBVIOUS
<1>1. ASSUME NEW p \in Callers, GvRequest(p)
      PROVE  MatchIInv'
    <2>1. PICK c \in Fighters, r \in GvRooms :
              \/ CreateMatch(p, c, r) \/ JoinMatch(p, c, r) \/ LeaveMatch(p, c, r)
              \/ StartGvMatch(p, c, r)
              \/ \E k \in 1..MaxGvRounds : AdvanceMatch(p, c, r, k)
        BY <1>1 DEF GvRequest
    <2> QED
        BY <2>1, CreateMatchStep, JoinMatchStep, LeaveMatchStep, StartGvMatchStep, AdvanceMatchStep
<1>2. ASSUME NEW p \in Callers, GvStep(p)
      PROVE  MatchIInv'
    BY <1>2, CommitRoundStep, SaveRoomStep, SetCharacterRoomStep, DeleteRoomStep, GvUnlockStep,
       DeleteCharacterRoomStep DEF GvStep
<1>3. CASE GvFault
    BY <1>3, GvStepFailsStep, GvStopsStep, GvLockLapsesStep, GvRoomExpiresStep, GvMappingExpiresStep
       DEF GvFault
<1>4. CASE UNCHANGED gvVars
    <2>1. UNCHANGED <<gvSql, retained, gvRoom, gvMapping, gvLock, gvCall, gvFaults, gvLapses, gvExpiries>>
        BY <1>4 DEF gvVars, gvSql, gvCache, gvBounds
    <2> QED
        BY <2>1, RoomsKept, CallsKept, QuietStep DEF MatchIInv, MatchTypeOK
<1> QED
    BY <1>1, <1>2, <1>3, <1>4 DEF MatchNext

LEMMA MatchInvariant == MatchSpec => []MatchIInv
BY MatchInitially, MatchStep, PTL DEF MatchSpec

\* The types of the tables, the keys of Valkey and the calls.
THEOREM TypeCorrect == MatchSpec => []MatchTypeOK
<1>1. MatchIInv => MatchTypeOK
    BY DEF MatchIInv
<1> QED
    BY <1>1, MatchInvariant, PTL

-----------------------------------------------------------------------------
(* What a step does to the retained rounds                                 *)

\* A step commits one round over the one that is retained for its room, or none.
LEMMA CommitOrNot ==
    ASSUME MatchIInv, [MatchNext]_gvVars
    PROVE  \/ UNCHANGED gvSql
           \/ \E p \in Callers : gvCall[p].pc = "commit" /\ RoundEffect(p)
<1>1. ASSUME NEW p \in Callers, GvRequest(p)
      PROVE  UNCHANGED gvSql
    <2>1. PICK c \in Fighters, r \in GvRooms :
              \/ CreateMatch(p, c, r) \/ JoinMatch(p, c, r) \/ LeaveMatch(p, c, r)
              \/ StartGvMatch(p, c, r)
              \/ \E k \in 1..MaxGvRounds : AdvanceMatch(p, c, r, k)
        BY <1>1 DEF GvRequest
    <2> QED
        BY <2>1 DEF CreateMatch, JoinMatch, LeaveMatch, StartGvMatch, AdvanceMatch, GvBegin
<1>2. ASSUME NEW p \in Callers, GvStep(p)
      PROVE  UNCHANGED gvSql \/ (gvCall[p].pc = "commit" /\ RoundEffect(p))
    <2>1. CASE CommitRound(p)
        BY <2>1 DEF CommitRound
    <2>2. CASE SaveRoom(p)
        BY <2>2 DEF SaveRoom, SaveRoomEffect
    <2>3. CASE SetCharacterRoom(p)
        BY <2>3 DEF SetCharacterRoom, MapEffect
    <2>4. CASE DeleteRoom(p)
        BY <2>4 DEF DeleteRoom, DeleteEffect
    <2>5. CASE GvUnlock(p)
        BY <2>5 DEF GvUnlock
    <2>6. CASE \E c \in Fighters : DeleteCharacterRoom(p, c)
        BY <2>6 DEF DeleteCharacterRoom, GvUnmapEffect
    <2> QED
        BY <1>2, <2>1, <2>2, <2>3, <2>4, <2>5, <2>6 DEF GvStep
<1>3. ASSUME NEW p \in Callers, GvStepFails(p)
      PROVE  UNCHANGED gvSql \/ (gvCall[p].pc = "commit" /\ RoundEffect(p))
    BY <1>3 DEF GvStepFails, SaveRoomEffect, MapEffect, GvUnmapEffect, DeleteEffect
<1>4. CASE GvFault
    BY <1>3, <1>4 DEF GvFault, GvStops, GvLockLapses, GvRoomExpires, GvMappingExpires
<1>5. CASE UNCHANGED gvVars
    BY <1>5 DEF gvVars
<1> QED
    BY <1>1, <1>2, <1>4, <1>5 DEF MatchNext

\* The round t that was retained for the room r, and the u that is now.
LEMMA CommitReplaces ==
    ASSUME MatchIInv, NEW p \in Callers, gvCall[p].pc = "commit", RoundEffect(p)
    PROVE  \E r \in GvRooms, t \in RoundTransitions, u \in RoundTransitions :
              /\ t = retained[r] /\ u = retained'[r] /\ \A s \in GvRooms \ {r} : retained'[s] = retained[s]
              /\ points' = [g \in Guilds |-> points[g] + GuildRewardGP(u, g)]
              /\ u.round = t.round + 1 /\ ~Completed(t) /\ Continues(u, t) /\ Round(u)
<1>1. PICK x \in GvCalls : x = gvCall[p]
    BY DEF MatchIInv, MatchTypeOK
<1>2. x.at \in GvRooms /\ Play(x.draft, retained[x.at])
    BY <1>1 DEF MatchIInv, CallsInv, CallOK
<1>3. PICK r \in GvRooms : r = x.at
    BY <1>2
<1>4. PICK u \in RoundTransitions : u = x.draft
    BY DEF GvCalls
<1>5. PICK t \in RoundTransitions : t = retained[r] /\ (t = NoRound \/ Round(t))
    BY DEF MatchIInv, MatchTypeOK, RetainedInv
<1>6. Unclaimed(t, u) /\ retained' = [retained EXCEPT ![r] = u]
      /\ points' = [g \in Guilds |-> points[g] + GuildRewardGP(u, g)]
    BY <1>1, <1>3, <1>4, <1>5 DEF RoundEffect
<1>7. u.round = t.round + 1 /\ ~Completed(t) /\ Continues(u, t) /\ Round(u)
    BY <1>2, <1>3, <1>4, <1>5, <1>6, CommittedRound
<1>8. retained'[r] = u /\ \A s \in GvRooms \ {r} : retained'[s] = retained[s]
    BY <1>6 DEF MatchIInv, MatchTypeOK
<1> QED
    BY <1>5, <1>6, <1>7, <1>8

-----------------------------------------------------------------------------
(* The rounds of a match follow each other                                 *)

\* Whatever room a call works from, the round it commits is the one that
\* follows the retained round, with its score and roster; after the last round
\* of a match nothing is committed.
THEOREM RoundsAlwaysFollow == MatchSpec => RoundsFollow
<1> DEFINE Follows(t, u) ==
        t # u =>
              /\ ~Completed(t)
              /\ u.round = t.round + 1
              /\ \A g \in Guilds :
                    u.detail.score[g] = t.detail.score[g] + IF u.winner = g THEN 1 ELSE 0
              /\ t.round > 0 => /\ u.detail.members = t.detail.members
                                /\ u.detail.pool = t.detail.pool
<1>1. ASSUME MatchIInv, [MatchNext]_gvVars, NEW s \in GvRooms
      PROVE  Follows(retained[s], retained'[s])
    <2>1. CASE UNCHANGED gvSql
        BY <2>1 DEF gvSql
    <2>2. CASE \E p \in Callers : gvCall[p].pc = "commit" /\ RoundEffect(p)
        <3>1. PICK r \in GvRooms, t \in RoundTransitions, u \in RoundTransitions :
              /\ t = retained[r] /\ u = retained'[r] /\ \A z \in GvRooms \ {r} : retained'[z] = retained[z]
              /\ u.round = t.round + 1 /\ ~Completed(t) /\ Continues(u, t)
            BY <1>1, <2>2, CommitReplaces
        <3>2. Follows(t, u)
            BY <3>1 DEF Continues
        <3> QED
            BY <3>1, <3>2
    <2> QED
        BY <1>1, <2>1, <2>2, CommitOrNot
<1>2. MatchIInv /\ [MatchNext]_gvVars =>
         [\A r \in GvRooms :
          LET t == retained[r]
              u == retained'[r] IN
          t # u =>
              /\ ~Completed(t)
              /\ u.round = t.round + 1
              /\ \A g \in Guilds :
                    u.detail.score[g] = t.detail.score[g] + IF u.winner = g THEN 1 ELSE 0
              /\ t.round > 0 => /\ u.detail.members = t.detail.members
                                /\ u.detail.pool = t.detail.pool]_gvVars
    BY <1>1
<1> QED
    BY <1>2, MatchInvariant, PTL DEF MatchSpec, RoundsFollow

-----------------------------------------------------------------------------
(* Each round is paid once                                                 *)

\* EarnedIn, of the round t that is retained.
Earned(t, g) ==
    RoundWinGP * t.detail.score[g]
    + (IF Champion(t) = NoGuild THEN 0
       ELSE MatchParticipantGP * Cardinality({c \in t.detail.members : GuildOf[c] = g})
            + IF g = Champion(t) THEN t.detail.pool - RoundWinGP ELSE 0)

LEMMA RewardIsEarned ==
    ASSUME NEW t \in RoundTransitions, NEW u \in RoundTransitions, NEW g \in Guilds,
           ~Completed(t), Continues(u, t), Round(u)
    PROVE  /\ Earned(t, g) \in Int
           /\ Earned(u, g) = Earned(t, g) + GuildRewardGP(u, g)
<1>1. PICK n \in Nat : n = t.detail.score[g]
    BY DEF RoundTransitions, GvDetails
<1>2. u.detail.score[g] = n + IF u.winner = g THEN 1 ELSE 0
    BY <1>1 DEF Continues
<1>3. PICK m \in Nat : m = RoundWinGP * n /\ RoundWinGP * (n + 1) = m + RoundWinGP
    BY GuildMatchAssumption
<1>4. Earned(t, g) = m
    BY <1>1, <1>3 DEF Earned, Champion
<1>5. RoundWinGP * u.detail.score[g] = m + IF u.winner = g THEN RoundWinGP ELSE 0
    <2>1. CASE u.winner = g
        BY <1>2, <1>3, <2>1
    <2>2. CASE u.winner # g
        <3>1. u.detail.score[g] = n
            BY <1>2, <2>2
        <3> QED
            BY <1>3, <2>2, <3>1
    <2> QED
        BY <2>1, <2>2
<1>6. PICK part \in Nat :
          part = MatchParticipantGP * Cardinality({c \in u.detail.members : GuildOf[c] = g})
    <2>1. u.detail.members \subseteq Fighters
        BY DEF RoundTransitions, GvDetails
    <2>2. IsFiniteSet({c \in u.detail.members : GuildOf[c] = g})
        BY <2>1, GuildMatchAssumption, FS_Subset
    <2>3. PICK k \in Nat : k = Cardinality({c \in u.detail.members : GuildOf[c] = g})
        BY <2>2, FS_CardinalityType
    <2>4. MatchParticipantGP * k \in Nat
        BY GuildMatchAssumption
    <2> QED
        BY <2>3, <2>4
<1>7. CASE Champion(u) = NoGuild
    BY <1>4, <1>5, <1>7, GuildMatchAssumption DEF Earned, GuildRewardGP
<1>8. CASE Champion(u) # NoGuild
    <2>1. Champion(u) = u.winner
        BY <1>8 DEF Round
    <2>2. u.detail.pool \in Nat
        BY DEF RoundTransitions, GvDetails
    <2>3. Earned(u, g) = (m + IF u.winner = g THEN RoundWinGP ELSE 0)
                         + (part + IF g = u.winner THEN u.detail.pool - RoundWinGP ELSE 0)
        BY <1>5, <1>6, <1>8, <2>1 DEF Earned
    <2>4. GuildRewardGP(u, g) = part + IF g = u.winner THEN u.detail.pool ELSE 0
        BY <1>6, <1>8, <2>1 DEF GuildRewardGP
    <2> QED
        BY <1>4, <2>2, <2>3, <2>4, GuildMatchAssumption
<1> QED
    BY <1>4, <1>7, <1>8

\* Whoever commits a round commits it for one room, and pays what it earns.
LEMMA OneRoomPaid ==
    ASSUME MatchIInv, [MatchNext]_gvVars
    PROVE  \/ UNCHANGED <<points, retained>>
           \/ \E r \in GvRooms :
                 /\ \A s \in GvRooms \ {r} : retained'[s] = retained[s]
                 /\ \A g \in Guilds : points'[g] = points[g] + (EarnedIn(r, g)' - EarnedIn(r, g))
<1>1. CASE UNCHANGED gvSql
    BY <1>1 DEF gvSql
<1>2. CASE \E p \in Callers : gvCall[p].pc = "commit" /\ RoundEffect(p)
    <2>1. PICK r \in GvRooms, t \in RoundTransitions, u \in RoundTransitions :
          /\ t = retained[r] /\ u = retained'[r] /\ \A z \in GvRooms \ {r} : retained'[z] = retained[z]
          /\ points' = [g \in Guilds |-> points[g] + GuildRewardGP(u, g)]
          /\ u.round = t.round + 1 /\ ~Completed(t) /\ Continues(u, t) /\ Round(u)
        BY <1>2, CommitReplaces
    <2>2. ASSUME NEW g \in Guilds
          PROVE  points'[g] = points[g] + (EarnedIn(r, g)' - EarnedIn(r, g))
        <3>1. EarnedIn(r, g) = Earned(t, g)
            BY <2>1 DEF EarnedIn, Earned
        <3>2. EarnedIn(r, g)' = Earned(u, g)
            BY <2>1 DEF EarnedIn, Earned, Champion, Completed
        <3>3. Earned(t, g) \in Int /\ Earned(u, g) = Earned(t, g) + GuildRewardGP(u, g)
            BY <2>1, RewardIsEarned
        <3>4. points[g] \in Nat /\ points'[g] = points[g] + GuildRewardGP(u, g)
              /\ GuildRewardGP(u, g) \in Nat
            BY <2>1, RewardTyped DEF MatchIInv, MatchTypeOK
        <3> QED
            BY <3>1, <3>2, <3>3, <3>4
    <2> QED
        BY <2>1, <2>2
<1> QED
    BY <1>1, <1>2, CommitOrNot

\* A step pays what it adds to the account of the one room it commits a round
\* for (EarnedIn, of which PointsMatchScores is the sum), and a step that
\* commits none pays nothing.
RoundsPaid ==
    [][\/ UNCHANGED <<points, retained>>
       \/ \E r \in GvRooms :
             /\ \A s \in GvRooms \ {r} : retained'[s] = retained[s]
             /\ \A g \in Guilds : points'[g] = points[g] + (EarnedIn(r, g)' - EarnedIn(r, g))]_gvVars

\* A guild is paid exactly once for each round it won or match it fought to the
\* end, whichever calls race and whatever is lost: each step moves the points
\* and the account they are due to by the same amount.
THEOREM RoundsPaidOnce == MatchSpec => RoundsPaid
<1>1. MatchIInv /\ [MatchNext]_gvVars =>
         [\/ UNCHANGED <<points, retained>>
          \/ \E r \in GvRooms :
             /\ \A s \in GvRooms \ {r} : retained'[s] = retained[s]
             /\ \A g \in Guilds : points'[g] = points[g] + (EarnedIn(r, g)' - EarnedIn(r, g))]_gvVars
    BY OneRoomPaid
<1> QED
    BY <1>1, MatchInvariant, PTL DEF MatchSpec, RoundsPaid

-----------------------------------------------------------------------------
(* The points of a guild and the accounts of all rooms                     *)
Accounts(g) == [r \in GvRooms |-> EarnedIn(r, g)]

LEMMA EarnedTyped ==
    ASSUME NEW t \in RoundTransitions, NEW g \in Guilds
    PROVE  Earned(t, g) \in Int
<1>1. t.detail.members \subseteq Fighters /\ t.detail.pool \in Nat /\ t.detail.score[g] \in Nat
    BY DEF RoundTransitions, GvDetails
<1>2. PICK k \in Nat : k = Cardinality({c \in t.detail.members : GuildOf[c] = g})
    <2>1. IsFiniteSet({c \in t.detail.members : GuildOf[c] = g})
        BY <1>1, GuildMatchAssumption, FS_Subset
    <2> QED
        BY <2>1, FS_CardinalityType
<1>3. PICK m \in Nat, n \in Nat : m = MatchParticipantGP * k /\ n = RoundWinGP * t.detail.score[g]
    BY <1>1, GuildMatchAssumption
<1> QED
    BY <1>1, <1>2, <1>3, GuildMatchAssumption DEF Earned

LEMMA AccountsTyped ==
    ASSUME NEW T \in [GvRooms -> RoundTransitions], NEW g \in Guilds
    PROVE  [r \in GvRooms |-> Earned(T[r], g)] \in [GvRooms -> Int]
BY EarnedTyped

LEMMA NothingEarned ==
    ASSUME MatchInit
    PROVE  PointsMatchScores
<1>1. MatchTypeOK
    BY MatchInitially DEF MatchIInv
<1>2. ASSUME NEW g \in Guilds
      PROVE  points[g] = SumFunction(Accounts(g))
    <2>1. ASSUME NEW r \in GvRooms
          PROVE  Accounts(g)[r] = 0
        <3>1. retained[r] = NoRound /\ Champion(NoRound) = NoGuild
            BY DEF MatchInit, Champion, NoRound
        <3>2. NoRound.detail.score[g] = 0
            BY DEF NoRound, NoRoomDetail, NoScore
        <3> QED
            BY <3>1, <3>2, GuildMatchAssumption DEF Accounts, EarnedIn
    <2>2. Accounts(g) = [r \in GvRooms |-> Earned(retained[r], g)]
        BY DEF Accounts, EarnedIn, Earned
    <2>3. Accounts(g) \in [GvRooms -> Int]
        BY <1>1, <2>2, AccountsTyped DEF MatchTypeOK
    <2>4. SumFunction(Accounts(g)) = 0
        BY <2>1, <2>3, SumTyped, GuildMatchAssumption
    <2> QED
        BY <2>4 DEF MatchInit, NoScore
<1> QED
    BY <1>2 DEF PointsMatchScores, Accounts

\* The points follow the sum, since a step changes one summand.
LEMMA PointsFollow ==
    ASSUME MatchIInv, MatchIInv', PointsMatchScores, [MatchNext]_gvVars
    PROVE  PointsMatchScores'
<1>1. MatchTypeOK /\ MatchTypeOK'
    BY DEF MatchIInv
<1>2. CASE UNCHANGED <<points, retained>>
    BY <1>2 DEF PointsMatchScores, EarnedIn, Champion, Completed
<1>3. ASSUME NEW r \in GvRooms,
             \A s \in GvRooms \ {r} : retained'[s] = retained[s],
             \A g \in Guilds : points'[g] = points[g] + (EarnedIn(r, g)' - EarnedIn(r, g)),
             NEW g \in Guilds
      PROVE  points'[g] = SumFunction(Accounts(g)')
    <2>1. Accounts(g) \in [GvRooms -> Int]
        <3>1. Accounts(g) = [s \in GvRooms |-> Earned(retained[s], g)]
            BY DEF Accounts, EarnedIn, Earned
        <3> QED
            BY <1>1, <3>1, AccountsTyped DEF MatchTypeOK
    <2>2. Accounts(g)' \in [GvRooms -> Int]
        <3>1. Accounts(g)' = [s \in GvRooms |-> Earned(retained'[s], g)]
            BY DEF Accounts, EarnedIn, Earned, Champion, Completed
        <3> QED
            BY <1>1, <3>1, AccountsTyped DEF MatchTypeOK
    <2>3. \A s \in GvRooms \ {r} : Accounts(g)'[s] = Accounts(g)[s]
        BY <1>3 DEF Accounts, EarnedIn, Champion, Completed
    <2>4. SumFunction(Accounts(g)') = SumFunction(Accounts(g)) + (Accounts(g)'[r] - Accounts(g)[r])
        BY <2>1, <2>2, <2>3, SumChange, GuildMatchAssumption
    <2>5. Accounts(g)[r] = EarnedIn(r, g) /\ Accounts(g)'[r] = EarnedIn(r, g)'
        BY DEF Accounts
    <2>6. points[g] = SumFunction(Accounts(g))
        BY DEF PointsMatchScores, Accounts
    <2> QED
        BY <1>3, <2>4, <2>5, <2>6
<1> QED
    BY <1>2, <1>3, OneRoomPaid DEF PointsMatchScores, Accounts

\* Guild points are what all rooms have earned, each round and each match once,
\* for any number of rooms, calls, failures and lapsed locks.
THEOREM PointsAlwaysMatch == MatchSpec => []PointsMatchScores
<1>1. MatchInit => PointsMatchScores
    BY NothingEarned
<1>2. MatchIInv /\ MatchIInv' /\ PointsMatchScores /\ [MatchNext]_gvVars => PointsMatchScores'
    BY PointsFollow
<1> QED
    BY <1>1, <1>2, MatchInvariant, PTL DEF MatchSpec
=============================================================================
