----------------------------- MODULE Colosseum -----------------------------
(***************************************************************************)
(* The bets of the Colosseum (internal/pvp).  A room's live state is one   *)
(* Valkey key; its money is a row of SQL, the latest financial transition, *)
(* committed together with the wallets it changes and with the claims that *)
(* reserve the characters.  A transition is published to Valkey after the  *)
(* commit and acknowledged in SQL last.  Calls work under a room lock, a   *)
(* Valkey key of 10 s that nobody renews.  Each step below is one command  *)
(* or one SQL transaction; reads that follow each other are one step.      *)
(***************************************************************************)
EXTENDS Actors

CONSTANTS
    Characters,
    Rooms,        \* room IDs
    Teams,        \* team colours
    NoTeam, NoRoom,
    Free, Orphan, \* a free lock; the lock of a call that has ended, left to its TTL
    Bet, Purse, MaxMoney,
    MinMembers, MaxMembers, TargetWins, MaxRounds,
    MaxFaults,    \* bound on failed commands and process stops
    MaxLapses,    \* bound on locks that expire under a live call
    MaxExpiries,  \* bound on room and mapping keys that expire
    MaxVersion    \* bound on the transitions of a room after which nobody joins

ASSUME ConstantsAssumption ==
    /\ IsFiniteSet(Characters) /\ IsFiniteSet(Teams)
    /\ NoTeam \notin Teams /\ Nobody \notin Characters /\ NoRoom \notin Rooms
    /\ Free \notin Callers /\ Orphan \notin Callers /\ Free # Orphan
    /\ Bet \in Nat \ {0} /\ MaxMoney \in Nat /\ Purse \in 0..MaxMoney
    /\ MinMembers \in Nat \ {0} /\ MaxMembers \in Nat
    /\ TargetWins \in Nat \ {0} /\ MaxRounds \in Nat
    /\ MaxFaults \in Nat /\ MaxLapses \in Nat /\ MaxExpiries \in Nat
    /\ MaxVersion \in Nat

VARIABLES
    money,      \* characters.money
    claim,      \* pvp_character_claims
    committed,  \* pvp_room_transitions
    roomKey,    \* party2:pvp:room:<id>
    mapping,    \* party2:pvp:character:<id>
    lock,       \* party2:pvp:lock:room:<id>
    call,       \* what each call is doing and remembers
    faults, lapses, expiries

sql == <<money, claim, committed>>
cache == <<roomKey, mapping>>
stores == <<sql, cache, lock>>
bounds == <<faults, lapses, expiries>>
vars == <<stores, call, bounds>>

Statuses == {"missing", "recruiting", "in_progress", "completed", "disbanded"}
Finished == {"completed", "disbanded"}
Operations == {"create", "join", "select", "leave", "start", "advance"}

\* RoomDetail.  "missing" stands for an absent key.
Details ==
    [version : Nat, status : Statuses, leader : Characters \cup {Nobody},
     members : SUBSET Characters, team : [Characters -> Teams \cup {NoTeam}],
     round : Nat, score : [Teams -> Nat], pool : Nat]

NoDetail ==
    [version |-> 0, status |-> "missing", leader |-> Nobody, members |-> {},
     team |-> [c \in Characters |-> NoTeam],
     round |-> 0, score |-> [t \in Teams |-> 0], pool |-> 0]

\* Transition, with the payment its mutation makes.
Transitions ==
    [kind : {"none", "create", "join", "leave", "disband", "settle"},
     actor : Characters \cup {Nobody}, detail : Details,
     added : SUBSET Characters, removed : SUBSET Characters,
     payees : SUBSET Characters, amount : Nat, pending : BOOLEAN]

NoTransition ==
    [kind |-> "none", actor |-> Nobody, detail |-> NoDetail, added |-> {},
     removed |-> {}, payees |-> {}, amount |-> 0, pending |-> FALSE]

\* A call: its next step, its request, what publication and unlocking are for,
\* the room it works on, the version found under the lock, what it writes.
Steps == {"idle", "lock", "read", "room", "maps", "ack", "unlock",
          "check", "act", "commit", "save", "unmap"}

Calls ==
    [pc : Steps, op : Operations \cup {"none"}, actor : Characters \cup {Nobody},
     room : Rooms \cup {NoRoom}, phase : {"recover", "sync", "done"},
     at : Rooms \cup {NoRoom}, ver : Nat, draft : Transitions]

Idle == [pc |-> "idle", op |-> "none", actor |-> Nobody, room |-> NoRoom,
         phase |-> "recover", at |-> NoRoom, ver |-> 0, draft |-> NoTransition]

Init ==
    /\ money = [c \in Characters |-> Purse]
    /\ claim = [c \in Characters |-> NoRoom]
    /\ committed = [r \in Rooms |-> NoTransition]
    /\ roomKey = [r \in Rooms |-> NoDetail]
    /\ mapping = [c \in Characters |-> NoRoom]
    /\ lock = [r \in Rooms |-> Free]
    /\ call = [p \in Callers |-> Idle]
    /\ faults = 0 /\ lapses = 0 /\ expiries = 0

Becomes(p, x) == call' = [call EXCEPT ![p] = x]
Goto(p, step) == Becomes(p, [call[p] EXCEPT !.pc = step])
Return(p) == Becomes(p, Idle)

\* Ends the call by way of the lock's release.
Quit(p) == Becomes(p, [Idle EXCEPT !.pc = "unlock", !.phase = "done", !.at = call[p].at])

\* Enters withRoomLock, or CreateRoom's own steps.
Proceeding(op, c, r) ==
    [Idle EXCEPT !.pc = IF op = "create" THEN "check" ELSE "lock", !.op = op,
                 !.actor = c, !.room = r, !.phase = "sync", !.at = r]

-----------------------------------------------------------------------------
(* A call begins with the first command that is not refused: CreateRoom    *)
(* and JoinRoom with FindCharacterClaim of recoverCharacter, the others    *)
(* with the room's lock.  A room is known once it was committed.           *)
Known(r) == committed[r].kind # "none"

BeginAdmission(p, op, c, r) ==
    /\ call[p].pc = "idle"
    /\ IF op = "create" THEN r = NoRoom
       ELSE r # NoRoom /\ Known(r) /\ committed[r].detail.version < MaxVersion
    /\ Becomes(p, IF claim[c] = NoRoom THEN Proceeding(op, c, r)
                  ELSE [Idle EXCEPT !.pc = "lock", !.op = op, !.actor = c, !.room = r,
                                    !.at = claim[c]])
    /\ UNCHANGED <<stores, bounds>>

Begin(p, op, c, r) ==
    /\ call[p].pc = "idle"
    /\ Known(r)
    /\ lock[r] = Free
    /\ lock' = [lock EXCEPT ![r] = p]
    /\ Becomes(p, [Proceeding(op, c, r) EXCEPT !.pc = "read"])
    /\ UNCHANGED <<sql, cache, bounds>>

\* WithRoomLock: SET NX, retried until it times out.
Lock(p) ==
    LET x == call[p] IN
    /\ x.pc = "lock"
    /\ lock[x.at] = Free
    /\ lock' = [lock EXCEPT ![x.at] = p]
    /\ Goto(p, IF x.phase = "sync" /\ x.op = "create" THEN "commit" ELSE "read")
    /\ UNCHANGED <<sql, cache, bounds>>

LockTimesOut(p) ==
    /\ call[p].pc = "lock"
    /\ lock[call[p].at] # Free
    /\ Return(p)
    /\ UNCHANGED <<stores, bounds>>

\* (mutant) what is pending is not published again
ReadIgnoresPending(p) ==
    LET x == call[p] IN
    /\ x.pc = "read"
    /\ Becomes(p, [x EXCEPT
          !.ver = IF x.phase = "sync" THEN committed[x.at].detail.version ELSE 0,
          !.pc = IF x.phase = "recover" THEN "unlock" ELSE "act"])
    /\ UNCHANGED <<stores, bounds>>

\* FindTransition, on entry of withRoomLock and in recoverCharacter.
Read(p) ==
    LET x == call[p]
        t == committed[x.at] IN
    /\ x.pc = "read"
    /\ Becomes(p, [x EXCEPT
          !.ver = IF x.phase = "sync" THEN t.detail.version ELSE 0,
          !.draft = IF t.pending THEN t ELSE NoTransition,
          !.pc = IF t.pending THEN "room" ELSE IF x.phase = "recover" THEN "unlock" ELSE "act"])
    /\ UNCHANGED <<stores, bounds>>

-----------------------------------------------------------------------------
(* publishTransition.  An effect is what a step writes; a step that fails  *)
(* may have written all the same.                                          *)
RoomEffect(p) ==
    LET d == call[p].draft.detail IN
    /\ roomKey' = [roomKey EXCEPT ![call[p].at] = IF d.status = "disbanded" THEN NoDetail ELSE d]
    /\ UNCHANGED <<sql, mapping, lock>>

\* (mutant) the error of SaveRoom is dropped
PublishRoomUnchecked(p) ==
    /\ call[p].pc = "room"
    /\ RoomEffect(p) \/ UNCHANGED stores
    /\ UNCHANGED lock
    /\ Goto(p, "maps")
    /\ UNCHANGED bounds

PublishRoom(p) ==
    /\ call[p].pc = "room"
    /\ RoomEffect(p)
    /\ Goto(p, "maps")
    /\ UNCHANGED bounds

Joined(t) == IF t.detail.status = "disbanded" THEN {} ELSE t.detail.members

\* The mappings of S are written or, where they still name the room, deleted.
MapsEffect(p, S) ==
    LET x == call[p] IN
    /\ mapping' = [c \in Characters |->
          IF c \notin S THEN mapping[c]
          ELSE IF c \in x.draft.removed
               THEN IF mapping[c] = x.at THEN NoRoom ELSE mapping[c]
               ELSE x.at]
    /\ UNCHANGED <<sql, roomKey, lock>>

PublishMaps(p) ==
    /\ call[p].pc = "maps"
    /\ MapsEffect(p, Joined(call[p].draft) \cup call[p].draft.removed)
    /\ Goto(p, "ack")
    /\ UNCHANGED bounds

\* Claims an acknowledgement of t releases.
Released(t) ==
    t.removed \cup (IF t.detail.status = "completed" THEN t.detail.members ELSE {})

Current(p) == committed[call[p].at].detail.version = call[p].draft.detail.version

AckEffect(p) ==
    LET r == call[p].at IN
    /\ Current(p)
    /\ claim' = [c \in Characters |->
          IF c \in Released(committed[r]) /\ claim[c] = r THEN NoRoom ELSE claim[c]]
    /\ committed' = [committed EXCEPT ![r].pending = FALSE]
    /\ UNCHANGED <<money, cache, lock>>

Acknowledge(p) ==
    LET x == call[p] IN
    /\ x.pc = "ack"
    /\ \/ /\ AckEffect(p)
          /\ IF x.phase = "sync" THEN Becomes(p, [x EXCEPT !.pc = "act", !.draft = NoTransition])
             ELSE Goto(p, "unlock")
       \/ ~Current(p) /\ Quit(p) /\ UNCHANGED stores
    /\ UNCHANGED bounds

\* A recovered creation answers CreateRoom; other recoveries are only a start.
Resume(p) ==
    LET x == call[p] IN
    Becomes(p, IF \/ x.phase = "done"
                  \/ x.op = "create" /\ x.draft.kind = "create" /\ x.draft.actor = x.actor
               THEN Idle ELSE Proceeding(x.op, x.actor, x.room))

\* The release compares the token.
Unlock(p) ==
    LET r == call[p].at IN
    /\ call[p].pc = "unlock"
    /\ lock' = [lock EXCEPT ![r] = IF @ = p THEN Free ELSE @]
    /\ Resume(p)
    /\ UNCHANGED <<sql, cache, bounds>>

-----------------------------------------------------------------------------
(* The SQL transaction of a transition                                     *)
\* (mutant) money is added without its limit
CreditUncapped(wallets, S, amount) ==
    [c \in Characters |-> IF c \in S THEN wallets[c] + amount ELSE wallets[c]]

Credit(wallets, S, amount) ==
    [c \in Characters |->
        IF c \notin S THEN wallets[c]
        ELSE IF wallets[c] + amount > MaxMoney THEN MaxMoney ELSE wallets[c] + amount]

\* (mutant) the version of the row is not compared
AcceptedAnyVersion(p) ==
    LET last == committed[call[p].at] IN
    /\ ~last.pending
    /\ last.detail.status \notin Finished
    /\ \A c \in call[p].draft.added : money[c] >= Bet /\ claim[c] = NoRoom

\* (mutant) no unique key on the claims
AcceptedAnyClaim(p) ==
    LET t == call[p].draft
        last == committed[call[p].at] IN
    /\ last.detail.version + 1 = t.detail.version
    /\ ~last.pending
    /\ last.detail.status \notin Finished
    /\ \A c \in t.added : money[c] >= Bet

Accepted(p) ==
    LET t == call[p].draft
        last == committed[call[p].at] IN
    /\ last.detail.version + 1 = t.detail.version
    /\ ~last.pending
    /\ last.detail.status \notin Finished
    /\ \A c \in t.added : money[c] >= Bet /\ claim[c] = NoRoom

CommitEffect(p) ==
    LET t == call[p].draft
        r == call[p].at IN
    /\ Accepted(p)
    /\ money' = Credit([c \in Characters |-> IF c \in t.added THEN money[c] - Bet ELSE money[c]],
                       t.payees, t.amount)
    /\ claim' = [c \in Characters |-> IF c \in t.added THEN r ELSE claim[c]]
    /\ committed' = [committed EXCEPT ![r] = t]
    /\ UNCHANGED <<cache, lock>>

Commit(p) ==
    LET x == call[p] IN
    /\ x.pc = "commit"
    /\ \/ /\ CommitEffect(p)
          /\ Becomes(p, [Idle EXCEPT !.pc = "room", !.phase = "done", !.at = x.at, !.draft = x.draft])
       \/ ~Accepted(p) /\ Quit(p) /\ UNCHANGED stores
    /\ UNCHANGED bounds

\* SaveRoom alone: no money is moved and no version is made.
SaveEffect(p) ==
    /\ roomKey' = [roomKey EXCEPT ![call[p].at] = call[p].draft.detail]
    /\ UNCHANGED <<sql, mapping, lock>>

Save(p) ==
    /\ call[p].pc = "save"
    /\ SaveEffect(p)
    /\ Quit(p)
    /\ UNCHANGED bounds

UnmapEffect(p) ==
    /\ mapping' = [mapping EXCEPT ![call[p].actor] = IF @ = call[p].at THEN NoRoom ELSE @]
    /\ UNCHANGED <<sql, roomKey, lock>>

Unmap(p) ==
    /\ call[p].pc = "unmap"
    /\ UnmapEffect(p)
    /\ Quit(p)
    /\ UNCHANGED bounds

-----------------------------------------------------------------------------
(* The operations, under the room lock.  Each reads the room's key.        *)
Writing(p, step, t) == Becomes(p, [call[p] EXCEPT !.pc = step, !.ver = 0, !.draft = t])

\* commitTransition: the version of the room must be the one found under the lock.
Propose(p, kind, d, added, removed, payees, amount) ==
    IF d.version = call[p].ver
    THEN Writing(p, "commit",
            [kind |-> kind, actor |-> call[p].actor, detail |-> [d EXCEPT !.version = @ + 1],
             added |-> added, removed |-> removed,
             payees |-> payees, amount |-> amount, pending |-> TRUE])
    ELSE Quit(p)

Rewrite(p, d) == Writing(p, "save", [NoTransition EXCEPT !.detail = d])

\* The mapping leads to another room that is not over.
BusyElsewhere(c, r) ==
    /\ mapping[c] \notin {NoRoom, r}
    /\ roomKey[mapping[c]].status \notin Finished \cup {"missing"}

\* The new ID has been used nowhere.
Fresh(r) ==
    /\ ~Known(r)
    /\ lock[r] = Free
    /\ \A p \in Callers : call[p].at # r

NewRoom(c) ==
    [NoDetail EXCEPT !.version = 1, !.status = "recruiting", !.leader = c,
                     !.members = {c}, !.pool = Bet]

Creation(c) ==
    [NoTransition EXCEPT !.kind = "create", !.actor = c, !.detail = NewRoom(c),
                         !.added = {c}, !.pending = TRUE]

\* CreateRoom; the character or the request may be rejected.
CheckCreate(p) ==
    LET x == call[p] IN
    /\ x.pc = "check"
    /\ \/ /\ ~BusyElsewhere(x.actor, NoRoom)
          /\ \E r \in Rooms :
                /\ Fresh(r)
                /\ Becomes(p, [x EXCEPT !.pc = "lock", !.at = r, !.draft = Creation(x.actor)])
       \/ Return(p)
    /\ UNCHANGED <<stores, bounds>>

At(p, op) ==
    /\ call[p].pc = "act"
    /\ call[p].op = op
    /\ UNCHANGED <<stores, bounds>>

JoinRoom(p) ==
    /\ At(p, "join")
    /\ LET d == roomKey[call[p].at]
           c == call[p].actor IN
       \/ /\ d.status = "recruiting"
          /\ c \notin d.members
          /\ Cardinality(d.members) < MaxMembers
          /\ ~BusyElsewhere(c, call[p].at)
          /\ Propose(p, "join", [d EXCEPT !.members = @ \cup {c}, !.pool = @ + Bet],
                     {c}, {}, {}, 0)
       \/ Quit(p)

SelectTeam(p) ==
    /\ At(p, "select")
    /\ LET d == roomKey[call[p].at]
           c == call[p].actor IN
       IF d.status = "recruiting" /\ d.round = 0 /\ c \in d.members
       THEN \E t \in Teams : Rewrite(p, [d EXCEPT !.team[c] = t])
       ELSE Quit(p)

Withdrawn(d, c) ==
    [d EXCEPT !.members = @ \ {c}, !.team[c] = NoTeam,
              !.pool = IF @ < Bet THEN 0 ELSE @ - Bet]

LeaveRoom(p) ==
    /\ At(p, "leave")
    /\ LET d == roomKey[call[p].at]
           c == call[p].actor
           last == committed[call[p].at] IN
       IF \/ last.kind = "disband" /\ last.actor = c
          \/ c \notin d.members
          \/ d.status = "in_progress"
       THEN Quit(p)
       ELSE IF d.status # "recruiting"
       THEN Goto(p, "unmap")
       ELSE IF c = d.leader
       THEN Propose(p, "disband", [d EXCEPT !.status = "disbanded", !.pool = 0],
                    {}, d.members, d.members, Bet)
       ELSE Propose(p, "leave", Withdrawn(d, c), {}, {c}, {c}, Bet)

StartMatch(p) ==
    /\ At(p, "start")
    /\ LET d == roomKey[call[p].at]
           teams == {d.team[c] : c \in d.members} IN
       IF /\ d.leader = call[p].actor
          /\ d.status = "recruiting" /\ d.round = 0
          /\ Cardinality(d.members) >= MinMembers
          /\ NoTeam \notin teams /\ Cardinality(teams) >= 2
       THEN Rewrite(p, [d EXCEPT !.status = "in_progress", !.round = 1])
       ELSE Quit(p)

Scored(d, w) == IF w \in Teams THEN [d EXCEPT !.score[w] = @ + 1] ELSE d

\* One round, won by w or drawn.
Resolve(p, d, w) ==
    LET e == Scored(d, w)
        winners == {c \in d.members : d.team[c] = w} IN
    IF w \in Teams /\ e.score[w] >= TargetWins
    THEN Propose(p, "settle", [e EXCEPT !.status = "completed", !.pool = 0],
                 {}, {}, winners, d.pool \div Cardinality(winners))
    ELSE IF d.round >= MaxRounds
    THEN Propose(p, "settle", [e EXCEPT !.status = "completed", !.pool = 0],
                 {}, {}, d.members, d.pool \div Cardinality(d.members))
    ELSE Rewrite(p, [e EXCEPT !.round = @ + 1])

AdvanceRound(p) ==
    /\ At(p, "advance")
    /\ LET d == roomKey[call[p].at] IN
       IF /\ committed[call[p].at].kind # "settle"
          /\ d.leader = call[p].actor
          /\ d.status = "in_progress"
       THEN \E w \in {d.team[c] : c \in d.members} \cup {NoTeam} : Resolve(p, d, w)
       ELSE Quit(p)

-----------------------------------------------------------------------------
(* Failures: a command that may have been executed, a call that stops, a   *)
(* lock that is left to its TTL or outlived, keys that expire.             *)
Written(p) ==
    LET x == call[p] IN
    \/ UNCHANGED stores
    \/ x.pc = "room" /\ RoomEffect(p)
    \/ x.pc = "ack" /\ AckEffect(p)
    \/ x.pc = "commit" /\ CommitEffect(p)
    \/ x.pc = "save" /\ SaveEffect(p)
    \/ x.pc = "unmap" /\ UnmapEffect(p)
    \/ /\ x.pc = "maps"
       /\ LET set == Joined(x.draft) IN
          \E S \in SUBSET (set \cup x.draft.removed) :
             (S \subseteq set \/ set \subseteq S) /\ MapsEffect(p, S)

StepFails(p) ==
    /\ faults < MaxFaults
    /\ call[p].pc \in {"read", "room", "maps", "ack", "act", "commit", "save", "unmap"}
    /\ Written(p)
    /\ Quit(p)
    /\ faults' = faults + 1
    /\ UNCHANGED <<lapses, expiries>>

\* The lock is set but the answer is lost, so that the call waits for itself;
\* or the release fails and the call goes on.
LockFails(p) ==
    LET r == call[p].at IN
    /\ faults < MaxFaults
    /\ \/ /\ call[p].pc = "lock" /\ lock[r] = Free
          /\ lock' = [lock EXCEPT ![r] = Orphan]
          /\ UNCHANGED call
       \/ /\ call[p].pc = "unlock" /\ lock[r] = p
          /\ lock' = [lock EXCEPT ![r] = Orphan]
          /\ Resume(p)
    /\ faults' = faults + 1
    /\ UNCHANGED <<sql, cache, lapses, expiries>>

Crash(p) ==
    /\ faults < MaxFaults
    /\ call[p].pc # "idle"
    /\ lock' = [r \in Rooms |-> IF lock[r] = p THEN Orphan ELSE lock[r]]
    /\ Return(p)
    /\ faults' = faults + 1
    /\ UNCHANGED <<sql, cache, lapses, expiries>>

LockExpires(r) ==
    /\ lock[r] = Orphan
    /\ lock' = [lock EXCEPT ![r] = Free]
    /\ UNCHANGED <<sql, cache, call, bounds>>

LockLapses(r) ==
    /\ lock[r] \in Callers
    /\ lapses < MaxLapses
    /\ lapses' = lapses + 1
    /\ lock' = [lock EXCEPT ![r] = Free]
    /\ UNCHANGED <<sql, cache, call, faults, expiries>>

RoomExpires(r) ==
    /\ roomKey[r].status # "missing"
    /\ expiries < MaxExpiries
    /\ expiries' = expiries + 1
    /\ roomKey' = [roomKey EXCEPT ![r] = NoDetail]
    /\ UNCHANGED <<sql, mapping, lock, call, faults, lapses>>

MappingExpires(c) ==
    /\ mapping[c] # NoRoom
    /\ expiries < MaxExpiries
    /\ expiries' = expiries + 1
    /\ mapping' = [mapping EXCEPT ![c] = NoRoom]
    /\ UNCHANGED <<sql, roomKey, lock, call, faults, lapses>>

Step(p) ==
    \/ Lock(p) \/ LockTimesOut(p) \/ Read(p)
    \/ PublishRoom(p) \/ PublishMaps(p) \/ Acknowledge(p) \/ Unlock(p)
    \/ Commit(p) \/ Save(p) \/ Unmap(p)
    \/ CheckCreate(p) \/ JoinRoom(p) \/ SelectTeam(p) \/ LeaveRoom(p)
    \/ StartMatch(p) \/ AdvanceRound(p)

Next ==
    \/ \E p \in Callers, c \in Characters :
          \/ \E op \in {"create", "join"}, r \in Rooms \cup {NoRoom} : BeginAdmission(p, op, c, r)
          \/ \E op \in Operations \ {"create", "join"}, r \in Rooms : Begin(p, op, c, r)
    \/ \E p \in Callers : Step(p) \/ StepFails(p) \/ LockFails(p) \/ Crash(p)
    \/ \E r \in Rooms : LockExpires(r) \/ LockLapses(r) \/ RoomExpires(r)
    \/ \E c \in Characters : MappingExpires(c)

Spec == Init /\ [][Next]_vars

\* The leader of room r, who sees its state, asks to leave it or to fight on.
LeaderAsks(p, r) ==
    \E c \in Characters :
        /\ c = committed[r].detail.leader
        /\ Begin(p, IF roomKey[r].status = "in_progress" THEN "advance" ELSE "leave", c, r)

\* Calls go on, locks expire, and the leader of a room keeps asking.
Fairness ==
    /\ \A p \in Callers : WF_vars(Step(p))
    /\ \A r \in Rooms : WF_vars(LockExpires(r))
    /\ \A r \in Rooms : SF_vars(\E p \in Callers : LeaderAsks(p, r))

FairSpec == Spec /\ Fairness

-----------------------------------------------------------------------------
(* Properties                                                              *)
StoresTypeOK ==
    /\ money \in [Characters -> 0..MaxMoney]
    /\ claim \in [Characters -> Rooms \cup {NoRoom}]
    /\ committed \in [Rooms -> Transitions]
    /\ roomKey \in [Rooms -> Details]
    /\ mapping \in [Characters -> Rooms \cup {NoRoom}]
    /\ lock \in [Rooms -> Callers \cup {Free, Orphan}]

CallsTypeOK ==
    /\ call \in [Callers -> Calls]
    /\ faults \in 0..MaxFaults /\ lapses \in 0..MaxLapses /\ expiries \in 0..MaxExpiries

\* Types of the variables.
TypeOK == StoresTypeOK /\ CallsTypeOK

Open(r) == committed[r].detail.status \notin Finished \cup {"missing"}
Stakes(r) == IF Open(r) THEN committed[r].detail.members ELSE {}

\* A character holds a claim on a room exactly while it has a stake there or
\* its departure is not published: no stake is left without the claim that
\* finds it, and no claim keeps a character out that has been paid
\* (transition_repository's claims against transition.go).
ClaimsMatchStakes ==
    \A c \in Characters, r \in Rooms :
        claim[c] = r <=>
            \/ c \in Stakes(r)
            \/ committed[r].pending /\ c \in Released(committed[r])

Escrow == INSTANCE BetEscrow WITH
    stakes <- [r \in Rooms |-> Stakes(r)],
    closed <- {r \in Rooms : committed[r].detail.status \in Finished}

\* Whatever fails, expires or overlaps, bets are taken, given back and shared
\* as the abstract escrow does: nobody is charged or paid twice.
ImplementsEscrow == Escrow!EscrowSpec

\* Until a lock or a key expires under its users, a free room whose transition
\* is published shows exactly the roster and the pool of that transition.
CacheFollowsClaim ==
    lapses = 0 /\ expiries = 0 =>
        \A r \in Rooms :
            lock[r] = Free /\ ~committed[r].pending /\ Open(r) =>
                /\ roomKey[r].version = committed[r].detail.version
                /\ roomKey[r].members = committed[r].detail.members
                /\ roomKey[r].pool = Bet * Cardinality(roomKey[r].members)

\* A leader that goes on gets everybody's bet out of the room again, although
\* commands fail and calls stop between the commit and its publication.
BetsReturn ==
    \A c \in Characters : claim[c] # NoRoom ~> claim[c] = NoRoom
=============================================================================
