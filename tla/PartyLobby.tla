----------------------------- MODULE PartyLobby -----------------------------
(***************************************************************************)
(* The waiting lobbies of parties (internal/party) and how their members   *)
(* leave them for an adventure.  A lobby, the party of a character and the *)
(* ready answers are Valkey keys; a request on a lobby holds a lease of    *)
(* ten seconds in Valkey, then the row in SQL of the run that the lobby    *)
(* may become (WithWaitingLobby), then the rows of the characters, in the  *)
(* order of their IDs.  The admission of a run is committed in SQL, and    *)
(* the lobby is cleared afterwards.  Every write is one command or one     *)
(* transaction; the reads of a request between two locks are one step.     *)
(***************************************************************************)
EXTENDS Actors

CONSTANTS
    Heroes,          \* characters
    MemberOrder,     \* the order of their IDs
    Parties,
    NoParty,
    Elsewhere,       \* an activity other than a run of a party
    Vacant,          \* no lease
    Left,            \* the lease of a request that is no more
    MaxSeats,        \* max_members
    MaxLeaseLapses,  \* bound on requests that outlast their lease
    MaxMishaps       \* bound on failed commands, process stops, expiries of
                     \* lobbies and characters' keys, and activities that end

ASSUME PartyAssumption ==
    /\ IsFiniteSet(Heroes) /\ Nobody \notin Heroes
    /\ MemberOrder \in [Heroes -> Nat]
    /\ \A g, h \in Heroes : MemberOrder[g] = MemberOrder[h] => g = h
    /\ {NoParty, Elsewhere} \cap Parties = {} /\ NoParty # Elsewhere
    /\ {Vacant, Left} \cap Callers = {} /\ Vacant # Left
    /\ MaxSeats \in Nat \ {0}
    /\ MaxLeaseLapses \in Nat /\ MaxMishaps \in Nat

VARIABLES
    lobby,       \* party2:party:lobby:<id>
    belongs,     \* party2:party:character:<id>
    ready,       \* party2:party:ready:<party>:<character>
    lease,       \* party2:party:lock:adventure:<id>
    runRow,      \* locks of the rows of normal_adventure_runs
    heroRow,     \* locks of the rows of characters
    admission,   \* normal_adventure_runs.admission_json
    engaged,     \* normal_adventure_enrollments, and the other activities
    born,        \* the party IDs handed out
    request,     \* what each request is doing and remembers
    leaseLapses, \* how often a lease lapsed
    mishaps      \* how often something else happened that is bounded

partyKeys == <<lobby, belongs, ready>>
partyRows == <<runRow, heroRow>>
partySql == <<admission, engaged>>
partyCounts == <<leaseLapses, mishaps>>
partyVars == <<partyKeys, lease, partyRows, partySql, born, request, partyCounts>>

\* LobbyState.  led says that the leader's member entry still has IsLeader.
Lobbies ==
    [status : {"none", "recruiting", "in_progress", "disbanded"},
     leader : Heroes \cup {Nobody}, led : BOOLEAN, members : SUBSET Heroes]

NoLobby == [status |-> "none", leader |-> Nobody, led |-> FALSE, members |-> {}]

\* NormalAdmission
Admissions == [leader : Heroes \cup {Nobody}, roster : SUBSET Heroes]

NoAdmission == [leader |-> Nobody, roster |-> {}]

\* A request: its next step, who asks what of which party, whom it is about,
\* the roster it has read, and the members its present loop has still to visit.
LobbyRequests ==
    [pc : {"idle", "read", "hero", "save", "name", "write", "claim", "reopen", "unready",
           "undo", "close", "drop", "commit", "release", "clear"},
     kind : {"create", "join", "leave", "kick", "disband", "ready", "unready",
             "start", "enter", "depart"},
     actor : Heroes \cup {Nobody}, party : Parties \cup {NoParty}, about : Heroes \cup {Nobody},
     seen : SUBSET Heroes, todo : SUBSET Heroes]

NoRequest == [pc |-> "idle", kind |-> "create", actor |-> Nobody, party |-> NoParty,
              about |-> Nobody, seen |-> {}, todo |-> {}]

LobbyInit ==
    /\ lobby = [q \in Parties |-> NoLobby]
    /\ belongs = [h \in Heroes |-> NoParty]
    /\ ready = {}
    /\ lease = [q \in Parties |-> Vacant]
    /\ runRow = [q \in Parties |-> Nobody]
    /\ heroRow = [h \in Heroes |-> Nobody]
    /\ admission = [q \in Parties |-> NoAdmission]
    /\ engaged = [h \in Heroes |-> NoParty]
    /\ born = {}
    /\ request = [c \in Callers |-> NoRequest]
    /\ leaseLapses = 0 /\ mishaps = 0

Continues(c, x) == request' = [request EXCEPT ![c] = x]
Proceed(c, pc) == Continues(c, [request[c] EXCEPT !.pc = pc])

\* GetParty does not find a disbanded lobby.
Found(q) == lobby[q].status \in {"recruiting", "in_progress"}
Stored(q) == lobby[q].status # "none"
ReadyIn(q) == {h \in Heroes : <<q, h>> \in ready}

\* GetActivePartyByCharacter
Active(h) == belongs[h] # NoParty /\ Found(belongs[h]) /\ h \in lobby[belongs[h]].members

\* COMMIT and ROLLBACK give up the row locks.
RowsFreed(c) ==
    /\ runRow' = [q \in Parties |-> IF runRow[q] = c THEN Nobody ELSE runRow[q]]
    /\ heroRow' = [h \in Heroes |-> IF heroRow[h] = c THEN Nobody ELSE heroRow[h]]

\* The transaction is over; the lease, if there is one, is released next.
Ended(c) == IF request[c].kind = "create" THEN Continues(c, NoRequest) ELSE Proceed(c, "release")

Denied(c) == RowsFreed(c) /\ Ended(c)

-----------------------------------------------------------------------------
(* Requests                                                                *)

\* The requests that will hand out an ID, of which Parties bounds the number.
Creating == {c \in Callers : request[c].pc \in {"hero", "save"} /\ request[c].kind = "create"}

\* CreateParty begins outside of any lock.
AskCreate(c, h) ==
    /\ request[c].pc = "idle"
    /\ Cardinality(born) + Cardinality(Creating) < Cardinality(Parties)
    /\ ~Active(h)
    /\ Continues(c, [NoRequest EXCEPT !.pc = "hero", !.kind = "create", !.actor = h,
                                    !.seen = {h}, !.todo = {h}])
    /\ UNCHANGED <<partyKeys, lease, partyRows, partySql, born, partyCounts>>

\* WithPartyAdventureLock: a lobby that is busy refuses at once.
TakesLease(c, kind, h, q, t) ==
    /\ request[c].pc = "idle"
    /\ q \in born /\ lease[q] = Vacant
    /\ lease' = [lease EXCEPT ![q] = c]
    /\ Continues(c, [NoRequest EXCEPT !.pc = "read", !.kind = kind, !.actor = h, !.party = q, !.about = t])
    /\ UNCHANGED <<partyKeys, partyRows, partySql, born, partyCounts>>

\* JoinParty, LeaveParty, DisbandParty, SetReady, StartPartyAdventure; and
\* the start of a dungeon or a challenge for the party (WithReadyRoster).
AskLobby(c, kind, h, q) ==
    /\ kind \in {"join", "leave", "disband", "ready", "unready", "start", "depart"}
    /\ TakesLease(c, kind, h, q, h)

AskKick(c, h, q, t) == h # t /\ TakesLease(c, "kick", h, q, t)

\* EnterParty looks for a committed admission first.
AskEnter(c, h, q) == admission[q] = NoAdmission /\ TakesLease(c, "enter", h, q, h)

\* (mutant) the receipt of a run that was admitted is returned at once
EnterAgainAnswers(c, h, q) ==
    /\ request[c].pc = "idle"
    /\ admission[q].leader = h
    /\ UNCHANGED partyVars

\* EnterParty of an admitted lobby clears what is left of it.
EnterAgain(c, h, q) ==
    /\ request[c].pc = "idle"
    /\ admission[q].leader = h
    /\ Continues(c, [NoRequest EXCEPT !.pc = "clear", !.kind = "enter", !.actor = h, !.party = q,
                              !.todo = admission[q].roster \cup {h}])
    /\ UNCHANGED <<partyKeys, lease, partyRows, partySql, born, partyCounts>>

-----------------------------------------------------------------------------
(* The locks and the checks of a request                                   *)

\* (mutant) the handoff is not looked at
WaitingAny(q) == TRUE

\* WithWaitingLobby: no admission was committed for the lobby.
Waiting(q) == admission[q] = NoAdmission

\* The roster of a start: all have said they are ready.  StartPartyAdventure
\* does not ask whether the leader is one of them.
Consenting(x, l) ==
    /\ l.leader = x.actor /\ l.status = "recruiting"
    /\ IF x.kind = "start" THEN l.members # {} ELSE x.actor \in l.members
    /\ l.members \subseteq ReadyIn(x.party)

Admits(x, l) ==
    CASE x.kind = "join" -> /\ l.status = "recruiting" /\ Cardinality(l.members) < MaxSeats
                            /\ ~Active(x.actor)
      [] x.kind = "kick" -> l.leader = x.actor /\ x.about \in l.members
      [] x.kind = "disband" -> l.leader = x.actor
      [] x.kind \in {"leave", "ready", "unready"} -> x.actor \in l.members
      [] OTHER -> Consenting(x, l)

Closes(x, l) == x.kind = "disband" \/ (x.kind = "leave" /\ x.actor = l.leader /\ l.led)

\* The row of the run is taken unless the lobby departs for another activity.
ReadLobby(c) ==
    LET x == request[c]
        q == x.party
        l == lobby[q]
        S == IF x.kind = "join" THEN {x.actor} ELSE l.members IN
    /\ x.pc = "read"
    /\ x.kind # "depart" => runRow[q] = Nobody
    /\ IF (x.kind = "depart" \/ Waiting(q)) /\ Found(q) /\ Admits(x, l)
       THEN /\ IF x.kind \in {"join", "start", "enter", "depart"}
               THEN Continues(c, [x EXCEPT !.pc = "hero", !.seen = S, !.todo = S])
               ELSE Proceed(c, IF Closes(x, l) THEN "close" ELSE "write")
            /\ runRow' = IF x.kind = "depart" THEN runRow ELSE [runRow EXCEPT ![q] = c]
       ELSE Ended(c) /\ UNCHANGED runRow
    /\ UNCHANGED <<partyKeys, lease, heroRow, partySql, born, partyCounts>>

\* (mutant) what a member is engaged in does not matter
DisengagedAny(S) == TRUE

\* The activity check of every member of the roster, under their rows.
Disengaged(S) == \A h \in S : engaged[h] = NoParty

NextHero(x) == CHOOSE h \in x.todo : \A g \in x.todo : MemberOrder[h] <= MemberOrder[g]

AfterHeroes(x) ==
    CASE x.kind = "create" -> "save" [] x.kind = "join" -> "write" [] x.kind = "start" -> "claim"
      [] OTHER -> "commit"

LockHero(c) ==
    LET x == request[c]
        h == NextHero(x) IN
    /\ x.pc = "hero"
    /\ heroRow[h] = Nobody
    /\ \/ /\ x.todo # {h}
          /\ Continues(c, [x EXCEPT !.todo = @ \ {h}])
          /\ heroRow' = [heroRow EXCEPT ![h] = c] /\ UNCHANGED runRow
       \/ /\ x.todo = {h} /\ Disengaged(x.seen)
          /\ Continues(c, [x EXCEPT !.todo = {}, !.pc = AfterHeroes(x)])
          /\ heroRow' = [heroRow EXCEPT ![h] = c] /\ UNCHANGED runRow
       \/ x.todo = {h} /\ ~Disengaged(x.seen) /\ Denied(c)
    /\ UNCHANGED <<partyKeys, lease, partySql, born, partyCounts>>

-----------------------------------------------------------------------------
(* The writes of a request in Valkey                                       *)

\* The lobby holds the member, with a seat to spare for one who is new.
Addable(q, h) == Found(q) /\ (h \in lobby[q].members \/ Cardinality(lobby[q].members) < MaxSeats)

\* AddMember: the entry of a leader that joins again is one of a member.
Add(q, h, leads) ==
    /\ lobby' = [lobby EXCEPT ![q].members = @ \cup {h},
                             ![q].led = IF h = lobby[q].leader THEN leads ELSE @]
    /\ belongs' = [belongs EXCEPT ![h] = q]
    /\ ready' = IF leads THEN ready \cup {<<q, h>>} ELSE ready \ {<<q, h>>}

\* RemoveMember deletes the key of the character, whichever party it names.
Remove(q, h) ==
    /\ lobby' = [lobby EXCEPT ![q].members = @ \ {h}]
    /\ belongs' = [belongs EXCEPT ![h] = NoParty]
    /\ ready' = ready \ {<<q, h>>}

Writable(x) ==
    CASE x.kind \in {"create", "join"} -> Addable(x.party, x.actor)
      [] x.kind \in {"ready", "unready"} -> x.actor \in lobby[x.party].members
      [] OTHER -> Stored(x.party)

Mutate(x) ==
    CASE x.kind \in {"create", "join"} -> Add(x.party, x.actor, x.kind = "create")
      [] x.kind \in {"leave", "kick"} -> Remove(x.party, x.about)
      [] x.kind = "ready" -> ready' = ready \cup {<<x.party, x.actor>>} /\ UNCHANGED <<lobby, belongs>>
      [] OTHER -> ready' = ready \ {<<x.party, x.actor>>} /\ UNCHANGED <<lobby, belongs>>

WriteLobby(c) ==
    /\ request[c].pc = "write"
    /\ IF Writable(request[c])
       THEN Mutate(request[c]) /\ Proceed(c, "commit") /\ UNCHANGED partyRows
       ELSE Denied(c) /\ UNCHANGED partyKeys
    /\ UNCHANGED <<lease, partySql, born, partyCounts>>

\* SaveParty stores the lobby, without members, and then the leader's key.
SaveParty(c, q) ==
    LET x == request[c] IN
    /\ x.pc = "save" /\ q \notin born
    /\ lobby' = [lobby EXCEPT ![q] = [status |-> "recruiting", leader |-> x.actor,
                                     led |-> FALSE, members |-> {}]]
    /\ born' = born \cup {q}
    /\ Continues(c, [x EXCEPT !.pc = "name", !.party = q])
    /\ UNCHANGED <<belongs, ready, lease, partyRows, partySql, partyCounts>>

NameLeader(c) ==
    /\ request[c].pc = "name"
    /\ belongs' = [belongs EXCEPT ![request[c].actor] = request[c].party]
    /\ Proceed(c, "write")
    /\ UNCHANGED <<lobby, ready, lease, partyRows, partySql, born, partyCounts>>

\* UpdateParty writes the party that was read with another status.
HasStatus(q, s) == lobby' = [lobby EXCEPT ![q].status = s]

\* A step that begins with an UpdateParty: the lobby may be gone.
Updates(c, s, next) ==
    LET q == request[c].party IN
    /\ IF Stored(q)
       THEN HasStatus(q, s) /\ Continues(c, next) /\ UNCHANGED partyRows
       ELSE Denied(c) /\ UNCHANGED lobby
    /\ UNCHANGED <<belongs, ready, lease, partySql, born, partyCounts>>

\* DisbandParty, and LeaveParty of the leader: UpdateParty, and the members
\* that DeleteParty reads.
MarkDisbanded(c) ==
    LET l == lobby[request[c].party] IN
    /\ request[c].pc = "close"
    /\ Updates(c, "disbanded", [request[c] EXCEPT !.pc = "drop", !.todo = l.members \cup {l.leader}])

\* DeleteParty deletes the keys of the members one after another, whatever
\* party they name, and the lobby.
DeleteParty(c) ==
    LET x == request[c]
        q == x.party IN
    /\ x.pc = "drop"
    /\ \/ \E h \in x.todo :
            /\ belongs' = [belongs EXCEPT ![h] = NoParty]
            /\ ready' = ready \ {<<q, h>>}
            /\ Continues(c, [x EXCEPT !.todo = @ \ {h}]) /\ UNCHANGED lobby
       \/ /\ x.todo = {}
          /\ lobby' = [lobby EXCEPT ![q] = NoLobby]
          /\ Proceed(c, "commit") /\ UNCHANGED <<belongs, ready>>
    /\ UNCHANGED <<lease, partyRows, partySql, born, partyCounts>>

-----------------------------------------------------------------------------
(* A battle of the party                                                   *)

\* StartPartyAdventure claims the lobby, fights and settles, and reopens it.
Claim(c) == request[c].pc = "claim" /\ Updates(c, "in_progress", [request[c] EXCEPT !.pc = "reopen"])

Reopen(c) ==
    LET x == request[c] IN
    /\ x.pc = "reopen"
    /\ IF Stored(x.party)
       THEN HasStatus(x.party, "recruiting") /\ Continues(c, [x EXCEPT !.pc = "unready", !.todo = x.seen])
       ELSE Proceed(c, "undo") /\ UNCHANGED lobby
    /\ UNCHANGED <<belongs, ready, lease, partyRows, partySql, born, partyCounts>>

\* The answers of the members are taken back, one after another.
Unready(c) ==
    LET x == request[c] IN
    /\ x.pc = "unready"
    /\ \E h \in x.todo :
         IF h \in lobby[x.party].members
         THEN /\ ready' = ready \ {<<x.party, h>>}
              /\ Continues(c, [x EXCEPT !.todo = @ \ {h},
                                  !.pc = IF x.todo = {h} THEN "commit" ELSE "unready"])
         ELSE Proceed(c, "undo") /\ UNCHANGED ready
    /\ UNCHANGED <<lobby, belongs, lease, partyRows, partySql, born, partyCounts>>

\* The deferred UpdateParty of a start that failed, before the rollback.
Undo(c) ==
    LET q == request[c].party IN
    /\ request[c].pc = "undo"
    /\ IF Stored(q) THEN HasStatus(q, "recruiting") ELSE UNCHANGED lobby
    /\ Denied(c)
    /\ UNCHANGED <<belongs, ready, lease, partySql, born, partyCounts>>

-----------------------------------------------------------------------------
(* The end of a request                                                    *)

\* EnrollRun takes effect, or the start of a dungeon or a challenge.
CommitLobby(c) ==
    LET x == request[c]
        Engages(a) == engaged' = [h \in Heroes |-> IF h \in x.seen THEN a ELSE engaged[h]] IN
    /\ x.pc = "commit"
    /\ \/ /\ x.kind = "enter"
          /\ admission' = [admission EXCEPT ![x.party] = [leader |-> x.actor, roster |-> x.seen]]
          /\ Engages(x.party)
       \/ x.kind = "depart" /\ Engages(Elsewhere) /\ UNCHANGED admission
       \/ x.kind \notin {"enter", "depart"} /\ UNCHANGED partySql
    /\ RowsFreed(c) /\ Ended(c)
    /\ UNCHANGED <<partyKeys, lease, born, partyCounts>>

\* The lease is deleted if it is still that of this request.  EnterParty
\* goes on to clear the lobby if a run has been admitted.
ReleaseLease(c) ==
    LET x == request[c]
        a == admission[x.party] IN
    /\ x.pc = "release"
    /\ lease' = [lease EXCEPT ![x.party] = IF @ = c THEN Vacant ELSE @]
    /\ IF x.kind = "enter" /\ a.leader = x.actor
       THEN Continues(c, [x EXCEPT !.pc = "clear", !.seen = {}, !.todo = a.roster \cup {a.leader}])
       ELSE Continues(c, NoRequest)
    /\ UNCHANGED <<partyKeys, partyRows, partySql, born, partyCounts>>

\* CleanupParty, with the roster that SQL has stored and without any lock.
CleanupParty(c) ==
    LET x == request[c]
        q == x.party IN
    /\ x.pc = "clear"
    /\ \/ \E h \in x.todo :
            /\ belongs' = [belongs EXCEPT ![h] = IF @ = q THEN NoParty ELSE @]
            /\ ready' = ready \ {<<q, h>>}
            /\ Continues(c, [x EXCEPT !.todo = @ \ {h}]) /\ UNCHANGED lobby
       \/ /\ x.todo = {}
          /\ lobby' = [lobby EXCEPT ![q] = NoLobby]
          /\ Continues(c, NoRequest) /\ UNCHANGED <<belongs, ready>>
    /\ UNCHANGED <<lease, partyRows, partySql, born, partyCounts>>

-----------------------------------------------------------------------------
(* What goes wrong, and what ends by itself                                *)

Mishap == mishaps < MaxMishaps /\ mishaps' = mishaps + 1 /\ UNCHANGED leaseLapses

\* A command fails, or its answer is lost.
RequestFails(c) ==
    LET x == request[c] IN
    /\ Mishap
    /\ \/ x.pc \in {"reopen", "unready"} /\ Proceed(c, "undo") /\ UNCHANGED <<lobby, partyRows>>
       \/ x.pc = "clear" /\ Continues(c, NoRequest) /\ UNCHANGED <<lobby, partyRows>>
       \/ x.pc = "claim" /\ Stored(x.party) /\ HasStatus(x.party, "in_progress") /\ Denied(c)
       \/ x.pc \notin {"idle", "reopen", "unready", "release", "clear"} /\ Denied(c) /\ UNCHANGED lobby
    /\ UNCHANGED <<belongs, ready, lease, partySql, born>>

\* The process stops: SQL gives up the rows, the lease stays until it expires.
RequestStops(c) ==
    /\ Mishap
    /\ request[c].pc # "idle"
    /\ Continues(c, NoRequest) /\ RowsFreed(c)
    /\ lease' = [r \in Parties |-> IF lease[r] = c THEN Left ELSE lease[r]]
    /\ UNCHANGED <<partyKeys, partySql, born>>

\* A request outlasts its lease, which nothing renews.
Lapse(q) ==
    /\ leaseLapses < MaxLeaseLapses /\ leaseLapses' = leaseLapses + 1
    /\ lease[q] \in Callers
    /\ lease' = [lease EXCEPT ![q] = Vacant]
    /\ UNCHANGED <<partyKeys, partyRows, partySql, born, request, mishaps>>

LeaseExpires(q) ==
    /\ lease[q] = Left
    /\ lease' = [lease EXCEPT ![q] = Vacant]
    /\ UNCHANGED <<partyKeys, partyRows, partySql, born, request, partyCounts>>

\* Every write that names a party in the key of a character gives the lobby
\* the same time to live, and most other writes prolong that of the lobby.
BelongsExpires(h) ==
    /\ Mishap
    /\ belongs[h] # NoParty
    /\ belongs' = [belongs EXCEPT ![h] = NoParty]
    /\ UNCHANGED <<lobby, ready, lease, partyRows, partySql, born, request>>

LobbyExpires(q) ==
    /\ Mishap
    /\ Stored(q) /\ \A h \in Heroes : belongs[h] # q
    /\ lobby' = [lobby EXCEPT ![q] = NoLobby]
    /\ UNCHANGED <<belongs, ready, lease, partyRows, partySql, born, request>>

\* A ready answer is good for 60 seconds.
ReadyExpires(q, h) ==
    /\ <<q, h>> \in ready
    /\ ready' = ready \ {<<q, h>>}
    /\ UNCHANGED <<lobby, belongs, lease, partyRows, partySql, born, request, partyCounts>>

\* The activity of a character ends, under the row of the character.
ActivityEnds(h) ==
    /\ Mishap
    /\ engaged[h] # NoParty /\ heroRow[h] = Nobody
    /\ engaged' = [engaged EXCEPT ![h] = NoParty]
    /\ UNCHANGED <<partyKeys, lease, partyRows, admission, born, request>>

LobbyAsks(c) ==
    \E h \in Heroes :
      \/ AskCreate(c, h)
      \/ \E q \in Parties :
           \/ \E kind \in {"join", "leave", "disband", "ready", "unready", "start", "depart"} :
                AskLobby(c, kind, h, q)
           \/ \E t \in Heroes : AskKick(c, h, q, t)
           \/ AskEnter(c, h, q) \/ EnterAgain(c, h, q)

LobbyStep(c) ==
    \/ ReadLobby(c) \/ LockHero(c) \/ WriteLobby(c) \/ NameLeader(c) \/ MarkDisbanded(c) \/ DeleteParty(c)
    \/ \E q \in Parties : SaveParty(c, q)
    \/ Claim(c) \/ Reopen(c) \/ Unready(c) \/ Undo(c)
    \/ CommitLobby(c) \/ ReleaseLease(c) \/ CleanupParty(c)

LobbyNext ==
    \/ \E c \in Callers : LobbyAsks(c) \/ LobbyStep(c) \/ RequestFails(c) \/ RequestStops(c)
    \/ \E q \in Parties :
         Lapse(q) \/ LeaseExpires(q) \/ LobbyExpires(q) \/ \E h \in Heroes : ReadyExpires(q, h)
    \/ \E h \in Heroes : BelongsExpires(h) \/ ActivityEnds(h)

LobbySpec == LobbyInit /\ [][LobbyNext]_partyVars

\* A request goes on, a lease that was left expires, and the leader of an
\* admitted lobby asks again.
LobbyFairness ==
    /\ \A c \in Callers : WF_partyVars(LobbyStep(c))
    /\ \A q \in Parties :
         /\ WF_partyVars(LeaseExpires(q))
         /\ SF_partyVars(\E c \in Callers, h \in Heroes : EnterAgain(c, h, q))

FairLobbySpec == LobbySpec /\ LobbyFairness

-----------------------------------------------------------------------------
(* Properties                                                              *)

LobbyTypeOK ==
    /\ lobby \in [Parties -> Lobbies]
    /\ belongs \in [Heroes -> Parties \cup {NoParty}]
    /\ ready \subseteq Parties \X Heroes
    /\ lease \in [Parties -> Callers \cup {Vacant, Left}]
    /\ runRow \in [Parties -> Callers \cup {Nobody}]
    /\ heroRow \in [Heroes -> Callers \cup {Nobody}]
    /\ admission \in [Parties -> Admissions]
    /\ engaged \in [Heroes -> Parties \cup {NoParty, Elsewhere}]
    /\ born \subseteq Parties
    /\ request \in [Callers -> LobbyRequests]
    /\ leaseLapses \in 0..MaxLeaseLapses /\ mishaps \in 0..MaxMishaps

\* A step that clears a lobby, or leaves it alone.
OnlyCleared(q) ==
    /\ lobby'[q] \in {lobby[q], NoLobby}
    /\ \A h \in Heroes : /\ belongs'[h] = q => belongs[h] = q
                       /\ <<q, h>> \in ready' => <<q, h>> \in ready

\* A run that was admitted has the roster of its lobby for good: from then on
\* the lobby is only cleared, and nobody joins it, leaves it, answers or
\* fights in it, even if the lease of another request on it has lapsed.
\* (WithWaitingLobby, EnrollRun)
HandoffFreezesRoster ==
    [][\A q \in Parties : admission[q] # NoAdmission => OnlyCleared(q)]_partyVars

\* A battle of the party is settled for members who are in no other activity,
\* and with the answers spent that they gave for it: no second battle, of a
\* request whose predecessor outlasted its lease, is fought on them.
\* (StartPartyAdventure)
ConsentIsSpent ==
    \A c \in Callers :
      LET x == request[c] IN
      x.kind = "start" /\ x.pc = "commit" =>
        \A h \in x.seen : engaged[h] = NoParty /\ <<x.party, h>> \notin ready

\* Once a run is admitted its lobby is cleared, and so are the keys that name
\* it: its members can gather in a new party after the run.  (EnterParty,
\* CleanupParty)
HandoffCleared ==
    \A q \in Parties :
      admission[q] # NoAdmission ~>
        ~Stored(q) /\ ReadyIn(q) = {} /\ \A h \in Heroes : belongs[h] # q

\* A character is a member of one active party at most.
\* (docs/design/party-system.md, Single Active Party Constraint)
SingleActiveParty ==
    \A h \in Heroes : \A q, r \in Parties :
      Found(q) /\ Found(r) /\ h \in lobby[q].members \cap lobby[r].members => q = r
=============================================================================
