-------------------------- MODULE PartyLobbyProofs --------------------------
(***************************************************************************)
(* Proofs about PartyLobby, for every number of characters, parties,       *)
(* requests and mishaps.                                                   *)
(*                                                                         *)
(* The lease does not occur in the inductive invariant: it may lapse, and  *)
(* what keeps the requests on a lobby apart are the rows in SQL.  The row  *)
(* of the run keeps an admission away until the request that holds it is   *)
(* over (OnRun), the rows of the characters keep their activities away     *)
(* (AtHeroes).  A creation holds no row of a run; its leader, whom it has  *)
(* not made a member yet, keeps an admission away (Founding, Related).     *)
(***************************************************************************)
EXTENDS PartyLobby, TLAPS

\* A request that holds the row of the run of its lobby.
OnRun(x) ==
    /\ x.kind \notin {"create", "depart"}
    /\ x.pc \in {"hero", "write", "claim", "reopen", "unready", "undo", "close", "drop", "commit"}

\* A request that takes the rows of the characters it has seen, or holds them.
AtHeroes(x) ==
    /\ x.kind \in {"create", "join", "start", "enter", "depart"}
    /\ x.pc \in {"hero", "save", "name", "write", "claim", "reopen", "unready", "undo", "commit"}

\* A creation whose lobby others can see already.
Founding(x) == x.kind = "create" /\ x.pc \in {"name", "write"}

\* An admission that is not committed yet.
Entering(x) == x.kind = "enter" /\ x.pc \in {"hero", "commit"}

\* The kinds that get to a step.
KindOK(x) ==
    /\ x.pc \in {"save", "name"} => x.kind = "create"
    /\ x.pc = "hero" => x.kind \in {"create", "join", "start", "enter", "depart"}
    /\ x.pc = "write" => x.kind \in {"create", "join", "leave", "kick", "ready", "unready"}
    /\ x.pc \in {"claim", "reopen", "unready", "undo"} => x.kind = "start"
    /\ x.pc \in {"close", "drop"} => x.kind \in {"leave", "disband"}
    /\ x.pc \in {"read", "release", "clear"} => x.kind # "create"

NamesOK(x) ==
    /\ x.pc # "idle" => x.actor \in Heroes
    /\ x.pc # "idle" /\ x.kind # "create" => x.about \in Heroes \/ x.pc = "clear"
    /\ x.pc # "idle" /\ x.kind = "create" => x.seen = {x.actor}
    /\ x.pc # "idle" /\ (x.kind # "create" \/ x.pc \notin {"hero", "save"}) => x.party \in born
    /\ Entering(x) => x.actor \in x.seen

RowsOK(c, x) ==
    /\ OnRun(x) => runRow[x.party] = c /\ Waiting(x.party)
    /\ AtHeroes(x) /\ x.pc = "hero" => \A h \in x.seen \ x.todo : heroRow[h] = c
    /\ AtHeroes(x) /\ x.pc # "hero" => \A h \in x.seen : heroRow[h] = c /\ engaged[h] = NoParty

FoundingOK(x) ==
    Founding(x) => Waiting(x.party) /\ (Stored(x.party) => lobby[x.party].leader = x.actor)

AnswersOK(x) ==
    /\ x.pc = "unready" => \A h \in x.seen \ x.todo : <<x.party, h>> \notin ready
    /\ x.kind = "start" /\ x.pc = "commit" => \A h \in x.seen : <<x.party, h>> \notin ready

RequestOK(c, x) == KindOK(x) /\ NamesOK(x) /\ RowsOK(c, x) /\ FoundingOK(x) /\ AnswersOK(x)

\* Only the leader whom a creation holds could admit its lobby.
Related(x, y) == Founding(x) /\ Entering(y) /\ x.party = y.party => x.actor = y.actor

LobbyIInv ==
    /\ LobbyTypeOK
    /\ \A q \in Parties : admission[q] # NoAdmission => q \in born
    /\ \A q \in Parties : Stored(q) => lobby[q].leader \in Heroes
    /\ \A c \in Callers : RequestOK(c, request[c])
    /\ \A c, d \in Callers : Related(request[c], request[d])

-----------------------------------------------------------------------------
(* The steps of the other requests                                         *)

\* What a step of c may do to what the other requests rely on.  Of the steps
\* that belong to no request, c is none.
Touches(c) ==
    /\ born \subseteq born'
    /\ \A q \in Parties : runRow[q] \notin {c, Nobody} => runRow'[q] = runRow[q]
    /\ \A h \in Heroes : heroRow[h] \notin {c, Nobody} => heroRow'[h] = heroRow[h]
    /\ \A q \in Parties : admission'[q] # admission[q] =>
          /\ runRow[q] = c /\ q \in born
          /\ \A d \in Callers : Founding(request[d]) => request[d].party # q
    /\ \A h \in Heroes : heroRow[h] = c \/ engaged'[h] \in {engaged[h], NoParty}
    /\ \A q \in Parties, h \in Heroes :
          <<q, h>> \in ready' => <<q, h>> \in ready \/ runRow[q] = c \/ heroRow[h] = c
    /\ \A q \in born : Stored(q)' => Stored(q) /\ lobby'[q].leader = lobby[q].leader

\* The types of all but the requests.
TypesNext ==
    /\ \A q \in Parties : Stored(q)' => lobby'[q].leader \in Heroes
    /\ lobby' \in [Parties -> Lobbies]
    /\ belongs' \in [Heroes -> Parties \cup {NoParty}]
    /\ ready' \subseteq Parties \X Heroes
    /\ lease' \in [Parties -> Callers \cup {Vacant, Left}]
    /\ runRow' \in [Parties -> Callers \cup {Nobody}]
    /\ heroRow' \in [Heroes -> Callers \cup {Nobody}]
    /\ admission' \in [Parties -> Admissions]
    /\ engaged' \in [Heroes -> Parties \cup {NoParty, Elsewhere}]
    /\ born' \subseteq Parties
    /\ leaseLapses' \in 0..MaxLeaseLapses /\ mishaps' \in 0..MaxMishaps

\* HandoffFreezesRoster, of a step.
FrozenNow ==
    \A q \in Parties : admission[q] # NoAdmission => OnlyCleared(q)

\* The fields of a request.
LEMMA RequestFields ==
    ASSUME NEW x \in LobbyRequests
    PROVE  /\ x.actor \in Heroes \cup {Nobody} /\ x.party \in Parties \cup {NoParty}
           /\ x.about \in Heroes \cup {Nobody} /\ x.seen \in SUBSET Heroes /\ x.todo \in SUBSET Heroes
           /\ x.pc \in {"idle", "read", "hero", "save", "name", "write", "claim", "reopen", "unready",
                        "undo", "close", "drop", "commit", "release", "clear"}
           /\ x.kind \in {"create", "join", "leave", "kick", "disband", "ready", "unready",
                          "start", "enter", "depart"}
BY DEF LobbyRequests

LEMMA NoRequestTyped ==
    /\ NoRequest \in LobbyRequests /\ NoRequest.pc = "idle" /\ NoRequest.kind = "create"
    /\ NoLobby \in Lobbies /\ NoLobby.status = "none" /\ NoAdmission \in Admissions
BY DEF NoRequest, LobbyRequests, NoLobby, Lobbies, NoAdmission, Admissions

LEMMA OtherKeeps ==
    ASSUME LobbyIInv, NEW c, Touches(c), NEW d \in Callers \ {c},
           NEW x \in LobbyRequests, x = request[d]
    PROVE  RequestOK(d, x)'
<1>1. RequestOK(d, x) /\ d # Nobody
    BY ActorsAssumption DEF LobbyIInv
<1>2. x.seen \in SUBSET Heroes /\ x.todo \in SUBSET Heroes
    BY RequestFields
<1>3. KindOK(x)'
    BY <1>1 DEF RequestOK, KindOK
<1>4. NamesOK(x)'
    BY <1>1 DEF RequestOK, NamesOK, Touches, Entering
<1>5. \/ x.party \in born /\ x.party \in Parties
      \/ ~(OnRun(x) \/ Founding(x) \/ x.kind = "start")
      \/ x.pc = "idle"
    BY <1>1, RequestFields DEF RequestOK, NamesOK, OnRun, Founding, LobbyIInv, LobbyTypeOK
<1>6. RowsOK(d, x)'
    <2>1. ASSUME OnRun(x) PROVE runRow'[x.party] = d /\ Waiting(x.party)'
        <3>1. runRow[x.party] = d /\ Waiting(x.party) /\ x.party \in Parties
            BY <1>1, <1>5, <2>1 DEF RequestOK, RowsOK, OnRun
        <3> QED
            BY <1>1, <3>1 DEF Touches, Waiting
    <2>2. ASSUME NEW h \in x.seen, heroRow[h] = d PROVE heroRow'[h] = d
        BY <1>1, <1>2, <2>2 DEF Touches
    <2>3. ASSUME NEW h \in x.seen, heroRow[h] = d, engaged[h] = NoParty PROVE engaged'[h] = NoParty
        BY <1>1, <1>2, <2>3 DEF Touches
    <2> QED
        BY <1>1, <2>1, <2>2, <2>3 DEF RequestOK, RowsOK, OnRun, AtHeroes
<1>7. FoundingOK(x)'
    <2>1. SUFFICES ASSUME Founding(x)
                   PROVE  Waiting(x.party)' /\ (Stored(x.party)' => lobby'[x.party].leader = x.actor)
        BY DEF FoundingOK, Founding
    <2>2. Waiting(x.party) /\ (Stored(x.party) => lobby[x.party].leader = x.actor)
          /\ x.party \in born /\ x.party \in Parties
        BY <1>1, <1>5, <2>1 DEF RequestOK, FoundingOK, Founding
    <2> QED
        BY <2>1, <2>2 DEF Touches, Waiting
<1>8. AnswersOK(x)'
    <2>1. ASSUME x.kind = "start", x.pc \in {"unready", "commit"}, NEW h \in x.seen, <<x.party, h>> \notin ready
          PROVE  <<x.party, h>> \notin ready'
        <3>1. runRow[x.party] = d /\ heroRow[h] = d /\ x.party \in Parties /\ h \in Heroes
            BY <1>1, <1>2, <1>5, <2>1 DEF RequestOK, RowsOK, OnRun, AtHeroes
        <3> QED
            BY <2>1, <3>1 DEF Touches
    <2> QED
        BY <1>1, <2>1 DEF RequestOK, AnswersOK, KindOK
<1> QED
    BY <1>3, <1>4, <1>6, <1>7, <1>8 DEF RequestOK

\* A step of the request c, which goes on as y.
LEMMA RequestStep ==
    ASSUME LobbyIInv, NEW c \in Callers, NEW y \in LobbyRequests, Continues(c, y), Touches(c), TypesNext,
           RequestOK(c, y)', \A d \in Callers \ {c} : Related(y, request[d]) /\ Related(request[d], y)
    PROVE  LobbyIInv'
<1>1. request' \in [Callers -> LobbyRequests] /\ request'[c] = y
      /\ \A d \in Callers \ {c} : request'[d] = request[d]
    BY DEF Continues, LobbyIInv, LobbyTypeOK
<1>2. LobbyTypeOK'
    BY <1>1 DEF TypesNext, LobbyTypeOK
<1>3. \A q \in Parties : admission'[q] # NoAdmission => q \in born'
    BY DEF LobbyIInv, Touches
<1>4. ASSUME NEW d \in Callers PROVE RequestOK(d, request[d])'
    <2>1. CASE d = c
        BY <1>1, <2>1
    <2>2. CASE d # c
        <3>1. PICK x \in LobbyRequests : x = request[d]
            BY DEF LobbyIInv, LobbyTypeOK
        <3>2. RequestOK(d, x)'
            BY <2>2, <3>1, OtherKeeps
        <3>3. request'[d] = x
            BY <1>1, <2>2, <3>1
        <3> QED
            BY <3>2, <3>3
    <2> QED
        BY <2>1, <2>2
<1>5. Related(y, y)
    BY DEF Related, Founding, Entering
<1>6. \A d, e \in Callers : Related(request'[d], request'[e])
    BY <1>1, <1>5 DEF LobbyIInv
<1>7. \A d, e \in Callers : Related(request[d], request[e])'
    BY <1>6 DEF Related, Founding, Entering
<1> QED
    BY <1>2, <1>3, <1>4, <1>7 DEF LobbyIInv, TypesNext

\* A step that belongs to no request.
LEMMA FreeStep ==
    ASSUME LobbyIInv, NEW c, c \notin Callers, UNCHANGED request, Touches(c), TypesNext
    PROVE  LobbyIInv'
<1>1. LobbyTypeOK'
    BY DEF TypesNext, LobbyTypeOK, LobbyIInv
<1>2. \A q \in Parties : admission'[q] # NoAdmission => q \in born'
    BY DEF LobbyIInv, Touches
<1>3. ASSUME NEW d \in Callers PROVE RequestOK(d, request[d])'
    <2>1. PICK x \in LobbyRequests : x = request[d]
        BY DEF LobbyIInv, LobbyTypeOK
    <2>2. RequestOK(d, x)'
        BY <2>1, OtherKeeps
    <2> QED
        BY <2>1, <2>2
<1>4. \A d, e \in Callers : Related(request[d], request[e])'
    BY DEF LobbyIInv, Related, Founding, Entering
<1> QED
    BY <1>1, <1>2, <1>3, <1>4 DEF LobbyIInv, TypesNext

\* A request that is no founding and no admission, or stays the same one.
LEMMA RelatedKept ==
    ASSUME LobbyIInv, NEW c \in Callers, NEW y,
           Founding(y) => Founding(request[c]) /\ y.party = request[c].party,
           Entering(y) => Entering(request[c]) /\ y.party = request[c].party,
           y.actor = request[c].actor \/ ~(Founding(y) \/ Entering(y))
    PROVE  \A d \in Callers \ {c} : Related(y, request[d]) /\ Related(request[d], y)
BY DEF LobbyIInv, Related

\* The rows of the others stay theirs.
RowsNext(c) ==
    /\ \A q \in Parties : runRow[q] \notin {c, Nobody} => runRow'[q] = runRow[q]
    /\ \A h \in Heroes : heroRow[h] \notin {c, Nobody} => heroRow'[h] = heroRow[h]
    /\ runRow' \in [Parties -> Callers \cup {Nobody}]
    /\ heroRow' \in [Heroes -> Callers \cup {Nobody}]

LEMMA RowsGoOn ==
    ASSUME LobbyIInv, NEW c, RowsFreed(c) \/ UNCHANGED partyRows
    PROVE  RowsNext(c)
BY DEF RowsNext, RowsFreed, partyRows, LobbyIInv, LobbyTypeOK

\* A step that leaves the keys and the tables alone.
LEMMA RowsStep ==
    ASSUME LobbyIInv, NEW c, RowsNext(c),
           UNCHANGED <<lobby, belongs, ready, admission, engaged, born>>,
           lease' \in [Parties -> Callers \cup {Vacant, Left}],
           leaseLapses' \in 0..MaxLeaseLapses, mishaps' \in 0..MaxMishaps
    PROVE  Touches(c) /\ TypesNext /\ FrozenNow
<1>1. Touches(c)
    BY DEF Touches, RowsNext, Stored, LobbyIInv
<1>2. TypesNext
    BY DEF TypesNext, RowsNext, LobbyIInv, LobbyTypeOK, Stored
<1>3. FrozenNow
    BY DEF FrozenNow, OnlyCleared
<1> QED
    BY <1>1, <1>2, <1>3

\* A step that writes the keys of the party q, which is waiting, or clears them.
LEMMA KeysStep ==
    ASSUME LobbyIInv, NEW c, RowsNext(c), NEW q \in Parties,
           UNCHANGED <<admission, engaged, born>>,
           lease' \in [Parties -> Callers \cup {Vacant, Left}],
           leaseLapses' \in 0..MaxLeaseLapses, mishaps' \in 0..MaxMishaps,
           lobby' \in [Parties -> Lobbies], \A r \in Parties \ {q} : lobby'[r] = lobby[r],
           Stored(q)' => Stored(q) /\ lobby'[q].leader = lobby[q].leader,
           belongs' \in [Heroes -> Parties \cup {NoParty}],
           \A h \in Heroes : belongs'[h] \in {belongs[h], NoParty, q},
           ready' \subseteq Parties \X Heroes,
           \A r \in Parties, h \in Heroes : <<r, h>> \in ready' =>
              <<r, h>> \in ready \/ (r = q /\ (runRow[q] = c \/ heroRow[h] = c)),
           \/ Waiting(q)
           \/ /\ lobby'[q] \in {lobby[q], NoLobby} /\ ready' \subseteq ready
              /\ \A h \in Heroes : belongs'[h] \in {belongs[h], NoParty}
    PROVE  Touches(c) /\ TypesNext /\ FrozenNow
<1>1. Touches(c)
    <2>1. ASSUME NEW r \in born, Stored(r)' PROVE Stored(r) /\ lobby'[r].leader = lobby[r].leader
        BY <2>1 DEF Stored, LobbyIInv, LobbyTypeOK
    <2> QED
        BY <2>1 DEF Touches, RowsNext
<1>2. TypesNext
    BY DEF TypesNext, RowsNext, LobbyIInv, LobbyTypeOK, Stored
<1>3. FrozenNow
    <2>1. NoParty \notin Parties
        BY PartyAssumption
    <2>2. ASSUME NEW r \in Parties \ {q}
          PROVE  /\ lobby'[r] = lobby[r]
                 /\ \A h \in Heroes : /\ belongs'[h] = r => belongs[h] = r
                                      /\ <<r, h>> \in ready' => <<r, h>> \in ready
        BY <2>1
    <2>3. ASSUME admission[q] # NoAdmission
          PROVE  /\ lobby'[q] \in {lobby[q], NoLobby}
                 /\ \A h \in Heroes : /\ belongs'[h] = q => belongs[h] = q
                                      /\ <<q, h>> \in ready' => <<q, h>> \in ready
        BY <2>1, <2>3 DEF Waiting
    <2> QED
        BY <2>2, <2>3 DEF FrozenNow, OnlyCleared
<1> QED
    BY <1>1, <1>2, <1>3

\* What a request is after Ended, and after NoRequest.
LEMMA EndedRequest ==
    ASSUME LobbyIInv, NEW c \in Callers, request[c].pc # "idle", Ended(c)
    PROVE  \E y \in LobbyRequests :
              /\ Continues(c, y)
              /\ \/ y = NoRequest
                 \/ /\ y.pc = "release" /\ y.kind = request[c].kind /\ y.kind # "create"
                    /\ y.party = request[c].party /\ y.actor = request[c].actor
                    /\ y.about = request[c].about
<1>1. PICK x \in LobbyRequests : x = request[c]
    BY DEF LobbyIInv, LobbyTypeOK
<1>2. CASE x.kind = "create"
    BY <1>1, <1>2, NoRequestTyped DEF Ended
<1>3. CASE x.kind # "create"
    <2>1. PICK y : y = [x EXCEPT !.pc = "release"]
        OBVIOUS
    <2>2. y \in LobbyRequests /\ y.pc = "release" /\ y.kind = x.kind /\ y.party = x.party
          /\ y.actor = x.actor /\ y.about = x.about
        BY <2>1 DEF LobbyRequests
    <2>3. Continues(c, y)
        BY <1>1, <1>3, <2>1 DEF Ended, Proceed
    <2> QED
        BY <1>1, <1>3, <2>2, <2>3
<1> QED
    BY <1>2, <1>3

\* A request that answers, or is about to.
LEMMA EndedOK ==
    ASSUME LobbyIInv, NEW c \in Callers, born \subseteq born', NEW y \in LobbyRequests,
           \/ y = NoRequest
           \/ /\ y.pc = "release" /\ y.kind # "create" /\ request[c].pc \notin {"idle", "clear"}
              /\ y.kind = request[c].kind /\ y.party = request[c].party
              /\ y.actor = request[c].actor /\ y.about = request[c].about
    PROVE  /\ RequestOK(c, y)'
           /\ \A d \in Callers \ {c} : Related(y, request[d]) /\ Related(request[d], y)
<1>1. CASE y = NoRequest
    BY <1>1, NoRequestTyped
    DEF RequestOK, KindOK, NamesOK, RowsOK, FoundingOK, AnswersOK, OnRun, AtHeroes, Founding, Entering, Related
<1>2. CASE y # NoRequest
    <2>1. y.pc = "release" /\ y.kind # "create" /\ y.party \in born /\ y.actor \in Heroes
        BY <1>2 DEF LobbyIInv, RequestOK, NamesOK
    <2>2. y.about \in Heroes
        BY <1>2 DEF LobbyIInv, RequestOK, NamesOK
    <2> QED
        BY <2>1, <2>2
        DEF RequestOK, KindOK, NamesOK, RowsOK, FoundingOK, AnswersOK, OnRun, AtHeroes, Founding, Entering, Related
<1> QED
    BY <1>1, <1>2

-----------------------------------------------------------------------------
(* What is asked                                                           *)

\* A request that has taken no row yet.
LEMMA NewRequest ==
    ASSUME LobbyIInv, NEW c \in Callers, NEW y \in LobbyRequests, Continues(c, y), y.actor \in Heroes,
           \/ y.pc = "hero" /\ y.kind = "create" /\ y.seen = {y.actor} /\ y.todo = y.seen
           \/ /\ y.pc \in {"read", "clear"} /\ y.kind # "create" /\ y.party \in born
              /\ y.about \in Heroes \/ y.pc = "clear",
           UNCHANGED <<partyKeys, partyRows, partySql, born, partyCounts>>,
           lease' \in [Parties -> Callers \cup {Vacant, Left}]
    PROVE  LobbyIInv' /\ FrozenNow
<1>1. RowsNext(c)
    BY RowsGoOn
<1>2. UNCHANGED <<lobby, belongs, ready, admission, engaged, born, leaseLapses, mishaps>>
    BY DEF partyKeys, partySql, partyCounts
<1>3. Touches(c) /\ TypesNext /\ FrozenNow
    BY <1>1, <1>2, RowsStep DEF LobbyIInv, LobbyTypeOK
<1>4. RequestOK(c, y)'
    BY <1>2 DEF RequestOK, KindOK, NamesOK, RowsOK, FoundingOK, AnswersOK, OnRun, AtHeroes, Founding, Entering
<1>5. \A d \in Callers \ {c} : Related(y, request[d]) /\ Related(request[d], y)
    BY DEF Related, Founding, Entering
<1> QED
    BY <1>3, <1>4, <1>5, RequestStep

LEMMA AskCreateStep ==
    ASSUME LobbyIInv, NEW c \in Callers, NEW h \in Heroes, AskCreate(c, h)
    PROVE  LobbyIInv' /\ FrozenNow
<1>1. PICK y : y = [NoRequest EXCEPT !.pc = "hero", !.kind = "create", !.actor = h,
                                     !.seen = {h}, !.todo = {h}]
    OBVIOUS
<1>2. y \in LobbyRequests /\ y.pc = "hero" /\ y.kind = "create" /\ y.actor = h /\ y.seen = {h}
      /\ y.todo = {h}
    BY <1>1, NoRequestTyped DEF LobbyRequests
<1>3. Continues(c, y) /\ UNCHANGED <<partyKeys, lease, partyRows, partySql, born, partyCounts>>
    BY <1>1 DEF AskCreate
<1> QED
    BY <1>2, <1>3, NewRequest DEF LobbyIInv, LobbyTypeOK

LEMMA TakesLeaseStep ==
    ASSUME LobbyIInv, NEW c \in Callers, NEW h \in Heroes, NEW t \in Heroes, NEW q \in Parties,
           NEW kind \in {"join", "leave", "kick", "disband", "ready", "unready", "start", "enter", "depart"},
           TakesLease(c, kind, h, q, t)
    PROVE  LobbyIInv' /\ FrozenNow
<1>1. PICK y : y = [NoRequest EXCEPT !.pc = "read", !.kind = kind, !.actor = h, !.party = q, !.about = t]
    OBVIOUS
<1>2. y \in LobbyRequests /\ y.pc = "read" /\ y.kind = kind /\ y.actor = h /\ y.party = q
      /\ y.about = t
    BY <1>1, NoRequestTyped DEF LobbyRequests
<1>3. Continues(c, y) /\ UNCHANGED <<partyKeys, partyRows, partySql, born, partyCounts>>
      /\ q \in born /\ lease' = [lease EXCEPT ![q] = c]
    BY <1>1 DEF TakesLease
<1>4. lease' \in [Parties -> Callers \cup {Vacant, Left}]
    BY <1>3 DEF LobbyIInv, LobbyTypeOK
<1> QED
    BY <1>2, <1>3, <1>4, NewRequest

LEMMA EnterAgainStep ==
    ASSUME LobbyIInv, NEW c \in Callers, NEW h \in Heroes, NEW q \in Parties, EnterAgain(c, h, q)
    PROVE  LobbyIInv' /\ FrozenNow
<1>1. PICK S \in SUBSET Heroes : S = admission[q].roster \cup {h}
    BY DEF LobbyIInv, LobbyTypeOK, Admissions
<1>2. PICK y : y = [NoRequest EXCEPT !.pc = "clear", !.kind = "enter", !.actor = h, !.party = q, !.todo = S]
    OBVIOUS
<1>3. y \in LobbyRequests /\ y.pc = "clear" /\ y.kind = "enter" /\ y.actor = h /\ y.party = q
    BY <1>2, NoRequestTyped DEF LobbyRequests
<1>4. Continues(c, y) /\ UNCHANGED <<partyKeys, lease, partyRows, partySql, born, partyCounts>>
    BY <1>1, <1>2 DEF EnterAgain
<1>5. q \in born
    <2>1. admission[q].leader # Nobody
        BY PartyAssumption DEF EnterAgain
    <2> QED
        BY <2>1 DEF NoAdmission, LobbyIInv
<1> QED
    BY <1>3, <1>4, <1>5, NewRequest DEF LobbyIInv, LobbyTypeOK

LEMMA AsksStep ==
    ASSUME LobbyIInv, NEW c \in Callers, LobbyAsks(c)
    PROVE  LobbyIInv' /\ FrozenNow
BY AskCreateStep, TakesLeaseStep, EnterAgainStep DEF LobbyAsks, AskLobby, AskKick, AskEnter

-----------------------------------------------------------------------------
(* The locks and the checks of a request                                   *)

\* The answer of a request that changes nothing in the keys or the tables.
LEMMA AnswerStep ==
    ASSUME LobbyIInv, NEW c \in Callers, request[c].pc # "idle",
           (Ended(c) /\ request[c].pc # "clear") \/ Continues(c, NoRequest), RowsFreed(c) \/ UNCHANGED partyRows,
           UNCHANGED <<lobby, belongs, ready, admission, engaged, born>>,
           lease' \in [Parties -> Callers \cup {Vacant, Left}],
           leaseLapses' \in 0..MaxLeaseLapses, mishaps' \in 0..MaxMishaps
    PROVE  LobbyIInv' /\ FrozenNow
<1>1. Touches(c) /\ TypesNext /\ FrozenNow
    BY RowsGoOn, RowsStep
<1>2. PICK y \in LobbyRequests :
         /\ Continues(c, y)
         /\ \/ y = NoRequest
            \/ /\ y.pc = "release" /\ y.kind # "create" /\ request[c].pc # "clear" 
               /\ y.kind = request[c].kind /\ y.party = request[c].party /\ y.actor = request[c].actor /\ y.about = request[c].about
    BY EndedRequest, NoRequestTyped
<1>3. RequestOK(c, y)' /\ \A d \in Callers \ {c} : Related(y, request[d]) /\ Related(request[d], y)
    BY <1>2, EndedOK
<1> QED
    BY <1>1, <1>2, <1>3, RequestStep

LEMMA ReadLobbyStep ==
    ASSUME LobbyIInv, NEW c \in Callers, ReadLobby(c)
    PROVE  LobbyIInv' /\ FrozenNow
<1>1. PICK x \in LobbyRequests : x = request[c]
    BY DEF LobbyIInv, LobbyTypeOK
<1>2. x.pc = "read" /\ KindOK(x) /\ NamesOK(x) /\ x.kind # "create" /\ x.actor \in Heroes
      /\ x.about \in Heroes /\ x.party \in born
    BY <1>1 DEF ReadLobby, LobbyIInv, RequestOK, KindOK, NamesOK
<1>3. PICK q \in Parties : q = x.party
    BY <1>2 DEF LobbyIInv, LobbyTypeOK
<1>4. UNCHANGED <<lobby, belongs, ready, lease, heroRow, admission, engaged, born, leaseLapses, mishaps>>
    BY DEF ReadLobby, partyKeys, partySql, partyCounts
<1>5. CASE (x.kind = "depart" \/ Waiting(q)) /\ Found(q) /\ Admits(x, lobby[q])
    <2>1. PICK S \in SUBSET Heroes : S = IF x.kind = "join" THEN {x.actor} ELSE lobby[q].members
        BY <1>2 DEF LobbyIInv, LobbyTypeOK, Lobbies
    <2>2. runRow' = (IF x.kind = "depart" THEN runRow ELSE [runRow EXCEPT ![q] = c])
          /\ (x.kind # "depart" => runRow[q] = Nobody)
        BY <1>1, <1>3, <1>5 DEF ReadLobby
    <2>3. RowsNext(c) /\ (x.kind # "depart" => runRow'[q] = c)
        BY <1>4, <2>2 DEF RowsNext, LobbyIInv, LobbyTypeOK
    <2>4. Touches(c) /\ TypesNext /\ FrozenNow
        BY <1>4, <2>3, RowsStep DEF LobbyIInv, LobbyTypeOK
    <2>5. CASE x.kind \in {"join", "start", "enter", "depart"}
        <3>1. PICK y : y = [x EXCEPT !.pc = "hero", !.seen = S, !.todo = S]
            OBVIOUS
        <3>2. y \in LobbyRequests /\ y.pc = "hero" /\ y.kind = x.kind /\ y.actor = x.actor
              /\ y.party = q /\ y.about = x.about /\ y.seen = S /\ y.todo = S
            BY <1>3, <3>1 DEF LobbyRequests
        <3>3. Continues(c, y)
            BY <1>1, <1>3, <1>5, <2>1, <2>5, <3>1 DEF ReadLobby
        <3>4. x.kind = "enter" => x.actor \in S /\ lobby[q].leader = x.actor
            BY <1>5, <2>1 DEF Admits, Consenting
        <3>5. RequestOK(c, y)'
            BY <1>2, <1>3, <1>4, <1>5, <2>3, <2>5, <3>2, <3>4
            DEF RequestOK, KindOK, NamesOK, RowsOK, FoundingOK, AnswersOK, OnRun, AtHeroes, Founding,
                Entering, Waiting
        <3>6. ASSUME NEW d \in Callers \ {c}
              PROVE  Related(y, request[d]) /\ Related(request[d], y)
            <4>1. FoundingOK(request[d])
                BY DEF LobbyIInv, RequestOK
            <4>2. Stored(q)
                BY <1>5 DEF Found, Stored
            <4>3. Founding(request[d]) /\ request[d].party = q => request[d].actor = lobby[q].leader
                BY <4>1, <4>2 DEF FoundingOK
            <4> QED
                BY <2>5, <3>2, <3>4, <4>3 DEF Related, Founding, Entering
        <3> QED
            BY <2>4, <3>2, <3>3, <3>5, <3>6, RequestStep
    <2>6. CASE x.kind \notin {"join", "start", "enter", "depart"}
        <3>1. PICK pc \in {"close", "write"} : pc = IF Closes(x, lobby[q]) THEN "close" ELSE "write"
            OBVIOUS
        <3>2. PICK y : y = [x EXCEPT !.pc = pc]
            OBVIOUS
        <3>3. y \in LobbyRequests /\ y.pc = pc /\ y.kind = x.kind /\ y.actor = x.actor
              /\ y.party = q /\ y.about = x.about
            BY <1>3, <3>2 DEF LobbyRequests
        <3>4. Continues(c, y)
            BY <1>1, <1>3, <1>5, <2>6, <3>1, <3>2 DEF ReadLobby, Proceed
        <3>5. KindOK(y)
            BY <1>2, <2>6, <3>1, <3>3, RequestFields DEF KindOK, Closes
        <3>6. RequestOK(c, y)'
            BY <1>2, <1>3, <1>4, <1>5, <2>3, <2>6, <3>3, <3>5
            DEF RequestOK, KindOK, NamesOK, RowsOK, FoundingOK, AnswersOK, OnRun, AtHeroes, Founding,
                Entering, Waiting
        <3>7. \A d \in Callers \ {c} : Related(y, request[d]) /\ Related(request[d], y)
            BY <1>2, <2>6, <3>3 DEF Related, Founding, Entering
        <3> QED
            BY <2>4, <3>3, <3>4, <3>6, <3>7, RequestStep
    <2> QED
        BY <2>5, <2>6
<1>6. CASE ~((x.kind = "depart" \/ Waiting(q)) /\ Found(q) /\ Admits(x, lobby[q]))
    <2>1. Ended(c) /\ UNCHANGED partyRows
        BY <1>1, <1>3, <1>4, <1>6 DEF ReadLobby, partyRows
    <2> QED
        BY <1>1, <1>2, <1>4, <2>1, AnswerStep DEF LobbyIInv, LobbyTypeOK
<1> QED
    BY <1>5, <1>6

LEMMA LockHeroStep ==
    ASSUME LobbyIInv, NEW c \in Callers, LockHero(c)
    PROVE  LobbyIInv' /\ FrozenNow
<1>1. PICK x \in LobbyRequests : x = request[c]
    BY DEF LobbyIInv, LobbyTypeOK
<1>2. PICK h : h = NextHero(x)
    OBVIOUS
<1>3. x.pc = "hero" /\ heroRow[h] = Nobody /\ RequestOK(c, x)
    BY <1>1, <1>2 DEF LockHero, LobbyIInv
<1>4. x.kind \in {"create", "join", "start", "enter", "depart"} /\ x.seen \subseteq Heroes
      /\ x.todo \subseteq Heroes
    BY <1>3, RequestFields DEF RequestOK, KindOK
<1>5. UNCHANGED <<lobby, belongs, ready, lease, admission, engaged, born, leaseLapses, mishaps>>
    BY DEF LockHero, partyKeys, partySql, partyCounts
<1>6. CASE /\ UNCHANGED runRow /\ heroRow' = [heroRow EXCEPT ![h] = c]
           /\ \/ Continues(c, [x EXCEPT !.todo = @ \ {h}])
              \/ /\ Continues(c, [x EXCEPT !.todo = {}, !.pc = AfterHeroes(x)])
                 /\ x.todo = {h} /\ Disengaged(x.seen)
    <2>0. UNCHANGED runRow /\ heroRow' = [heroRow EXCEPT ![h] = c]
        BY <1>6
    <2>1. RowsNext(c) /\ (\A g \in Heroes : g = h \/ heroRow[g] = c => heroRow'[g] = c)
        BY <1>3, <2>0 DEF RowsNext, LobbyIInv, LobbyTypeOK
    <2>2. Touches(c) /\ TypesNext /\ FrozenNow
        BY <1>5, <2>1, RowsStep DEF LobbyIInv, LobbyTypeOK
    <2>3. ASSUME NEW y \in LobbyRequests, Continues(c, y), y.kind = x.kind, y.actor = x.actor,
                 y.party = x.party, y.about = x.about, y.seen = x.seen,
                 \/ y.pc = "hero" /\ y.todo = x.todo \ {h}
                 \/ y.pc = AfterHeroes(x) /\ x.todo = {h} /\ Disengaged(x.seen)
          PROVE  LobbyIInv' /\ FrozenNow
        <3>1. KindOK(y)
            BY <1>4, <2>3 DEF KindOK, AfterHeroes
        <3>2. NamesOK(y)'
            BY <1>3, <1>4, <1>5, <2>3 DEF RequestOK, NamesOK, Entering, AfterHeroes
        <3>3. RowsOK(c, y)'
            <4>1. \A g \in x.seen \ x.todo : heroRow[g] = c
                BY <1>3, <1>4 DEF RequestOK, RowsOK, AtHeroes
            <4>2. OnRun(y) => OnRun(x)
                BY <1>3, <1>4, <2>3 DEF OnRun
            <4>3. OnRun(y) => runRow'[y.party] = c /\ Waiting(y.party)'
                BY <1>3, <1>5, <2>0, <2>3, <4>2 DEF RequestOK, RowsOK, Waiting
            <4>4. y.pc = "hero" => \A g \in y.seen \ y.todo : heroRow'[g] = c
                BY <1>4, <2>1, <2>3, <4>1 DEF AfterHeroes
            <4>5. y.pc # "hero" => \A g \in y.seen : heroRow'[g] = c /\ engaged'[g] = NoParty
                BY <1>4, <1>5, <2>1, <2>3, <4>1 DEF Disengaged
            <4> QED
                BY <4>3, <4>4, <4>5 DEF RowsOK, AtHeroes, OnRun
        <3>4. FoundingOK(y)' /\ AnswersOK(y)'
            BY <1>4, <2>3 DEF FoundingOK, AnswersOK, Founding, AfterHeroes
        <3>5. \A d \in Callers \ {c} : Related(y, request[d]) /\ Related(request[d], y)
            <4>1. ~Founding(y) /\ (Entering(y) => Entering(request[c]))
                BY <1>1, <1>3, <1>4, <2>3 DEF Founding, Entering, AfterHeroes
            <4> QED
                BY <1>1, <2>3, <4>1, RelatedKept
        <3>6. RequestOK(c, y)'
            BY <3>1, <3>2, <3>3, <3>4 DEF RequestOK, KindOK
        <3> QED
            BY <2>2, <2>3, <3>5, <3>6, RequestStep
    <2>4. CASE Continues(c, [x EXCEPT !.todo = @ \ {h}])
        <3>1. PICK y : y = [x EXCEPT !.todo = @ \ {h}]
            OBVIOUS
        <3>2. y \in LobbyRequests /\ y.kind = x.kind /\ y.actor = x.actor /\ y.party = x.party
              /\ y.about = x.about /\ y.seen = x.seen /\ y.pc = x.pc /\ y.todo = x.todo \ {h}
            BY <3>1 DEF LobbyRequests
        <3>3. Continues(c, y)
            BY <2>4, <3>1
        <3> QED
            BY <1>3, <2>3, <3>2, <3>3
    <2>5. CASE Continues(c, [x EXCEPT !.todo = {}, !.pc = AfterHeroes(x)]) /\ x.todo = {h} /\ Disengaged(x.seen)
        <3>1. PICK pc \in {"save", "write", "claim", "commit"} : pc = AfterHeroes(x)
            BY <1>4 DEF AfterHeroes
        <3>2. PICK y : y = [x EXCEPT !.todo = {}, !.pc = pc]
            OBVIOUS
        <3>3. y \in LobbyRequests /\ y.kind = x.kind /\ y.actor = x.actor /\ y.party = x.party
              /\ y.about = x.about /\ y.seen = x.seen /\ y.pc = pc
            BY <3>2 DEF LobbyRequests
        <3>4. Continues(c, y)
            BY <2>5, <3>1, <3>2
        <3> QED
            BY <2>3, <2>5, <3>1, <3>3, <3>4
    <2> QED
        BY <1>6, <2>4, <2>5
<1>7. CASE Denied(c)
    BY <1>1, <1>3, <1>5, <1>7, AnswerStep DEF Denied, LobbyIInv, LobbyTypeOK
<1> QED
    BY <1>1, <1>2, <1>6, <1>7 DEF LockHero

-----------------------------------------------------------------------------
(* The writes of a request in Valkey                                       *)

\* A request that goes on with what it holds.
LEMMA GoesOn ==
    ASSUME LobbyIInv, NEW c \in Callers, NEW x \in LobbyRequests, x = request[c], x.pc \notin {"idle", "clear", "hero"},
           x.party \in born, NEW y \in LobbyRequests, y.pc # "hero", y.kind = x.kind, y.actor = x.actor,
           y.party = x.party, y.about = x.about, y.seen = x.seen,
           UNCHANGED <<admission, engaged, born, runRow, heroRow>>,
           KindOK(y), OnRun(y) => OnRun(x), AtHeroes(y) => AtHeroes(x), Entering(y) => Entering(x),
           Founding(y) => Founding(x),
           Stored(x.party)' => Stored(x.party) /\ lobby'[x.party].leader = lobby[x.party].leader,
           AnswersOK(y)'
    PROVE  /\ RequestOK(c, y)'
           /\ \A d \in Callers \ {c} : Related(y, request[d]) /\ Related(request[d], y)
<1>1. RequestOK(c, x)
    BY DEF LobbyIInv
<1>2. NamesOK(y)'
    BY <1>1 DEF RequestOK, NamesOK, Entering
<1>3. RowsOK(c, y)'
    <2>1. OnRun(y) => runRow'[y.party] = c /\ Waiting(y.party)'
        BY <1>1 DEF RequestOK, RowsOK, Waiting
    <2>2. AtHeroes(y) => \A h \in y.seen : heroRow'[h] = c /\ engaged'[h] = NoParty
        BY <1>1 DEF RequestOK, RowsOK
    <2> QED
        BY <2>1, <2>2 DEF RowsOK, OnRun, AtHeroes
<1>4. FoundingOK(y)'
    BY <1>1 DEF RequestOK, FoundingOK, Founding, Waiting
<1>5. RequestOK(c, y)'
    BY <1>2, <1>3, <1>4 DEF RequestOK, KindOK
<1> QED
    BY <1>5, RelatedKept

\* The lobby of q is written.
LEMMA LobbyWritten ==
    ASSUME LobbyIInv, NEW q \in Parties, NEW w \in Lobbies, lobby' = [lobby EXCEPT ![q] = w],
           w.status # "none" => Stored(q) /\ w.leader = lobby[q].leader
    PROVE  /\ lobby' \in [Parties -> Lobbies] /\ lobby'[q] = w
           /\ \A r \in Parties \ {q} : lobby'[r] = lobby[r]
           /\ Stored(q)' => Stored(q) /\ lobby'[q].leader = lobby[q].leader
BY DEF LobbyIInv, LobbyTypeOK, Stored

LEMMA StatusWritten ==
    ASSUME LobbyIInv, NEW q \in Parties, Stored(q), NEW s \in {"recruiting", "in_progress", "disbanded"},
           HasStatus(q, s)
    PROVE  /\ lobby' \in [Parties -> Lobbies]
           /\ \A r \in Parties \ {q} : lobby'[r] = lobby[r]
           /\ Stored(q)' => Stored(q) /\ lobby'[q].leader = lobby[q].leader
<1>1. PICK l \in Lobbies : l = lobby[q]
    BY DEF LobbyIInv, LobbyTypeOK
<1>2. PICK w : w = [l EXCEPT !.status = s]
    OBVIOUS
<1>3. w \in Lobbies /\ w.leader = l.leader
    BY <1>2 DEF Lobbies
<1>4. lobby' = [lobby EXCEPT ![q] = w]
    BY <1>1, <1>2, Zenon DEF HasStatus
<1> QED
    BY <1>1, <1>3, <1>4, LobbyWritten

LEMMA ChangesWritten ==
    ASSUME LobbyIInv, NEW c \in Callers, NEW x \in LobbyRequests, x = request[c], x.pc = "write",
           Writable(x), Mutate(x), NEW q \in Parties, q = x.party
    PROVE  /\ lobby' \in [Parties -> Lobbies] /\ \A r \in Parties \ {q} : lobby'[r] = lobby[r]
           /\ Stored(q)' => Stored(q) /\ lobby'[q].leader = lobby[q].leader
           /\ belongs' \in [Heroes -> Parties \cup {NoParty}]
           /\ \A h \in Heroes : belongs'[h] \in {belongs[h], NoParty, q}
           /\ ready' \subseteq Parties \X Heroes
           /\ \A r \in Parties, h \in Heroes : <<r, h>> \in ready' =>
                 <<r, h>> \in ready \/ (r = q /\ (runRow[q] = c \/ heroRow[h] = c))
<1>1. RequestOK(c, x) /\ x.actor \in Heroes
    BY DEF LobbyIInv, RequestOK, NamesOK
<1>2. PICK l \in Lobbies : l = lobby[q]
    BY DEF LobbyIInv, LobbyTypeOK
<1>3. belongs \in [Heroes -> Parties \cup {NoParty}] /\ ready \subseteq Parties \X Heroes
    BY DEF LobbyIInv, LobbyTypeOK
<1>4. CASE x.kind \in {"create", "join"}
    <2>1. PICK h \in Heroes : h = x.actor
        BY <1>1
    <2>2. PICK leads \in BOOLEAN : leads <=> x.kind = "create"
        OBVIOUS
    <2>3. Add(q, h, x.kind = "create") /\ Found(q)
        BY <1>4, <2>1 DEF Mutate, Writable, Addable
    <2>4. PICK ld \in BOOLEAN : ld = IF h = l.leader THEN x.kind = "create" ELSE l.led
        BY <1>2 DEF Lobbies
    <2>5. PICK S \in SUBSET Heroes : S = l.members \cup {h}
        BY <1>2 DEF Lobbies
    <2>6. PICK w : w = [l EXCEPT !.members = S, !.led = ld]
        OBVIOUS
    <2>7. w \in Lobbies /\ w.leader = l.leader /\ w.status = l.status
        BY <2>6 DEF Lobbies
    <2>8. lobby' = [lobby EXCEPT ![q] = w]
        BY <1>2, <2>3, <2>4, <2>5, <2>6, Zenon DEF Add
    <2>9. w.status # "none" => Stored(q) /\ w.leader = lobby[q].leader
        BY <1>2, <2>7 DEF Stored
    <2>10. belongs' = [belongs EXCEPT ![h] = q]
           /\ ready' = IF x.kind = "create" THEN ready \cup {<<q, h>>} ELSE ready \ {<<q, h>>}
        BY <2>3 DEF Add
    <2>11. x.kind = "create" => heroRow[h] = c
        BY <1>1, <2>1 DEF RequestOK, RowsOK, NamesOK, AtHeroes
    <2>12. lobby' \in [Parties -> Lobbies] /\ (\A r \in Parties \ {q} : lobby'[r] = lobby[r])
           /\ (Stored(q)' => Stored(q) /\ lobby'[q].leader = lobby[q].leader)
        BY <2>7, <2>8, <2>9, LobbyWritten
    <2>13. belongs' \in [Heroes -> Parties \cup {NoParty}]
           /\ \A g \in Heroes : belongs'[g] \in {belongs[g], NoParty, q}
        BY <1>3, <2>10
    <2>14. ready' \subseteq Parties \X Heroes
        BY <1>3, <2>10
    <2>15. \A r \in Parties, g \in Heroes : <<r, g>> \in ready' => <<r, g>> \in ready \/ (r = q /\ heroRow[g] = c)
        BY <2>10, <2>11
    <2> QED
        BY <2>12, <2>13, <2>14, <2>15
<1>5. CASE x.kind \in {"leave", "kick"}
    <2>1. PICK h \in Heroes : h = x.about
        BY <1>1, <1>5 DEF RequestOK, NamesOK
    <2>2. Remove(q, h) /\ Stored(q)
        BY <1>5, <2>1 DEF Mutate, Writable
    <2>3. PICK S \in SUBSET Heroes : S = l.members \ {h}
        BY <1>2 DEF Lobbies
    <2>4. PICK w : w = [l EXCEPT !.members = S]
        OBVIOUS
    <2>5. w \in Lobbies /\ w.leader = l.leader /\ w.status = l.status
        BY <2>4 DEF Lobbies
    <2>6. lobby' = [lobby EXCEPT ![q] = w]
        BY <1>2, <2>2, <2>3, <2>4, Zenon DEF Remove
    <2>7. lobby' \in [Parties -> Lobbies] /\ (\A r \in Parties \ {q} : lobby'[r] = lobby[r])
          /\ (Stored(q)' => Stored(q) /\ lobby'[q].leader = lobby[q].leader)
        BY <1>2, <2>2, <2>5, <2>6, LobbyWritten
    <2>8. belongs' = [belongs EXCEPT ![h] = NoParty] /\ ready' = ready \ {<<q, h>>}
        BY <2>2 DEF Remove
    <2> QED
        BY <1>3, <2>7, <2>8
<1>6. CASE x.kind \in {"ready", "unready"}
    <2>1. runRow[q] = c
        BY <1>1, <1>6 DEF RequestOK, RowsOK, OnRun
    <2>2. UNCHANGED <<lobby, belongs>>
          /\ (ready' = ready \cup {<<q, x.actor>>} \/ ready' = ready \ {<<q, x.actor>>})
        BY <1>6 DEF Mutate
    <2>3. \A r \in Parties, h \in Heroes : <<r, h>> \in ready' => <<r, h>> \in ready \/ r = q
        BY <2>2
    <2>4. ready' \subseteq Parties \X Heroes
        BY <1>1, <1>3, <2>2
    <2> QED
        BY <1>3, <2>1, <2>2, <2>3, <2>4 DEF LobbyIInv, LobbyTypeOK, Stored
<1> QED
    BY <1>1, <1>4, <1>5, <1>6 DEF RequestOK, KindOK

LEMMA WriteLobbyStep ==
    ASSUME LobbyIInv, NEW c \in Callers, WriteLobby(c)
    PROVE  LobbyIInv' /\ FrozenNow
<1>1. PICK x \in LobbyRequests : x = request[c]
    BY DEF LobbyIInv, LobbyTypeOK
<1>2. x.pc = "write" /\ RequestOK(c, x) /\ x.party \in born
    BY <1>1 DEF WriteLobby, LobbyIInv, RequestOK, NamesOK
<1>3. PICK q \in Parties : q = x.party
    BY <1>2 DEF LobbyIInv, LobbyTypeOK
<1>4. Waiting(q) /\ x.kind \in {"create", "join", "leave", "kick", "ready", "unready"}
    BY <1>2, <1>3 DEF RequestOK, KindOK, RowsOK, FoundingOK, Founding, OnRun
<1>5. UNCHANGED <<lease, admission, engaged, born, leaseLapses, mishaps>>
    BY DEF WriteLobby, partySql, partyCounts
<1>6. CASE Writable(x)
    <2>1. Mutate(x) /\ Proceed(c, "commit") /\ UNCHANGED partyRows
        BY <1>1, <1>6 DEF WriteLobby
    <2>2. Touches(c) /\ TypesNext /\ FrozenNow
        BY <1>1, <1>2, <1>3, <1>4, <1>5, <1>6, <2>1, ChangesWritten, RowsGoOn, KeysStep DEF LobbyIInv, LobbyTypeOK
    <2>3. PICK y : y = [x EXCEPT !.pc = "commit"]
        OBVIOUS
    <2>4. y \in LobbyRequests /\ y.pc = "commit" /\ y.kind = x.kind /\ y.actor = x.actor
          /\ y.party = x.party /\ y.about = x.about /\ y.seen = x.seen
        BY <2>3 DEF LobbyRequests
    <2>5. Continues(c, y)
        BY <1>1, <2>1, <2>3 DEF Proceed
    <2>6. Stored(q)' => Stored(q) /\ lobby'[q].leader = lobby[q].leader
        BY <1>1, <1>2, <1>3, <1>6, <2>1, ChangesWritten
    <2>7. KindOK(y) /\ (OnRun(y) => OnRun(x)) /\ (AtHeroes(y) => AtHeroes(x))
          /\ (Entering(y) => Entering(x)) /\ (Founding(y) => Founding(x)) /\ AnswersOK(y)'
        BY <1>2, <1>4, <2>4 DEF KindOK, OnRun, AtHeroes, Entering, Founding, AnswersOK
    <2>8. RequestOK(c, y)' /\ \A d \in Callers \ {c} : Related(y, request[d]) /\ Related(request[d], y)
        BY <1>1, <1>2, <1>3, <1>5, <2>1, <2>4, <2>6, <2>7, GoesOn DEF partyRows
    <2> QED
        BY <2>2, <2>4, <2>5, <2>8, RequestStep
<1>7. CASE ~Writable(x)
    <2>1. Denied(c) /\ UNCHANGED partyKeys
        BY <1>1, <1>7 DEF WriteLobby
    <2>2. UNCHANGED <<lobby, belongs, ready>>
        BY <2>1 DEF partyKeys
    <2> QED
        BY <1>1, <1>2, <1>5, <2>1, <2>2, AnswerStep DEF Denied, LobbyIInv, LobbyTypeOK
<1> QED
    BY <1>6, <1>7

LEMMA SavePartyStep ==
    ASSUME LobbyIInv, NEW c \in Callers, NEW q \in Parties, SaveParty(c, q)
    PROVE  LobbyIInv' /\ FrozenNow
<1>1. PICK x \in LobbyRequests : x = request[c]
    BY DEF LobbyIInv, LobbyTypeOK
<1>2. x.pc = "save" /\ RequestOK(c, x) /\ q \notin born /\ x.kind = "create" /\ x.actor \in Heroes
    BY <1>1 DEF SaveParty, LobbyIInv, RequestOK, KindOK, NamesOK
<1>3. PICK w : w = [status |-> "recruiting", leader |-> x.actor, led |-> FALSE, members |-> {}]
    OBVIOUS
<1>4. w \in Lobbies /\ w.leader = x.actor /\ w # NoLobby
    BY <1>2, <1>3 DEF Lobbies, NoLobby
<1>5. lobby' = [lobby EXCEPT ![q] = w] /\ born' = born \cup {q}
    BY <1>1, <1>3 DEF SaveParty
<1>6. UNCHANGED <<belongs, ready, lease, runRow, heroRow, admission, engaged, leaseLapses, mishaps>>
    BY DEF SaveParty, partyRows, partySql, partyCounts
<1>7. lobby' \in [Parties -> Lobbies] /\ lobby'[q] = w /\ \A r \in Parties \ {q} : lobby'[r] = lobby[r]
    BY <1>4, <1>5 DEF LobbyIInv, LobbyTypeOK
<1>8. Waiting(q)
    BY <1>2 DEF LobbyIInv, Waiting
<1>9. Touches(c)
    <2>1. \A r \in born : r \in Parties \ {q}
        BY <1>2 DEF LobbyIInv, LobbyTypeOK
    <2> QED
        BY <1>5, <1>6, <1>7, <2>1 DEF Touches, Stored
<1>10. TypesNext
    BY <1>2, <1>4, <1>5, <1>6, <1>7 DEF TypesNext, LobbyIInv, LobbyTypeOK, Stored
<1>11. FrozenNow
    BY <1>6, <1>7, <1>8 DEF FrozenNow, OnlyCleared, Waiting
<1>12. PICK y : y = [x EXCEPT !.pc = "name", !.party = q]
    OBVIOUS
<1>13. y \in LobbyRequests /\ y.pc = "name" /\ y.kind = x.kind /\ y.actor = x.actor /\ y.party = q
       /\ y.about = x.about /\ y.seen = x.seen
    BY <1>12 DEF LobbyRequests
<1>14. Continues(c, y)
    BY <1>1, <1>12 DEF SaveParty
<1>15. RequestOK(c, y)'
    <2>1. KindOK(y) /\ NamesOK(y)' /\ FoundingOK(y)' /\ AnswersOK(y)'
        BY <1>2, <1>4, <1>5, <1>6, <1>7, <1>8, <1>13
        DEF RequestOK, KindOK, NamesOK, FoundingOK, AnswersOK, Founding, Entering, Waiting
    <2>2. RowsOK(c, y)'
        BY <1>2, <1>6, <1>13 DEF RequestOK, RowsOK, OnRun, AtHeroes
    <2> QED
        BY <2>1, <2>2 DEF RequestOK, KindOK
<1>16. ASSUME NEW d \in Callers \ {c} PROVE Related(y, request[d]) /\ Related(request[d], y)
    <2>1. Entering(request[d]) => request[d].party \in born
        BY DEF LobbyIInv, RequestOK, NamesOK, Entering
    <2> QED
        BY <1>2, <1>13, <2>1 DEF Related, Entering
<1> QED
    BY <1>9, <1>10, <1>11, <1>13, <1>14, <1>15, <1>16, RequestStep

LEMMA NameLeaderStep ==
    ASSUME LobbyIInv, NEW c \in Callers, NameLeader(c)
    PROVE  LobbyIInv' /\ FrozenNow
<1>1. PICK x \in LobbyRequests : x = request[c]
    BY DEF LobbyIInv, LobbyTypeOK
<1>2. x.pc = "name" /\ RequestOK(c, x) /\ x.party \in born /\ x.kind = "create" /\ x.actor \in Heroes
    BY <1>1 DEF NameLeader, LobbyIInv, RequestOK, KindOK, NamesOK
<1>3. PICK q \in Parties : q = x.party
    BY <1>2 DEF LobbyIInv, LobbyTypeOK
<1>4. Waiting(q)
    BY <1>2, <1>3 DEF RequestOK, FoundingOK, Founding
<1>5. belongs' = [belongs EXCEPT ![x.actor] = q]
    BY <1>1, <1>3 DEF NameLeader
<1>6. UNCHANGED <<lobby, ready, lease, runRow, heroRow, admission, engaged, born, leaseLapses, mishaps>>
    BY DEF NameLeader, partyRows, partySql, partyCounts
<1>7. belongs' \in [Heroes -> Parties \cup {NoParty}]
      /\ \A h \in Heroes : belongs'[h] \in {belongs[h], NoParty, q}
    BY <1>5 DEF LobbyIInv, LobbyTypeOK
<1>8. Touches(c) /\ TypesNext /\ FrozenNow
    <2>1. RowsNext(c)
        BY <1>6, RowsGoOn DEF partyRows
    <2>2. Stored(q)' => Stored(q) /\ lobby'[q].leader = lobby[q].leader
        BY <1>6 DEF Stored
    <2>3. /\ lobby' \in [Parties -> Lobbies] /\ ready' \subseteq Parties \X Heroes
          /\ lease' \in [Parties -> Callers \cup {Vacant, Left}]
          /\ leaseLapses' \in 0..MaxLeaseLapses /\ mishaps' \in 0..MaxMishaps
        BY <1>6 DEF LobbyIInv, LobbyTypeOK
    <2> QED
        BY <1>4, <1>6, <1>7, <2>1, <2>2, <2>3, KeysStep
<1>9. PICK y : y = [x EXCEPT !.pc = "write"]
    OBVIOUS
<1>10. y \in LobbyRequests /\ y.pc = "write" /\ y.kind = x.kind /\ y.actor = x.actor
       /\ y.party = x.party /\ y.about = x.about /\ y.seen = x.seen
    BY <1>9 DEF LobbyRequests
<1>11. Continues(c, y)
    BY <1>1, <1>9 DEF NameLeader, Proceed
<1>12. KindOK(y) /\ (OnRun(y) => OnRun(x)) /\ (AtHeroes(y) => AtHeroes(x))
       /\ (Entering(y) => Entering(x)) /\ (Founding(y) => Founding(x)) /\ AnswersOK(y)'
    BY <1>2, <1>10 DEF KindOK, OnRun, AtHeroes, Entering, Founding, AnswersOK
<1>13. RequestOK(c, y)' /\ \A d \in Callers \ {c} : Related(y, request[d]) /\ Related(request[d], y)
    BY <1>1, <1>2, <1>6, <1>10, <1>12, GoesOn DEF Stored
<1> QED
    BY <1>8, <1>10, <1>11, <1>13, RequestStep

\* A request that holds the row of the run writes the keys of its party and
\* goes on.
LEMMA OnRunStep ==
    ASSUME LobbyIInv, NEW c \in Callers, NEW x \in LobbyRequests, x = request[c], OnRun(x), x.pc # "hero",
           NEW q \in Parties, q = x.party,
           UNCHANGED <<lease, partyRows, partySql, born, partyCounts>>,
           lobby' \in [Parties -> Lobbies], \A r \in Parties \ {q} : lobby'[r] = lobby[r],
           Stored(q)' => Stored(q) /\ lobby'[q].leader = lobby[q].leader,
           belongs' \in [Heroes -> Parties \cup {NoParty}],
           \A h \in Heroes : belongs'[h] \in {belongs[h], NoParty}, ready' \subseteq ready,
           NEW y \in LobbyRequests, Continues(c, y), y.kind = x.kind, y.actor = x.actor,
           y.party = x.party, y.about = x.about, y.seen = x.seen,
           y.pc \in {"drop", "reopen", "unready", "undo", "commit"}, KindOK(y), y.kind # "enter", AnswersOK(y)'
    PROVE  LobbyIInv' /\ FrozenNow
<1>1. Waiting(q) /\ x.party \in born /\ x.pc \notin {"idle", "clear", "hero"}
    BY DEF LobbyIInv, RequestOK, RowsOK, NamesOK, OnRun
<1>2. UNCHANGED <<admission, engaged, leaseLapses, mishaps, runRow, heroRow>>
    BY DEF partySql, partyCounts, partyRows
<1>3. Touches(c) /\ TypesNext /\ FrozenNow
    <2>1. lease' \in [Parties -> Callers \cup {Vacant, Left}]
          /\ leaseLapses' \in 0..MaxLeaseLapses /\ mishaps' \in 0..MaxMishaps /\ ready \subseteq Parties \X Heroes
        BY <1>2 DEF LobbyIInv, LobbyTypeOK
    <2>2. ready' \subseteq Parties \X Heroes
        BY <2>1
    <2>3. RowsNext(c)
        BY RowsGoOn
    <2>4. \A h \in Heroes : belongs'[h] \in {belongs[h], NoParty, q}
        OBVIOUS
    <2>5. \A r \in Parties, h \in Heroes : <<r, h>> \in ready' =>
             <<r, h>> \in ready \/ (r = q /\ (runRow[q] = c \/ heroRow[h] = c))
        OBVIOUS
    <2> QED
        BY <1>1, <1>2, <2>1, <2>2, <2>3, <2>4, <2>5, KeysStep
<1>4. (OnRun(y) => OnRun(x)) /\ (AtHeroes(y) => AtHeroes(x)) /\ ~Entering(y) /\ ~Founding(y) /\ y.pc # "hero"
    BY DEF LobbyIInv, RequestOK, KindOK, OnRun, AtHeroes, Entering, Founding
<1>5. RequestOK(c, y)' /\ \A d \in Callers \ {c} : Related(y, request[d]) /\ Related(request[d], y)
    BY <1>1, <1>2, <1>4, GoesOn
<1> QED
    BY <1>3, <1>5, RequestStep

\* A step that begins with an UpdateParty.
LEMMA UpdatesStep ==
    ASSUME LobbyIInv, NEW c \in Callers, NEW x \in LobbyRequests, x = request[c], OnRun(x), x.pc # "hero",
           NEW s \in {"recruiting", "in_progress", "disbanded"}, NEW y, Updates(c, s, y),
           Stored(x.party) =>
              /\ y \in LobbyRequests /\ y.kind = x.kind /\ y.actor = x.actor
              /\ y.party = x.party /\ y.about = x.about /\ y.seen = x.seen /\ y.pc \in {"drop", "reopen"}
              /\ KindOK(y) /\ y.kind # "enter"
    PROVE  LobbyIInv' /\ FrozenNow
<1>1. x.party \in born /\ x.pc \notin {"idle", "clear"}
    BY DEF LobbyIInv, RequestOK, NamesOK, OnRun
<1>2. PICK q \in Parties : q = x.party
    BY <1>1 DEF LobbyIInv, LobbyTypeOK
<1>3. UNCHANGED <<belongs, ready, lease, partySql, born, partyCounts>>
    BY DEF Updates
<1>4. CASE Stored(q)
    <2>1. HasStatus(q, s) /\ Continues(c, y) /\ UNCHANGED partyRows
        BY <1>2, <1>4 DEF Updates
    <2>2. lobby' \in [Parties -> Lobbies] /\ (\A r \in Parties \ {q} : lobby'[r] = lobby[r])
          /\ (Stored(q)' => Stored(q) /\ lobby'[q].leader = lobby[q].leader)
        BY <1>4, <2>1, StatusWritten
    <2>3. y \in LobbyRequests /\ y.kind = x.kind /\ y.actor = x.actor /\ y.pc \in {"drop", "reopen"}
          /\ y.party = x.party /\ y.about = x.about /\ y.seen = x.seen /\ KindOK(y) /\ y.kind # "enter"
        BY <1>2, <1>4
    <2>4. AnswersOK(y)'
        BY <2>3 DEF AnswersOK
    <2> QED
        BY <1>2, <1>3, <2>1, <2>2, <2>3, <2>4, OnRunStep DEF LobbyIInv, LobbyTypeOK
<1>5. CASE ~Stored(q)
    <2>1. Denied(c) /\ UNCHANGED lobby
        BY <1>2, <1>5 DEF Updates
    <2>2. UNCHANGED <<belongs, ready, lease, admission, engaged, born, leaseLapses, mishaps>>
        BY <1>3 DEF partySql, partyCounts
    <2> QED
        BY <1>1, <2>1, <2>2, AnswerStep DEF Denied, LobbyIInv, LobbyTypeOK
<1> QED
    BY <1>4, <1>5

LEMMA MarkDisbandedStep ==
    ASSUME LobbyIInv, NEW c \in Callers, MarkDisbanded(c)
    PROVE  LobbyIInv' /\ FrozenNow
<1>1. PICK x \in LobbyRequests : x = request[c]
    BY DEF LobbyIInv, LobbyTypeOK
<1>2. x.pc = "close" /\ OnRun(x) /\ x.kind \in {"leave", "disband"} /\ x.party \in Parties
    BY <1>1 DEF MarkDisbanded, LobbyIInv, LobbyTypeOK, RequestOK, KindOK, NamesOK, OnRun
<1>3. PICK S : S = lobby[x.party].members \cup {lobby[x.party].leader}
    OBVIOUS
<1>4. PICK y : y = [x EXCEPT !.pc = "drop", !.todo = S]
    OBVIOUS
<1>5. Updates(c, "disbanded", y)
    BY <1>1, <1>3, <1>4 DEF MarkDisbanded
<1>6. ASSUME Stored(x.party)
      PROVE  /\ y \in LobbyRequests /\ y.kind = x.kind /\ y.actor = x.actor
             /\ y.party = x.party /\ y.about = x.about /\ y.seen = x.seen /\ y.pc = "drop"
    <2>1. S \in SUBSET Heroes
        BY <1>2, <1>3, <1>6 DEF LobbyIInv, LobbyTypeOK, Lobbies
    <2> QED
        BY <1>4, <2>1 DEF LobbyRequests
<1>7. Stored(x.party) => KindOK(y)
    BY <1>2, <1>6 DEF KindOK
<1> QED
    BY <1>1, <1>2, <1>5, <1>6, <1>7, UpdatesStep

LEMMA ClaimStep ==
    ASSUME LobbyIInv, NEW c \in Callers, Claim(c)
    PROVE  LobbyIInv' /\ FrozenNow
<1>1. PICK x \in LobbyRequests : x = request[c]
    BY DEF LobbyIInv, LobbyTypeOK
<1>2. x.pc = "claim" /\ OnRun(x) /\ x.kind = "start"
    BY <1>1 DEF Claim, LobbyIInv, RequestOK, KindOK, OnRun
<1>3. PICK y : y = [x EXCEPT !.pc = "reopen"]
    OBVIOUS
<1>4. Updates(c, "in_progress", y)
    BY <1>1, <1>3 DEF Claim
<1>5. y \in LobbyRequests /\ y.kind = x.kind /\ y.actor = x.actor
      /\ y.party = x.party /\ y.about = x.about /\ y.seen = x.seen /\ y.pc = "reopen"
    BY <1>3 DEF LobbyRequests
<1>6. KindOK(y)
    BY <1>2, <1>5 DEF KindOK
<1> QED
    BY <1>1, <1>2, <1>4, <1>5, <1>6, UpdatesStep

\* The keys of a member are deleted.
LEMMA DeletePartyStep ==
    ASSUME LobbyIInv, NEW c \in Callers, DeleteParty(c)
    PROVE  LobbyIInv' /\ FrozenNow
<1>1. PICK x \in LobbyRequests : x = request[c]
    BY DEF LobbyIInv, LobbyTypeOK
<1>2. x.pc = "drop" /\ OnRun(x) /\ x.kind \in {"leave", "disband"}
    BY <1>1 DEF DeleteParty, LobbyIInv, RequestOK, KindOK, OnRun
<1>3. PICK q \in Parties : q = x.party
    BY <1>1, <1>2 DEF LobbyIInv, LobbyTypeOK, RequestOK, NamesOK
<1>4. UNCHANGED <<lease, partyRows, partySql, born, partyCounts>>
    BY DEF DeleteParty
<1>5. ASSUME NEW h \in x.todo, belongs' = [belongs EXCEPT ![h] = NoParty], ready' = ready \ {<<q, h>>},
             Continues(c, [x EXCEPT !.todo = @ \ {h}]), UNCHANGED lobby
      PROVE  LobbyIInv' /\ FrozenNow
    <2>1. PICK y : y = [x EXCEPT !.todo = @ \ {h}]
        OBVIOUS
    <2>2. y \in LobbyRequests /\ y.kind = x.kind /\ y.actor = x.actor
          /\ y.party = x.party /\ y.about = x.about /\ y.seen = x.seen /\ y.pc = "drop"
        BY <1>2, <2>1 DEF LobbyRequests
    <2>3. Continues(c, y)
        BY <1>5, <2>1
    <2>4. KindOK(y) /\ y.kind # "enter" /\ AnswersOK(y)'
        BY <1>2, <2>2 DEF KindOK, AnswersOK
    <2>5. belongs' \in [Heroes -> Parties \cup {NoParty}]
          /\ \A g \in Heroes : belongs'[g] \in {belongs[g], NoParty}
        BY <1>5 DEF LobbyIInv, LobbyTypeOK
    <2>6. ready' \subseteq ready
        BY <1>5
    <2>7. lobby' \in [Parties -> Lobbies] /\ (\A r \in Parties \ {q} : lobby'[r] = lobby[r])
          /\ (Stored(q)' => Stored(q) /\ lobby'[q].leader = lobby[q].leader)
        BY <1>5 DEF LobbyIInv, LobbyTypeOK, Stored
    <2> QED
        BY <1>1, <1>2, <1>3, <1>4, <2>2, <2>3, <2>4, <2>5, <2>6, <2>7, OnRunStep
<1>6. ASSUME lobby' = [lobby EXCEPT ![q] = NoLobby], Proceed(c, "commit"), UNCHANGED <<belongs, ready>>
      PROVE  LobbyIInv' /\ FrozenNow
    <2>1. PICK y : y = [x EXCEPT !.pc = "commit"]
        OBVIOUS
    <2>2. y \in LobbyRequests /\ y.kind = x.kind /\ y.actor = x.actor
          /\ y.party = x.party /\ y.about = x.about /\ y.seen = x.seen /\ y.pc = "commit"
        BY <2>1 DEF LobbyRequests
    <2>3. Continues(c, y)
        BY <1>1, <1>6, <2>1 DEF Proceed
    <2>4. KindOK(y) /\ y.kind # "enter" /\ AnswersOK(y)'
        BY <1>2, <2>2 DEF KindOK, AnswersOK
    <2>5. lobby' \in [Parties -> Lobbies] /\ (\A r \in Parties \ {q} : lobby'[r] = lobby[r])
          /\ (Stored(q)' => Stored(q) /\ lobby'[q].leader = lobby[q].leader)
        BY <1>6, NoRequestTyped, LobbyWritten
    <2>6. belongs' \in [Heroes -> Parties \cup {NoParty}] /\ ready' \subseteq ready
          /\ \A g \in Heroes : belongs'[g] \in {belongs[g], NoParty}
        BY <1>6 DEF LobbyIInv, LobbyTypeOK
    <2> QED
        BY <1>1, <1>2, <1>3, <1>4, <2>2, <2>3, <2>4, <2>5, <2>6, OnRunStep
<1> QED
    BY <1>1, <1>3, <1>5, <1>6 DEF DeleteParty

-----------------------------------------------------------------------------
(* A battle of the party                                                   *)

\* A request of a battle that gives it up.
LEMMA GivesUpStep ==
    ASSUME LobbyIInv, NEW c \in Callers, NEW x \in LobbyRequests, x = request[c],
           x.pc \in {"reopen", "unready"}, Proceed(c, "undo"), UNCHANGED <<lobby, belongs, ready, lease, born>>,
           UNCHANGED <<partyRows, partySql, leaseLapses>>, mishaps' \in 0..MaxMishaps
    PROVE  LobbyIInv' /\ FrozenNow
<1>1. RequestOK(c, x) /\ x.kind = "start" /\ x.party \in born
    BY DEF LobbyIInv, RequestOK, KindOK, NamesOK
<1>2. UNCHANGED <<admission, engaged, runRow, heroRow>>
    BY DEF partyRows, partySql
<1>3. Touches(c) /\ TypesNext /\ FrozenNow
    BY <1>2, RowsGoOn, RowsStep DEF LobbyIInv, LobbyTypeOK
<1>4. PICK y : y = [x EXCEPT !.pc = "undo"]
    OBVIOUS
<1>5. y \in LobbyRequests /\ y.kind = x.kind /\ y.actor = x.actor
      /\ y.party = x.party /\ y.about = x.about /\ y.seen = x.seen /\ y.pc = "undo"
    BY <1>4 DEF LobbyRequests
<1>6. Continues(c, y)
    BY <1>4 DEF Proceed
<1>7. KindOK(y) /\ (OnRun(y) => OnRun(x)) /\ (AtHeroes(y) => AtHeroes(x))
      /\ (Entering(y) => Entering(x)) /\ (Founding(y) => Founding(x)) /\ AnswersOK(y)'
    BY <1>1, <1>5 DEF KindOK, OnRun, AtHeroes, Entering, Founding, AnswersOK
<1>8. RequestOK(c, y)' /\ \A d \in Callers \ {c} : Related(y, request[d]) /\ Related(request[d], y)
    BY <1>1, <1>2, <1>5, <1>7, GoesOn DEF Stored
<1> QED
    BY <1>3, <1>5, <1>6, <1>8, RequestStep

LEMMA ReopenStep ==
    ASSUME LobbyIInv, NEW c \in Callers, Reopen(c)
    PROVE  LobbyIInv' /\ FrozenNow
<1>1. PICK x \in LobbyRequests : x = request[c]
    BY DEF LobbyIInv, LobbyTypeOK
<1>2. x.pc = "reopen" /\ OnRun(x) /\ x.kind = "start" /\ x.party \in Parties
    BY <1>1 DEF Reopen, LobbyIInv, LobbyTypeOK, RequestOK, KindOK, NamesOK, OnRun
<1>3. UNCHANGED <<belongs, ready, lease, partyRows, partySql, born, partyCounts>>
    BY DEF Reopen
<1>4. CASE Stored(x.party)
    <2>1. PICK y : y = [x EXCEPT !.pc = "unready", !.todo = x.seen]
        OBVIOUS
    <2>2. y \in LobbyRequests /\ y.kind = x.kind /\ y.actor = x.actor
          /\ y.party = x.party /\ y.about = x.about /\ y.seen = x.seen /\ y.pc = "unready" /\ y.todo = x.seen
        BY <2>1 DEF LobbyRequests
    <2>3. Continues(c, y) /\ HasStatus(x.party, "recruiting")
        BY <1>1, <1>4, <2>1 DEF Reopen
    <2>4. lobby' \in [Parties -> Lobbies] /\ (\A r \in Parties \ {x.party} : lobby'[r] = lobby[r])
          /\ (Stored(x.party)' => Stored(x.party) /\ lobby'[x.party].leader = lobby[x.party].leader)
        BY <1>2, <1>4, <2>3, StatusWritten
    <2>5. KindOK(y) /\ y.kind # "enter" /\ AnswersOK(y)'
        BY <1>2, <2>2 DEF KindOK, AnswersOK
    <2> QED
        BY <1>1, <1>2, <1>3, <2>2, <2>3, <2>4, <2>5, OnRunStep DEF LobbyIInv, LobbyTypeOK
<1>5. CASE ~Stored(x.party)
    <2>1. Proceed(c, "undo") /\ UNCHANGED lobby
        BY <1>1, <1>5 DEF Reopen
    <2> QED
        BY <1>1, <1>2, <1>3, <2>1, GivesUpStep DEF partyCounts, LobbyIInv, LobbyTypeOK
<1> QED
    BY <1>4, <1>5

LEMMA UnreadyStep ==
    ASSUME LobbyIInv, NEW c \in Callers, Unready(c)
    PROVE  LobbyIInv' /\ FrozenNow
<1>1. PICK x \in LobbyRequests : x = request[c]
    BY DEF LobbyIInv, LobbyTypeOK
<1>2. x.pc = "unready" /\ OnRun(x) /\ x.kind = "start" /\ x.party \in Parties /\ AnswersOK(x)
    BY <1>1 DEF Unready, LobbyIInv, LobbyTypeOK, RequestOK, KindOK, NamesOK, OnRun
<1>3. UNCHANGED <<lobby, belongs, lease, partyRows, partySql, born, partyCounts>>
    BY DEF Unready
<1>4. PICK h \in x.todo :
         IF h \in lobby[x.party].members
         THEN /\ ready' = ready \ {<<x.party, h>>}
              /\ Continues(c, [x EXCEPT !.todo = @ \ {h}, !.pc = IF x.todo = {h} THEN "commit" ELSE "unready"])
         ELSE Proceed(c, "undo") /\ UNCHANGED ready
    BY <1>1 DEF Unready
<1>5. CASE h \in lobby[x.party].members
    <2>1. PICK pc \in {"commit", "unready"} : pc = IF x.todo = {h} THEN "commit" ELSE "unready"
        OBVIOUS
    <2>2. PICK y : y = [x EXCEPT !.todo = @ \ {h}, !.pc = pc]
        OBVIOUS
    <2>3. y \in LobbyRequests /\ y.kind = x.kind /\ y.actor = x.actor
          /\ y.party = x.party /\ y.about = x.about /\ y.seen = x.seen /\ y.pc = pc
          /\ y.todo = x.todo \ {h}
        BY <2>2 DEF LobbyRequests
    <2>4. Continues(c, y)
        BY <1>4, <1>5, <2>1, <2>2
    <2>5. ready' = ready \ {<<x.party, h>>}
        BY <1>4, <1>5
    <2>6. AnswersOK(y)'
        <3>1. \A g \in x.seen : g \notin x.todo \/ g = h => <<x.party, g>> \notin ready'
            BY <1>2, <2>5 DEF AnswersOK
        <3>2. pc = "commit" => x.todo = {h}
            BY <2>1
        <3> QED
            BY <2>3, <3>1, <3>2 DEF AnswersOK
    <2>7. KindOK(y) /\ y.kind # "enter"
        BY <1>2, <2>3 DEF KindOK
    <2>8. lobby' \in [Parties -> Lobbies] /\ (\A r \in Parties \ {x.party} : lobby'[r] = lobby[r])
          /\ (Stored(x.party)' => Stored(x.party) /\ lobby'[x.party].leader = lobby[x.party].leader)
        BY <1>3 DEF LobbyIInv, LobbyTypeOK, Stored
    <2>9. ready' \subseteq ready /\ belongs' \in [Heroes -> Parties \cup {NoParty}]
          /\ \A g \in Heroes : belongs'[g] \in {belongs[g], NoParty}
        BY <1>3, <2>5 DEF LobbyIInv, LobbyTypeOK
    <2> QED
        BY <1>1, <1>2, <1>3, <2>3, <2>4, <2>6, <2>7, <2>8, <2>9, OnRunStep
<1>6. CASE h \notin lobby[x.party].members
    <2>1. Proceed(c, "undo") /\ UNCHANGED ready
        BY <1>4, <1>6
    <2> QED
        BY <1>1, <1>2, <1>3, <2>1, GivesUpStep DEF partyCounts, LobbyIInv, LobbyTypeOK
<1> QED
    BY <1>5, <1>6

\* A request that ends with a write of the status of its lobby.
LEMMA StatusAndEnd ==
    ASSUME LobbyIInv, NEW c \in Callers, NEW x \in LobbyRequests, x = request[c], OnRun(x), x.pc # "hero",
           NEW s \in {"recruiting", "in_progress", "disbanded"},
           (Stored(x.party) /\ HasStatus(x.party, s)) \/ UNCHANGED lobby, Denied(c),
           UNCHANGED <<belongs, ready, lease, partySql, born, leaseLapses>>, mishaps' \in 0..MaxMishaps
    PROVE  LobbyIInv' /\ FrozenNow
<1>1. PICK q \in Parties : q = x.party
    BY DEF LobbyIInv, LobbyTypeOK, RequestOK, NamesOK, OnRun
<1>2. Waiting(q) /\ x.pc \notin {"idle", "clear"}
    BY <1>1 DEF LobbyIInv, RequestOK, RowsOK, OnRun
<1>3. lobby' \in [Parties -> Lobbies] /\ (\A r \in Parties \ {q} : lobby'[r] = lobby[r])
      /\ (Stored(q)' => Stored(q) /\ lobby'[q].leader = lobby[q].leader)
    <2>1. CASE UNCHANGED lobby
        BY <2>1 DEF LobbyIInv, LobbyTypeOK, Stored
    <2>2. CASE Stored(q) /\ HasStatus(q, s)
        BY <2>2, StatusWritten
    <2> QED
        BY <1>1, <2>1, <2>2
<1>4. RowsFreed(c) /\ Ended(c) /\ UNCHANGED <<admission, engaged>>
    BY DEF Denied, partySql
<1>5. RowsNext(c)
    BY <1>4, RowsGoOn
<1>6. /\ belongs' \in [Heroes -> Parties \cup {NoParty}] /\ ready' \subseteq Parties \X Heroes
      /\ lease' \in [Parties -> Callers \cup {Vacant, Left}] /\ leaseLapses' \in 0..MaxLeaseLapses
    BY DEF LobbyIInv, LobbyTypeOK
<1>7. Touches(c) /\ TypesNext /\ FrozenNow
    BY <1>2, <1>3, <1>4, <1>5, <1>6, KeysStep
<1>8. PICK y \in LobbyRequests :
         /\ Continues(c, y)
         /\ \/ y = NoRequest
            \/ /\ y.pc = "release" /\ y.kind # "create" /\ y.kind = request[c].kind
               /\ y.party = request[c].party /\ y.actor = request[c].actor /\ y.about = request[c].about
    BY <1>2, <1>4, EndedRequest
<1>9. RequestOK(c, y)' /\ \A d \in Callers \ {c} : Related(y, request[d]) /\ Related(request[d], y)
    BY <1>2, <1>8, EndedOK
<1> QED
    BY <1>7, <1>8, <1>9, RequestStep

LEMMA UndoStep ==
    ASSUME LobbyIInv, NEW c \in Callers, Undo(c)
    PROVE  LobbyIInv' /\ FrozenNow
<1>1. PICK x \in LobbyRequests : x = request[c]
    BY DEF LobbyIInv, LobbyTypeOK
<1>2. x.pc = "undo" /\ OnRun(x)
    BY <1>1 DEF Undo, LobbyIInv, RequestOK, KindOK, OnRun
<1>3. /\ (Stored(x.party) /\ HasStatus(x.party, "recruiting")) \/ UNCHANGED lobby
      /\ Denied(c) /\ UNCHANGED <<belongs, ready, lease, partySql, born, partyCounts>>
    BY <1>1 DEF Undo
<1> QED
    BY <1>1, <1>2, <1>3, StatusAndEnd DEF partyCounts, LobbyIInv, LobbyTypeOK

-----------------------------------------------------------------------------
(* The end of a request                                                    *)

LEMMA CommitLobbyStep ==
    ASSUME LobbyIInv, NEW c \in Callers, CommitLobby(c)
    PROVE  LobbyIInv' /\ FrozenNow
<1>1. PICK x \in LobbyRequests : x = request[c]
    BY DEF LobbyIInv, LobbyTypeOK
<1>2. x.pc = "commit" /\ RequestOK(c, x) /\ x.party \in born /\ x.seen \in SUBSET Heroes /\ x.actor \in Heroes
    BY <1>1, RequestFields DEF CommitLobby, LobbyIInv, RequestOK, NamesOK
<1>3. PICK q \in Parties : q = x.party
    BY <1>2 DEF LobbyIInv, LobbyTypeOK
<1>4. RowsFreed(c) /\ Ended(c) /\ UNCHANGED <<lobby, belongs, ready, lease, born, leaseLapses, mishaps>>
    BY DEF CommitLobby, partyKeys, partyCounts
<1>5. RowsNext(c)
    BY <1>4, RowsGoOn
<1>6. x.kind \in {"enter", "depart"} => \A h \in x.seen : heroRow[h] = c
    BY <1>2 DEF RequestOK, RowsOK, AtHeroes
<1>7. \/ UNCHANGED admission
      \/ /\ x.kind = "enter"
         /\ admission' = [admission EXCEPT ![q] = [leader |-> x.actor, roster |-> x.seen]]
    BY <1>1, <1>3 DEF CommitLobby, partySql
<1>8. engaged' \in [Heroes -> Parties \cup {NoParty, Elsewhere}]
      /\ \A h \in Heroes : heroRow[h] = c \/ engaged'[h] \in {engaged[h], NoParty}
    <2>1. CASE x.kind = "enter"
        <3>1. engaged' = [h \in Heroes |-> IF h \in x.seen THEN q ELSE engaged[h]]
            BY <1>1, <1>3, <2>1 DEF CommitLobby
        <3> QED
            BY <1>2, <1>6, <2>1, <3>1 DEF LobbyIInv, LobbyTypeOK
    <2>2. CASE x.kind = "depart"
        <3>1. engaged' = [h \in Heroes |-> IF h \in x.seen THEN Elsewhere ELSE engaged[h]]
            BY <1>1, <2>2 DEF CommitLobby
        <3> QED
            BY <1>2, <1>6, <2>2, <3>1 DEF LobbyIInv, LobbyTypeOK
    <2>3. CASE x.kind \notin {"enter", "depart"}
        <3>1. engaged' = engaged
            BY <1>1, <2>3 DEF CommitLobby, partySql
        <3> QED
            BY <3>1 DEF LobbyIInv, LobbyTypeOK
    <2> QED
        BY <2>1, <2>2, <2>3
<1>9. x.kind = "enter" =>
         runRow[q] = c /\ \A d \in Callers : Founding(request[d]) => request[d].party # q
    <2>1. SUFFICES ASSUME x.kind = "enter", NEW d \in Callers, Founding(request[d]), request[d].party = q
                   PROVE  FALSE
        BY <1>2, <1>3 DEF RequestOK, RowsOK, OnRun
    <2>2. request[d].actor = x.actor
        BY <1>1, <1>2, <1>3, <2>1 DEF LobbyIInv, Related, Entering
    <2>3. heroRow[x.actor] = d
        BY <2>1, <2>2 DEF LobbyIInv, RequestOK, NamesOK, RowsOK, Founding, AtHeroes
    <2>4. heroRow[x.actor] = c
        BY <1>2, <1>6, <2>1 DEF RequestOK, NamesOK, Entering
    <2> QED
        BY <1>1, <2>1, <2>3, <2>4 DEF Founding
<1>10. admission' \in [Parties -> Admissions]
       /\ \A r \in Parties \ {q} : admission'[r] = admission[r]
    <2>1. [leader |-> x.actor, roster |-> x.seen] \in Admissions
        BY <1>2 DEF Admissions
    <2> QED
        BY <1>7, <2>1 DEF LobbyIInv, LobbyTypeOK
<1>11. Touches(c)
    <2>1. \A r \in Parties : admission'[r] # admission[r] =>
             /\ runRow[r] = c /\ r \in born
             /\ \A d \in Callers : Founding(request[d]) => request[d].party # r
        BY <1>2, <1>3, <1>7, <1>9, <1>10
    <2>2. \A r \in born : Stored(r)' => Stored(r) /\ lobby'[r].leader = lobby[r].leader
        BY <1>4 DEF Stored
    <2> QED
        BY <1>4, <1>5, <1>8, <2>1, <2>2 DEF Touches, RowsNext
<1>12. TypesNext
    <2>1. \A r \in Parties : Stored(r)' => lobby'[r].leader \in Heroes
        BY <1>4 DEF LobbyIInv, Stored
    <2>2. /\ lobby' \in [Parties -> Lobbies] /\ belongs' \in [Heroes -> Parties \cup {NoParty}]
          /\ ready' \subseteq Parties \X Heroes /\ lease' \in [Parties -> Callers \cup {Vacant, Left}]
          /\ born' \subseteq Parties /\ leaseLapses' \in 0..MaxLeaseLapses /\ mishaps' \in 0..MaxMishaps
        BY <1>4 DEF LobbyIInv, LobbyTypeOK
    <2> QED
        BY <1>5, <1>8, <1>10, <2>1, <2>2 DEF TypesNext, RowsNext
<1>13. FrozenNow
    BY <1>4 DEF FrozenNow, OnlyCleared
<1>14. PICK y \in LobbyRequests :
         /\ Continues(c, y)
         /\ \/ y = NoRequest
            \/ /\ y.pc = "release" /\ y.kind # "create" /\ y.kind = request[c].kind
               /\ y.party = request[c].party /\ y.actor = request[c].actor /\ y.about = request[c].about
    BY <1>1, <1>2, <1>4, EndedRequest
<1>15. RequestOK(c, y)' /\ \A d \in Callers \ {c} : Related(y, request[d]) /\ Related(request[d], y)
    BY <1>1, <1>2, <1>4, <1>14, EndedOK
<1> QED
    BY <1>11, <1>12, <1>13, <1>14, <1>15, RequestStep

LEMMA ReleaseLeaseStep ==
    ASSUME LobbyIInv, NEW c \in Callers, ReleaseLease(c)
    PROVE  LobbyIInv' /\ FrozenNow
<1>1. PICK x \in LobbyRequests : x = request[c]
    BY DEF LobbyIInv, LobbyTypeOK
<1>2. x.pc = "release" /\ x.kind # "create" /\ x.actor \in Heroes /\ x.party \in born
    BY <1>1 DEF ReleaseLease, LobbyIInv, RequestOK, KindOK, NamesOK
<1>3. PICK a \in Admissions : a = admission[x.party]
    BY <1>2 DEF LobbyIInv, LobbyTypeOK
<1>4. UNCHANGED <<partyKeys, partyRows, partySql, born, partyCounts>>
    BY DEF ReleaseLease
<1>5. lease' \in [Parties -> Callers \cup {Vacant, Left}]
    <2>1. PICK v \in Callers \cup {Vacant, Left} :
             v = IF lease[x.party] = c THEN Vacant ELSE lease[x.party]
        BY <1>2 DEF LobbyIInv, LobbyTypeOK
    <2>2. lease' = [lease EXCEPT ![x.party] = v]
        BY <1>1, <2>1, Zenon DEF ReleaseLease
    <2> QED
        BY <2>1, <2>2 DEF LobbyIInv, LobbyTypeOK
<1>6. CASE x.kind = "enter" /\ a.leader = x.actor
    <2>1. PICK S \in SUBSET Heroes : S = a.roster \cup {a.leader}
        BY <1>2, <1>6 DEF Admissions
    <2>2. PICK y : y = [x EXCEPT !.pc = "clear", !.seen = {}, !.todo = S]
        OBVIOUS
    <2>3. y \in LobbyRequests /\ y.kind = x.kind /\ y.actor = x.actor /\ y.party = x.party /\ y.pc = "clear"
        BY <2>2 DEF LobbyRequests
    <2>4. Continues(c, y)
        BY <1>1, <1>3, <1>6, <2>1, <2>2 DEF ReleaseLease
    <2> QED
        BY <1>2, <1>4, <1>5, <2>3, <2>4, NewRequest
<1>7. CASE ~(x.kind = "enter" /\ a.leader = x.actor)
    <2>1. Continues(c, NoRequest)
        BY <1>1, <1>3, <1>7 DEF ReleaseLease
    <2> QED
        BY <1>1, <1>2, <1>4, <1>5, <2>1, AnswerStep
        DEF partyKeys, partySql, partyCounts, LobbyIInv, LobbyTypeOK
<1> QED
    BY <1>6, <1>7

LEMMA CleanupPartyStep ==
    ASSUME LobbyIInv, NEW c \in Callers, CleanupParty(c)
    PROVE  LobbyIInv' /\ FrozenNow
<1>1. PICK x \in LobbyRequests : x = request[c]
    BY DEF LobbyIInv, LobbyTypeOK
<1>2. x.pc = "clear" /\ x.party \in born /\ x.kind # "create" /\ RequestOK(c, x)
    BY <1>1 DEF CleanupParty, LobbyIInv, RequestOK, KindOK, NamesOK
<1>3. PICK q \in Parties : q = x.party
    BY <1>2 DEF LobbyIInv, LobbyTypeOK
<1>4. UNCHANGED <<lease, partyRows, admission, engaged, born, leaseLapses, mishaps>>
    BY DEF CleanupParty, partySql, partyCounts
<1>5. RowsNext(c)
    BY <1>4, RowsGoOn
<1>6. /\ lease' \in [Parties -> Callers \cup {Vacant, Left}]
      /\ leaseLapses' \in 0..MaxLeaseLapses /\ mishaps' \in 0..MaxMishaps
    BY <1>4 DEF LobbyIInv, LobbyTypeOK
<1>7. ASSUME NEW h \in x.todo, belongs' = [belongs EXCEPT ![h] = IF @ = q THEN NoParty ELSE @],
             ready' = ready \ {<<q, h>>},
             Continues(c, [x EXCEPT !.todo = @ \ {h}]), UNCHANGED lobby
      PROVE  LobbyIInv' /\ FrozenNow
    <2>1. belongs' \in [Heroes -> Parties \cup {NoParty}]
          /\ \A g \in Heroes : belongs'[g] \in {belongs[g], NoParty}
        <3>1. PICK v : v = IF belongs[h] = q THEN NoParty ELSE belongs[h]
            OBVIOUS
        <3>2. belongs' = [belongs EXCEPT ![h] = v]
            BY <1>7, <3>1, Zenon
        <3>3. h \in Heroes
            BY <1>7, RequestFields
        <3>4. v \in {belongs[h], NoParty}
            BY <3>1
        <3> QED
            BY <3>2, <3>3, <3>4 DEF LobbyIInv, LobbyTypeOK
    <2>2. ready' \subseteq ready /\ ready' \subseteq Parties \X Heroes
        BY <1>7 DEF LobbyIInv, LobbyTypeOK
    <2>3. lobby' \in [Parties -> Lobbies] /\ (\A r \in Parties \ {q} : lobby'[r] = lobby[r])
          /\ (Stored(q)' => Stored(q) /\ lobby'[q].leader = lobby[q].leader)
        BY <1>7 DEF LobbyIInv, LobbyTypeOK, Stored
    <2>4. lobby'[q] = lobby[q]
        BY <1>7
    <2>5. \A r \in Parties, g \in Heroes : <<r, g>> \in ready' => <<r, g>> \in ready
        BY <2>2
    <2>6. Touches(c) /\ TypesNext /\ FrozenNow
        BY <1>4, <1>5, <1>6, <2>1, <2>2, <2>3, <2>4, <2>5, KeysStep
    <2>7. PICK y : y = [x EXCEPT !.todo = @ \ {h}]
        OBVIOUS
    <2>8. y \in LobbyRequests /\ y.kind = x.kind /\ y.actor = x.actor
          /\ y.party = x.party /\ y.pc = "clear"
        BY <1>2, <2>7 DEF LobbyRequests
    <2>9. Continues(c, y)
        BY <1>7, <2>7
    <2>10. RequestOK(c, y)'
        BY <1>2, <1>4, <2>8
        DEF RequestOK, KindOK, NamesOK, RowsOK, FoundingOK, AnswersOK, OnRun, AtHeroes, Founding, Entering
    <2>11. \A d \in Callers \ {c} : Related(y, request[d]) /\ Related(request[d], y)
        BY <2>8 DEF Related, Founding, Entering
    <2> QED
        BY <2>6, <2>8, <2>9, <2>10, <2>11, RequestStep
<1>8. ASSUME lobby' = [lobby EXCEPT ![q] = NoLobby], Continues(c, NoRequest), UNCHANGED <<belongs, ready>>
      PROVE  LobbyIInv' /\ FrozenNow
    <2>1. lobby' \in [Parties -> Lobbies] /\ (\A r \in Parties \ {q} : lobby'[r] = lobby[r])
          /\ (Stored(q)' => Stored(q) /\ lobby'[q].leader = lobby[q].leader) /\ lobby'[q] = NoLobby
        BY <1>8, NoRequestTyped, LobbyWritten
    <2>2. /\ belongs' \in [Heroes -> Parties \cup {NoParty}] /\ ready' \subseteq Parties \X Heroes
          /\ ready' \subseteq ready
          /\ \A g \in Heroes : belongs'[g] \in {belongs[g], NoParty}
        BY <1>8 DEF LobbyIInv, LobbyTypeOK
    <2>3. Touches(c) /\ TypesNext /\ FrozenNow
        BY <1>4, <1>5, <1>6, <2>1, <2>2, KeysStep
    <2>4. RequestOK(c, NoRequest)'
          /\ \A d \in Callers \ {c} : Related(NoRequest, request[d]) /\ Related(request[d], NoRequest)
        BY <1>4, NoRequestTyped, EndedOK
    <2> QED
        BY <1>8, <2>3, <2>4, NoRequestTyped, RequestStep
<1> QED
    BY <1>1, <1>3, <1>7, <1>8 DEF CleanupParty

-----------------------------------------------------------------------------
(* What goes wrong, and what ends by itself                                *)

LEMMA MishapBounded ==
    ASSUME LobbyIInv, Mishap
    PROVE  mishaps' \in 0..MaxMishaps /\ leaseLapses' \in 0..MaxLeaseLapses /\ UNCHANGED leaseLapses
BY PartyAssumption DEF Mishap, LobbyIInv, LobbyTypeOK

LEMMA RequestFailsStep ==
    ASSUME LobbyIInv, NEW c \in Callers, RequestFails(c)
    PROVE  LobbyIInv' /\ FrozenNow
<1>1. PICK x \in LobbyRequests : x = request[c]
    BY DEF LobbyIInv, LobbyTypeOK
<1>2. mishaps' \in 0..MaxMishaps /\ leaseLapses' \in 0..MaxLeaseLapses /\ UNCHANGED leaseLapses
    BY MishapBounded DEF RequestFails
<1>3. UNCHANGED <<belongs, ready, lease, partySql, born>>
    BY DEF RequestFails
<1>4. UNCHANGED <<admission, engaged>> /\ lease' \in [Parties -> Callers \cup {Vacant, Left}]
    BY <1>3 DEF partySql, LobbyIInv, LobbyTypeOK
<1>5. CASE x.pc \in {"reopen", "unready"} /\ Proceed(c, "undo") /\ UNCHANGED <<lobby, partyRows>>
    BY <1>1, <1>2, <1>3, <1>5, GivesUpStep
<1>6. CASE x.pc = "clear" /\ Continues(c, NoRequest) /\ UNCHANGED <<lobby, partyRows>>
    BY <1>1, <1>2, <1>3, <1>4, <1>6, AnswerStep
<1>7. CASE x.pc = "claim" /\ Stored(x.party) /\ HasStatus(x.party, "in_progress") /\ Denied(c)
    <2>1. OnRun(x)
        BY <1>1, <1>7 DEF LobbyIInv, RequestOK, KindOK, OnRun
    <2> QED
        BY <1>1, <1>2, <1>3, <1>7, <2>1, StatusAndEnd
<1>8. CASE x.pc \notin {"idle", "reopen", "unready", "release", "clear"} /\ Denied(c) /\ UNCHANGED lobby
    BY <1>1, <1>2, <1>3, <1>4, <1>8, AnswerStep DEF Denied
<1> QED
    BY <1>1, <1>5, <1>6, <1>7, <1>8 DEF RequestFails

LEMMA RequestStopsStep ==
    ASSUME LobbyIInv, NEW c \in Callers, RequestStops(c)
    PROVE  LobbyIInv' /\ FrozenNow
<1>1. mishaps' \in 0..MaxMishaps /\ leaseLapses' \in 0..MaxLeaseLapses
    BY MishapBounded DEF RequestStops
<1>2. UNCHANGED <<lobby, belongs, ready, admission, engaged, born>> /\ RowsFreed(c)
      /\ Continues(c, NoRequest) /\ request[c].pc # "idle"
    BY DEF RequestStops, partyKeys, partySql
<1>3. lease' \in [Parties -> Callers \cup {Vacant, Left}]
    BY DEF RequestStops, LobbyIInv, LobbyTypeOK
<1> QED
    BY <1>1, <1>2, <1>3, AnswerStep

\* The steps of no request.
LEMMA ByItselfStep ==
    ASSUME LobbyIInv,
           \/ \E q \in Parties :
                Lapse(q) \/ LeaseExpires(q) \/ LobbyExpires(q) \/ \E h \in Heroes : ReadyExpires(q, h)
           \/ \E h \in Heroes : BelongsExpires(h) \/ ActivityEnds(h)
           \/ UNCHANGED partyVars
    PROVE  LobbyIInv' /\ FrozenNow
<1>1. Nobody \notin Callers
    BY ActorsAssumption
<1>2. ASSUME UNCHANGED <<runRow, heroRow>> PROVE RowsNext(Nobody)
    BY <1>2, RowsGoOn DEF partyRows
<1>3. /\ lobby \in [Parties -> Lobbies] /\ belongs \in [Heroes -> Parties \cup {NoParty}]
      /\ ready \subseteq Parties \X Heroes /\ lease \in [Parties -> Callers \cup {Vacant, Left}]
      /\ leaseLapses \in 0..MaxLeaseLapses /\ mishaps \in 0..MaxMishaps
    BY DEF LobbyIInv, LobbyTypeOK
<1>4. ASSUME UNCHANGED <<lobby, belongs, ready, runRow, heroRow, admission, engaged, born, request>>,
             lease' \in [Parties -> Callers \cup {Vacant, Left}],
             leaseLapses' \in 0..MaxLeaseLapses, mishaps' \in 0..MaxMishaps
      PROVE  LobbyIInv' /\ FrozenNow
    BY <1>1, <1>2, <1>4, RowsStep, FreeStep
<1>5. ASSUME NEW q \in Parties, Lapse(q) PROVE LobbyIInv' /\ FrozenNow
    <2>1. lease' = [lease EXCEPT ![q] = Vacant] /\ leaseLapses' \in 0..MaxLeaseLapses
        BY <1>5, PartyAssumption DEF Lapse, LobbyIInv, LobbyTypeOK
    <2>2. lease' \in [Parties -> Callers \cup {Vacant, Left}]
        BY <1>3, <2>1
    <2>3. UNCHANGED <<lobby, belongs, ready, runRow, heroRow, admission, engaged, born, request, mishaps>>
        BY <1>5 DEF Lapse, partyKeys, partyRows, partySql
    <2> QED
        BY <1>3, <1>4, <2>1, <2>2, <2>3
<1>6. ASSUME NEW q \in Parties, LeaseExpires(q) PROVE LobbyIInv' /\ FrozenNow
    <2>1. lease' = [lease EXCEPT ![q] = Vacant]
        BY <1>6 DEF LeaseExpires
    <2>2. lease' \in [Parties -> Callers \cup {Vacant, Left}]
        BY <1>3, <2>1
    <2>3. UNCHANGED <<lobby, belongs, ready, runRow, heroRow, admission, engaged, born, request, mishaps, leaseLapses>>
        BY <1>6 DEF LeaseExpires, partyKeys, partyRows, partySql, partyCounts
    <2> QED
        BY <1>3, <1>4, <2>2, <2>3
<1>7. ASSUME NEW q \in Parties, lobby' \in [Parties -> Lobbies],
             \A r \in Parties \ {q} : lobby'[r] = lobby[r], lobby'[q] \in {lobby[q], NoLobby},
             belongs' \in [Heroes -> Parties \cup {NoParty}],
             \A h \in Heroes : belongs'[h] \in {belongs[h], NoParty}, ready' \subseteq ready,
             UNCHANGED <<lease, runRow, heroRow, admission, engaged, born, request, leaseLapses>>,
             mishaps' \in 0..MaxMishaps
      PROVE  LobbyIInv' /\ FrozenNow
    <2>1. Stored(q)' => Stored(q) /\ lobby'[q].leader = lobby[q].leader
        BY <1>7, NoRequestTyped DEF Stored
    <2>2. ready' \subseteq Parties \X Heroes
        BY <1>3, <1>7
    <2>3. \A r \in Parties, h \in Heroes : <<r, h>> \in ready' => <<r, h>> \in ready
        BY <1>7
    <2>4. \A h \in Heroes : belongs'[h] \in {belongs[h], NoParty, q}
        BY <1>7
    <2>5. Touches(Nobody) /\ TypesNext /\ FrozenNow
        BY <1>2, <1>3, <1>7, <2>1, <2>2, <2>3, <2>4, KeysStep
    <2> QED
        BY <1>1, <1>7, <2>5, FreeStep
<1>8. ASSUME NEW q \in Parties, LobbyExpires(q) PROVE LobbyIInv' /\ FrozenNow
    <2>1. lobby' = [lobby EXCEPT ![q] = NoLobby]
          /\ UNCHANGED <<belongs, ready, lease, runRow, heroRow, admission, engaged, born, request>>
        BY <1>8 DEF LobbyExpires, partyRows, partySql
    <2>2. lobby' \in [Parties -> Lobbies] /\ (\A r \in Parties \ {q} : lobby'[r] = lobby[r])
          /\ lobby'[q] = NoLobby
        BY <1>3, <2>1, NoRequestTyped
    <2>3. mishaps' \in 0..MaxMishaps /\ UNCHANGED leaseLapses
        BY <1>8, MishapBounded DEF LobbyExpires
    <2> QED
        BY <1>3, <1>7, <2>1, <2>2, <2>3
<1>9. ASSUME NEW q \in Parties, NEW h \in Heroes, ReadyExpires(q, h) PROVE LobbyIInv' /\ FrozenNow
    <2>1. ready' = ready \ {<<q, h>>}
          /\ UNCHANGED <<lobby, belongs, lease, runRow, heroRow, admission, engaged, born, request, leaseLapses, mishaps>>
        BY <1>9 DEF ReadyExpires, partyRows, partySql, partyCounts
    <2> QED
        BY <1>3, <1>7, <2>1
<1>10. ASSUME NEW h \in Heroes, BelongsExpires(h) PROVE LobbyIInv' /\ FrozenNow
    <2>1. belongs' = [belongs EXCEPT ![h] = NoParty] /\ belongs[h] # NoParty
          /\ UNCHANGED <<lobby, ready, lease, runRow, heroRow, admission, engaged, born, request>>
        BY <1>10 DEF BelongsExpires, partyRows, partySql
    <2>2. belongs' \in [Heroes -> Parties \cup {NoParty}]
          /\ \A g \in Heroes : belongs'[g] \in {belongs[g], NoParty}
        BY <1>3, <2>1
    <2>3. PICK q \in Parties : q = belongs[h]
        BY <1>3, <2>1
    <2>4. mishaps' \in 0..MaxMishaps /\ UNCHANGED leaseLapses
        BY <1>10, MishapBounded DEF BelongsExpires
    <2> QED
        BY <1>3, <1>7, <2>1, <2>2, <2>3, <2>4
<1>11. ASSUME NEW h \in Heroes, ActivityEnds(h) PROVE LobbyIInv' /\ FrozenNow
    <2>1. engaged' = [engaged EXCEPT ![h] = NoParty]
          /\ UNCHANGED <<lobby, belongs, ready, lease, runRow, heroRow, admission, born, request>>
        BY <1>11 DEF ActivityEnds, partyKeys, partyRows
    <2>2. engaged' \in [Heroes -> Parties \cup {NoParty, Elsewhere}]
          /\ \A g \in Heroes : engaged'[g] \in {engaged[g], NoParty}
        BY <2>1 DEF LobbyIInv, LobbyTypeOK
    <2>3. mishaps' \in 0..MaxMishaps /\ leaseLapses' \in 0..MaxLeaseLapses
        BY <1>11, MishapBounded DEF ActivityEnds
    <2>4. Touches(Nobody)
        BY <2>1, <2>2 DEF Touches, Stored
    <2>5. TypesNext
        BY <2>1, <2>2, <2>3 DEF TypesNext, LobbyIInv, LobbyTypeOK, Stored
    <2>6. FrozenNow
        BY <2>1 DEF FrozenNow, OnlyCleared
    <2> QED
        BY <1>1, <2>1, <2>4, <2>5, <2>6, FreeStep
<1>12. CASE UNCHANGED partyVars
    BY <1>3, <1>4, <1>12 DEF partyVars, partyKeys, partyRows, partySql, partyCounts
<1> QED
    BY <1>5, <1>6, <1>8, <1>9, <1>10, <1>11, <1>12

-----------------------------------------------------------------------------
(* The invariant                                                           *)

LEMMA LobbyInitially ==
    ASSUME LobbyInit
    PROVE  LobbyIInv
<1>1. LobbyTypeOK
    BY NoRequestTyped, PartyAssumption DEF LobbyInit, LobbyTypeOK
<1>2. ASSUME NEW c \in Callers PROVE RequestOK(c, request[c])
    BY NoRequestTyped
    DEF LobbyInit, RequestOK, KindOK, NamesOK, RowsOK, FoundingOK, AnswersOK, OnRun, AtHeroes, Founding, Entering
<1>3. \A q \in Parties : admission[q] = NoAdmission /\ ~Stored(q)
    BY NoRequestTyped DEF LobbyInit, Stored
<1>4. \A c, d \in Callers : Related(request[c], request[d])
    BY NoRequestTyped DEF LobbyInit, Related, Founding
<1> QED
    BY <1>1, <1>2, <1>3, <1>4 DEF LobbyIInv

LEMMA LobbyStepAll ==
    ASSUME LobbyIInv, [LobbyNext]_partyVars
    PROVE  LobbyIInv' /\ FrozenNow
<1>1. ASSUME NEW c \in Callers, LobbyStep(c) PROVE LobbyIInv' /\ FrozenNow
    <2>1. CASE ReadLobby(c) \/ LockHero(c) \/ WriteLobby(c) \/ NameLeader(c) \/ MarkDisbanded(c)
               \/ DeleteParty(c) \/ \E q \in Parties : SaveParty(c, q)
        BY <2>1, ReadLobbyStep, LockHeroStep, WriteLobbyStep, NameLeaderStep, MarkDisbandedStep,
           DeletePartyStep, SavePartyStep
    <2>2. CASE Claim(c) \/ Reopen(c) \/ Unready(c) \/ Undo(c)
               \/ CommitLobby(c) \/ ReleaseLease(c) \/ CleanupParty(c)
        BY <2>2, ClaimStep, ReopenStep, UnreadyStep, UndoStep, CommitLobbyStep, ReleaseLeaseStep, CleanupPartyStep
    <2> QED
        BY <1>1, <2>1, <2>2 DEF LobbyStep
<1>2. ASSUME NEW c \in Callers, LobbyAsks(c) \/ RequestFails(c) \/ RequestStops(c)
      PROVE  LobbyIInv' /\ FrozenNow
    BY <1>2, AsksStep, RequestFailsStep, RequestStopsStep
<1> QED
    BY <1>1, <1>2, ByItselfStep DEF LobbyNext

LEMMA LobbyInvariant == LobbySpec => []LobbyIInv
BY LobbyInitially, LobbyStepAll, PTL DEF LobbySpec

\* A lobby, the parties of the characters, their answers, the locks, what SQL
\* stores and what each request remembers stay what the code takes them for.
THEOREM TypeCorrect == LobbySpec => []LobbyTypeOK
BY LobbyInvariant, PTL DEF LobbyIInv

\* A battle of the party (StartPartyAdventure) is settled for members who are
\* in no other activity, and whose answers it has spent: however long the
\* requests outlast their leases, the row of the run keeps a second battle and
\* a new answer away, and the rows of the characters other activities.
THEOREM ConsentIsAlwaysSpent == LobbySpec => []ConsentIsSpent
<1>1. LobbyIInv => ConsentIsSpent
    <2>1. SUFFICES ASSUME LobbyIInv, NEW c \in Callers, request[c].kind = "start", request[c].pc = "commit",
                          NEW h \in request[c].seen
                   PROVE  engaged[h] = NoParty /\ <<request[c].party, h>> \notin ready
        BY DEF ConsentIsSpent
    <2> QED
        BY <2>1 DEF LobbyIInv, RequestOK, RowsOK, AnswersOK, AtHeroes
<1> QED
    BY <1>1, LobbyInvariant, PTL

\* Once EnrollRun has committed the admission of a lobby, the lobby is only
\* cleared: WithWaitingLobby keeps the requests that wait for the row of the
\* run away, those that hold it keep the admission away, and so does the
\* leader of a creation, whom the creation holds.
THEOREM HandoffAlwaysFreezesRoster == LobbySpec => HandoffFreezesRoster
<1>1. LobbyIInv /\ [LobbyNext]_partyVars => [FrozenNow]_partyVars
    BY LobbyStepAll
<1> QED
    BY <1>1, LobbyInvariant, PTL DEF LobbySpec, HandoffFreezesRoster, FrozenNow
=============================================================================
