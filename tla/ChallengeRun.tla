---------------------------- MODULE ChallengeRun ----------------------------
(***************************************************************************)
(* Challenge runs (internal/challenge).  The live state of a run is a      *)
(* Valkey hash that carries a revision.  A command holds the run's row in  *)
(* SQL while it reads the hash, computes, and commits in one transaction   *)
(* its receipt, the settlement of those who leave and the next revision,   *)
(* pending publication.  The publication is then written to Valkey and     *)
(* acknowledged in SQL, which frees the claims of those who left.  The     *)
(* next command of the run finishes a publication that did not get so far. *)
(* Each step below is one command or one SQL transaction; the reads of a   *)
(* command are one step.                                                   *)
(***************************************************************************)
EXTENDS Actors

CONSTANTS
    Challengers,       \* characters
    Runs,
    NoRun,
    MaxRevision,       \* bound on the revisions after which no round is begun
    MaxRunFaults,      \* bound on failed commands and process stops
    MaxCuts,           \* bound on lost database connections
    MaxDeadlines       \* bound on deadlines that pass

ASSUME RunsAssumption ==
    /\ IsFiniteSet(Challengers) /\ Nobody \notin Challengers
    /\ NoRun \notin Runs
    /\ MaxRevision \in Nat /\ MaxRunFaults \in Nat
    /\ MaxCuts \in Nat /\ MaxDeadlines \in Nat

VARIABLES
    coord,         \* challenge_run_transitions
    enrolled,      \* challenge_participants
    settled,       \* their settlements, as <<character, amount>>
    claims,        \* challenge_character_claims
    receipts,      \* challenge_command_results
    live,          \* party2:challenge:{run:<id>}:session and :rewards
    reference,     \* party2:challenge:{char:<id>}:member
    past,          \* the revision of each run whose deadline passed last
    rowLock,       \* the lock of the run's row in challenge_run_transitions
    cmd,           \* what each command is doing and remembers
    runFaults, cuts, deadlines

runSql == <<coord, enrolled, settled, claims, receipts>>
runCache == <<live, reference, past>>
runStores == <<runSql, runCache, rowLock>>
runBounds == <<runFaults, cuts, deadlines>>
runVars == <<runStores, cmd, runBounds>>

NoGain == [c \in Challengers |-> 0]

\* ChallengeSession as published.  "gone" stands for an absent key; a member
\* earns 1 for every round it survives.
Publications ==
    [rev : Nat, status : {"gone", "active", "defeated", "claimed"},
     leader : Challengers \cup {Nobody}, members : SUBSET Challengers,
     round : Nat, gain : [Challengers -> Nat]]

NoPublication ==
    [rev |-> 0, status |-> "gone", leader |-> Nobody, members |-> {},
     round |-> 0, gain |-> NoGain]

\* Transition.  The publication is kept when pending is cleared; the code
\* then deletes it, and nothing but the revision is read any more.
Coordinates == [pub : Publications, pending : BOOLEAN, removed : SUBSET Challengers]

\* What a command will commit; a revision of 0 stands for nothing.
Drafts ==
    [action : {"start", "advance", "exit"}, pub : Publications,
     removed : SUBSET Challengers, pays : SUBSET (Challengers \X Nat)]

NoDraft == [action |-> "exit", pub |-> NoPublication, removed |-> {}, pays |-> {}]

\* A command: its next step, its request, the publication it writes and the
\* references still to set and to delete for it, whether that was acknowledged
\* in the open transaction, and what it will commit.
Commands ==
    [pc : {"idle", "enrol", "check", "commit", "receipt", "again",
           "hash", "refs", "ack"},
     action : {"start", "advance", "exit"}, actor : Challengers \cup {Nobody},
     run : Runs \cup {NoRun}, rev : Nat, final : BOOLEAN, pub : Publications,
     sets : SUBSET Challengers, drops : SUBSET Challengers, acked : BOOLEAN, draft : Drafts]

NoCommand ==
    [pc |-> "idle", action |-> "exit", actor |-> Nobody, run |-> NoRun, rev |-> 0,
     final |-> FALSE, pub |-> NoPublication, sets |-> {}, drops |-> {},
     acked |-> FALSE, draft |-> NoDraft]

RunInit ==
    /\ coord = [r \in Runs |-> [pub |-> NoPublication, pending |-> FALSE, removed |-> {}]]
    /\ enrolled = [r \in Runs |-> {}]
    /\ settled = [r \in Runs |-> {}]
    /\ claims = [c \in Challengers |-> NoRun]
    /\ receipts = {}
    /\ live = [r \in Runs |-> NoPublication]
    /\ reference = [c \in Challengers |-> NoRun]
    /\ past = [r \in Runs |-> 0]
    /\ rowLock = [r \in Runs |-> Nobody]
    /\ cmd = [p \in Callers |-> NoCommand]
    /\ runFaults = 0 /\ cuts = 0 /\ deadlines = 0

Turns(p, x) == cmd' = [cmd EXCEPT ![p] = x]
Ends(p) == Turns(p, NoCommand)

Revision(r) == coord[r].pub.rev
Settled(r) == {s[1] : s \in settled[r]}
Roster(r) == enrolled[r] \ Settled(r)
Holds(p) == rowLock[cmd[p].run] = p
Unlocked(p) == [r \in Runs |-> IF rowLock[r] = p THEN Nobody ELSE rowLock[r]]

-----------------------------------------------------------------------------
(* Requests                                                                *)

\* GetActiveSession finds nothing that concerns c: no claim, and a reference,
\* if there is one, to a run whose live state is gone.
Unengaged(c) ==
    /\ claims[c] = NoRun
    /\ reference[c] # NoRun => live[reference[c]].status # "active"

\* StartSession, StartPartySession: the ID is new and the members were found free.
StartRun(p, r, c, S) ==
    /\ cmd[p].pc = "idle"
    /\ Revision(r) = 0
    /\ \A q \in Callers : cmd[q].run # r
    /\ c \in S
    /\ \A m \in S : Unengaged(m)
    /\ Turns(p, [NoCommand EXCEPT
          !.pc = "enrol", !.action = "start", !.actor = c, !.run = r,
          !.draft = [action |-> "start", removed |-> {}, pays |-> {},
                     pub |-> [rev |-> 1, status |-> "active", leader |-> c,
                              members |-> S, round |-> 1, gain |-> NoGain]]])
    /\ UNCHANGED <<runStores, runBounds>>

-----------------------------------------------------------------------------
(* publishPending, under the row's lock: within the transaction of the next *)
(* command, or in one of its own (final).                                   *)

\* (mutant) the references of those who left stay
ReferencedKeeps(x) ==
    IF x.sets # {} THEN [x EXCEPT !.pc = "refs"]
    ELSE IF x.final THEN [x EXCEPT !.pc = "ack"]
    ELSE [x EXCEPT !.pc = "check", !.acked = TRUE]

\* The publication reached every key: AcknowledgePublication comes next, for
\* a nested one as a part of the transaction that is open.
Referenced(x) ==
    IF x.sets # {} \/ x.drops # {} THEN [x EXCEPT !.pc = "refs"]
    ELSE IF x.final THEN [x EXCEPT !.pc = "ack"]
    ELSE [x EXCEPT !.pc = "check", !.acked = TRUE]

\* AdvanceRound, ExitSession, with the revision the client has seen, once the
\* row is locked; FindTransition.  Who was never enrolled is refused.
Command(p, action, c, r, v) ==
    LET t == coord[r]
        x == [NoCommand EXCEPT !.pc = "check", !.action = action, !.actor = c, !.run = r, !.rev = v] IN
    /\ cmd[p].pc = "idle"
    /\ c \in enrolled[r]
    /\ v \in 1..Revision(r)
    /\ action = "advance" => v < MaxRevision
    /\ rowLock[r] = Nobody
    /\ rowLock' = [rowLock EXCEPT ![r] = p]
    /\ Turns(p, IF t.pending THEN [x EXCEPT !.pc = "hash", !.pub = t.pub, !.drops = t.removed] ELSE x)
    /\ UNCHANGED <<runSql, runCache, runBounds>>

\* The publication a command makes of its own after its commit.
LockAgain(p) ==
    LET x == cmd[p]
        t == coord[x.run] IN
    /\ x.pc = "again"
    /\ rowLock[x.run] = Nobody
    /\ IF t.pending
       THEN /\ rowLock' = [rowLock EXCEPT ![x.run] = p]
            /\ Turns(p, [NoCommand EXCEPT !.pc = "hash", !.run = x.run, !.final = TRUE,
                                          !.pub = t.pub, !.drops = t.removed])
       ELSE Ends(p) /\ UNCHANGED rowLock
    /\ UNCHANGED <<runSql, runCache, runBounds>>

\* (mutant) an older revision overwrites a newer one
NewestAny(x) == TRUE

\* publish_run.lua compares the revision of the key.
Newest(x) == live[x.run].rev <= x.pub.rev

HashEffect(p) ==
    LET x == cmd[p] IN
    /\ live' = [live EXCEPT ![x.run] = IF x.pub.rev <= past[x.run] THEN NoPublication ELSE x.pub]
    /\ UNCHANGED <<runSql, reference, past>>

PublishHash(p) ==
    LET x == cmd[p] IN
    /\ x.pc = "hash"
    /\ Newest(x)
    /\ HashEffect(p)
    /\ Turns(p, Referenced([x EXCEPT !.sets = IF x.pub.status = "active" THEN x.pub.members ELSE {}]))
    /\ UNCHANGED <<rowLock, runBounds>>

\* claim_member.lua
ClaimEffect(p, c) ==
    /\ reference' = [reference EXCEPT ![c] = cmd[p].run]
    /\ UNCHANGED <<runSql, live, past>>

ClaimMember(p, c) ==
    LET x == cmd[p] IN
    /\ x.pc = "refs" /\ c \in x.sets
    /\ reference[c] \in {NoRun, x.run}
    /\ ClaimEffect(p, c)
    /\ Turns(p, Referenced([x EXCEPT !.sets = @ \ {c}]))
    /\ UNCHANGED <<rowLock, runBounds>>

\* release_member.lua
ReleaseEffect(p, c) ==
    /\ reference' = [reference EXCEPT ![c] = IF @ = cmd[p].run THEN NoRun ELSE @]
    /\ UNCHANGED <<runSql, live, past>>

ReleaseMember(p, c) ==
    LET x == cmd[p] IN
    /\ x.pc = "refs" /\ x.sets = {} /\ c \in x.drops
    /\ ReleaseEffect(p, c)
    /\ Turns(p, Referenced([x EXCEPT !.drops = @ \ {c}]))
    /\ UNCHANGED <<rowLock, runBounds>>

\* (mutant) every claim on the run is deleted
FreedAll(r) == [c \in Challengers |-> IF claims[c] = r THEN NoRun ELSE claims[c]]

\* AcknowledgePublication deletes the claims of those who left.
Freed(r) ==
    [c \in Challengers |-> IF c \in coord[r].removed /\ claims[c] = r THEN NoRun ELSE claims[c]]

RunAckEffect(p) ==
    LET r == cmd[p].run IN
    /\ claims' = Freed(r)
    /\ coord' = [coord EXCEPT ![r] = [pub |-> @.pub, pending |-> FALSE, removed |-> {}]]
    /\ UNCHANGED <<enrolled, settled, receipts, runCache>>

AcknowledgeRun(p) ==
    /\ cmd[p].pc = "ack"
    /\ Holds(p)
    /\ RunAckEffect(p)
    /\ rowLock' = Unlocked(p)
    /\ Ends(p)
    /\ UNCHANGED runBounds

-----------------------------------------------------------------------------
(* mutate: the reads and the computation of a command                      *)

\* (mutant) a command that was carried out is not remembered
ReceiptNone(x) == {}

ReceiptOf(x) == {a \in {"start", "advance", "exit"} : <<x.run, x.actor, x.rev, a>> \in receipts}

\* The transaction is rolled back; the receipt is looked up once more.
Refused(p) ==
    /\ rowLock' = Unlocked(p)
    /\ Turns(p, [cmd[p] EXCEPT !.pc = "receipt", !.acked = FALSE, !.pub = NoPublication,
                               !.sets = {}, !.drops = {}, !.draft = NoDraft])

\* What the transaction sees: its own acknowledgement included.
Acceptable(x) ==
    /\ live[x.run].status = "active"
    /\ x.actor \in live[x.run].members
    /\ live[x.run].rev = x.rev
    /\ Revision(x.run) = x.rev

Draft(action, u, d, S) ==
    [action |-> action, pub |-> [d EXCEPT !.rev = @ + 1], removed |-> S,
     pays |-> {<<c, u.gain[c]>> : c \in S}]

\* (mutant) who leaves takes what all members have gathered
ExitWithAll(c, u) ==
    {[Draft("exit", u,
            [u EXCEPT !.members = @ \ {c}, !.gain[c] = 0,
                      !.status = IF u.members = {c} THEN "claimed" ELSE "active"], {c})
        EXCEPT !.pays = {<<c, u.round - 1>>}]}

\* (mutant) the claim of who leaves is never released
ExitKeepsClaim(c, u) ==
    {[Draft("exit", u,
            [u EXCEPT !.members = @ \ {c}, !.gain[c] = 0,
                      !.status = IF u.members = {c} THEN "claimed" ELSE "active"], {c})
        EXCEPT !.removed = {}]}

\* ExitSession: leadership passes to one that remains.
Exit(c, u) ==
    {Draft("exit", u,
           [u EXCEPT !.members = @ \ {c}, !.gain[c] = 0,
                     !.leader = IF u.members = {c} THEN c ELSE l,
                     !.status = IF u.members = {c} THEN "claimed" ELSE "active"], {c}) :
        l \in IF u.leader = c /\ u.members # {c} THEN u.members \ {c} ELSE {u.leader}}

\* computeRound: a treasure room or a won battle, whose survivors earn, or a
\* defeat, which settles everybody.
Advance(c, u) ==
    IF u.round = 1 /\ u.leader # c THEN {}
    ELSE {Draft("advance", u, [u EXCEPT !.round = @ + 1,
                                        !.gain = [m \in Challengers |-> IF m \in S THEN @[m] + 1 ELSE @[m]]],
                {}) : S \in SUBSET u.members}
         \cup {Draft("advance", u, [u EXCEPT !.status = "defeated", !.gain = NoGain], u.members)}

Check(p) ==
    LET x == cmd[p] IN
    /\ x.pc = "check"
    /\ Holds(p)
    /\ IF ReceiptOf(x) = {x.action}
       THEN Turns(p, [x EXCEPT !.pc = "commit"]) /\ UNCHANGED rowLock
       ELSE \/ /\ ReceiptOf(x) = {} /\ Acceptable(x)
               /\ \E d \in (IF x.action = "exit" THEN Exit(x.actor, live[x.run])
                            ELSE Advance(x.actor, live[x.run])) :
                     Turns(p, [x EXCEPT !.pc = "commit", !.draft = d])
               /\ UNCHANGED rowLock
            \/ /\ \/ ReceiptOf(x) # {} \/ ~Acceptable(x)
                  \/ x.action = "advance" /\ Advance(x.actor, live[x.run]) = {}
               /\ Refused(p)
    /\ UNCHANGED <<runSql, runCache, runBounds>>

-----------------------------------------------------------------------------
(* The SQL transactions of a command                                       *)

\* EnrollRun and SaveTransition of a start.
Enrollable(x) == \A c \in x.draft.pub.members : claims[c] = NoRun

EnrolEffect(p) ==
    LET x == cmd[p]
        r == x.run IN
    /\ Enrollable(x)
    /\ claims' = [c \in Challengers |-> IF c \in x.draft.pub.members THEN r ELSE claims[c]]
    /\ enrolled' = [enrolled EXCEPT ![r] = x.draft.pub.members]
    /\ coord' = [coord EXCEPT ![r] = [pub |-> x.draft.pub, pending |-> TRUE, removed |-> {}]]
    /\ receipts' = receipts \cup {<<r, x.actor, 0, "start">>}
    /\ UNCHANGED <<settled, runCache>>

Enrol(p) ==
    LET x == cmd[p] IN
    /\ x.pc = "enrol"
    /\ \/ EnrolEffect(p) /\ Turns(p, [x EXCEPT !.pc = "again", !.draft = NoDraft])
       \/ ~Enrollable(x) /\ Ends(p) /\ UNCHANGED runStores
    /\ UNCHANGED <<rowLock, runBounds>>

\* SaveTransition demands the revision before its own, with nothing pending;
\* settleParticipants, that nobody it pays is settled.
RunAccepted(x) ==
    /\ Revision(x.run) + 1 = x.draft.pub.rev
    /\ coord[x.run].pending => x.acked
    /\ \A s \in x.draft.pays : s[1] \notin Settled(x.run)

\* A draft without a revision commits the acknowledgement alone.
Saves(x) == x.draft.pub.rev # 0

RunCommitEffect(p) ==
    LET x == cmd[p]
        r == x.run IN
    /\ Saves(x) => RunAccepted(x)
    /\ claims' = IF x.acked THEN Freed(r) ELSE claims
    /\ coord' = IF Saves(x)
                THEN [coord EXCEPT ![r] = [pub |-> x.draft.pub, pending |-> TRUE,
                                           removed |-> x.draft.removed]]
                ELSE IF x.acked THEN [coord EXCEPT ![r] = [pub |-> @.pub, pending |-> FALSE, removed |-> {}]]
                ELSE coord
    /\ settled' = [settled EXCEPT ![r] = @ \cup x.draft.pays]
    /\ receipts' = IF Saves(x) THEN receipts \cup {<<r, x.actor, x.rev, x.action>>} ELSE receipts
    /\ UNCHANGED <<enrolled, runCache>>

RunCommit(p) ==
    LET x == cmd[p] IN
    /\ x.pc = "commit"
    /\ Holds(p)
    /\ \/ /\ RunCommitEffect(p)
          /\ rowLock' = Unlocked(p)
          /\ Turns(p, [NoCommand EXCEPT !.pc = "again", !.run = x.run])
       \/ /\ Saves(x) /\ ~RunAccepted(x)
          /\ Refused(p)
          /\ UNCHANGED runSql
    /\ UNCHANGED <<runCache, runBounds>>

\* FindCommandResult after an error: the command may have been committed.
Receipt(p) ==
    LET x == cmd[p] IN
    /\ x.pc = "receipt"
    /\ IF ReceiptOf(x) = {x.action}
       THEN Turns(p, [NoCommand EXCEPT !.pc = "again", !.run = x.run])
       ELSE Ends(p)
    /\ UNCHANGED <<runStores, runBounds>>

-----------------------------------------------------------------------------
(* Faults                                                                  *)

\* An error ends the transaction.  mutate looks the receipt up, its last
\* publication reports that recovery is required.
Fails(p) ==
    IF cmd[p].final \/ cmd[p].pc \in {"again", "receipt"}
    THEN rowLock' = Unlocked(p) /\ Ends(p)
    ELSE Refused(p)

\* A command fails, or its answer is lost, after it was carried out or not.
RunStepFails(p) ==
    LET x == cmd[p] IN
    /\ runFaults < MaxRunFaults
    /\ x.pc # "idle"
    /\ runFaults' = runFaults + 1
    /\ \/ UNCHANGED <<runSql, runCache>>
       \/ x.pc = "enrol" /\ EnrolEffect(p)
       \/ x.pc = "hash" /\ Newest(x) /\ HashEffect(p)
       \/ x.pc = "refs" /\ \E c \in x.sets : reference[c] \in {NoRun, x.run} /\ ClaimEffect(p, c)
       \/ x.pc = "refs" /\ x.sets = {} /\ \E c \in x.drops : ReleaseEffect(p, c)
       \/ x.pc = "ack" /\ Holds(p) /\ RunAckEffect(p)
       \/ x.pc = "commit" /\ Holds(p) /\ RunCommitEffect(p)
    /\ Fails(p)
    /\ UNCHANGED <<cuts, deadlines>>

\* What a step finds makes it fail: its transaction is gone, the key has a
\* newer revision, the reference names another run.
StepRefused(p) ==
    LET x == cmd[p] IN
    /\ \/ x.pc \in {"check", "commit", "ack"} /\ ~Holds(p)
       \/ x.pc = "hash" /\ ~Newest(x)
       \/ x.pc = "refs" /\ \E c \in x.sets : reference[c] \notin {NoRun, x.run}
    /\ Fails(p)
    /\ UNCHANGED <<runSql, runCache, runBounds>>

\* The process stops; the server rolls its transaction back.
ProcessStops(p) ==
    /\ runFaults < MaxRunFaults
    /\ cmd[p].pc # "idle"
    /\ runFaults' = runFaults + 1
    /\ rowLock' = Unlocked(p)
    /\ Ends(p)
    /\ UNCHANGED <<runSql, runCache, cuts, deadlines>>

\* The server loses the connection and rolls back; the command goes on until
\* its next SQL statement.
ConnectionLost(p) ==
    /\ cuts < MaxCuts
    /\ cmd[p].pc # "idle"
    /\ Holds(p)
    /\ rowLock' = Unlocked(p)
    /\ cuts' = cuts + 1
    /\ UNCHANGED <<runSql, runCache, cmd, runFaults, deadlines>>

\* The deadline of revision v passes, and with it those of the ones before.
DeadlinePasses(r, v) ==
    /\ deadlines < MaxDeadlines
    /\ v \in past[r] + 1..Revision(r)
    /\ past' = [past EXCEPT ![r] = v]
    /\ live' = [live EXCEPT ![r] = IF @.rev <= v THEN NoPublication ELSE @]
    /\ deadlines' = deadlines + 1
    /\ UNCHANGED <<runSql, reference, rowLock, cmd, runFaults, cuts>>

-----------------------------------------------------------------------------
RunRequest(p) ==
    \E r \in Runs, c \in Challengers :
        \/ \E S \in SUBSET Challengers : StartRun(p, r, c, S)
        \/ \E v \in 1..Revision(r), a \in {"advance", "exit"} : Command(p, a, c, r, v)

RunStep(p) ==
    \/ LockAgain(p) \/ PublishHash(p) \/ AcknowledgeRun(p)
    \/ Check(p) \/ Enrol(p) \/ RunCommit(p) \/ Receipt(p) \/ StepRefused(p)
    \/ \E c \in Challengers : ClaimMember(p, c) \/ ReleaseMember(p, c)

RunFault ==
    \/ \E p \in Callers : RunStepFails(p) \/ ProcessStops(p) \/ ConnectionLost(p)
    \/ \E r \in Runs : \E v \in 1..Revision(r) : DeadlinePasses(r, v)

RunNext == (\E p \in Callers : RunRequest(p) \/ RunStep(p)) \/ RunFault

RunSpec == RunInit /\ [][RunNext]_runVars

\* Who has a claim keeps asking: a member of the run to leave it, with the
\* revision shown to it; for a run that is over, the author of its last
\* command to hear the answer again.
Asks(r) ==
    \E p \in Callers, c \in Challengers :
        \/ c \in Roster(r) /\ Command(p, "exit", c, r, Revision(r))
        \/ /\ Roster(r) = {} /\ coord[r].pending
           /\ \E a \in {"advance", "exit"} :
                 /\ <<r, c, Revision(r) - 1, a>> \in receipts
                 /\ Command(p, a, c, r, Revision(r) - 1)

RunFairness ==
    /\ \A p \in Callers : WF_runVars(RunStep(p))
    /\ \A r \in Runs : SF_runVars(Asks(r))

FairRunSpec == RunSpec /\ RunFairness

-----------------------------------------------------------------------------
RunTypeOK ==
    /\ coord \in [Runs -> Coordinates]
    /\ enrolled \in [Runs -> SUBSET Challengers]
    /\ settled \in [Runs -> SUBSET (Challengers \X Nat)]
    /\ claims \in [Challengers -> Runs \cup {NoRun}]
    /\ receipts \subseteq Runs \X Challengers \X Nat \X {"start", "advance", "exit"}
    /\ live \in [Runs -> Publications]
    /\ reference \in [Challengers -> Runs \cup {NoRun}]
    /\ past \in [Runs -> Nat]
    /\ rowLock \in [Runs -> Callers \cup {Nobody}]
    /\ cmd \in [Callers -> Commands]
    /\ runFaults \in 0..MaxRunFaults /\ cuts \in 0..MaxCuts /\ deadlines \in 0..MaxDeadlines

\* A character is claimed by the run it is inside of, and by the one it has
\* left until that is published.  (challenge_transition.go: EnrollRun,
\* AcknowledgePublication; an early release lets it enter a second run.)
ClaimsMatchRoster ==
    \A r \in Runs, c \in Challengers :
        claims[c] = r <=> c \in Roster(r) \/ (coord[r].pending /\ c \in coord[r].removed)

\* An acknowledged revision is the live one, or its deadline has passed: no
\* late publication and no lost answer leaves Valkey behind SQL.
\* (transition.go: publishPending; publish_run.lua)
AcknowledgedIsLive ==
    \A r \in Runs :
        Revision(r) > 0 /\ ~coord[r].pending =>
            IF Revision(r) <= past[r] THEN live[r] = NoPublication ELSE live[r] = coord[r].pub

\* The references of a run lead to its members: while no connection is lost,
\* none outlives the claim, where claim_member.lua would take it for another
\* run; and none is missing while its member is inside the published run.
\* (claim_member.lua and release_member.lua against what comes late)
ReferenceFollowsClaim ==
    cuts = 0 => \A c \in Challengers : reference[c] # NoRun => claims[c] = reference[c]

MembersAreReferenced ==
    \A r \in Runs : Revision(r) > 0 /\ ~coord[r].pending =>
        \A c \in Roster(r) : reference[c] = r

ReferencesMatch == ReferenceFollowsClaim /\ MembersAreReferenced

\* Members are paid what they have earned, whole and once.
Roster_ == INSTANCE PaidRoster WITH
    Characters <- Challengers,
    inside <- [r \in Runs |-> Roster(r)],
    earned <- [r \in Runs |-> coord[r].pub.gain],
    paid <- settled

ImplementsPaidRoster == Roster_!RosterSpec

\* Claims are given back to those who keep asking, also when a publication
\* fails on the way, unless the live state expires or a connection is lost.
ClaimsReturn ==
    \A c \in Challengers :
        claims[c] # NoRun ~> claims[c] = NoRun \/ deadlines > 0 \/ cuts > 0
=============================================================================
