------------------------- MODULE DungeonExpedition -------------------------
(***************************************************************************)
(* Dungeon expeditions (internal/dungeon).  An expedition lives in two     *)
(* hashes in Valkey that belong to its leader, the state and the rewards,  *)
(* and in a reference for each other member.  A script of Valkey, fenced   *)
(* by the ID and the revision, carries out each step.  An expedition that  *)
(* ends is frozen by such a step, then settled by one SQL transaction that *)
(* claims its ID, then cleaned up; whoever finds it frozen settles again.  *)
(* The commands of a pipeline are steps of their own: other requests may   *)
(* come in between.  The maps, and the numbers of a battle, are left out:  *)
(* what a tile holds and who falls is chosen.                              *)
(***************************************************************************)
EXTENDS Actors

CONSTANTS
    Delvers,         \* characters
    Kit,             \* those who carry an item to be used in battle
    NoReference,
    MaxExpeditions,  \* bound on the expeditions that are started
    MaxEvents        \* bound on starts, moves, fights and what goes wrong, together

ASSUME DungeonAssumption ==
    /\ IsFiniteSet(Delvers) /\ Kit \subseteq Delvers /\ Nobody \notin Delvers
    /\ NoReference \notin Delvers \X Nat
    /\ MaxExpeditions \in Nat /\ MaxEvents \in Nat

VARIABLES
    buffer,      \* party2:dungeon:{char:<leader>}:state
    spoils,      \* party2:dungeon:{char:<leader>}:rewards, items and medals
    memberOf,    \* party2:dungeon:{char:<member>}:member
    finished,    \* dungeon_expedition_history, with what its members got
    pack,        \* inventory_items
    delverRow,   \* locks of the rows of characters
    delve,       \* what each request is doing and remembers
    handed,      \* how many IDs were handed out
    moves,       \* how many moves and fights were asked for
    gone,        \* the expeditions of which a key expired or was overwritten
    delveFaults, \* how many requests broke off
    delveCuts    \* how many connections were lost

delveKeys == <<buffer, spoils, memberOf>>
delveSql == <<finished, pack>>
delveCounts == <<moves, gone, delveFaults, delveCuts>>
delveVars == <<delveKeys, delveSql, delverRow, delve, handed, delveCounts>>

Ids == 1..MaxExpeditions
Absent == [exists |-> FALSE, n |-> 0]

\* ActiveExpedition: its members, those of them who have fallen, those who
\* have used up their item, what each has gained, the pending encounter and
\* whether the treasure was opened.
Buffers ==
    [id : 0..MaxExpeditions, rev : Nat,
     status : {"none", "exploring", "cleared", "escaped", "wiped_out"},
     members : SUBSET Delvers, fallen : SUBSET Delvers, used : SUBSET Kit,
     gain : [Delvers -> Nat], foe : {"none", "monster", "boss"}, opened : BOOLEAN]

NoEarnings == [c \in Delvers |-> 0]

NoBuffer ==
    [id |-> 0, rev |-> 0, status |-> "none", members |-> {}, fallen |-> {}, used |-> {},
     gain |-> NoEarnings, foe |-> "none", opened |-> FALSE]

Settlements ==
    [outcome : {"none", "cleared", "escaped", "wiped_out"}, paid : [Delvers -> Nat], loot : Nat]

NotSettled == [outcome |-> "none", paid |-> NoEarnings, loot |-> 0]

\* A request: its next step, who asks what, the copy of the expedition and
\* of its rewards, the outcome it wants, and the members still to visit.
Delves ==
    [pc : {"idle", "reference", "state", "rewards", "commit", "look", "explore", "freeze",
           "reread", "settle", "clean", "release"},
     op : {"start", "move", "fight", "escape"}, who : Delvers \cup {Nobody}, exp : Buffers,
     loot : Nat, want : {"none", "cleared", "escaped"}, todo : SUBSET Delvers]

NoDelve == [pc |-> "idle", op |-> "start", who |-> Nobody, exp |-> NoBuffer, loot |-> 0,
            want |-> "none", todo |-> {}]

DelveInit ==
    /\ buffer = [c \in Delvers |-> NoBuffer]
    /\ spoils = [c \in Delvers |-> Absent]
    /\ memberOf = [c \in Delvers |-> NoReference]
    /\ finished = [e \in Ids |-> NotSettled]
    /\ pack = [c \in Delvers |-> IF c \in Kit THEN "held" ELSE "none"]
    /\ delverRow = [c \in Delvers |-> Nobody]
    /\ delve = [p \in Callers |-> NoDelve]
    /\ handed = 0 /\ moves = 0 /\ gone = {} /\ delveFaults = 0 /\ delveCuts = 0

DelveOn(p, x) == delve' = [delve EXCEPT ![p] = x]
Answered(p) == DelveOn(p, NoDelve)

Kept(c) == buffer[c].status # "none"
Frozen(b) == b.status \in {"cleared", "escaped", "wiped_out"}
Upright(b) == b.members \ b.fallen

\* The bound on what is started, asked for, broken off, lost and given away.
MoreMayHappen ==
    handed + moves + delveFaults + delveCuts + Cardinality(gone)
        + Cardinality({c \in Delvers : pack[c] = "given"}) < MaxEvents

RowsGivenUp(p) ==
    delverRow' = [c \in Delvers |-> IF delverRow[c] = p THEN Nobody ELSE delverRow[c]]

-----------------------------------------------------------------------------
(* Start                                                                   *)

\* GetActiveExpedition: the own expedition, else the one the reference names.
Enrolled(c) ==
    \/ Kept(c)
    \/ \E l \in Delvers :
        /\ Kept(l) /\ memberOf[c] = <<l, buffer[l].id>> /\ c \in buffer[l].members

\* What is asked of every member, under the rows of all of them.
FreeToEnter(S) == \A c \in S : ~Enrolled(c)

\* StartExpedition, StartPartyExpedition: the rows are locked, in the order
\* of the IDs, and kept until the expedition is saved.
Admit(p, c, S) ==
    /\ delve[p].pc = "idle" /\ c \in S /\ handed < MaxExpeditions /\ MoreMayHappen
    /\ \A m \in S : delverRow[m] = Nobody
    /\ FreeToEnter(S)
    /\ delverRow' = [m \in Delvers |-> IF m \in S THEN p ELSE delverRow[m]]
    /\ handed' = handed + 1
    /\ DelveOn(p, [NoDelve EXCEPT !.pc = "reference", !.who = c, !.todo = S \ {c},
                       !.exp = [NoBuffer EXCEPT !.id = handed', !.status = "exploring", !.members = S]])
    /\ UNCHANGED <<delveKeys, delveSql, delveCounts>>

\* saveMemberIndex
SaveReference(p, m) ==
    LET x == delve[p] IN
    /\ x.pc = "reference" /\ m \in x.todo
    /\ memberOf' = [memberOf EXCEPT ![m] = <<x.who, x.exp.id>>]
    /\ DelveOn(p, [x EXCEPT !.todo = @ \ {m}])
    /\ UNCHANGED <<buffer, spoils, delveSql, delverRow, handed, delveCounts>>

\* What a write takes the place of is gone.
Overwrites(c) == gone' = gone \cup (IF Kept(c) THEN {buffer[c].id} ELSE {})

SaveState(p) ==
    LET x == delve[p] IN
    /\ x.pc = "reference" /\ x.todo = {}
    /\ Overwrites(x.who)
    /\ buffer' = [buffer EXCEPT ![x.who] = x.exp]
    /\ DelveOn(p, [x EXCEPT !.pc = "rewards"])
    /\ UNCHANGED <<spoils, memberOf, delveSql, delverRow, handed, moves, delveFaults, delveCuts>>

\* The rewards of the new expedition; those of one that took a step already
\* are overwritten.
SaveRewards(p) ==
    LET c == delve[p].who IN
    /\ delve[p].pc = "rewards"
    /\ IF spoils[c].n > 0 THEN Overwrites(c) ELSE UNCHANGED gone
    /\ spoils' = [spoils EXCEPT ![c] = [exists |-> TRUE, n |-> 0]]
    /\ DelveOn(p, [delve[p] EXCEPT !.pc = "commit"])
    /\ UNCHANGED <<buffer, memberOf, delveSql, delverRow, handed, moves, delveFaults, delveCuts>>

\* COMMIT; reconcileStart only reads when it fails.
CommitStart(p) ==
    /\ delve[p].pc = "commit"
    /\ RowsGivenUp(p) /\ Answered(p)
    /\ UNCHANGED <<delveKeys, delveSql, handed, delveCounts>>

-----------------------------------------------------------------------------
(* Move, Fight and Escape of the leader                                    *)

\* (mutant) what is frozen is as good as over
AnswersLive(op, b) ==
    \/ op = "move" /\ b.status = "exploring" /\ b.foe = "none"
    \/ op = "fight" /\ b.status = "exploring" /\ b.foe # "none"
    \/ op = "escape" /\ b.status = "exploring"

\* The requests that are not refused at once.
Answers(op, b) ==
    \/ op = "move" /\ b.status = "exploring" /\ b.foe = "none"
    \/ op = "fight" /\ (Frozen(b) \/ b.foe # "none")
    \/ op = "escape"

\* The state is read.
AskDelve(p, c, op) ==
    /\ delve[p].pc = "idle" /\ Kept(c)
    /\ Answers(op, buffer[c])
    /\ IF op = "escape" \/ Frozen(buffer[c])
       THEN UNCHANGED moves
       ELSE MoreMayHappen /\ moves' = moves + 1
    /\ DelveOn(p, [NoDelve EXCEPT !.pc = "look", !.op = op, !.who = c, !.exp = buffer[c]])
    /\ UNCHANGED <<delveKeys, delveSql, delverRow, handed, gone, delveFaults, delveCuts>>

\* A leader whose expedition is frozen asks again: Escape settles it.
AskAgain(p, c) == Frozen(buffer[c]) /\ AskDelve(p, c, "escape")

\* The rewards are read, and the handler goes its way: a move may lead to the
\* exit, or down the last stairs.
LookIn(p) ==
    LET x == delve[p]
        y == [x EXCEPT !.loot = spoils[x.who].n] IN
    /\ x.pc = "look"
    /\ \/ Frozen(x.exp) /\ DelveOn(p, [y EXCEPT !.pc = "settle"])
       \/ ~Frozen(x.exp) /\ x.op # "escape" /\ DelveOn(p, [y EXCEPT !.pc = "explore"])
       \/ /\ ~Frozen(x.exp) /\ x.op \in {"escape", "move"}
          /\ DelveOn(p, [y EXCEPT !.pc = "freeze", !.want = "escaped"])
       \/ /\ ~Frozen(x.exp) /\ x.op = "move"
          /\ DelveOn(p, [y EXCEPT !.pc = "freeze", !.want = "cleared"])
    /\ UNCHANGED <<delveKeys, delveSql, delverRow, handed, delveCounts>>

\* (mutant) a step carries the ID only
FencedById(b, e) == b.status = "exploring" /\ b.id = e.id

\* dungeon_step.lua accepts a step of the expedition as the request has read it.
Fenced(b, e) == b.status = "exploring" /\ b.id = e.id /\ b.rev = e.rev

\* A step: the revision, who falls, and the status that follows.  Turns are
\* not counted; any step may spend the last one.
After(b, hurt, spent) ==
    [b EXCEPT !.rev = @ + 1, !.fallen = @ \cup hurt, !.foe = "none",
              !.status = IF spent \/ Upright(b) \subseteq hurt THEN "wiped_out" ELSE @]

\* The step is carried out; the request goes on to settle, or answers.
TakeStep(p, b, found, settles) ==
    LET x == delve[p]
        n == spoils[x.who].n + found IN
    /\ buffer' = [buffer EXCEPT ![x.who] = b]
    /\ spoils' = [spoils EXCEPT ![x.who] = [exists |-> TRUE, n |-> n]]
    /\ IF settles THEN DelveOn(p, [x EXCEPT !.pc = "settle", !.exp = b, !.loot = n]) ELSE Answered(p)
    /\ UNCHANGED <<memberOf, delveSql, delverRow, handed, delveCounts>>

\* A step that only may end in failure.
StepOrEnd(p, b, found) == TakeStep(p, b, found, Frozen(b))

Exploring(p) ==
    LET x == delve[p] IN x.pc = "explore" /\ Fenced(buffer[x.who], x.exp)

Walk(p) ==
    /\ Exploring(p) /\ delve[p].op = "move"
    /\ \E spent \in BOOLEAN : StepOrEnd(p, After(buffer[delve[p].who], {}, spent), 0)

\* A share for each of S.
Earns(b, S) == [c \in Delvers |-> b.gain[c] + (IF c \in S THEN 1 ELSE 0)]

\* A treasure is for those who stand, and only once.
OpenTreasure(p) ==
    LET b == buffer[delve[p].who] IN
    /\ Exploring(p) /\ delve[p].op = "move"
    /\ \E spent \in BOOLEAN :
        IF b.opened
        THEN StepOrEnd(p, After(b, {}, spent), 0)
        ELSE StepOrEnd(p, [After(b, {}, spent) EXCEPT !.opened = TRUE,
                            !.gain = Earns(b, Upright(delve[p].exp))], 1)

SpringTrap(p) ==
    /\ Exploring(p) /\ delve[p].op = "move"
    /\ \E hurt \in SUBSET Upright(delve[p].exp), spent \in BOOLEAN :
        StepOrEnd(p, After(buffer[delve[p].who], hurt, spent), 0)

\* A battle begins from what the standing members have left.
Equipped(e) == \A c \in e.used \cap Upright(e) : pack[c] = "held"

\* The items that may be used up in a battle.
Usable(e) == {c \in (Kit \cap Upright(e)) \ e.used : pack[c] = "held"}

Foes(p) == IF delve[p].op = "move" THEN {"monster", "boss"} ELSE {delve[p].exp.foe}

\* A battle as it went for the copy of the request: against f, those who fell,
\* the items used up, and whether it took the last turn.
Battles(p) ==
    LET e == delve[p].exp IN
    IF Exploring(p) /\ Equipped(e)
    THEN [f : Foes(p), hurt : SUBSET Upright(e), U : SUBSET Usable(e), spent : BOOLEAN]
    ELSE {}

Fought(p, w) == [After(buffer[delve[p].who], w.hurt, w.spent) EXCEPT !.used = @ \cup w.U]

Survivors(p, w) == Upright(delve[p].exp) \ w.hurt

\* A victory is for those who stand at its end.  That over the boss clears
\* the dungeon; the last turn may be spent with the victory over another.
Win(p) ==
    \E w \in Battles(p) :
        /\ Survivors(p, w) # {}
        /\ TakeStep(p, [Fought(p, w) EXCEPT !.gain = Earns(buffer[delve[p].who], Survivors(p, w)),
                         !.status = IF w.f = "boss" THEN "cleared" ELSE @], 1, w.f = "boss")

Draw(p) ==
    \E w \in Battles(p) :
        Survivors(p, w) # {} /\ StepOrEnd(p, [Fought(p, w) EXCEPT !.foe = w.f], 0)

Defeat(p) ==
    \E w \in Battles(p) : Survivors(p, w) = {} /\ StepOrEnd(p, Fought(p, w), 0)

\* The expedition is no more what the request has read, or an item that was
\* used up is not there to be taken off when a battle begins.
StepRejected(p) ==
    LET x == delve[p]
        b == buffer[x.who] IN
    /\ \/ x.pc = "explore" /\ ~(Fenced(b, x.exp) /\ Equipped(x.exp))
       \/ x.pc = "freeze" /\ ~Fenced(b, x.exp) /\ ~(b.id = x.exp.id /\ Frozen(b))
    /\ Answered(p)
    /\ UNCHANGED <<delveKeys, delveSql, delverRow, handed, delveCounts>>

-----------------------------------------------------------------------------
(* Settlement                                                              *)

\* freezeExpedition: the step that fences further ones.
Freeze(p) ==
    LET x == delve[p]
        b == buffer[x.who] IN
    /\ x.pc = "freeze" /\ Fenced(b, x.exp)
    /\ TakeStep(p, [b EXCEPT !.rev = @ + 1, !.foe = "none", !.status = x.want], 0, TRUE)

\* Another request has frozen it: what it has frozen is read, the state
\* first, and settled if it is the outcome that is wanted here.
FrozenByOther(p) ==
    LET x == delve[p]
        b == buffer[x.who] IN
    /\ x.pc = "freeze" /\ b.id = x.exp.id /\ Frozen(b)
    /\ DelveOn(p, [x EXCEPT !.pc = "reread"])
    /\ UNCHANGED <<delveKeys, delveSql, delverRow, handed, delveCounts>>

Reread(p) ==
    LET x == delve[p]
        b == buffer[x.who] IN
    /\ x.pc = "reread"
    /\ IF b.id = x.exp.id /\ b.status = x.want
       THEN DelveOn(p, [x EXCEPT !.pc = "look", !.exp = b])
       ELSE Answered(p)
    /\ UNCHANGED <<delveKeys, delveSql, delverRow, handed, delveCounts>>

\* handleDungeonClear, handleEscape, handleWipeout: who is left standing gets
\* a bonus for the whole dungeon, and who fails gets nothing.
Settlement(b, n) ==
    LET Bonus(c) == IF b.status = "cleared" /\ c \in Upright(b) THEN 1 ELSE 0 IN
    [outcome |-> b.status,
     paid |-> IF b.status = "wiped_out" THEN NoEarnings ELSE [c \in Delvers |-> b.gain[c] + Bonus(c)],
     loot |-> CASE b.status = "wiped_out" -> 0 [] b.status = "escaped" -> n [] OTHER -> n + 1]

\* consumeBufferedItems fails if an item is not there any more.
Consumable(b) == \A c \in b.used : pack[c] = "held"

\* FinalizeExpedition: one transaction, which claims the ID.
Finalize(p) ==
    LET x == delve[p]
        b == x.exp
        claimed == finished[b.id] # NotSettled IN
    /\ x.pc = "settle"
    /\ \A m \in b.members : delverRow[m] = Nobody
    /\ IF claimed \/ Consumable(b)
       THEN DelveOn(p, [NoDelve EXCEPT !.pc = "clean", !.who = x.who, !.exp = [NoBuffer EXCEPT !.id = b.id]])
       ELSE Answered(p)
    /\ IF ~claimed /\ Consumable(b)
       THEN /\ finished' = [finished EXCEPT ![b.id] = Settlement(b, x.loot)]
            /\ pack' = [c \in Delvers |-> IF c \in b.used THEN "used" ELSE pack[c]]
       ELSE UNCHANGED delveSql
    /\ UNCHANGED <<delveKeys, delverRow, handed, delveCounts>>

-----------------------------------------------------------------------------
(* DeleteActiveExpedition                                                  *)

Clean(p) ==
    LET x == delve[p]
        b == buffer[x.who] IN
    /\ x.pc = "clean"
    /\ IF Kept(x.who) /\ b.id = x.exp.id
       THEN DelveOn(p, [x EXCEPT !.pc = "release", !.todo = b.members \ {x.who}])
       ELSE Answered(p)
    /\ UNCHANGED <<delveKeys, delveSql, delverRow, handed, delveCounts>>

\* (mutant) the reference is deleted whatever it names
ReleaseAny(p, m) ==
    LET x == delve[p] IN
    /\ x.pc = "release" /\ m \in x.todo
    /\ memberOf' = [memberOf EXCEPT ![m] = NoReference]
    /\ DelveOn(p, [x EXCEPT !.todo = @ \ {m}])
    /\ UNCHANGED <<buffer, spoils, delveSql, delverRow, handed, delveCounts>>

\* release_member.lua
ReleaseReference(p, m) ==
    LET x == delve[p] IN
    /\ x.pc = "release" /\ m \in x.todo
    /\ memberOf' = [memberOf EXCEPT ![m] = IF @ = <<x.who, x.exp.id>> THEN NoReference ELSE @]
    /\ DelveOn(p, [x EXCEPT !.todo = @ \ {m}])
    /\ UNCHANGED <<buffer, spoils, delveSql, delverRow, handed, delveCounts>>

\* delete_expedition.lua
DeleteExpedition(p) ==
    LET x == delve[p]
        same == Kept(x.who) /\ buffer[x.who].id = x.exp.id IN
    /\ x.pc = "release" /\ x.todo = {}
    /\ buffer' = [buffer EXCEPT ![x.who] = IF same THEN NoBuffer ELSE @]
    /\ spoils' = [spoils EXCEPT ![x.who] = IF same THEN Absent ELSE @]
    /\ Answered(p)
    /\ UNCHANGED <<memberOf, delveSql, delverRow, handed, delveCounts>>

-----------------------------------------------------------------------------
(* What comes in between                                                   *)

\* A command fails, its answer is lost or the process stops.
BreakOff(p) ==
    /\ delve[p].pc # "idle" /\ MoreMayHappen
    /\ delveFaults' = delveFaults + 1
    /\ RowsGivenUp(p) /\ Answered(p)
    /\ UNCHANGED <<delveKeys, delveSql, handed, moves, gone, delveCuts>>

\* The database loses the connection of a start, which goes on in Valkey.
CutOff(p) ==
    /\ MoreMayHappen
    /\ \E c \in Delvers : delverRow[c] = p
    /\ delveCuts' = delveCuts + 1
    /\ RowsGivenUp(p)
    /\ UNCHANGED <<delveKeys, delveSql, delve, handed, moves, gone, delveFaults>>

\* Two hours without a step; both keys have their deadlines with the rewards.
Forgotten(c) ==
    /\ Kept(c) /\ spoils[c].exists /\ MoreMayHappen
    /\ gone' = gone \cup {buffer[c].id}
    /\ buffer' = [buffer EXCEPT ![c] = NoBuffer]
    /\ spoils' = [spoils EXCEPT ![c] = Absent]
    /\ UNCHANGED <<memberOf, delveSql, delverRow, delve, handed, moves, delveFaults, delveCuts>>

\* A member gives its item away in town; nothing asks where it is.
PartWith(c) ==
    /\ pack[c] = "held" /\ MoreMayHappen
    /\ pack' = [pack EXCEPT ![c] = "given"]
    /\ UNCHANGED <<delveKeys, finished, delverRow, delve, handed, delveCounts>>

-----------------------------------------------------------------------------
DelveAsks(p) ==
    \E c \in Delvers :
        \/ \E S \in SUBSET Delvers : Admit(p, c, S)
        \/ \E op \in {"move", "fight", "escape"} : AskDelve(p, c, op)

DelveStep(p) ==
    \/ SaveState(p) \/ SaveRewards(p) \/ CommitStart(p)
    \/ LookIn(p) \/ StepRejected(p)
    \/ Walk(p) \/ OpenTreasure(p) \/ SpringTrap(p) \/ Win(p) \/ Draw(p) \/ Defeat(p)
    \/ Freeze(p) \/ FrozenByOther(p) \/ Reread(p) \/ Finalize(p)
    \/ Clean(p) \/ DeleteExpedition(p)
    \/ \E m \in Delvers : SaveReference(p, m) \/ ReleaseReference(p, m)

DelveFault ==
    \/ \E p \in Callers : BreakOff(p) \/ CutOff(p)
    \/ \E c \in Delvers : Forgotten(c) \/ PartWith(c)

DelveNext == (\E p \in Callers : DelveAsks(p) \/ DelveStep(p)) \/ DelveFault

DelveSpec == DelveInit /\ [][DelveNext]_delveVars

DelveFairness ==
    /\ \A p \in Callers : WF_delveVars(DelveStep(p))
    /\ \A c \in Delvers : SF_delveVars(\E p \in Callers : AskAgain(p, c))

FairDelveSpec == DelveSpec /\ DelveFairness

-----------------------------------------------------------------------------
DelveTypeOK ==
    /\ buffer \in [Delvers -> Buffers]
    /\ spoils \in [Delvers -> [exists : BOOLEAN, n : Nat]]
    /\ \A c \in Delvers : memberOf[c] \in (Delvers \X Ids) \cup {NoReference}
    /\ finished \in [Ids -> Settlements]
    /\ pack \in [Delvers -> {"none", "held", "used", "given"}]
    /\ delverRow \in [Delvers -> Callers \cup {Nobody}]
    /\ delve \in [Callers -> Delves]
    /\ handed \in 0..MaxExpeditions /\ moves \in 0..MaxEvents /\ gone \subseteq Ids
    /\ delveFaults \in 0..MaxEvents /\ delveCuts \in 0..MaxEvents

\* Steps follow one another: who has fallen earns nothing, a pending foe is
\* fought or fled from, and nothing is earned after the end.
EarnedInOrder(l) ==
    LET b == buffer[l]
        n == buffer'[l] IN
    b.id = n.id /\ b.rev # n.rev =>
        /\ b.status = "exploring"
        /\ \A c \in Delvers : n.gain[c] # b.gain[c] => c \in Upright(b)
        /\ b.foe # "none" => \E p \in Callers :
              delve[p].who = l /\ delve[p].op # "move" /\ delve'[p] # delve[p]

\* It is what was frozen that is paid, once.
SettledAsFrozen(e) ==
    finished'[e] # finished[e] =>
        /\ finished[e] = NotSettled
        /\ \/ e \in gone
           \/ \E l \in Delvers :
                /\ buffer[l].id = e /\ Frozen(buffer[l])
                /\ finished'[e] = Settlement(buffer[l], spoils[l].n)

KeptUntilSettled(l) ==
    LET e == buffer[l].id IN
    Kept(l) /\ buffer'[l].id # e => e \in gone' \/ finished[e] # NotSettled

\* What an expedition earns is earned step by step, frozen, paid once, and
\* only then deleted, however many moves, fights and exits run at the same
\* time from copies that grow old.  (dungeon_step.lua,
\* settlement_transition.go, FinalizeExpedition)
LedgerSettledOnce ==
    [][/\ \A e \in Ids : SettledAsFrozen(e)
       /\ \A l \in Delvers : EarnedInOrder(l) /\ KeptUntilSettled(l)]_delveVars

\* Everyone inside of an expedition is found there, as long as no connection
\* is lost: a late clean-up or a start that breaks off never frees a member
\* for a second one.  (member_index.go, release_member.lua, withMembers)
EnrolledOnce ==
    delveCuts = 0 =>
        \A l \in Delvers : buffer[l].status = "exploring" =>
            \A c \in buffer[l].members \ {l} : ~Kept(c) /\ memberOf[c] = <<l, buffer[l].id>>

\* A frozen expedition is settled and cleaned up when its leader asks again,
\* whatever broke off, unless its keys expire or a member has given away an
\* item that the expedition has used up.  (resumeSettlement)
SettlementCompletes ==
    \A l \in Delvers, e \in Ids :
        (buffer[l].id = e /\ Frozen(buffer[l])) ~>
            \/ finished[e] # NotSettled /\ buffer[l].id # e
            \/ e \in gone
            \/ buffer[l].id = e /\ ~Consumable(buffer[l]) /\ finished[e] = NotSettled
=============================================================================
