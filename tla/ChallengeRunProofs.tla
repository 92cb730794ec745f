------------------------- MODULE ChallengeRunProofs -------------------------
(***************************************************************************)
(* Proofs about ChallengeRun, for every number of commands, characters and *)
(* runs, and whatever fails, is cut or expires.                            *)
(*                                                                         *)
(* The inductive invariant says what may be relied on with the row's lock  *)
(* and what without it.  Any publication, wherever it is, is an earlier    *)
(* one of its run or the one that SQL has committed last (Follows).  A     *)
(* command that holds the lock writes the latter, and what it has written  *)
(* stays (Confirmed): whoever comes late is refused by the revision, or    *)
(* writes the same, or frees references of those who have left for ever.   *)
(***************************************************************************)
EXTENDS ChallengeRun, FiniteSetTheorems, TLAPS

\* The steps at which a transaction is open.
InTransaction == {"check", "commit", "hash", "refs", "ack"}

\* A publication u of run r.
Follows(u, r) ==
    /\ u.rev <= Revision(r)
    /\ u.rev = Revision(r) => u = coord[r].pub

\* The live state is that of the committed revision, or its deadline has passed.
Published(r) ==
    IF Revision(r) <= past[r] THEN live[r] = NoPublication ELSE live[r] = coord[r].pub

\* What a round or an exit makes of u: members earn, or those who leave are
\* paid.
Outcome(d, u) ==
    /\ u.status = "active" /\ d.pub.rev = u.rev + 1
    /\ d.removed \subseteq u.members
    /\ d.pays = {<<c, u.gain[c]>> : c \in d.removed}
    /\ \/ /\ d.removed = {} /\ d.pub.status = "active" /\ d.pub.members = u.members
          /\ \E S \in SUBSET u.members :
                d.pub.gain = [c \in Challengers |-> IF c \in S THEN u.gain[c] + 1 ELSE u.gain[c]]
       \/ /\ d.removed # {}
          /\ d.pub.gain = [c \in Challengers |-> IF c \in d.removed THEN 0 ELSE u.gain[c]]
          /\ \/ d.pub.status = "active" /\ d.pub.members = u.members \ d.removed
             \/ d.pub.status # "active" /\ d.removed = u.members

\* The row of a run and those who are inside of it.
RowInv(r) ==
    /\ Revision(r) = 0 =>
          /\ coord[r] = [pub |-> NoPublication, pending |-> FALSE, removed |-> {}]
          /\ enrolled[r] = {} /\ settled[r] = {}
    /\ coord[r].removed \subseteq Settled(r)
    /\ Roster(r) = IF coord[r].pub.status = "active" THEN coord[r].pub.members ELSE {}
    /\ \A c \in Challengers \ Roster(r) : coord[r].pub.gain[c] = 0

RowsInv == \A r \in Runs : RowInv(r) /\ Follows(live[r], r)

\* What is true of a command that holds the lock: it writes the publication
\* that SQL has committed, and what it has written stays.
Confirmed(x) ==
    /\ coord[x.run].pending
    /\ x.pc = "hash" => x.drops = coord[x.run].removed
    /\ ~x.acked => x.pub = coord[x.run].pub
    /\ x.pc # "hash" =>
          /\ Published(x.run)
          /\ \A c \in Roster(x.run) \ x.sets : reference[c] = x.run
          /\ cuts = 0 => \A c \in coord[x.run].removed \ x.drops : reference[c] # x.run

\* What a command writes, with or without the lock.
Writes(x) ==
    /\ x.pub.rev > 0 /\ Follows(x.pub, x.run)
    /\ x.drops \subseteq Settled(x.run)
    /\ x.sets \subseteq x.pub.members
    /\ x.sets # {} => x.pub.status = "active"
    /\ x.pc = "hash" => x.sets = {}

\* What a command will commit.
Drafted(x) ==
    /\ x.draft.pub.rev = 0 => x.draft.pays = {}
    /\ x.draft.pub.rev = Revision(x.run) + 1 => Outcome(x.draft, coord[x.run].pub)
    /\ x.draft.pub.rev <= Revision(x.run) + 1

\* A start of a run that nobody else knows.
Fresh(p) ==
    LET x == cmd[p] IN
    /\ Revision(x.run) = 0
    /\ \A q \in Callers \ {p} : cmd[q].run # x.run
    /\ x.draft.pub.rev = 1 /\ x.draft.pub.status = "active"
    /\ x.draft.pub.members # {} /\ x.draft.pub.gain = NoGain

CmdInv(p) ==
    LET x == cmd[p] IN
    /\ x.pc # "idle" => x.run \in Runs
    /\ x.pc = "idle" => x.run = NoRun
    /\ x.pc \in {"check", "commit", "enrol", "receipt"} => x.actor \in Challengers
    /\ x.pc \in {"hash", "refs"} => Writes(x) /\ ~x.acked /\ (~x.final => x.actor \in Challengers)
    /\ x.pc = "ack" => x.final
    /\ x.pc = "commit" => Drafted(x)
    /\ x.pc \notin {"enrol", "commit"} => x.draft = NoDraft
    /\ x.pc = "enrol" => Fresh(p)
    /\ x.acked => x.pc \in {"check", "commit"}
    /\ x.acked \/ x.pc = "ack" => x.sets = {} /\ x.drops = {}
    /\ x.pc \in InTransaction =>
          /\ cuts = 0 => Holds(p)
          /\ Holds(p) /\ (x.pc \in {"hash", "refs", "ack"} \/ x.acked) => Confirmed(x)

LocksInv == \A r \in Runs : rowLock[r] # Nobody =>
    cmd[rowLock[r]].run = r /\ cmd[rowLock[r]].pc \in InTransaction

StoresOK ==
    /\ coord \in [Runs -> Coordinates]
    /\ enrolled \in [Runs -> SUBSET Challengers]
    /\ settled \in [Runs -> SUBSET (Challengers \X Nat)]
    /\ claims \in [Challengers -> Runs \cup {NoRun}]
    /\ receipts \subseteq Runs \X Challengers \X Nat \X {"start", "advance", "exit"}
    /\ live \in [Runs -> Publications]
    /\ reference \in [Challengers -> Runs \cup {NoRun}]
    /\ past \in [Runs -> Nat]

StoresInv ==
    StoresOK /\ RowsInv /\ ClaimsMatchRoster /\ AcknowledgedIsLive /\ ReferencesMatch

CommandsInv ==
    /\ rowLock \in [Runs -> Callers \cup {Nobody}] /\ LocksInv
    /\ cmd \in [Callers -> Commands] /\ \A p \in Callers : CmdInv(p)

BoundsOK == runFaults \in 0..MaxRunFaults /\ cuts \in 0..MaxCuts /\ deadlines \in 0..MaxDeadlines

RunIInv == StoresInv /\ CommandsInv /\ BoundsOK

-----------------------------------------------------------------------------
(* What a step of one command leaves to the others                         *)

SameRow(r) ==
    coord'[r] = coord[r] /\ settled'[r] = settled[r] /\ enrolled'[r] = enrolled[r]

\* What p does to the stores: rows are written under their lock only, or when
\* nobody else knows them; what was published stays; a reference to a
\* run is set only under its lock, as long as no connection is lost.
Guarantee(p) ==
    \A r \in Runs :
        /\ SameRow(r) \/ rowLock[r] = p \/ (cmd[p].pc = "enrol" /\ cmd[p].run = r)
        /\ Revision(r) <= Revision(r)'
        /\ Revision(r) = Revision(r)' => coord'[r].pub = coord[r].pub
        /\ Settled(r) \subseteq Settled(r)'
        /\ SameRow(r) /\ Revision(r) > 0 /\ Published(r) => Published(r)'
        /\ SameRow(r) => \A c \in Roster(r) : reference[c] = r => reference'[c] = r
        /\ cuts = 0 => \A c \in Challengers : reference'[c] = r => reference[c] = r \/ rowLock[r] = p

\* p takes a lock that is free, keeps what it has, or gives up all of it.
LocksMove(p) ==
    \/ UNCHANGED rowLock
    \/ rowLock' = Unlocked(p)
    \/ \E r \in Runs : rowLock[r] = Nobody /\ rowLock' = [rowLock EXCEPT ![r] = p]

LEMMA EmptyTyped ==
  NoPublication \in Publications /\ NoDraft \in Drafts /\ NoCommand \in Commands
<1>1. NoPublication \in Publications
  BY DEF NoPublication, Publications, NoGain
<1>2. NoDraft \in Drafts
  BY <1>1 DEF NoDraft, Drafts
<1>3. NoCommand \in Commands
  BY <1>1, <1>2 DEF NoCommand, Commands
<1>4. QED
  BY <1>1, <1>2, <1>3

\* A run of which something is known has a revision, and so on.
LEMMA LocksMoveTyped ==
  ASSUME rowLock \in [Runs -> Callers \cup {Nobody}], NEW p \in Callers, LocksMove(p)
  PROVE /\ rowLock' \in [Runs -> Callers \cup {Nobody}]
        /\ \A r \in Runs, q \in Callers \ {p} : rowLock'[r] = q <=> rowLock[r] = q
<1>1. p # Nobody
  BY ActorsAssumption
<1>2. CASE UNCHANGED rowLock
  BY <1>2
<1>3. CASE rowLock' = Unlocked(p)
  BY <1>1, <1>3, ActorsAssumption DEF Unlocked
<1>4. CASE \E r \in Runs : rowLock[r] = Nobody /\ rowLock' = [rowLock EXCEPT ![r] = p]
  BY <1>1, <1>4, ActorsAssumption
<1>5. QED
  BY <1>2, <1>3, <1>4 DEF LocksMove

LEMMA OthersKeep ==
  ASSUME StoresInv, StoresOK', BoundsOK, CommandsInv,
         NEW p \in Callers, NEW q \in Callers, q # p, Guarantee(p), LocksMove(p),
         cmd' = [cmd EXCEPT ![p] = cmd'[p]], cuts' \in Nat, cuts' >= cuts,
         cmd'[p].run # cmd[p].run => \A s \in Callers :
             cmd[s].pc = "enrol" => cmd[s].run # cmd'[p].run
  PROVE CmdInv(q)'
<1>1. PICK x \in Commands : x = cmd[q]
  BY DEF CommandsInv
<1>2. cmd'[q] = x /\ CmdInv(q)
  BY <1>1 DEF CommandsInv
<1>3. CASE x.pc = "idle"
  BY <1>1, <1>2, <1>3 DEF CmdInv, InTransaction
<1>4. CASE x.pc # "idle"
  <2>1. PICK r \in Runs : r = x.run
    BY <1>1, <1>2, <1>4 DEF CmdInv
  <2>2. rowLock'[r] = q <=> rowLock[r] = q
    BY <2>1, LocksMoveTyped DEF CommandsInv
  <2>3. /\ Revision(r) \in Nat /\ Revision(r)' \in Nat /\ Revision(r) <= Revision(r)'
        /\ Revision(r) = Revision(r)' => coord'[r].pub = coord[r].pub
        /\ Settled(r) \subseteq Settled(r)'
    BY <2>1 DEF Guarantee, StoresInv, StoresOK, Coordinates, Publications, Revision
  <2>4. Follows(x.pub, r) => Follows(x.pub, r)'
    BY <1>1, <1>2, <2>1, <2>3 DEF Follows, Commands, Publications
  <2>5. Writes(x) => Writes(x)'
    BY <1>1, <1>2, <2>1, <2>3, <2>4 DEF Writes
  <2>6. Drafted(x) => Drafted(x)'
    <3>1. x.draft.pub.rev \in Nat
      BY DEF Commands, Drafts, Publications
    <3>2. x.draft.pub.rev <= Revision(r) + 1 => x.draft.pub.rev <= Revision(r)' + 1
      BY <2>3, <3>1
    <3>3. x.draft.pub.rev <= Revision(r) + 1 /\ x.draft.pub.rev = Revision(r)' + 1 =>
             x.draft.pub.rev = Revision(r) + 1 /\ coord'[r].pub = coord[r].pub
      BY <2>3, <3>1
    <3>4. coord'[r].pub = coord[r].pub /\ Outcome(x.draft, coord[r].pub) =>
             Outcome(x.draft, coord[r].pub)'
      OBVIOUS
    <3>5. QED
      BY <2>1, <3>2, <3>3, <3>4 DEF Drafted, Revision
  <2>7. x.pc = "enrol" => Fresh(q)'
    <3> SUFFICES ASSUME x.pc = "enrol"
                 PROVE Fresh(q)'
      OBVIOUS
    <3>1. Fresh(q)
      BY <1>1, <1>2, <2>1 DEF CmdInv
    <3>2. cmd[p].run # r
      BY <1>1, <2>1, <3>1 DEF Fresh
    <3>3. rowLock[r] # p
      BY <2>1, <3>2, ActorsAssumption DEF CommandsInv, LocksInv
    <3>4. SameRow(r)
      BY <2>1, <3>2, <3>3 DEF Guarantee
    <3>5. \A s \in Callers \ {q} : cmd'[s].run # r
      BY <1>1, <1>2, <2>1, <3>1, <3>2 DEF Fresh, CommandsInv
    <3>6. QED
      BY <1>1, <1>2, <2>1, <3>1, <3>4, <3>5 DEF Fresh, SameRow, Revision
  <2>8. ASSUME x.pc \in InTransaction, rowLock[r] = q,
               x.pc \in {"hash", "refs", "ack"} \/ x.acked
        PROVE Confirmed(x)'
    <3>1. Confirmed(x)
      BY <1>1, <1>2, <2>1, <2>8 DEF CmdInv, Holds
    <3>2. rowLock[r] # p /\ ~(cmd[p].pc = "enrol" /\ cmd[p].run = r)
      BY <1>1, <1>2, <2>1, <2>8 DEF CommandsInv, CmdInv, Fresh
    <3>3. SameRow(r)
      BY <2>1, <3>2 DEF Guarantee
    <3>4. Settled(r)' = Settled(r) /\ Roster(r)' = Roster(r) /\ Revision(r)' = Revision(r)
      BY <2>1, <3>3 DEF SameRow, Settled, Roster, Revision
    <3>5. CASE x.pc = "hash"
      BY <1>1, <1>2, <2>1, <3>1, <3>3, <3>5 DEF Confirmed, SameRow
    <3>6. CASE x.pc # "hash"
      <4>1. Revision(r) > 0
        BY <2>1, <2>3, <3>1 DEF Confirmed, StoresInv, RowsInv, RowInv
      <4>2. Published(r)'
        BY <2>1, <3>1, <3>3, <3>6, <4>1 DEF Confirmed, Guarantee
      <4>3. \A c \in Roster(r) \ x.sets : reference'[c] = r
        BY <2>1, <3>1, <3>3, <3>6 DEF Confirmed, Guarantee
      <4>4. cuts' = 0 => \A c \in coord[r].removed \ x.drops : reference'[c] # r
        <5> SUFFICES ASSUME cuts' = 0, NEW c \in coord[r].removed \ x.drops
                     PROVE reference'[c] # r
          OBVIOUS
        <5>1. cuts = 0 /\ c \in Challengers
          BY <2>1 DEF BoundsOK, StoresInv, StoresOK, Coordinates
        <5>2. reference[c] # r
          BY <2>1, <3>1, <3>6, <5>1 DEF Confirmed
        <5>3. QED
          BY <2>1, <3>2, <5>1, <5>2 DEF Guarantee
      <4>5. QED
        BY <1>1, <1>2, <2>1, <3>1, <3>3, <3>4, <3>6, <4>2, <4>3, <4>4 DEF Confirmed, SameRow
    <3>7. QED
      BY <3>5, <3>6
  <2>9. x.pc \in InTransaction /\ cuts' = 0 => cuts = 0
    BY DEF BoundsOK
  <2>10. QED
    BY <1>1, <1>2, <2>1, <2>2, <2>5, <2>6, <2>7, <2>8, <2>9 DEF CmdInv, Holds
<1>5. QED
  BY <1>3, <1>4

-----------------------------------------------------------------------------
(* Effects on Valkey                                                       *)

LEMMA RowsStay ==
  ASSUME RowsInv, UNCHANGED <<coord, enrolled, settled>>
  PROVE \A r \in Runs : /\ RowInv(r)' /\ SameRow(r)
                        /\ Revision(r)' = Revision(r) /\ Settled(r)' = Settled(r)
                        /\ Roster(r)' = Roster(r)
BY DEF RowsInv, RowInv, SameRow, Revision, Settled, Roster

LEMMA StoresStay ==
  ASSUME StoresInv, UNCHANGED <<runSql, runCache>>, cuts' = 0 => cuts = 0
  PROVE StoresInv'
<1>1. UNCHANGED <<coord, enrolled, settled, claims, receipts, live, reference, past>>
  BY DEF runSql, runCache
<1>2. StoresOK' /\ ClaimsMatchRoster' /\ AcknowledgedIsLive' /\ ReferencesMatch'
  BY <1>1 DEF StoresInv, StoresOK, ClaimsMatchRoster, Roster, Settled, AcknowledgedIsLive, Revision,
              ReferencesMatch, ReferenceFollowsClaim, MembersAreReferenced
<1>3. RowsInv'
  <2>1. \A r \in Runs : RowInv(r)'
    BY <1>1, RowsStay DEF StoresInv
  <2>2. \A r \in Runs : Follows(live[r], r)'
    BY <1>1 DEF StoresInv, RowsInv, Follows, Revision
  <2>3. QED
    BY <2>1, <2>2 DEF RowsInv
<1>4. QED
  BY <1>2, <1>3 DEF StoresInv

LEMMA NothingDone ==
  ASSUME StoresInv, NEW p \in Callers, UNCHANGED <<runSql, runCache>>, cuts' = 0 => cuts = 0
  PROVE StoresInv' /\ Guarantee(p)
<1>1. UNCHANGED <<coord, enrolled, settled, live, reference, past>>
  BY DEF runSql, runCache
<1>2. \A r \in Runs : /\ SameRow(r) /\ Revision(r)' = Revision(r) /\ Settled(r)' = Settled(r)
                      /\ Published(r)' = Published(r)
  BY <1>1, RowsStay DEF StoresInv, Published, Revision
<1>3. \A r \in Runs : Revision(r) \in Nat
  BY DEF StoresInv, StoresOK, Coordinates, Publications, Revision
<1>4. Guarantee(p)
  BY <1>1, <1>2, <1>3 DEF Guarantee
<1>5. QED
  BY <1>4, StoresStay

\* A late publication is refused, is the committed one, or has a deadline
\* that has passed.
LEMMA HashWritten ==
  ASSUME StoresInv, CommandsInv, NEW p \in Callers, cmd[p].pc = "hash",
         Newest(cmd[p]), HashEffect(p), UNCHANGED cuts
  PROVE /\ StoresInv' /\ Guarantee(p)
        /\ cmd[p].pub = coord[cmd[p].run].pub => \A r \in Runs : r = cmd[p].run => Published(r)'
<1>1. PICK x \in Commands : x = cmd[p]
  BY DEF CommandsInv
<1>2. PICK r \in Runs : r = x.run
  BY <1>1 DEF CommandsInv, CmdInv
<1>3. /\ UNCHANGED <<coord, enrolled, settled, claims, receipts, reference, past>>
      /\ live' = [live EXCEPT ![r] = IF x.pub.rev <= past[r] THEN NoPublication ELSE x.pub]
  BY <1>1, <1>2 DEF HashEffect, runSql
<1>4. /\ x.pub \in Publications /\ NoPublication \in Publications
      /\ \A s \in Runs : live[s] \in Publications /\ past[s] \in Nat /\ coord[s].pub \in Publications
  BY <1>1, EmptyTyped DEF Commands, StoresInv, StoresOK, Coordinates
<1>5. /\ x.pub.rev \in Nat /\ x.pub.rev > 0 /\ x.pub.rev <= Revision(r)
      /\ x.pub.rev = Revision(r) => x.pub = coord[r].pub
  BY <1>1, <1>2, <1>4 DEF CommandsInv, CmdInv, Writes, Follows, Publications
<1>6. live[r].rev <= x.pub.rev
  BY <1>1, <1>2 DEF Newest
<1>7. \A s \in Runs : /\ RowInv(s)' /\ SameRow(s)
                      /\ Revision(s)' = Revision(s) /\ Settled(s)' = Settled(s)
                      /\ Roster(s)' = Roster(s) /\ Revision(s) \in Nat
  BY <1>3, <1>4, RowsStay DEF StoresInv, Publications, Revision
<1>8. live'[r] = (IF x.pub.rev <= past[r] THEN NoPublication ELSE x.pub)
  BY <1>3 DEF StoresInv, StoresOK
<1>9. \A s \in Runs \ {r} : live'[s] = live[s]
  BY <1>3 DEF StoresInv, StoresOK
<1>10. StoresOK'
  BY <1>3, <1>4 DEF StoresInv, StoresOK
<1>11. \A s \in Runs : Revision(s) > 0 /\ Published(s) => Published(s)'
  <2>1. Published(r) => Published(r)'
    <3>1. CASE Revision(r) <= past[r]
      <4>1. x.pub.rev <= past[r]
        BY <1>4, <1>5, <1>7, <3>1
      <4>2. QED
        BY <1>3, <1>7, <1>8, <3>1, <4>1 DEF Published
    <3>2. CASE ~(Revision(r) <= past[r])
      <4>1. SUFFICES ASSUME live[r] = coord[r].pub
                     PROVE Published(r)'
        BY <3>2 DEF Published
      <4>2. x.pub.rev = Revision(r)
        BY <1>5, <1>6, <1>7, <4>1 DEF Revision
      <4>3. live'[r] = coord[r].pub
        BY <1>5, <1>8, <3>2, <4>2
      <4>4. QED
        BY <1>3, <1>7, <3>2, <4>3 DEF Published
    <3>3. QED
      BY <3>1, <3>2
  <2>2. \A s \in Runs \ {r} : Published(s) => Published(s)'
    BY <1>3, <1>7, <1>9 DEF Published
  <2>3. QED
    BY <2>1, <2>2
<1>12. RowsInv'
  <2>1. Follows(live[r], r)'
    <3>1. NoPublication.rev = 0
      BY DEF NoPublication
    <3>2. Revision(r) = 0 => coord[r].pub = NoPublication
      BY DEF StoresInv, RowsInv, RowInv
    <3>3. QED
      BY <1>3, <1>5, <1>7, <1>8, <3>1, <3>2 DEF Follows
  <2>2. \A s \in Runs \ {r} : Follows(live[s], s)'
    BY <1>3, <1>7, <1>9 DEF StoresInv, RowsInv, Follows
  <2>3. QED
    BY <1>7, <2>1, <2>2 DEF RowsInv
<1>13. ClaimsMatchRoster' /\ ReferencesMatch'
  BY <1>3, <1>7 DEF StoresInv, ClaimsMatchRoster, ReferencesMatch, ReferenceFollowsClaim,
                    MembersAreReferenced
<1>14. AcknowledgedIsLive'
  BY <1>3, <1>7, <1>11 DEF StoresInv, AcknowledgedIsLive, Published
<1>15. Guarantee(p)
  BY <1>3, <1>7, <1>11 DEF Guarantee
<1>16. x.pub = coord[r].pub => Published(r)'
  BY <1>3, <1>7, <1>8 DEF Published, Revision
<1>17. QED
  BY <1>1, <1>2, <1>10, <1>12, <1>13, <1>14, <1>15, <1>16 DEF StoresInv

\* Only members of the committed publication are referenced, under its lock.
LEMMA MemberClaimed ==
  ASSUME StoresInv, CommandsInv, BoundsOK, NEW p \in Callers, cmd[p].pc = "refs",
         NEW c \in cmd[p].sets, reference[c] \in {NoRun, cmd[p].run}, ClaimEffect(p, c),
         UNCHANGED cuts
  PROVE StoresInv' /\ Guarantee(p)
<1>1. PICK x \in Commands : x = cmd[p]
  BY DEF CommandsInv
<1>2. PICK r \in Runs : r = x.run
  BY <1>1 DEF CommandsInv, CmdInv
<1>3. /\ UNCHANGED <<coord, enrolled, settled, claims, receipts, live, past>>
      /\ reference' = [reference EXCEPT ![c] = r]
  BY <1>1, <1>2 DEF ClaimEffect, runSql
<1>4. c \in Challengers /\ c \in x.pub.members /\ x.pub.status = "active" /\ x.pc = "refs"
  BY <1>1 DEF CommandsInv, CmdInv, Writes, Commands
<1>5. \A s \in Runs : /\ RowInv(s)' /\ SameRow(s)
                      /\ Revision(s)' = Revision(s) /\ Settled(s)' = Settled(s)
                      /\ Roster(s)' = Roster(s) /\ Revision(s) \in Nat
  BY <1>3, RowsStay DEF StoresInv, StoresOK, Coordinates, Publications, Revision
<1>6. \A s \in Runs : Published(s)' = Published(s)
  BY <1>3, <1>5 DEF Published
<1>7. reference[c] \in {NoRun, r} /\ r # NoRun
  BY <1>1, <1>2, RunsAssumption
<1>8. reference \in [Challengers -> Runs \cup {NoRun}]
  BY DEF StoresInv, StoresOK
<1>9. \A b \in Challengers, s \in Runs : reference[b] = s => reference'[b] = s
  BY <1>3, <1>7, <1>8, RunsAssumption
<1>10. cuts = 0 => rowLock[r] = p /\ claims[c] = r
  <2> SUFFICES ASSUME cuts = 0
               PROVE rowLock[r] = p /\ claims[c] = r
    OBVIOUS
  <2>1. Holds(p)
    BY <1>1, <1>4 DEF CommandsInv, CmdInv, InTransaction
  <2>2. Confirmed(x) /\ ~x.acked
    BY <1>1, <1>4, <2>1 DEF CommandsInv, CmdInv, InTransaction
  <2>3. x.pub = coord[r].pub
    BY <1>2, <2>2 DEF Confirmed
  <2>4. c \in Roster(r)
    BY <1>4, <2>3 DEF StoresInv, RowsInv, RowInv
  <2>5. QED
    BY <1>1, <1>2, <1>4, <2>1, <2>4 DEF StoresInv, ClaimsMatchRoster, Holds
<1>11. StoresOK' /\ ClaimsMatchRoster' /\ AcknowledgedIsLive'
  <2>1. StoresOK'
    BY <1>3, <1>8 DEF StoresInv, StoresOK
  <2>2. ClaimsMatchRoster'
    BY <1>3, <1>5 DEF StoresInv, ClaimsMatchRoster
  <2>3. AcknowledgedIsLive'
    BY <1>3, <1>5 DEF StoresInv, AcknowledgedIsLive
  <2>4. QED
    BY <2>1, <2>2, <2>3
<1>12. ReferencesMatch'
  <2>1. ReferenceFollowsClaim'
    BY <1>3, <1>8, <1>10 DEF StoresInv, ReferencesMatch, ReferenceFollowsClaim
  <2>2. MembersAreReferenced'
    <3>1. \A s \in Runs : Roster(s) \subseteq Challengers
      BY DEF StoresInv, StoresOK, Roster
    <3>2. QED
      BY <1>3, <1>5, <1>9, <3>1 DEF StoresInv, ReferencesMatch, MembersAreReferenced
  <2>3. QED
    BY <2>1, <2>2 DEF ReferencesMatch
<1>13. RowsInv'
  BY <1>3, <1>5 DEF StoresInv, RowsInv, Follows
<1>14. Guarantee(p)
  <2>1. \A s \in Runs : Roster(s) \subseteq Challengers
    BY DEF StoresInv, StoresOK, Roster
  <2>2. cuts = 0 => \A s \in Runs, b \in Challengers :
           reference'[b] = s => reference[b] = s \/ rowLock[s] = p
    BY <1>3, <1>8, <1>10
  <2>3. QED
    BY <1>3, <1>5, <1>6, <1>9, <2>1, <2>2 DEF Guarantee
<1>15. QED
  BY <1>11, <1>12, <1>13, <1>14 DEF StoresInv

\* Only those who have left are not referenced any more.
LEMMA MemberReleased ==
  ASSUME StoresInv, CommandsInv, NEW p \in Callers, cmd[p].pc = "refs",
         NEW c \in cmd[p].drops, ReleaseEffect(p, c), UNCHANGED cuts
  PROVE StoresInv' /\ Guarantee(p)
<1>1. PICK x \in Commands : x = cmd[p]
  BY DEF CommandsInv
<1>2. PICK r \in Runs : r = x.run
  BY <1>1 DEF CommandsInv, CmdInv
<1>3. /\ UNCHANGED <<coord, enrolled, settled, claims, receipts, live, past>>
      /\ reference' = [reference EXCEPT ![c] = IF reference[c] = r THEN NoRun ELSE reference[c]]
  BY <1>1, <1>2 DEF ReleaseEffect, runSql
<1>4. c \in Challengers /\ c \in Settled(r)
  BY <1>1, <1>2 DEF CommandsInv, CmdInv, Writes, Commands
<1>5. \A s \in Runs : /\ RowInv(s)' /\ SameRow(s)
                      /\ Revision(s)' = Revision(s) /\ Settled(s)' = Settled(s)
                      /\ Roster(s)' = Roster(s) /\ Revision(s) \in Nat
  BY <1>3, RowsStay DEF StoresInv, StoresOK, Coordinates, Publications, Revision
<1>6. \A s \in Runs : Published(s)' = Published(s)
  BY <1>3, <1>5 DEF Published
<1>7. reference \in [Challengers -> Runs \cup {NoRun}]
  BY DEF StoresInv, StoresOK
<1>8. \A b \in Challengers, s \in Runs :
         /\ reference'[b] = s => reference[b] = s
         /\ reference[b] = s /\ b \in Roster(s) => reference'[b] = s
  BY <1>3, <1>4, <1>7, RunsAssumption DEF Roster
<1>9. \A b \in Challengers : reference'[b] # NoRun => reference'[b] = reference[b]
  BY <1>3, <1>7
<1>10. \A s \in Runs : Roster(s) \subseteq Challengers
  BY DEF StoresInv, StoresOK, Roster
<1>11. StoresOK' /\ ClaimsMatchRoster' /\ AcknowledgedIsLive'
  <2>1. StoresOK'
    BY <1>3, <1>7 DEF StoresInv, StoresOK
  <2>2. ClaimsMatchRoster'
    BY <1>3, <1>5 DEF StoresInv, ClaimsMatchRoster
  <2>3. AcknowledgedIsLive'
    BY <1>3, <1>5 DEF StoresInv, AcknowledgedIsLive
  <2>4. QED
    BY <2>1, <2>2, <2>3
<1>12. ReferencesMatch'
  BY <1>3, <1>5, <1>8, <1>9, <1>10 DEF StoresInv, ReferencesMatch, ReferenceFollowsClaim,
                                       MembersAreReferenced
<1>13. RowsInv'
  BY <1>3, <1>5 DEF StoresInv, RowsInv, Follows
<1>14. Guarantee(p)
  BY <1>3, <1>5, <1>6, <1>8, <1>10 DEF Guarantee
<1>15. QED
  BY <1>11, <1>12, <1>13, <1>14 DEF StoresInv

-----------------------------------------------------------------------------
(* Effects on SQL                                                          *)

\* What is acknowledged has reached every key.
LEMMA Acknowledged ==
  ASSUME StoresInv, CommandsInv, NEW p \in Callers, cmd[p].pc \in InTransaction, Holds(p),
         cmd[p].pc = "ack" \/ cmd[p].acked,
         claims' = Freed(cmd[p].run),
         coord' = [coord EXCEPT ![cmd[p].run] = [pub |-> @.pub, pending |-> FALSE, removed |-> {}]],
         UNCHANGED <<enrolled, settled, receipts, runCache, cuts>>
  PROVE StoresInv' /\ Guarantee(p)
<1>1. PICK x \in Commands : x = cmd[p]
  BY DEF CommandsInv
<1>2. PICK r \in Runs : r = x.run
  BY <1>1 DEF CommandsInv, CmdInv, InTransaction
<1>3. /\ UNCHANGED <<enrolled, settled, receipts, live, reference, past, cuts>>
      /\ coord' = [coord EXCEPT ![r] = [pub |-> coord[r].pub, pending |-> FALSE, removed |-> {}]]
      /\ claims' = [c \in Challengers |->
                      IF c \in coord[r].removed /\ claims[c] = r THEN NoRun ELSE claims[c]]
  BY <1>1, <1>2 DEF runCache, Freed
<1>4. /\ Confirmed(x) /\ x.pc # "hash" /\ x.sets = {} /\ x.drops = {} /\ rowLock[r] = p
  BY <1>1, <1>2 DEF CommandsInv, CmdInv, Holds
<1>5. /\ coord[r].pending /\ Published(r)
      /\ \A c \in Roster(r) : reference[c] = r
      /\ cuts = 0 => \A c \in coord[r].removed : reference[c] # r
  BY <1>2, <1>4 DEF Confirmed
<1>6. PICK t \in Coordinates : t = coord[r]
  BY DEF StoresInv, StoresOK
<1>7. coord' = [coord EXCEPT ![r] = [pub |-> t.pub, pending |-> FALSE, removed |-> {}]]
  BY <1>3, <1>6 DEF StoresInv, StoresOK
<1>8. /\ coord'[r] = [pub |-> t.pub, pending |-> FALSE, removed |-> {}]
       /\ \A s \in Runs \ {r} : coord'[s] = coord[s]
  BY <1>7 DEF StoresInv, StoresOK
<1>9. coord'[r] \in Coordinates /\ coord'[r].pub = coord[r].pub /\ ~coord'[r].pending
      /\ coord'[r].removed = {}
  BY <1>6, <1>8 DEF Coordinates
<1>10. \A s \in Runs : /\ Revision(s)' = Revision(s) /\ Settled(s)' = Settled(s)
                      /\ Roster(s)' = Roster(s) /\ Revision(s) \in Nat
                      /\ coord'[s].pub = coord[s].pub
  BY <1>3, <1>8, <1>9 DEF Revision, Settled, Roster, StoresInv, StoresOK, Coordinates, Publications
<1>11. Revision(r) > 0
  BY <1>5, <1>10 DEF StoresInv, RowsInv, RowInv
<1>12. StoresOK'
  BY <1>3, <1>6, <1>9, <1>7 DEF StoresInv, StoresOK
<1>13. RowsInv'
  <2>1. \A s \in Runs : Follows(live[s], s)'
    BY <1>3, <1>10 DEF StoresInv, RowsInv, Follows
  <2>2. RowInv(r)'
    BY <1>9, <1>10, <1>11 DEF StoresInv, RowsInv, RowInv
  <2>3. \A s \in Runs \ {r} : RowInv(s)'
    <3> SUFFICES ASSUME NEW s \in Runs \ {r}
                 PROVE RowInv(s)'
      OBVIOUS
    <3>1. RowInv(s) /\ coord'[s] = coord[s] /\ enrolled'[s] = enrolled[s] /\ settled'[s] = settled[s]
      BY <1>3, <1>8 DEF StoresInv, RowsInv
    <3>2. QED
      BY <1>10, <3>1 DEF RowInv
  <2>4. QED
    BY <2>1, <2>2, <2>3 DEF RowsInv
<1>14. ClaimsMatchRoster'
  <2>1. \A c \in Roster(r) : c \notin coord[r].removed
    BY DEF StoresInv, RowsInv, RowInv, Roster
  <2>2. \A s \in Runs, c \in Challengers :
           claims[c] = s <=> c \in Roster(s) \/ (coord[s].pending /\ c \in coord[s].removed)
    BY DEF StoresInv, ClaimsMatchRoster
  <2>3. \A c \in Challengers : claims'[c] = r <=> c \in Roster(r)
    BY <1>3, <1>5, <2>1, <2>2, RunsAssumption
  <2>4. \A s \in Runs \ {r}, c \in Challengers : claims'[c] = s <=> claims[c] = s
    BY <1>3, RunsAssumption
  <2>5. QED
    <3>1. \A c \in Challengers : claims'[c] = r <=>
             c \in Roster(r)' \/ (coord'[r].pending /\ c \in coord'[r].removed)
      BY <1>9, <1>10, <2>3
    <3>2. \A s \in Runs \ {r}, c \in Challengers : claims'[c] = s <=>
             c \in Roster(s)' \/ (coord'[s].pending /\ c \in coord'[s].removed)
      BY <1>8, <1>10, <2>2, <2>4
    <3>3. QED
      BY <3>1, <3>2 DEF ClaimsMatchRoster
<1>15. AcknowledgedIsLive'
  BY <1>3, <1>5, <1>9, <1>8, <1>10 DEF StoresInv, AcknowledgedIsLive, Published
<1>16. ReferencesMatch'
  <2>1. ReferenceFollowsClaim'
    BY <1>3, <1>5 DEF StoresInv, ReferencesMatch, ReferenceFollowsClaim
  <2>2. MembersAreReferenced'
    BY <1>3, <1>5, <1>9, <1>8, <1>10 DEF StoresInv, ReferencesMatch, MembersAreReferenced
  <2>3. QED
    BY <2>1, <2>2 DEF ReferencesMatch
<1>17. Guarantee(p)
  <2>1. \A s \in Runs : Published(s)' = Published(s)
    BY <1>3, <1>10 DEF Published
  <2>2. \A s \in Runs : SameRow(s) \/ rowLock[s] = p
    BY <1>3, <1>4, <1>8 DEF SameRow
  <2>3. QED
    BY <1>3, <1>10, <2>1, <2>2 DEF Guarantee
<1>18. QED
  BY <1>12, <1>13, <1>14, <1>15, <1>16, <1>17 DEF StoresInv

\* A new run has no rows, and its members have no claims and, unless a
\* connection was lost, no references.
LEMMA Enrolled ==
  ASSUME StoresInv, CommandsInv, BoundsOK, NEW p \in Callers, cmd[p].pc = "enrol",
         EnrolEffect(p), UNCHANGED cuts
  PROVE StoresInv' /\ Guarantee(p)
<1>1. PICK x \in Commands : x = cmd[p]
  BY DEF CommandsInv
<1>2. PICK r \in Runs : r = x.run
  BY <1>1 DEF CommandsInv, CmdInv
<1>3. PICK u \in Publications : u = x.draft.pub
  BY DEF Commands, Drafts
<1>4. /\ \A c \in u.members : claims[c] = NoRun
      /\ claims' = [c \in Challengers |-> IF c \in u.members THEN r ELSE claims[c]]
      /\ enrolled' = [enrolled EXCEPT ![r] = u.members]
      /\ coord' = [coord EXCEPT ![r] = [pub |-> u, pending |-> TRUE, removed |-> {}]]
      /\ receipts' = receipts \cup {<<r, x.actor, 0, "start">>}
      /\ UNCHANGED <<settled, live, reference, past, cuts>>
  BY <1>1, <1>2, <1>3 DEF EnrolEffect, Enrollable, runCache
<1>5. /\ Revision(r) = 0 /\ u.rev = 1 /\ u.status = "active" /\ u.gain = NoGain
      /\ u.members \subseteq Challengers /\ x.actor \in Challengers
  BY <1>1, <1>2, <1>3 DEF CommandsInv, CmdInv, Fresh, Publications
<1>6. /\ coord[r] = [pub |-> NoPublication, pending |-> FALSE, removed |-> {}]
      /\ enrolled[r] = {} /\ settled[r] = {} /\ Roster(r) = {}
  BY <1>5 DEF StoresInv, RowsInv, RowInv, Roster
<1>7. /\ coord'[r] = [pub |-> u, pending |-> TRUE, removed |-> {}] /\ enrolled'[r] = u.members
      /\ settled'[r] = {}
      /\ \A s \in Runs \ {r} : coord'[s] = coord[s] /\ enrolled'[s] = enrolled[s] /\ settled'[s] = settled[s]
  BY <1>4, <1>6 DEF StoresInv, StoresOK
<1>8. Revision(r)' = 1 /\ Settled(r)' = {} /\ Settled(r) = {} /\ Roster(r)' = u.members
  BY <1>5, <1>6, <1>7 DEF Revision, Settled, Roster
<1>9. \A s \in Runs \ {r} : /\ Revision(s)' = Revision(s) /\ Settled(s)' = Settled(s)
                            /\ Roster(s)' = Roster(s)
  BY <1>7 DEF Revision, Settled, Roster
<1>10. \A s \in Runs : Revision(s) \in Nat
  BY DEF StoresInv, StoresOK, Coordinates, Publications, Revision
<1>11. StoresOK'
  <2>1. coord' \in [Runs -> Coordinates]
    BY <1>4 DEF StoresInv, StoresOK, Coordinates
  <2>2. claims' \in [Challengers -> Runs \cup {NoRun}] /\ enrolled' \in [Runs -> SUBSET Challengers]
    BY <1>4, <1>5 DEF StoresInv, StoresOK
  <2>3. receipts' \subseteq Runs \X Challengers \X Nat \X {"start", "advance", "exit"}
    BY <1>4, <1>5 DEF StoresInv, StoresOK
  <2>4. QED
    BY <1>4, <2>1, <2>2, <2>3 DEF StoresInv, StoresOK
<1>12. RowsInv'
  <2>1. RowInv(r)'
    <3>1. \A c \in Challengers : u.gain[c] = 0
      BY <1>5 DEF NoGain
    <3>2. QED
      BY <1>5, <1>7, <1>8, <3>1 DEF RowInv
  <2>2. \A s \in Runs \ {r} : RowInv(s)'
    <3> SUFFICES ASSUME NEW s \in Runs \ {r}
                 PROVE RowInv(s)'
      OBVIOUS
    <3>1. RowInv(s)
      BY DEF StoresInv, RowsInv
    <3>2. QED
      BY <1>7, <1>9, <3>1 DEF RowInv
  <2>3. Follows(live[r], r)'
    <3>1. live[r] \in Publications /\ live[r].rev \in Nat /\ live[r].rev <= Revision(r)
      BY DEF StoresInv, StoresOK, RowsInv, Follows, Publications
    <3>2. QED
      BY <1>4, <1>5, <1>8, <3>1 DEF Follows
  <2>4. \A s \in Runs \ {r} : Follows(live[s], s)'
    BY <1>4, <1>7, <1>9 DEF StoresInv, RowsInv, Follows
  <2>5. QED
    BY <2>1, <2>2, <2>3, <2>4 DEF RowsInv
<1>13. ClaimsMatchRoster'
  <2>1. \A s \in Runs, c \in Challengers :
           claims[c] = s <=> c \in Roster(s) \/ (coord[s].pending /\ c \in coord[s].removed)
    BY DEF StoresInv, ClaimsMatchRoster
  <2>2. \A c \in Challengers : claims[c] # r
    BY <1>6, <2>1
  <2>3. \A c \in Challengers : claims'[c] = r <=>
           c \in Roster(r)' \/ (coord'[r].pending /\ c \in coord'[r].removed)
    BY <1>4, <1>7, <1>8, <2>2
  <2>4. \A s \in Runs \ {r}, c \in Challengers : claims'[c] = s <=> claims[c] = s
    BY <1>4, RunsAssumption
  <2>5. \A s \in Runs \ {r}, c \in Challengers : claims'[c] = s <=>
           c \in Roster(s)' \/ (coord'[s].pending /\ c \in coord'[s].removed)
    BY <1>7, <1>9, <2>1, <2>4
  <2>6. QED
    BY <2>3, <2>5 DEF ClaimsMatchRoster
<1>14. AcknowledgedIsLive'
  BY <1>4, <1>7, <1>9 DEF StoresInv, AcknowledgedIsLive
<1>15. ReferencesMatch'
  <2>1. ReferenceFollowsClaim'
    BY <1>4 DEF StoresInv, ReferencesMatch, ReferenceFollowsClaim
  <2>2. MembersAreReferenced'
    BY <1>4, <1>7, <1>9 DEF StoresInv, ReferencesMatch, MembersAreReferenced
  <2>3. QED
    BY <2>1, <2>2 DEF ReferencesMatch
<1>16. Guarantee(p)
  <2> SUFFICES ASSUME NEW s \in Runs
               PROVE /\ SameRow(s) \/ rowLock[s] = p \/ (cmd[p].pc = "enrol" /\ cmd[p].run = s)
                     /\ Revision(s) <= Revision(s)'
                     /\ Revision(s) = Revision(s)' => coord'[s].pub = coord[s].pub
                     /\ Settled(s) \subseteq Settled(s)'
                     /\ SameRow(s) /\ Revision(s) > 0 /\ Published(s) => Published(s)'
    BY <1>4 DEF Guarantee
  <2>1. CASE s = r
    BY <1>1, <1>2, <1>5, <1>8, <2>1
  <2>2. CASE s # r
    <3>1. SameRow(s) /\ Published(s)' = Published(s)
      BY <1>4, <1>7, <1>9, <2>2 DEF SameRow, Published
    <3>2. QED
      BY <1>7, <1>9, <1>10, <2>2, <3>1
  <2>3. QED
    BY <2>1, <2>2
<1>17. QED
  BY <1>11, <1>12, <1>13, <1>14, <1>15, <1>16 DEF StoresInv

\* A round and an exit start from the committed revision: they pay members,
\* each for the first time, and nobody else has earned anything.
LEMMA Saved ==
  ASSUME StoresInv, CommandsInv, BoundsOK, NEW p \in Callers, cmd[p].pc = "commit", Holds(p),
         Saves(cmd[p]), RunCommitEffect(p), UNCHANGED cuts
  PROVE /\ StoresInv' /\ Guarantee(p)
        /\ Outcome(cmd[p].draft, coord[cmd[p].run].pub)
        /\ Roster(cmd[p].run) = coord[cmd[p].run].pub.members
        /\ \A r \in Runs : r = cmd[p].run => Roster(r)' = Roster(r) \ cmd[p].draft.removed
<1>1. PICK x \in Commands : x = cmd[p]
  BY DEF CommandsInv
<1>2. PICK r \in Runs : r = x.run
  BY <1>1 DEF CommandsInv, CmdInv
<1>3. PICK d \in Drafts : d = x.draft
  BY DEF Commands
<1>4. PICK u \in Publications : u = coord[r].pub
  BY DEF StoresInv, StoresOK, Coordinates
<1>5. /\ Revision(r) + 1 = d.pub.rev
      /\ coord[r].pending => x.acked
      /\ claims' = IF x.acked THEN Freed(r) ELSE claims
      /\ coord' = [coord EXCEPT ![r] = [pub |-> d.pub, pending |-> TRUE, removed |-> d.removed]]
      /\ settled' = [settled EXCEPT ![r] = settled[r] \cup d.pays]
      /\ receipts' = receipts \cup {<<r, x.actor, x.rev, x.action>>}
      /\ UNCHANGED <<enrolled, live, reference, past, cuts>>
  BY <1>1, <1>2, <1>3 DEF RunCommitEffect, RunAccepted, runCache
<1>6. /\ Drafted(x) /\ x.actor \in Challengers /\ x.rev \in Nat
      /\ x.action \in {"start", "advance", "exit"} /\ rowLock[r] = p
      /\ d.pub \in Publications /\ d.removed \subseteq Challengers
      /\ d.pays \subseteq Challengers \X Nat
  BY <1>1, <1>2, <1>3 DEF CommandsInv, CmdInv, Commands, Drafts, Holds
<1>7. Outcome(d, u)
  BY <1>2, <1>3, <1>4, <1>5, <1>6 DEF Drafted
<1>8. /\ u.status = "active" /\ d.removed \subseteq u.members /\ Roster(r) = u.members
      /\ d.pays = {<<c, u.gain[c]>> : c \in d.removed}
      /\ \A c \in Challengers \ Roster(r) : u.gain[c] = 0
      /\ coord[r].removed \subseteq Settled(r)
  BY <1>4, <1>7 DEF Outcome, StoresInv, RowsInv, RowInv
<1>9. /\ coord'[r] = [pub |-> d.pub, pending |-> TRUE, removed |-> d.removed]
      /\ settled'[r] = settled[r] \cup {<<c, u.gain[c]>> : c \in d.removed}
      /\ enrolled' = enrolled
      /\ \A s \in Runs \ {r} : coord'[s] = coord[s] /\ settled'[s] = settled[s]
  BY <1>5, <1>8 DEF StoresInv, StoresOK
<1>10. \A s \in Runs : Revision(s) \in Nat
  BY DEF StoresInv, StoresOK, Coordinates, Publications, Revision
<1>11. Revision(r)' = Revision(r) + 1
  BY <1>5, <1>9 DEF Revision
<1>12. Settled(r)' = Settled(r) \cup d.removed
  <2> DEFINE P == {<<c, u.gain[c]>> : c \in d.removed}
  <2>1. \A c \in d.removed : <<c, u.gain[c]>> \in P /\ <<c, u.gain[c]>>[1] = c
    OBVIOUS
  <2>2. \A s \in P : s[1] \in d.removed
    OBVIOUS
  <2>3. settled'[r] = settled[r] \cup P
    BY <1>9
  <2> HIDE DEF P
  <2>4. {s[1] : s \in settled[r] \cup P} = {s[1] : s \in settled[r]} \cup d.removed
    BY <2>1, <2>2
  <2>5. QED
    BY <2>3, <2>4 DEF Settled
<1>13. Roster(r)' = Roster(r) \ d.removed
  BY <1>9, <1>12 DEF Roster
<1>14. \A s \in Runs \ {r} : /\ Revision(s)' = Revision(s) /\ Settled(s)' = Settled(s)
                             /\ Roster(s)' = Roster(s)
  BY <1>9 DEF Revision, Settled, Roster
<1>15. x.acked =>
          /\ coord[r].pending
          /\ cuts = 0 => \A c \in coord[r].removed : reference[c] # r
  BY <1>1, <1>2, <1>6 DEF CommandsInv, CmdInv, Confirmed, Holds, InTransaction
<1>16. StoresOK'
  <2>1. coord' \in [Runs -> Coordinates]
    BY <1>5, <1>6 DEF StoresInv, StoresOK, Coordinates
  <2>2. claims' \in [Challengers -> Runs \cup {NoRun}]
    BY <1>5 DEF StoresInv, StoresOK, Freed
  <2>3. settled' \in [Runs -> SUBSET (Challengers \X Nat)]
    BY <1>5, <1>6 DEF StoresInv, StoresOK
  <2>4. receipts' \subseteq Runs \X Challengers \X Nat \X {"start", "advance", "exit"}
    BY <1>5, <1>6 DEF StoresInv, StoresOK
  <2>5. QED
    BY <1>5, <2>1, <2>2, <2>3, <2>4 DEF StoresInv, StoresOK
<1>17. RowsInv'
  <2>1. RowInv(r)'
    <3>1. Roster(r)' = IF d.pub.status = "active" THEN d.pub.members ELSE {}
      BY <1>7, <1>8, <1>13 DEF Outcome
    <3>2. \A c \in Challengers \ (Roster(r) \ d.removed) : d.pub.gain[c] = 0
      BY <1>7, <1>8 DEF Outcome
    <3>3. Revision(r)' # 0
      BY <1>10, <1>11
    <3>4. QED
      BY <1>9, <1>12, <1>13, <3>1, <3>2, <3>3 DEF RowInv
  <2>2. \A s \in Runs \ {r} : RowInv(s)'
    <3> SUFFICES ASSUME NEW s \in Runs \ {r}
                 PROVE RowInv(s)'
      OBVIOUS
    <3>1. RowInv(s)
      BY DEF StoresInv, RowsInv
    <3>2. QED
      BY <1>9, <1>14, <3>1 DEF RowInv
  <2>3. Follows(live[r], r)'
    <3>1. live[r] \in Publications /\ live[r].rev \in Nat /\ live[r].rev <= Revision(r)
      BY DEF StoresInv, StoresOK, RowsInv, Follows, Publications
    <3>2. QED
      BY <1>5, <1>10, <1>11, <3>1 DEF Follows
  <2>4. \A s \in Runs \ {r} : Follows(live[s], s)'
    BY <1>5, <1>9, <1>14 DEF StoresInv, RowsInv, Follows
  <2>5. QED
    BY <2>1, <2>2, <2>3, <2>4 DEF RowsInv
<1>18. ClaimsMatchRoster'
  <2>1. \A s \in Runs, c \in Challengers :
           claims[c] = s <=> c \in Roster(s) \/ (coord[s].pending /\ c \in coord[s].removed)
    BY DEF StoresInv, ClaimsMatchRoster
  <2>2. \A c \in Challengers : claims'[c] = r <=> c \in Roster(r)
    <3>1. \A c \in Roster(r) : c \notin coord[r].removed
      BY <1>8 DEF Roster
    <3>2. CASE x.acked
      BY <1>5, <1>15, <2>1, <3>1, <3>2, RunsAssumption DEF Freed
    <3>3. CASE ~x.acked
      BY <1>5, <2>1, <3>3
    <3>4. QED
      BY <3>2, <3>3
  <2>3. \A s \in Runs \ {r}, c \in Challengers : claims'[c] = s <=> claims[c] = s
    BY <1>5, RunsAssumption DEF Freed
  <2>4. \A c \in Challengers : claims'[c] = r <=>
           c \in Roster(r)' \/ (coord'[r].pending /\ c \in coord'[r].removed)
    BY <1>8, <1>9, <1>13, <2>2
  <2>5. \A s \in Runs \ {r}, c \in Challengers : claims'[c] = s <=>
           c \in Roster(s)' \/ (coord'[s].pending /\ c \in coord'[s].removed)
    BY <1>9, <1>14, <2>1, <2>3
  <2>6. QED
    BY <2>4, <2>5 DEF ClaimsMatchRoster
<1>19. AcknowledgedIsLive'
  BY <1>5, <1>9, <1>14 DEF StoresInv, AcknowledgedIsLive
<1>20. ReferencesMatch'
  <2>1. ReferenceFollowsClaim'
    <3>1. CASE x.acked
      BY <1>5, <1>15, <3>1 DEF StoresInv, ReferencesMatch, ReferenceFollowsClaim, Freed
    <3>2. CASE ~x.acked
      BY <1>5, <3>2 DEF StoresInv, ReferencesMatch, ReferenceFollowsClaim
    <3>3. QED
      BY <3>1, <3>2
  <2>2. MembersAreReferenced'
    BY <1>5, <1>9, <1>14 DEF StoresInv, ReferencesMatch, MembersAreReferenced
  <2>3. QED
    BY <2>1, <2>2 DEF ReferencesMatch
<1>21. Guarantee(p)
  <2> SUFFICES ASSUME NEW s \in Runs
               PROVE /\ SameRow(s) \/ rowLock[s] = p
                     /\ Revision(s) <= Revision(s)'
                     /\ Revision(s) = Revision(s)' => coord'[s].pub = coord[s].pub
                     /\ Settled(s) \subseteq Settled(s)'
                     /\ SameRow(s) /\ Published(s) => Published(s)'
    BY <1>5 DEF Guarantee
  <2>1. CASE s = r
    <3>1. ~SameRow(r)
      BY <1>10, <1>11 DEF SameRow, Revision
    <3>2. QED
      BY <1>6, <1>10, <1>11, <1>12, <2>1, <3>1
  <2>2. CASE s # r
    <3>1. SameRow(s) /\ Published(s)' = Published(s)
      BY <1>5, <1>9, <1>14, <2>2 DEF SameRow, Published
    <3>2. QED
      BY <1>9, <1>10, <1>14, <2>2, <3>1
  <2>3. QED
    BY <2>1, <2>2
<1>22. QED
  BY <1>1, <1>2, <1>3, <1>4, <1>7, <1>8, <1>13, <1>16, <1>17, <1>18, <1>19, <1>20, <1>21 DEF StoresInv

LEMMA Committed ==
  ASSUME StoresInv, CommandsInv, BoundsOK, NEW p \in Callers, cmd[p].pc = "commit", Holds(p),
         RunCommitEffect(p), UNCHANGED cuts
  PROVE StoresInv' /\ Guarantee(p)
<1>1. PICK x \in Commands : x = cmd[p]
  BY DEF CommandsInv
<1>2. PICK r \in Runs : r = x.run
  BY <1>1 DEF CommandsInv, CmdInv
<1>3. CASE Saves(x)
  BY <1>1, <1>3, Saved
<1>4. CASE ~Saves(x)
  <2>1. x.draft.pays = {}
    BY <1>1, <1>4 DEF Saves, CommandsInv, CmdInv, Drafted
  <2>2. settled' = settled
    BY <1>1, <1>2, <2>1 DEF RunCommitEffect, StoresInv, StoresOK
  <2>3. CASE x.acked
    BY <1>1, <1>2, <1>4, <2>2, <2>3, Acknowledged DEF RunCommitEffect, InTransaction
  <2>4. CASE ~x.acked
    BY <1>1, <1>2, <1>4, <2>2, <2>4, NothingDone DEF RunCommitEffect, runSql
  <2>5. QED
    BY <2>3, <2>4
<1>5. QED
  BY <1>3, <1>4

-----------------------------------------------------------------------------
(* Moves of a command                                                      *)

\* What a step of p makes of its command and of its locks.
Moved(p) ==
    /\ LocksMove(p)
    /\ cmd' = [cmd EXCEPT ![p] = cmd'[p]] /\ cmd'[p] \in Commands /\ CmdInv(p)'
    /\ cmd'[p].run # cmd[p].run =>
          \A q \in Callers : cmd[q].pc = "enrol" => cmd[q].run # cmd'[p].run
    /\ \A r \in Runs : rowLock'[r] = p => cmd'[p].run = r /\ cmd'[p].pc \in InTransaction

LEMMA StepKeeps ==
  ASSUME RunIInv, NEW p \in Callers, StoresInv', Guarantee(p), Moved(p), BoundsOK', cuts <= cuts'
  PROVE RunIInv'
<1>1. rowLock' \in [Runs -> Callers \cup {Nobody}]
  BY LocksMoveTyped DEF RunIInv, CommandsInv, Moved
<1>2. cmd' \in [Callers -> Commands]
  BY DEF RunIInv, CommandsInv, Moved
<1>3. \A q \in Callers : CmdInv(q)'
  <2> SUFFICES ASSUME NEW q \in Callers, q # p
               PROVE CmdInv(q)'
    BY DEF Moved
  <2>1. StoresInv /\ StoresOK' /\ BoundsOK /\ CommandsInv /\ cuts' \in Nat /\ cuts \in Nat
    BY DEF RunIInv, StoresInv, BoundsOK
  <2>2. QED
    BY <2>1, OthersKeep DEF Moved
<1>4. LocksInv'
  <2> SUFFICES ASSUME NEW r \in Runs, rowLock'[r] # Nobody
               PROVE (cmd[rowLock[r]].run = r /\ cmd[rowLock[r]].pc \in InTransaction)'
    BY DEF LocksInv
  <2>1. PICK q \in Callers : q = rowLock'[r]
    BY <1>1
  <2>2. CASE q = p
    BY <2>1, <2>2 DEF Moved
  <2>3. CASE q # p
    <3>1. rowLock[r] = q
      BY <2>1, <2>3, LocksMoveTyped DEF RunIInv, CommandsInv, Moved
    <3>2. cmd[q].run = r /\ cmd[q].pc \in InTransaction
      BY <3>1, ActorsAssumption DEF RunIInv, CommandsInv, LocksInv
    <3>3. cmd'[q] = cmd[q]
      BY <2>3 DEF Moved, RunIInv, CommandsInv
    <3>4. QED
      BY <2>1, <3>2, <3>3 DEF InTransaction
  <2>4. QED
    BY <2>2, <2>3
<1>5. QED
  BY <1>1, <1>2, <1>3, <1>4 DEF RunIInv, CommandsInv

\* A command that is not in a transaction holds no lock.
LEMMA Released ==
  ASSUME CommandsInv, NEW p \in Callers,
         rowLock' = Unlocked(p) \/ (UNCHANGED rowLock /\ cmd[p].pc \notin InTransaction)
  PROVE LocksMove(p) /\ \A r \in Runs : rowLock'[r] # p
<1>1. CASE rowLock' = Unlocked(p)
  BY <1>1, ActorsAssumption DEF LocksMove, Unlocked
<1>2. CASE UNCHANGED rowLock /\ cmd[p].pc \notin InTransaction
  BY <1>2, ActorsAssumption DEF LocksMove, CommandsInv, LocksInv
<1>3. QED
  BY <1>1, <1>2

\* A run that a start is about is no other command's.
LEMMA EndsMoves ==
  ASSUME CommandsInv, NEW p \in Callers, Ends(p),
         rowLock' = Unlocked(p) \/ (UNCHANGED rowLock /\ cmd[p].pc \notin InTransaction)
  PROVE Moved(p)
<1>1. PICK y \in Commands : y = NoCommand
  BY EmptyTyped
<1>2. /\ y.pc = "idle" /\ y.run = NoRun /\ ~y.acked /\ y.draft = NoDraft
  BY <1>1 DEF NoCommand
<1>3. cmd' = [cmd EXCEPT ![p] = y] /\ cmd'[p] = y
  BY <1>1 DEF Ends, Turns, CommandsInv
<1>4. CmdInv(p)'
  BY <1>2, <1>3 DEF CmdInv, InTransaction
<1>5. \A q \in Callers : cmd[q].pc = "enrol" => cmd[q].run # NoRun
  BY RunsAssumption DEF CommandsInv, CmdInv
<1>6. QED
  BY <1>2, <1>3, <1>4, <1>5, Released DEF Moved

LEMMA AgainMoves ==
  ASSUME CommandsInv, NEW p \in Callers, cmd[p].run \in Runs,
         Turns(p, [NoCommand EXCEPT !.pc = "again", !.run = cmd[p].run]),
         rowLock' = Unlocked(p) \/ (UNCHANGED rowLock /\ cmd[p].pc \notin InTransaction)
  PROVE Moved(p)
<1>1. PICK r \in Runs : r = cmd[p].run
  OBVIOUS
<1>2. PICK y : y = [NoCommand EXCEPT !.pc = "again", !.run = r]
  OBVIOUS
<1>3. /\ y \in Commands /\ y.pc = "again" /\ y.run = r /\ ~y.acked /\ y.draft = NoDraft
  BY <1>2, EmptyTyped DEF Commands, NoCommand
<1>4. cmd' = [cmd EXCEPT ![p] = y] /\ cmd'[p] = y
  BY <1>1, <1>2 DEF Turns, CommandsInv
<1>5. CmdInv(p)'
  BY <1>3, <1>4 DEF CmdInv, InTransaction
<1>6. QED
  BY <1>1, <1>3, <1>4, <1>5, Released DEF Moved

LEMMA RefusedMoves ==
  ASSUME CommandsInv, NEW p \in Callers, cmd[p].run \in Runs, cmd[p].actor \in Challengers,
         Refused(p)
  PROVE Moved(p)
<1>1. PICK x \in Commands : x = cmd[p]
  BY DEF CommandsInv
<1>2. PICK y : y = [x EXCEPT !.pc = "receipt", !.acked = FALSE, !.pub = NoPublication,
                             !.sets = {}, !.drops = {}, !.draft = NoDraft]
  OBVIOUS
<1>3. /\ y \in Commands /\ y.pc = "receipt" /\ y.run = x.run /\ y.actor = x.actor
      /\ ~y.acked /\ y.draft = NoDraft
  BY <1>2, EmptyTyped DEF Commands
<1>4. cmd' = [cmd EXCEPT ![p] = y] /\ cmd'[p] = y
  BY <1>1, <1>2 DEF Refused, Turns, CommandsInv
<1>5. CmdInv(p)'
  BY <1>1, <1>3, <1>4 DEF CmdInv, InTransaction
<1>6. QED
  BY <1>1, <1>3, <1>4, <1>5, Released DEF Moved, Refused

LEMMA FailsMoves ==
  ASSUME CommandsInv, NEW p \in Callers, cmd[p].pc # "idle", Fails(p)
  PROVE Moved(p)
<1>1. CASE cmd[p].final \/ cmd[p].pc \in {"again", "receipt"}
  BY <1>1, EndsMoves DEF Fails
<1>2. CASE ~(cmd[p].final \/ cmd[p].pc \in {"again", "receipt"})
  <2>1. PICK x \in Commands : x = cmd[p]
    BY DEF CommandsInv
  <2>2. x.run \in Runs /\ x.actor \in Challengers
    BY <1>2, <2>1 DEF CommandsInv, CmdInv, Commands
  <2>3. QED
    BY <1>2, <2>1, <2>2, RefusedMoves DEF Fails
<1>3. QED
  BY <1>1, <1>2

-----------------------------------------------------------------------------
(* What a round and an exit compute                                        *)

\* A draft is the next revision of v, and pays S what u says.
LEMMA DraftFields ==
  ASSUME NEW u \in Publications, NEW v \in Publications, NEW S \in SUBSET Challengers,
         NEW action \in {"start", "advance", "exit"}
  PROVE LET d == Draft(action, u, v, S) IN
        /\ d \in Drafts /\ d.removed = S /\ d.pays = {<<c, u.gain[c]>> : c \in S}
        /\ d.pub.rev = v.rev + 1 /\ d.pub.status = v.status /\ d.pub.members = v.members
        /\ d.pub.gain = v.gain
<1>1. PICK t : t = [v EXCEPT !.rev = v.rev + 1]
  OBVIOUS
<1>2. v.rev + 1 \in Nat
  BY DEF Publications
<1>3. t \in Publications
  BY <1>1, <1>2 DEF Publications
<1>4. /\ t.rev = v.rev + 1 /\ t.status = v.status /\ t.members = v.members
      /\ t.gain = v.gain
  BY <1>1 DEF Publications
<1>5. Draft(action, u, v, S) =
         [action |-> action, pub |-> t, removed |-> S, pays |-> {<<c, u.gain[c]>> : c \in S}]
  BY <1>1 DEF Draft
<1>6. {<<c, u.gain[c]>> : c \in S} \subseteq Challengers \X Nat
  BY DEF Publications
<1>7. QED
  BY <1>3, <1>4, <1>5, <1>6 DEF Drafts

LEMMA ExitOutcome ==
  ASSUME NEW u \in Publications, u.status = "active", NEW c \in u.members, NEW d \in Exit(c, u)
  PROVE d \in Drafts /\ Outcome(d, u)
<1>1. c \in Challengers
  BY DEF Publications
<1>2. PICK l \in IF u.leader = c /\ u.members # {c} THEN u.members \ {c} ELSE {u.leader} :
         d = Draft("exit", u,
                   [u EXCEPT !.members = @ \ {c}, !.gain[c] = 0,
                             !.leader = IF u.members = {c} THEN c ELSE l,
                             !.status = IF u.members = {c} THEN "claimed" ELSE "active"], {c})
  BY DEF Exit
<1>3. PICK h \in Challengers \cup {Nobody} : h = IF u.members = {c} THEN c ELSE l
  BY <1>1, <1>2 DEF Publications
<1>4. PICK z \in {"active", "claimed"} : z = IF u.members = {c} THEN "claimed" ELSE "active"
  OBVIOUS
<1>5. PICK g : g = [u.gain EXCEPT ![c] = 0]
  OBVIOUS
<1>6. g \in [Challengers -> Nat] /\ g = [e \in Challengers |-> IF e \in {c} THEN 0 ELSE u.gain[e]]
  BY <1>5 DEF Publications
<1>7. PICK S \in SUBSET Challengers : S = u.members \ {c}
  BY DEF Publications
<1>8. PICK v : v = [u EXCEPT !.members = S, !.gain = g, !.leader = h, !.status = z]
  OBVIOUS
<1>9. v \in Publications
  BY <1>6, <1>8 DEF Publications
<1>10. v.rev = u.rev /\ v.members = S /\ v.gain = g /\ v.status = z
  BY <1>8 DEF Publications
<1>11. v = [u EXCEPT !.members = @ \ {c}, !.gain[c] = 0,
                     !.leader = IF u.members = {c} THEN c ELSE l,
                     !.status = IF u.members = {c} THEN "claimed" ELSE "active"]
  BY <1>3, <1>4, <1>5, <1>7, <1>8 DEF Publications
<1>12. d = Draft("exit", u, v, {c})
  BY <1>2, <1>11
<1>13. /\ d \in Drafts /\ d.removed = {c} /\ d.pays = {<<e, u.gain[e]>> : e \in {c}}
       /\ d.pub.rev = u.rev + 1 /\ d.pub.status = z /\ d.pub.members = S /\ d.pub.gain = g
  BY <1>1, <1>9, <1>10, <1>12, DraftFields
<1>14. z = "active" \/ (z # "active" /\ {c} = u.members)
  BY <1>4
<1>15. QED
  BY <1>6, <1>7, <1>13, <1>14 DEF Outcome

LEMMA AdvanceOutcome ==
  ASSUME NEW u \in Publications, u.status = "active", NEW c \in u.members, NEW d \in Advance(c, u),
         \A e \in Challengers \ u.members : u.gain[e] = 0
  PROVE d \in Drafts /\ Outcome(d, u)
<1>1. CASE d = Draft("advance", u, [u EXCEPT !.status = "defeated", !.gain = NoGain], u.members)
  <2>1. PICK v : v = [u EXCEPT !.status = "defeated", !.gain = NoGain]
    OBVIOUS
  <2>2. NoGain \in [Challengers -> Nat] /\ u.members \in SUBSET Challengers
    BY DEF NoGain, Publications
  <2>3. v \in Publications
    BY <2>1, <2>2 DEF Publications
  <2>4. v.rev = u.rev /\ v.status = "defeated" /\ v.gain = NoGain
    BY <2>1 DEF Publications
  <2>5. d = Draft("advance", u, v, u.members)
    BY <1>1, <2>1
  <2>6. /\ d \in Drafts /\ d.removed = u.members /\ d.pays = {<<e, u.gain[e]>> : e \in u.members}
        /\ d.pub.rev = u.rev + 1 /\ d.pub.status = "defeated" /\ d.pub.gain = NoGain
    BY <2>2, <2>3, <2>4, <2>5, DraftFields
  <2>7. NoGain = [e \in Challengers |-> IF e \in u.members THEN 0 ELSE u.gain[e]]
    BY DEF NoGain
  <2>8. QED
    BY <2>6, <2>7 DEF Outcome
<1>2. ASSUME NEW S \in SUBSET u.members,
             d = Draft("advance", u, [u EXCEPT !.round = @ + 1,
                                               !.gain = [m \in Challengers |->
                                                           IF m \in S THEN @[m] + 1 ELSE @[m]]], {})
      PROVE d \in Drafts /\ Outcome(d, u)
  <2>1. PICK g : g = [m \in Challengers |-> IF m \in S THEN u.gain[m] + 1 ELSE u.gain[m]]
    OBVIOUS
  <2>2. g \in [Challengers -> Nat] /\ u.round + 1 \in Nat
    BY <2>1 DEF Publications
  <2>3. PICK v : v = [u EXCEPT !.round = u.round + 1, !.gain = g]
    OBVIOUS
  <2>4. v \in Publications
    BY <2>2, <2>3 DEF Publications
  <2>5. v.rev = u.rev /\ v.status = "active" /\ v.gain = g /\ v.members = u.members
    BY <2>3 DEF Publications
  <2>6. v = [u EXCEPT !.round = @ + 1,
                      !.gain = [m \in Challengers |-> IF m \in S THEN @[m] + 1 ELSE @[m]]]
    BY <2>1, <2>3 DEF Publications
  <2>7. d = Draft("advance", u, v, {})
    BY <1>2, <2>6
  <2>8. /\ d \in Drafts /\ d.removed = {} /\ d.pays = {<<e, u.gain[e]>> : e \in {}}
        /\ d.pub.rev = u.rev + 1 /\ d.pub.status = "active" /\ d.pub.members = u.members
        /\ d.pub.gain = g
    BY <2>4, <2>5, <2>7, DraftFields
  <2>9. QED
    BY <2>1, <2>8 DEF Outcome
<1>3. QED
  BY <1>1, <1>2 DEF Advance

-----------------------------------------------------------------------------
(* The steps of a command                                                  *)

LEMMA StartMoves ==
  ASSUME RunIInv, NEW p \in Callers, NEW r \in Runs, NEW c \in Challengers,
         NEW S \in SUBSET Challengers, StartRun(p, r, c, S)
  PROVE Moved(p)
<1>1. PICK u : u = [rev |-> 1, status |-> "active", leader |-> c, members |-> S, round |-> 1,
                    gain |-> NoGain]
  OBVIOUS
<1>2. /\ u \in Publications /\ u.rev = 1 /\ u.status = "active" /\ u.members = S /\ u.gain = NoGain
  BY <1>1 DEF Publications, NoGain
<1>3. PICK d : d = [action |-> "start", removed |-> {}, pays |-> {}, pub |-> u]
  OBVIOUS
<1>4. d \in Drafts /\ d.pub = u
  BY <1>2, <1>3 DEF Drafts
<1>5. PICK y : y = [NoCommand EXCEPT !.pc = "enrol", !.action = "start", !.actor = c, !.run = r,
                                     !.draft = d]
  OBVIOUS
<1>6. y \in Commands
  BY <1>4, <1>5, EmptyTyped DEF Commands
<1>7. y.pc = "enrol" /\ y.run = r /\ y.actor = c /\ ~y.acked /\ y.draft = d
  BY <1>5, EmptyTyped DEF Commands, NoCommand
<1>8. /\ cmd[p].pc = "idle" /\ Revision(r) = 0 /\ c \in S
      /\ \A q \in Callers : cmd[q].run # r
      /\ Turns(p, y) /\ UNCHANGED <<runStores, runBounds>>
  BY <1>1, <1>3, <1>5 DEF StartRun
<1>9. cmd' = [cmd EXCEPT ![p] = y] /\ cmd'[p] = y /\ UNCHANGED <<coord, rowLock>>
  BY <1>8 DEF Turns, RunIInv, CommandsInv, runStores, runSql
<1>10. Revision(r)' = 0
  BY <1>8, <1>9 DEF Revision
<1>11. \A q \in Callers \ {p} : cmd'[q].run # r
  BY <1>8, <1>9 DEF RunIInv, CommandsInv
<1>12. Fresh(p)'
  BY <1>2, <1>4, <1>7, <1>8, <1>9, <1>10, <1>11 DEF Fresh
<1>13. CmdInv(p)'
  BY <1>7, <1>9, <1>12 DEF CmdInv, InTransaction
<1>14. cmd[p].pc \notin InTransaction /\ CommandsInv
  BY <1>8 DEF InTransaction, RunIInv
<1>15. QED
  BY <1>6, <1>7, <1>8, <1>9, <1>13, <1>14, Released DEF Moved

\* What SQL has pending is what the command that locks the row writes.
LEMMA LockMoves ==
  ASSUME RunIInv, NEW p \in Callers, NEW r \in Runs, NEW y \in Commands,
         cmd[p].pc \notin InTransaction, rowLock[r] = Nobody, Revision(r) > 0,
         rowLock' = [rowLock EXCEPT ![r] = p], Turns(p, y), UNCHANGED <<runSql, runCache, runBounds>>,
         y.run = r, ~y.acked, y.draft = NoDraft, ~y.final => y.actor \in Challengers,
         \/ y.pc = "check" /\ y.actor \in Challengers
         \/ /\ y.pc = "hash" /\ coord[r].pending /\ y.pub = coord[r].pub
            /\ y.drops = coord[r].removed /\ y.sets = {}
  PROVE Moved(p)
<1>1. /\ cmd' = [cmd EXCEPT ![p] = y] /\ cmd'[p] = y /\ UNCHANGED <<coord, settled>>
      /\ rowLock'[r] = p
  BY DEF Turns, RunIInv, CommandsInv, runSql
<1>2. \A s \in Runs : rowLock[s] # p
  BY ActorsAssumption DEF RunIInv, CommandsInv, LocksInv
<1>3. \A s \in Runs : rowLock'[s] = p => s = r
  BY <1>2 DEF RunIInv, CommandsInv
<1>4. y.pc \in InTransaction /\ Holds(p)'
  BY <1>1 DEF InTransaction, Holds
<1>5. \A q \in Callers : cmd[q].pc = "enrol" => cmd[q].run # r
  <2> SUFFICES ASSUME NEW q \in Callers, cmd[q].pc = "enrol", cmd[q].run = r
               PROVE FALSE
    OBVIOUS
  <2>1. Fresh(q)
    BY DEF RunIInv, CommandsInv, CmdInv
  <2>2. Revision(r) = 0
    BY <2>1 DEF Fresh
  <2>3. QED
    BY <2>2
<1>6. CASE y.pc = "check"
  <2>1. CmdInv(p)'
    BY <1>1, <1>4, <1>6 DEF CmdInv, InTransaction
  <2>2. QED
    BY <1>1, <1>3, <1>4, <1>5, <2>1 DEF Moved, LocksMove
<1>7. CASE y.pc = "hash"
  <2>1. Settled(r)' = Settled(r) /\ Revision(r)' = Revision(r)
    BY <1>1 DEF Settled, Revision
  <2>2. coord[r].removed \subseteq Settled(r)
    BY DEF RunIInv, StoresInv, RowsInv, RowInv
  <2>3. Writes(y)'
    <3>1. y.pub.rev \in Nat /\ y.pub = coord'[r].pub
      BY <1>1, <1>7 DEF Commands, Publications
    <3>2. Follows(y.pub, r)'
      BY <3>1 DEF Follows, Revision
    <3>3. QED
      BY <1>1, <1>7, <2>1, <2>2, <3>1, <3>2 DEF Writes, Revision
  <2>4. Confirmed(y)'
    <3>1. coord'[r].pending /\ y.pub = coord'[r].pub /\ y.drops = coord'[r].removed
      BY <1>1, <1>7
    <3>2. QED
      BY <1>7, <3>1 DEF Confirmed
  <2>5. CmdInv(p)'
    BY <1>1, <1>4, <1>7, <2>3, <2>4 DEF CmdInv, InTransaction
  <2>6. QED
    BY <1>1, <1>3, <1>4, <1>5, <2>5 DEF Moved, LocksMove
<1>8. QED
  BY <1>6, <1>7

LEMMA CommandMoves ==
  ASSUME RunIInv, NEW p \in Callers, NEW r \in Runs, NEW c \in Challengers,
         NEW a \in {"advance", "exit"}, NEW v \in 1..Revision(r), Command(p, a, c, r, v)
  PROVE Moved(p)
<1>1. PICK x : x = [NoCommand EXCEPT !.pc = "check", !.action = a, !.actor = c, !.run = r, !.rev = v]
  OBVIOUS
<1>2. Revision(r) \in Nat /\ coord[r] \in Coordinates
  BY DEF RunIInv, StoresInv, StoresOK, Coordinates, Publications, Revision
<1>3. v \in Nat /\ Revision(r) > 0
  BY <1>2
<1>4. x \in Commands
  BY <1>1, <1>3, EmptyTyped DEF Commands
<1>5. /\ x.pc = "check" /\ x.run = r /\ x.actor = c /\ ~x.acked /\ x.draft = NoDraft /\ x.sets = {}
  BY <1>1, EmptyTyped DEF Commands, NoCommand
<1>6. PICK u \in Publications : u = coord[r].pub
  BY <1>2 DEF Coordinates
<1>7. PICK S \in SUBSET Challengers : S = coord[r].removed
  BY <1>2 DEF Coordinates
<1>8. /\ cmd[p].pc = "idle" /\ rowLock[r] = Nobody
      /\ rowLock' = [rowLock EXCEPT ![r] = p]
      /\ Turns(p, IF coord[r].pending THEN [x EXCEPT !.pc = "hash", !.pub = u, !.drops = S] ELSE x)
      /\ UNCHANGED <<runSql, runCache, runBounds>>
  BY <1>1, <1>6, <1>7 DEF Command
<1>9. cmd[p].pc \notin InTransaction
  BY <1>8 DEF InTransaction
<1>10. CASE coord[r].pending
  <2>1. PICK y : y = [x EXCEPT !.pc = "hash", !.pub = u, !.drops = S]
    OBVIOUS
  <2>2. y \in Commands
    BY <1>4, <2>1 DEF Commands
  <2>3. /\ y.pc = "hash" /\ y.run = r /\ y.actor = c /\ ~y.acked /\ y.draft = NoDraft /\ y.sets = {}
        /\ y.pub = u /\ y.drops = S
    BY <1>4, <1>5, <2>1 DEF Commands
  <2>4. Turns(p, y)
    BY <1>8, <1>10, <2>1
  <2>5. QED
    BY <1>3, <1>6, <1>7, <1>8, <1>9, <1>10, <2>2, <2>3, <2>4, LockMoves
<1>11. CASE ~coord[r].pending
  <2>1. Turns(p, x)
    BY <1>8, <1>11
  <2>2. QED
    BY <1>3, <1>4, <1>5, <1>8, <1>9, <2>1, LockMoves
<1>12. QED
  BY <1>10, <1>11

LEMMA LockAgainMoves ==
  ASSUME RunIInv, NEW p \in Callers, LockAgain(p)
  PROVE Moved(p)
<1>1. PICK r \in Runs : r = cmd[p].run
  BY DEF LockAgain, RunIInv, CommandsInv, CmdInv
<1>2. cmd[p].pc \notin InTransaction /\ rowLock[r] = Nobody /\ UNCHANGED <<runSql, runCache, runBounds>>
  BY <1>1 DEF LockAgain, InTransaction
<1>3. CASE coord[r].pending
  <2>1. PICK u \in Publications : u = coord[r].pub
    BY DEF RunIInv, StoresInv, StoresOK, Coordinates
  <2>2. PICK S \in SUBSET Challengers : S = coord[r].removed
    BY DEF RunIInv, StoresInv, StoresOK, Coordinates
  <2>3. PICK y : y = [NoCommand EXCEPT !.pc = "hash", !.run = r, !.final = TRUE, !.pub = u, !.drops = S]
    OBVIOUS
  <2>4. y \in Commands
    BY <2>3, EmptyTyped DEF Commands
  <2>5. /\ y.pc = "hash" /\ y.run = r /\ y.final /\ ~y.acked /\ y.draft = NoDraft /\ y.sets = {}
        /\ y.pub = u /\ y.drops = S
    BY <2>3, EmptyTyped DEF Commands, NoCommand
  <2>6. rowLock' = [rowLock EXCEPT ![r] = p] /\ Turns(p, y)
    BY <1>1, <1>3, <2>1, <2>2, <2>3 DEF LockAgain
  <2>7. Revision(r) > 0
    <3>1. Revision(r) \in Nat
      BY <2>1 DEF Publications, Revision
    <3>2. Revision(r) # 0
      BY <1>3 DEF RunIInv, StoresInv, RowsInv, RowInv
    <3>3. QED
      BY <3>1, <3>2
  <2>8. QED
    BY <1>2, <1>3, <2>1, <2>2, <2>4, <2>5, <2>6, <2>7, LockMoves
<1>4. CASE ~coord[r].pending
  BY <1>1, <1>2, <1>4, EndsMoves DEF LockAgain, RunIInv
<1>5. QED
  BY <1>3, <1>4

\* What a command has written to every key of its run, or is yet to write.
LEMMA ReferencedMoves ==
  ASSUME RunIInv, NEW p \in Callers, cmd[p].pc \in {"hash", "refs"}, NEW z \in Commands,
         Turns(p, Referenced(z)), UNCHANGED <<rowLock, coord, settled, enrolled, cuts>>,
         z.run = cmd[p].run, z.actor = cmd[p].actor, z.final = cmd[p].final,
         z.pub = cmd[p].pub, z.drops \subseteq cmd[p].drops, z.draft = NoDraft,
         ~z.acked, z.sets \subseteq z.pub.members, z.sets # {} => z.pub.status = "active",
         Holds(p) => \A r \in Runs : r = z.run =>
            /\ Published(r)'
            /\ \A c \in Roster(r) \ z.sets : reference'[c] = r
            /\ cuts = 0 => \A c \in coord[r].removed \ z.drops : reference'[c] # r
  PROVE Moved(p)
<1>1. PICK x \in Commands : x = cmd[p]
  BY DEF RunIInv, CommandsInv
<1>2. PICK r \in Runs : r = x.run
  BY <1>1 DEF RunIInv, CommandsInv, CmdInv
<1>3. PICK y : y = Referenced(z)
  OBVIOUS
<1>4. /\ y \in Commands /\ y.run = r /\ y.actor = x.actor /\ y.final = x.final /\ y.draft = NoDraft
      /\ y.pub = x.pub /\ y.drops = z.drops /\ y.sets = z.sets
  <2>1. CASE y = [z EXCEPT !.pc = "refs"]
    BY <1>1, <1>2, <2>1 DEF Commands
  <2>2. CASE y = [z EXCEPT !.pc = "ack"]
    BY <1>1, <1>2, <2>2 DEF Commands
  <2>3. CASE y = [z EXCEPT !.pc = "check", !.acked = TRUE]
    BY <1>1, <1>2, <2>3 DEF Commands
  <2>4. QED
    BY <1>3, <2>1, <2>2, <2>3 DEF Referenced
<1>5. \/ y.pc = "refs" /\ ~y.acked
      \/ y.pc = "ack" /\ ~y.acked /\ y.final /\ y.sets = {} /\ y.drops = {}
      \/ y.pc = "check" /\ y.acked /\ ~y.final /\ y.sets = {} /\ y.drops = {}
  <2>1. CASE z.sets # {} \/ z.drops # {}
    <3>1. y = [z EXCEPT !.pc = "refs"]
      BY <1>3, <2>1 DEF Referenced
    <3>2. QED
      BY <3>1 DEF Commands
  <2>2. CASE z.sets = {} /\ z.drops = {} /\ z.final
    <3>1. y = [z EXCEPT !.pc = "ack"]
      BY <1>3, <2>2 DEF Referenced
    <3>2. y.pc = "ack" /\ ~y.acked
      BY <3>1 DEF Commands
    <3>3. QED
      BY <1>1, <1>4, <2>2, <3>2
  <2>3. CASE z.sets = {} /\ z.drops = {} /\ ~z.final
    <3>1. y = [z EXCEPT !.pc = "check", !.acked = TRUE]
      BY <1>3, <2>3 DEF Referenced
    <3>2. y.pc = "check" /\ y.acked
      BY <3>1 DEF Commands
    <3>3. QED
      BY <1>1, <1>4, <2>3, <3>2
  <2>4. QED
    BY <2>1, <2>2, <2>3
<1>6. cmd' = [cmd EXCEPT ![p] = y] /\ cmd'[p] = y /\ UNCHANGED <<coord, settled, enrolled, rowLock, cuts>>
  BY <1>3 DEF Turns, RunIInv, CommandsInv
<1>7. Settled(r)' = Settled(r) /\ Revision(r)' = Revision(r) /\ Roster(r)' = Roster(r)
  BY <1>6 DEF Settled, Revision, Roster
<1>8. /\ Writes(x) /\ ~x.acked /\ (~x.final => x.actor \in Challengers)
      /\ (cuts = 0 => Holds(p)) /\ (Holds(p) => Confirmed(x))
  BY <1>1 DEF RunIInv, CommandsInv, CmdInv, InTransaction
<1>9. y.pc = "refs" => Writes(y)'
  BY <1>1, <1>2, <1>4, <1>5, <1>6, <1>7, <1>8 DEF Writes, Follows
<1>10. Holds(p)' = Holds(p)
  BY <1>1, <1>2, <1>4, <1>6 DEF Holds
<1>11. Holds(p) => Confirmed(y)'
  <2> SUFFICES ASSUME Holds(p)
               PROVE Confirmed(y)'
    OBVIOUS
  <2>1. coord[r].pending /\ x.pub = coord[r].pub
    BY <1>2, <1>8 DEF Confirmed
  <2>2. y.pc # "hash"
    BY <1>5
  <2>3. /\ Published(r)'
        /\ \A c \in Roster(r) \ y.sets : reference'[c] = r
        /\ cuts = 0 => \A c \in coord[r].removed \ y.drops : reference'[c] # r
    BY <1>1, <1>2, <1>4
  <2>4. QED
    BY <1>4, <1>6, <1>7, <2>1, <2>2, <2>3 DEF Confirmed
<1>12. CmdInv(p)'
  BY <1>4, <1>5, <1>6, <1>8, <1>9, <1>10, <1>11 DEF CmdInv, InTransaction
<1>13. \A s \in Runs : rowLock'[s] = p => y.run = s /\ y.pc \in InTransaction
  BY <1>1, <1>2, <1>4, <1>5, <1>6, ActorsAssumption DEF RunIInv, CommandsInv, LocksInv, InTransaction
<1>14. QED
  BY <1>1, <1>2, <1>4, <1>6, <1>12, <1>13 DEF Moved, LocksMove

LEMMA PublishHashKeeps ==
  ASSUME RunIInv, NEW p \in Callers, PublishHash(p)
  PROVE StoresInv' /\ Guarantee(p) /\ Moved(p)
<1>1. PICK x \in Commands : x = cmd[p]
  BY DEF RunIInv, CommandsInv
<1>2. PICK r \in Runs : r = x.run
  BY <1>1 DEF PublishHash, RunIInv, CommandsInv, CmdInv
<1>3. /\ x.pc = "hash" /\ Newest(x) /\ HashEffect(p) /\ UNCHANGED <<rowLock, runBounds, runSql, reference>>
      /\ Turns(p, Referenced([x EXCEPT !.sets = IF x.pub.status = "active" THEN x.pub.members ELSE {}]))
  BY <1>1 DEF PublishHash, HashEffect
<1>4. /\ StoresInv' /\ Guarantee(p)
      /\ x.pub = coord[r].pub => Published(r)'
  BY <1>1, <1>2, <1>3, HashWritten DEF RunIInv, runBounds
<1>5. PICK S \in SUBSET Challengers : S = IF x.pub.status = "active" THEN x.pub.members ELSE {}
  BY DEF Commands, Publications
<1>6. PICK z : z = [x EXCEPT !.sets = S]
  OBVIOUS
<1>7. /\ z \in Commands /\ z.run = x.run /\ z.actor = x.actor /\ z.final = x.final /\ z.pub = x.pub
      /\ z.drops = x.drops /\ z.draft = x.draft /\ z.acked = x.acked /\ z.sets = S
  BY <1>6 DEF Commands
<1>8. /\ x.draft = NoDraft /\ ~x.acked
      /\ Holds(p) => Confirmed(x)
  BY <1>1, <1>3 DEF RunIInv, CommandsInv, CmdInv, InTransaction
<1>9. Holds(p) =>
         /\ Published(r)'
         /\ \A c \in Roster(r) \ S : reference'[c] = r
         /\ \A c \in coord[r].removed \ z.drops : reference'[c] # r
  <2> SUFFICES ASSUME Holds(p)
               PROVE /\ Published(r)' /\ Roster(r) \subseteq S /\ coord[r].removed \subseteq z.drops
    OBVIOUS
  <2>1. x.pub = coord[r].pub /\ x.drops = coord[r].removed
    BY <1>2, <1>3, <1>8 DEF Confirmed
  <2>2. Roster(r) = S
    BY <1>5, <2>1 DEF RunIInv, StoresInv, RowsInv, RowInv
  <2>3. QED
    BY <1>4, <1>7, <2>1, <2>2
<1>10. Turns(p, Referenced(z)) /\ UNCHANGED <<rowLock, coord, settled, enrolled, cuts>>
  BY <1>3, <1>5, <1>6 DEF runSql, runBounds
<1>11. Moved(p)
  BY <1>1, <1>2, <1>3, <1>5, <1>7, <1>8, <1>9, <1>10, ReferencedMoves
<1>12. QED
  BY <1>4, <1>11

LEMMA ClaimMemberKeeps ==
  ASSUME RunIInv, NEW p \in Callers, NEW c \in Challengers, ClaimMember(p, c)
  PROVE StoresInv' /\ Guarantee(p) /\ Moved(p)
<1>1. PICK x \in Commands : x = cmd[p]
  BY DEF RunIInv, CommandsInv
<1>2. PICK r \in Runs : r = x.run
  BY <1>1 DEF ClaimMember, RunIInv, CommandsInv, CmdInv
<1>3. /\ x.pc = "refs" /\ c \in x.sets /\ reference[c] \in {NoRun, x.run} /\ ClaimEffect(p, c)
      /\ UNCHANGED <<rowLock, runBounds, runSql, live, past>> /\ reference' = [reference EXCEPT ![c] = r]
      /\ Turns(p, Referenced([x EXCEPT !.sets = x.sets \ {c}]))
  BY <1>1, <1>2 DEF ClaimMember, ClaimEffect
<1>4. StoresInv' /\ Guarantee(p)
  BY <1>1, <1>3, MemberClaimed DEF RunIInv, runBounds
<1>5. PICK S \in SUBSET Challengers : S = x.sets \ {c}
  BY DEF Commands
<1>6. PICK z : z = [x EXCEPT !.sets = S]
  OBVIOUS
<1>7. /\ z \in Commands /\ z.run = x.run /\ z.actor = x.actor /\ z.final = x.final /\ z.pub = x.pub
      /\ z.drops = x.drops /\ z.draft = x.draft /\ z.acked = x.acked /\ z.sets = S
  BY <1>6 DEF Commands
<1>8. /\ x.draft = NoDraft /\ ~x.acked /\ Writes(x)
      /\ Holds(p) => Confirmed(x)
  BY <1>1, <1>3 DEF RunIInv, CommandsInv, CmdInv, InTransaction
<1>9. Holds(p) =>
         /\ Published(r)'
         /\ \A m \in Roster(r) \ S : reference'[m] = r
         /\ cuts = 0 => \A m \in coord[r].removed \ z.drops : reference'[m] # r
  <2> SUFFICES ASSUME Holds(p)
               PROVE /\ Published(r)'
                     /\ \A m \in Roster(r) \ S : reference'[m] = r
                     /\ cuts = 0 => \A m \in coord[r].removed \ x.drops : reference'[m] # r
    BY <1>7
  <2>1. /\ Confirmed(x) /\ x.pub = coord[r].pub /\ Published(r)
        /\ \A m \in Roster(r) \ x.sets : reference[m] = r
        /\ cuts = 0 => \A m \in coord[r].removed \ x.drops : reference[m] # r
    BY <1>2, <1>3, <1>8 DEF Confirmed
  <2>2. Published(r)'
    BY <1>3, <2>1 DEF Published, runSql, Revision
  <2>3. c \in Roster(r) /\ c \notin coord[r].removed
    BY <1>3, <1>8, <2>1 DEF Writes, RunIInv, StoresInv, RowsInv, RowInv, Roster
  <2>4. coord[r].removed \subseteq Challengers /\ Roster(r) \subseteq Challengers
    BY DEF RunIInv, StoresInv, StoresOK, Coordinates, Roster
  <2>5. QED
    BY <1>3, <1>5, <2>1, <2>2, <2>3, <2>4 DEF RunIInv, StoresInv, StoresOK
<1>10. Turns(p, Referenced(z)) /\ UNCHANGED <<rowLock, coord, settled, enrolled, cuts>>
  BY <1>3, <1>5, <1>6 DEF runSql, runBounds
<1>11. S \subseteq x.pub.members /\ (S # {} => x.pub.status = "active")
  BY <1>3, <1>5, <1>8 DEF Writes
<1>12. Moved(p)
  BY <1>1, <1>2, <1>3, <1>7, <1>8, <1>9, <1>10, <1>11, ReferencedMoves
<1>13. QED
  BY <1>4, <1>12

LEMMA ReleaseMemberKeeps ==
  ASSUME RunIInv, NEW p \in Callers, NEW c \in Challengers, ReleaseMember(p, c)
  PROVE StoresInv' /\ Guarantee(p) /\ Moved(p)
<1>1. PICK x \in Commands : x = cmd[p]
  BY DEF RunIInv, CommandsInv
<1>2. PICK r \in Runs : r = x.run
  BY <1>1 DEF ReleaseMember, RunIInv, CommandsInv, CmdInv
<1>3. /\ x.pc = "refs" /\ x.sets = {} /\ c \in x.drops /\ ReleaseEffect(p, c)
      /\ UNCHANGED <<rowLock, runBounds, runSql, live, past>>
      /\ reference' = [reference EXCEPT ![c] = IF reference[c] = r THEN NoRun ELSE reference[c]]
      /\ Turns(p, Referenced([x EXCEPT !.drops = x.drops \ {c}]))
  BY <1>1, <1>2 DEF ReleaseMember, ReleaseEffect
<1>4. StoresInv' /\ Guarantee(p)
  BY <1>1, <1>3, MemberReleased DEF RunIInv, runBounds
<1>5. PICK S \in SUBSET Challengers : S = x.drops \ {c}
  BY DEF Commands
<1>6. PICK z : z = [x EXCEPT !.drops = S]
  OBVIOUS
<1>7. /\ z \in Commands /\ z.run = x.run /\ z.actor = x.actor /\ z.final = x.final /\ z.pub = x.pub
      /\ z.drops = S /\ z.draft = x.draft /\ z.acked = x.acked /\ z.sets = {}
  BY <1>3, <1>6 DEF Commands
<1>8. /\ x.draft = NoDraft /\ ~x.acked /\ Writes(x)
      /\ Holds(p) => Confirmed(x)
  BY <1>1, <1>3 DEF RunIInv, CommandsInv, CmdInv, InTransaction
<1>9. Holds(p) =>
         /\ Published(r)'
         /\ \A m \in Roster(r) : reference'[m] = r
         /\ cuts = 0 => \A m \in coord[r].removed \ S : reference'[m] # r
  <2> SUFFICES ASSUME Holds(p)
               PROVE /\ Published(r)'
                     /\ \A m \in Roster(r) : reference'[m] = r
                     /\ cuts = 0 => \A m \in coord[r].removed \ S : reference'[m] # r
    OBVIOUS
  <2>1. /\ Published(r)
        /\ \A m \in Roster(r) : reference[m] = r
        /\ cuts = 0 => \A m \in coord[r].removed \ x.drops : reference[m] # r
    BY <1>2, <1>3, <1>8 DEF Confirmed
  <2>2. Published(r)'
    BY <1>3, <2>1 DEF Published, runSql, Revision
  <2>3. c \notin Roster(r)
    BY <1>2, <1>3, <1>8 DEF Writes, Roster
  <2>4. coord[r].removed \subseteq Challengers /\ Roster(r) \subseteq Challengers
    BY DEF RunIInv, StoresInv, StoresOK, Coordinates, Roster
  <2>5. reference \in [Challengers -> Runs \cup {NoRun}] /\ r # NoRun
    BY RunsAssumption DEF RunIInv, StoresInv, StoresOK
  <2>6. QED
    BY <1>3, <1>5, <2>1, <2>2, <2>3, <2>4, <2>5
<1>10. Turns(p, Referenced(z)) /\ UNCHANGED <<rowLock, coord, settled, enrolled, cuts>>
  BY <1>3, <1>5, <1>6 DEF runSql, runBounds
<1>11. Moved(p)
  BY <1>1, <1>2, <1>3, <1>5, <1>7, <1>8, <1>9, <1>10, ReferencedMoves
<1>12. QED
  BY <1>4, <1>11

\* A command that computes has seen the committed revision live.
LEMMA CheckMoves ==
  ASSUME RunIInv, NEW p \in Callers, Check(p)
  PROVE Moved(p)
<1>1. PICK x \in Commands : x = cmd[p]
  BY DEF RunIInv, CommandsInv
<1>2. PICK r \in Runs : r = x.run
  BY <1>1 DEF Check, RunIInv, CommandsInv, CmdInv
<1>3. /\ x.pc = "check" /\ rowLock[r] = p /\ x.actor \in Challengers /\ x.draft = NoDraft
      /\ UNCHANGED <<runSql, runCache, runBounds>>
      /\ x.acked => Confirmed(x) /\ x.sets = {} /\ x.drops = {}
  BY <1>1, <1>2 DEF Check, Holds, RunIInv, CommandsInv, CmdInv, InTransaction
<1>4. UNCHANGED <<coord, enrolled, settled, live, reference, past, cuts>>
  BY <1>3 DEF runSql, runCache, runBounds
<1>5. CASE Refused(p)
  BY <1>1, <1>2, <1>3, <1>5, RefusedMoves DEF RunIInv
<1>6. ASSUME NEW y \in Commands, Turns(p, y), UNCHANGED rowLock, y.pc = "commit", y.run = r,
             y.actor = x.actor, y.acked = x.acked, y.pub = x.pub, y.sets = x.sets, y.drops = x.drops,
             Drafted(y)
      PROVE Moved(p)
  <2>1. cmd' = [cmd EXCEPT ![p] = y] /\ cmd'[p] = y
    BY <1>6 DEF Turns, RunIInv, CommandsInv
  <2>2. Drafted(y)'
    <3>1. coord'[r].pub = coord[r].pub /\ Outcome(y.draft, coord[r].pub) =>
             Outcome(y.draft, coord[r].pub)'
      OBVIOUS
    <3>2. QED
      BY <1>4, <1>6, <3>1 DEF Drafted, Revision
  <2>3. x.acked => Confirmed(y)'
    BY <1>2, <1>3, <1>4, <1>6 DEF Confirmed, Published, Revision, Roster, Settled
  <2>4. Holds(p)'
    BY <1>3, <1>6, <2>1 DEF Holds
  <2>5. CmdInv(p)'
    BY <1>2, <1>3, <1>6, <2>1, <2>2, <2>3, <2>4 DEF CmdInv, InTransaction
  <2>6. \A s \in Runs : rowLock'[s] = p => y.run = s /\ y.pc \in InTransaction
    BY <1>1, <1>2, <1>6, ActorsAssumption DEF RunIInv, CommandsInv, LocksInv, InTransaction
  <2>7. QED
    BY <1>1, <1>2, <1>6, <2>1, <2>5, <2>6 DEF Moved, LocksMove
<1>7. CASE Turns(p, [x EXCEPT !.pc = "commit"]) /\ UNCHANGED rowLock
  <2>1. PICK y : y = [x EXCEPT !.pc = "commit"]
    OBVIOUS
  <2>2. /\ y \in Commands /\ y.pc = "commit" /\ y.run = x.run /\ y.actor = x.actor
        /\ y.acked = x.acked /\ y.pub = x.pub /\ y.sets = x.sets /\ y.drops = x.drops
        /\ y.draft = x.draft
    BY <2>1 DEF Commands
  <2>3. y.draft.pub.rev = 0 /\ y.draft.pays = {}
    BY <1>3, <2>2 DEF NoDraft, NoPublication
  <2>4. Revision(r) \in Nat
    BY DEF RunIInv, StoresInv, StoresOK, Coordinates, Publications, Revision
  <2>5. Drafted(y)
    BY <1>2, <2>2, <2>3, <2>4 DEF Drafted
  <2>6. QED
    BY <1>2, <1>6, <1>7, <2>1, <2>2, <2>5
<1>8. ASSUME Acceptable(x), NEW d \in (IF x.action = "exit" THEN Exit(x.actor, live[x.run])
                                       ELSE Advance(x.actor, live[x.run])),
             Turns(p, [x EXCEPT !.pc = "commit", !.draft = d]), UNCHANGED rowLock
      PROVE Moved(p)
  <2>1. PICK u \in Publications : u = coord[r].pub
    BY DEF RunIInv, StoresInv, StoresOK, Coordinates
  <2>2. live[r] = u /\ u.status = "active" /\ x.actor \in u.members /\ u.rev = Revision(r)
    BY <1>2, <1>8, <2>1 DEF Acceptable, RunIInv, StoresInv, RowsInv, Follows, Revision
  <2>3. \A e \in Challengers \ u.members : u.gain[e] = 0
    BY <2>1, <2>2 DEF RunIInv, StoresInv, RowsInv, RowInv
  <2>4. d \in Drafts /\ Outcome(d, u)
    BY <1>2, <1>8, <2>2, <2>3, ExitOutcome, AdvanceOutcome
  <2>5. PICK y : y = [x EXCEPT !.pc = "commit", !.draft = d]
    OBVIOUS
  <2>6. y \in Commands
    BY <2>4, <2>5 DEF Commands
  <2>7. /\ y.pc = "commit" /\ y.run = x.run /\ y.actor = x.actor
        /\ y.acked = x.acked /\ y.pub = x.pub /\ y.sets = x.sets /\ y.drops = x.drops
        /\ y.draft = d
    BY <2>5 DEF Commands
  <2>8. u.rev \in Nat /\ d.pub.rev = u.rev + 1
    BY <2>4 DEF Outcome, Publications
  <2>9. Drafted(y)
    BY <1>2, <2>1, <2>2, <2>4, <2>7, <2>8 DEF Drafted
  <2>10. QED
    BY <1>2, <1>6, <1>8, <2>5, <2>6, <2>7, <2>9
<1>9. QED
  BY <1>1, <1>5, <1>7, <1>8 DEF Check

LEMMA CommitKeeps ==
  ASSUME RunIInv, NEW p \in Callers, RunCommit(p)
  PROVE StoresInv' /\ Guarantee(p) /\ Moved(p)
<1>1. /\ cmd[p].pc = "commit" /\ Holds(p) /\ UNCHANGED runBounds /\ UNCHANGED cuts
      /\ cmd[p].run \in Runs /\ cmd[p].actor \in Challengers /\ StoresInv /\ CommandsInv /\ BoundsOK
  BY DEF RunCommit, runBounds, RunIInv, CommandsInv, CmdInv
<1>2. CASE RunCommitEffect(p) /\ rowLock' = Unlocked(p)
           /\ Turns(p, [NoCommand EXCEPT !.pc = "again", !.run = cmd[p].run])
  BY <1>1, <1>2, Committed, AgainMoves
<1>3. CASE Refused(p) /\ UNCHANGED <<runSql, runCache>>
  BY <1>1, <1>3, NothingDone, RefusedMoves
<1>4. QED
  BY <1>2, <1>3 DEF RunCommit

LEMMA EnrolKeeps ==
  ASSUME RunIInv, NEW p \in Callers, Enrol(p)
  PROVE StoresInv' /\ Guarantee(p) /\ Moved(p)
<1>1. PICK x \in Commands : x = cmd[p]
  BY DEF RunIInv, CommandsInv
<1>2. PICK r \in Runs : r = x.run
  BY <1>1 DEF Enrol, RunIInv, CommandsInv, CmdInv
<1>3. /\ x.pc = "enrol" /\ UNCHANGED rowLock /\ UNCHANGED cuts /\ ~x.acked
      /\ x.pc \notin InTransaction /\ StoresInv /\ CommandsInv /\ BoundsOK
  BY <1>1 DEF Enrol, runBounds, RunIInv, CommandsInv, CmdInv, InTransaction
<1>4. CASE EnrolEffect(p) /\ Turns(p, [x EXCEPT !.pc = "again", !.draft = NoDraft])
  <2>1. PICK y : y = [x EXCEPT !.pc = "again", !.draft = NoDraft]
    OBVIOUS
  <2>2. y \in Commands /\ y.pc = "again" /\ y.run = r /\ ~y.acked /\ y.draft = NoDraft
    BY <1>2, <1>3, <2>1, EmptyTyped DEF Commands
  <2>3. cmd' = [cmd EXCEPT ![p] = y] /\ cmd'[p] = y
    BY <1>4, <2>1 DEF Turns, RunIInv, CommandsInv
  <2>4. CmdInv(p)'
    BY <2>2, <2>3 DEF CmdInv, InTransaction
  <2>5. Moved(p)
    BY <1>1, <1>2, <1>3, <2>2, <2>3, <2>4, Released DEF Moved
  <2>6. QED
    BY <1>1, <1>3, <1>4, <2>5, Enrolled
<1>5. CASE Ends(p) /\ UNCHANGED runStores
  BY <1>1, <1>3, <1>5, NothingDone, EndsMoves DEF runStores
<1>6. QED
  BY <1>1, <1>4, <1>5 DEF Enrol

LEMMA ReceiptMoves ==
  ASSUME RunIInv, NEW p \in Callers, Receipt(p)
  PROVE Moved(p)
<1>1. /\ cmd[p].run \in Runs /\ CommandsInv /\ UNCHANGED rowLock /\ cmd[p].pc \notin InTransaction
  BY DEF Receipt, RunIInv, CommandsInv, CmdInv, InTransaction, runStores
<1>2. QED
  BY <1>1, AgainMoves, EndsMoves DEF Receipt

LEMMA AcknowledgeKeeps ==
  ASSUME RunIInv, NEW p \in Callers, AcknowledgeRun(p)
  PROVE StoresInv' /\ Guarantee(p) /\ Moved(p)
<1>1. /\ cmd[p].pc = "ack" /\ cmd[p].pc \in InTransaction /\ Holds(p)
      /\ StoresInv /\ CommandsInv /\ UNCHANGED cuts
  BY DEF AcknowledgeRun, InTransaction, RunIInv, runBounds
<1>2. StoresInv' /\ Guarantee(p)
  BY <1>1, Acknowledged DEF AcknowledgeRun, RunAckEffect
<1>3. Moved(p)
  BY <1>1, EndsMoves DEF AcknowledgeRun
<1>4. QED
  BY <1>2, <1>3

-----------------------------------------------------------------------------
(* Faults                                                                  *)

\* Whatever a failed step has done is what the step does.
LEMMA StepFailsKeeps ==
  ASSUME RunIInv, NEW p \in Callers, RunStepFails(p)
  PROVE StoresInv' /\ Guarantee(p) /\ Moved(p)
<1>1. StoresInv /\ CommandsInv /\ BoundsOK /\ cmd[p].pc # "idle" /\ Fails(p) /\ UNCHANGED cuts
  BY DEF RunStepFails, RunIInv
<1>2. Moved(p)
  BY <1>1, FailsMoves
<1>3. CASE UNCHANGED <<runSql, runCache>>
  BY <1>1, <1>2, <1>3, NothingDone
<1>4. CASE cmd[p].pc = "enrol" /\ EnrolEffect(p)
  BY <1>1, <1>2, <1>4, Enrolled
<1>5. CASE cmd[p].pc = "hash" /\ Newest(cmd[p]) /\ HashEffect(p)
  BY <1>1, <1>2, <1>5, HashWritten
<1>6. CASE cmd[p].pc = "refs" /\ \E c \in cmd[p].sets :
              reference[c] \in {NoRun, cmd[p].run} /\ ClaimEffect(p, c)
  BY <1>1, <1>2, <1>6, MemberClaimed
<1>7. CASE cmd[p].pc = "refs" /\ \E c \in cmd[p].drops : ReleaseEffect(p, c)
  BY <1>1, <1>2, <1>7, MemberReleased
<1>8. CASE cmd[p].pc = "ack" /\ Holds(p) /\ RunAckEffect(p)
  BY <1>1, <1>2, <1>8, Acknowledged DEF RunAckEffect, InTransaction
<1>9. CASE cmd[p].pc = "commit" /\ Holds(p) /\ RunCommitEffect(p)
  BY <1>1, <1>2, <1>9, Committed
<1>10. QED
  BY <1>3, <1>4, <1>5, <1>6, <1>7, <1>8, <1>9 DEF RunStepFails

\* Without its lock, a command is not relied on any more.
LEMMA ConnectionLostMoves ==
  ASSUME RunIInv, NEW p \in Callers, ConnectionLost(p)
  PROVE Moved(p)
<1>1. PICK x \in Commands : x = cmd[p]
  BY DEF RunIInv, CommandsInv
<1>2. PICK r \in Runs : r = x.run
  BY <1>1 DEF ConnectionLost, RunIInv, CommandsInv, CmdInv
<1>3. /\ UNCHANGED <<coord, settled, cmd>> /\ rowLock' = Unlocked(p) /\ cuts' # 0 /\ x.pc # "idle"
  BY <1>1 DEF ConnectionLost, runSql, RunIInv, BoundsOK
<1>4. LocksMove(p) /\ \A s \in Runs : rowLock'[s] # p
  BY <1>3, Released DEF RunIInv
<1>5. cmd' = [cmd EXCEPT ![p] = cmd'[p]] /\ cmd'[p] = x
  BY <1>1, <1>3 DEF RunIInv, CommandsInv
<1>6. CmdInv(p)'
  <2>1. CmdInv(p)
    BY DEF RunIInv, CommandsInv
  <2>2. Settled(r)' = Settled(r) /\ Revision(r)' = Revision(r)
    BY <1>3 DEF Settled, Revision
  <2>3. Writes(x) => Writes(x)'
    BY <1>2, <1>3, <2>2 DEF Writes, Follows
  <2>4. Drafted(x) => Drafted(x)'
    <3>1. coord'[r].pub = coord[r].pub /\ Outcome(x.draft, coord[r].pub) =>
             Outcome(x.draft, coord[r].pub)'
      OBVIOUS
    <3>2. QED
      BY <1>2, <1>3, <2>2, <3>1 DEF Drafted
  <2>5. Fresh(p) => Fresh(p)'
    BY <1>2, <1>3, <2>2 DEF Fresh, Revision
  <2>6. ~Holds(p)'
    BY <1>2, <1>4, <1>5 DEF Holds
  <2>7. QED
    BY <1>1, <1>2, <1>3, <1>5, <2>1, <2>3, <2>4, <2>5, <2>6 DEF CmdInv
<1>7. QED
  BY <1>1, <1>4, <1>5, <1>6 DEF Moved

\* What is late stays late: the deadline of a live revision takes it away, and
\* of what was published before nothing can come back.
LEMMA DeadlineKeeps ==
  ASSUME RunIInv, NEW r \in Runs, NEW v \in 1..Revision(r), DeadlinePasses(r, v)
  PROVE RunIInv'
<1>1. /\ UNCHANGED <<coord, enrolled, settled, claims, receipts, reference, rowLock, cmd, runFaults, cuts>>
      /\ past' = [past EXCEPT ![r] = v]
      /\ live' = [live EXCEPT ![r] = IF live[r].rev <= v THEN NoPublication ELSE live[r]]
      /\ v \in past[r] + 1..Revision(r) /\ deadlines < MaxDeadlines /\ deadlines' = deadlines + 1
  BY DEF DeadlinePasses, runSql
<1>2. \A s \in Runs : /\ coord[s].pub \in Publications /\ live[s] \in Publications /\ past[s] \in Nat
                      /\ Revision(s) \in Nat /\ live[s].rev \in Nat
  BY DEF RunIInv, StoresInv, StoresOK, Coordinates, Publications, Revision
<1>3. v \in Nat /\ v > past[r] /\ v <= Revision(r) /\ Revision(r) > 0
  BY <1>1, <1>2
<1>4. /\ past'[r] = v /\ live'[r] = (IF live[r].rev <= v THEN NoPublication ELSE live[r])
      /\ \A s \in Runs \ {r} : past'[s] = past[s] /\ live'[s] = live[s]
  BY <1>1 DEF RunIInv, StoresInv, StoresOK
<1>5. \A s \in Runs : /\ RowInv(s)' /\ Revision(s)' = Revision(s) /\ Settled(s)' = Settled(s)
                      /\ Roster(s)' = Roster(s)
  BY <1>1, RowsStay DEF RunIInv, StoresInv
<1>6. \A s \in Runs : Published(s) => Published(s)'
  <2>1. Published(r) => Published(r)'
    <3> SUFFICES ASSUME Published(r)
                 PROVE IF Revision(r) <= v THEN live'[r] = NoPublication ELSE live'[r] = coord[r].pub
      BY <1>1, <1>4, <1>5 DEF Published
    <3>1. live[r] = coord[r].pub /\ live[r].rev = Revision(r)
      BY <1>2, <1>3 DEF Published, Revision
    <3>2. QED
      BY <1>2, <1>3, <1>4, <3>1
  <2>2. \A s \in Runs \ {r} : Published(s) => Published(s)'
    BY <1>1, <1>4, <1>5 DEF Published
  <2>3. QED
    BY <2>1, <2>2
<1>7. RowsInv'
  <2>1. Follows(live[r], r)'
    <3>1. NoPublication.rev = 0
      BY DEF NoPublication
    <3>2. Follows(live[r], r)
      BY DEF RunIInv, StoresInv, RowsInv
    <3>3. QED
      BY <1>1, <1>2, <1>3, <1>4, <1>5, <3>1, <3>2 DEF Follows
  <2>2. \A s \in Runs \ {r} : Follows(live[s], s)'
    BY <1>1, <1>4, <1>5 DEF RunIInv, StoresInv, RowsInv, Follows
  <2>3. QED
    BY <1>5, <2>1, <2>2 DEF RowsInv
<1>8. StoresOK'
  <2>1. live' \in [Runs -> Publications] /\ past' \in [Runs -> Nat]
    BY <1>1, <1>2, <1>3, EmptyTyped DEF RunIInv, StoresInv, StoresOK
  <2>2. QED
    BY <1>1, <2>1 DEF RunIInv, StoresInv, StoresOK
<1>9. ClaimsMatchRoster' /\ ReferencesMatch'
  BY <1>1, <1>5 DEF RunIInv, StoresInv, ClaimsMatchRoster, ReferencesMatch, ReferenceFollowsClaim,
                    MembersAreReferenced
<1>10. AcknowledgedIsLive'
  BY <1>1, <1>5, <1>6 DEF RunIInv, StoresInv, AcknowledgedIsLive, Published
<1>11. ASSUME NEW p \in Callers
       PROVE CmdInv(p)'
  <2>1. PICK x \in Commands : x = cmd[p]
    BY DEF RunIInv, CommandsInv
  <2>2. CmdInv(p) /\ cmd'[p] = x
    BY <1>1, <2>1 DEF RunIInv, CommandsInv
  <2>3. CASE x.pc = "idle"
    BY <2>1, <2>2, <2>3 DEF CmdInv, InTransaction
  <2>4. CASE x.pc # "idle"
    <3>1. PICK s \in Runs : s = x.run
      BY <2>1, <2>2, <2>4 DEF CmdInv
    <3>2. Writes(x) => Writes(x)'
      BY <1>1, <1>5, <3>1 DEF Writes, Follows
    <3>3. Drafted(x) => Drafted(x)'
      <4>1. coord'[s].pub = coord[s].pub /\ Outcome(x.draft, coord[s].pub) =>
               Outcome(x.draft, coord[s].pub)'
        OBVIOUS
      <4>2. QED
        BY <1>1, <1>5, <3>1, <4>1 DEF Drafted
    <3>4. Fresh(p) => Fresh(p)'
      BY <1>1, <1>5, <2>1, <3>1 DEF Fresh
    <3>5. Confirmed(x) => Confirmed(x)'
      BY <1>1, <1>5, <1>6, <3>1 DEF Confirmed
    <3>6. Holds(p)' = Holds(p)
      BY <1>1 DEF Holds
    <3>7. QED
      BY <1>1, <2>1, <2>2, <3>2, <3>3, <3>4, <3>5, <3>6 DEF CmdInv
  <2>5. QED
    BY <2>3, <2>4
<1>12. CommandsInv'
  BY <1>1, <1>11 DEF RunIInv, CommandsInv, LocksInv
<1>13. BoundsOK'
  BY <1>1, RunsAssumption DEF RunIInv, BoundsOK
<1>14. QED
  BY <1>7, <1>8, <1>9, <1>10, <1>12, <1>13 DEF RunIInv, StoresInv

-----------------------------------------------------------------------------
(* The specification                                                       *)

LEMMA InitInv == RunInit => RunIInv
<1> SUFFICES ASSUME RunInit
             PROVE RunIInv
  OBVIOUS
<1>1. \A r \in Runs : /\ coord[r] = [pub |-> NoPublication, pending |-> FALSE, removed |-> {}]
                      /\ enrolled[r] = {} /\ settled[r] = {} /\ live[r] = NoPublication
                      /\ rowLock[r] = Nobody
  BY DEF RunInit
<1>2. /\ NoPublication.rev = 0 /\ NoPublication.status = "gone"
      /\ \A c \in Challengers : NoPublication.gain[c] = 0
  BY DEF NoPublication, NoGain
<1>3. \A r \in Runs : Revision(r) = 0 /\ Settled(r) = {} /\ Roster(r) = {}
  BY <1>1, <1>2 DEF Revision, Settled, Roster
<1>4. StoresOK
  BY EmptyTyped DEF RunInit, StoresOK, Coordinates
<1>5. RowsInv
  <2>1. \A r \in Runs : coord[r].pub = NoPublication /\ coord[r].removed = {}
    BY <1>1
  <2>2. \A r \in Runs : RowInv(r)
    BY <1>1, <1>2, <1>3, <2>1 DEF RowInv
  <2>3. \A r \in Runs : Follows(live[r], r)
    BY <1>1, <1>2, <1>3 DEF Follows
  <2>4. QED
    BY <2>2, <2>3 DEF RowsInv
<1>6. ClaimsMatchRoster /\ AcknowledgedIsLive /\ ReferencesMatch
  <2>1. \A c \in Challengers : claims[c] = NoRun /\ reference[c] = NoRun
    BY DEF RunInit
  <2>2. ClaimsMatchRoster
    BY <1>1, <1>3, <2>1, RunsAssumption DEF ClaimsMatchRoster
  <2>3. AcknowledgedIsLive
    BY <1>3 DEF AcknowledgedIsLive
  <2>4. ReferencesMatch
    BY <1>3, <2>1 DEF ReferencesMatch, ReferenceFollowsClaim, MembersAreReferenced
  <2>5. QED
    BY <2>2, <2>3, <2>4
<1>7. CommandsInv
  <2>1. \A p \in Callers : cmd[p] = NoCommand
    BY DEF RunInit
  <2>2. NoCommand.pc = "idle" /\ NoCommand.run = NoRun /\ ~NoCommand.acked /\ NoCommand.draft = NoDraft
    BY DEF NoCommand
  <2>3. \A p \in Callers : CmdInv(p)
    BY <2>1, <2>2 DEF CmdInv, InTransaction
  <2>4. QED
    BY <1>1, <2>3, EmptyTyped DEF RunInit, CommandsInv, LocksInv
<1>8. BoundsOK
  BY RunsAssumption DEF RunInit, BoundsOK
<1>9. QED
  BY <1>4, <1>5, <1>6, <1>7, <1>8 DEF RunIInv, StoresInv

\* A step of a command, or a fault of one.
LEMMA OneMoves ==
  ASSUME RunIInv, NEW p \in Callers,
         RunRequest(p) \/ RunStep(p) \/ RunStepFails(p) \/ ProcessStops(p) \/ ConnectionLost(p)
  PROVE StoresInv' /\ Guarantee(p) /\ Moved(p) /\ BoundsOK' /\ cuts <= cuts'
<1> DEFINE Done == StoresInv' /\ Guarantee(p) /\ Moved(p) /\ BoundsOK' /\ cuts <= cuts'
<1>1. StoresInv /\ CommandsInv /\ BoundsOK
  BY DEF RunIInv
<1>2. UNCHANGED runBounds => BoundsOK' /\ cuts <= cuts' /\ UNCHANGED cuts
  BY <1>1 DEF runBounds, BoundsOK
<1>3. UNCHANGED <<runSql, runCache, runBounds>> => StoresInv' /\ Guarantee(p)
  BY <1>1, <1>2, NothingDone
<1>4. CASE RunRequest(p)
  <2>1. UNCHANGED <<runSql, runCache, runBounds>>
    BY <1>4 DEF RunRequest, StartRun, Command, runStores
  <2>2. Moved(p)
    BY <1>4, StartMoves, CommandMoves DEF RunRequest
  <2>3. QED
    BY <1>2, <1>3, <2>1, <2>2
<1>5. CASE LockAgain(p)
  BY <1>2, <1>3, <1>5, LockAgainMoves DEF LockAgain
<1>6. CASE PublishHash(p)
  BY <1>2, <1>6, PublishHashKeeps DEF PublishHash
<1>7. CASE AcknowledgeRun(p)
  BY <1>2, <1>7, AcknowledgeKeeps DEF AcknowledgeRun
<1>8. CASE Check(p)
  BY <1>2, <1>3, <1>8, CheckMoves DEF Check
<1>9. CASE Enrol(p)
  BY <1>2, <1>9, EnrolKeeps DEF Enrol
<1>10. CASE RunCommit(p)
  BY <1>2, <1>10, CommitKeeps DEF RunCommit
<1>11. CASE Receipt(p)
  BY <1>2, <1>3, <1>11, ReceiptMoves DEF Receipt, runStores
<1>12. CASE StepRefused(p)
  <2>1. cmd[p].pc # "idle" /\ Fails(p) /\ UNCHANGED <<runSql, runCache, runBounds>>
    BY <1>12 DEF StepRefused
  <2>2. QED
    BY <1>1, <1>2, <1>3, <2>1, FailsMoves
<1>13. CASE \E c \in Challengers : ClaimMember(p, c) \/ ReleaseMember(p, c)
  BY <1>2, <1>13, ClaimMemberKeeps, ReleaseMemberKeeps DEF ClaimMember, ReleaseMember
<1>14. CASE RunStepFails(p)
  <2>1. BoundsOK' /\ cuts <= cuts'
    BY <1>1, <1>14, RunsAssumption DEF RunStepFails, BoundsOK
  <2>2. QED
    BY <1>14, <2>1, StepFailsKeeps
<1>15. CASE ProcessStops(p)
  <2>1. BoundsOK' /\ cuts <= cuts'
    BY <1>1, <1>15, RunsAssumption DEF ProcessStops, BoundsOK
  <2>2. QED
    BY <1>1, <1>15, <2>1, NothingDone, EndsMoves DEF ProcessStops
<1>16. CASE ConnectionLost(p)
  <2>1. BoundsOK' /\ cuts <= cuts' /\ (cuts' = 0 => cuts = 0)
    BY <1>1, <1>16, RunsAssumption DEF ConnectionLost, BoundsOK
  <2>2. QED
    BY <1>1, <1>16, <2>1, NothingDone, ConnectionLostMoves DEF ConnectionLost
<1>17. QED
  BY <1>4, <1>5, <1>6, <1>7, <1>8, <1>9, <1>10, <1>11, <1>12, <1>13, <1>14, <1>15, <1>16 DEF RunStep

LEMMA NextInv == RunIInv /\ [RunNext]_runVars => RunIInv'
<1> SUFFICES ASSUME RunIInv, [RunNext]_runVars
             PROVE RunIInv'
  OBVIOUS
<1>1. CASE UNCHANGED runVars
  <2>1. UNCHANGED <<coord, enrolled, settled, claims, receipts, live, reference, past, rowLock, cmd,
                    runFaults, cuts, deadlines>>
    BY <1>1 DEF runVars, runStores, runBounds, runSql, runCache
  <2>2. StoresInv' /\ BoundsOK'
    BY <2>1, StoresStay DEF RunIInv, BoundsOK, runSql, runCache
  <2>3. \A r \in Runs : /\ Revision(r)' = Revision(r) /\ Settled(r)' = Settled(r)
                         /\ Roster(r)' = Roster(r) /\ Published(r)' = Published(r)
    BY <2>1 DEF Revision, Settled, Roster, Published
  <2>4. ASSUME NEW p \in Callers
        PROVE CmdInv(p)'
    <3>1. PICK x \in Commands : x = cmd[p]
      BY DEF RunIInv, CommandsInv
    <3>2. CmdInv(p) /\ cmd'[p] = x
      BY <2>1, <3>1 DEF RunIInv, CommandsInv
    <3>3. CASE x.pc = "idle"
      BY <3>1, <3>2, <3>3 DEF CmdInv, InTransaction
    <3>4. CASE x.pc # "idle"
      <4>1. PICK s \in Runs : s = x.run
        BY <3>1, <3>2, <3>4 DEF CmdInv
      <4>2. Writes(x) => Writes(x)'
        BY <2>1, <2>3, <4>1 DEF Writes, Follows
      <4>3. Drafted(x) => Drafted(x)'
        <5>1. coord'[s].pub = coord[s].pub /\ Outcome(x.draft, coord[s].pub) =>
                 Outcome(x.draft, coord[s].pub)'
          OBVIOUS
        <5>2. QED
          BY <2>1, <2>3, <4>1, <5>1 DEF Drafted
      <4>4. Fresh(p) => Fresh(p)'
        BY <2>1, <2>3, <3>1, <4>1 DEF Fresh
      <4>5. Confirmed(x) => Confirmed(x)'
        BY <2>1, <2>3, <4>1 DEF Confirmed
      <4>6. Holds(p)' = Holds(p)
        BY <2>1 DEF Holds
      <4>7. QED
        BY <2>1, <3>1, <3>2, <4>2, <4>3, <4>4, <4>5, <4>6 DEF CmdInv
    <3>5. QED
      BY <3>3, <3>4
  <2>5. CommandsInv'
    BY <2>1, <2>4 DEF RunIInv, CommandsInv, LocksInv
  <2>6. QED
    BY <2>2, <2>5 DEF RunIInv
<1>2. CASE \E p \in Callers : RunRequest(p) \/ RunStep(p) \/ RunStepFails(p) \/ ProcessStops(p)
                               \/ ConnectionLost(p)
  BY <1>2, OneMoves, StepKeeps
<1>3. CASE \E r \in Runs : \E v \in 1..Revision(r) : DeadlinePasses(r, v)
  BY <1>3, DeadlineKeeps
<1>4. QED
  BY <1>1, <1>2, <1>3 DEF RunNext, RunFault

\* Every store and every command keeps its type.
THEOREM TypeCorrect == RunSpec => []RunTypeOK
<1>1. RunIInv => RunTypeOK
  BY DEF RunIInv, StoresInv, StoresOK, CommandsInv, BoundsOK, RunTypeOK
<1>2. QED
  BY <1>1, InitInv, NextInv, PTL DEF RunSpec

\* EnrollRun, SaveTransition and AcknowledgePublication: a character is claimed
\* by the run it is inside of, and by the one it has left until that is
\* published; so it is never inside two, whatever fails on the way.
THEOREM ClaimsAlwaysMatchRoster == RunSpec => []ClaimsMatchRoster
<1>1. RunIInv => ClaimsMatchRoster
  BY DEF RunIInv, StoresInv
<1>2. QED
  BY <1>1, InitInv, NextInv, PTL DEF RunSpec

\* publishPending: what is acknowledged in SQL is what Valkey has, or what its
\* deadline has taken; no publication that comes late, no lost answer and no
\* lost lock leaves an older revision there.
THEOREM AcknowledgedIsAlwaysLive == RunSpec => []AcknowledgedIsLive
<1>1. RunIInv => AcknowledgedIsLive
  BY DEF RunIInv, StoresInv
<1>2. QED
  BY <1>1, InitInv, NextInv, PTL DEF RunSpec

\* claim_member.lua and release_member.lua: no reference outlives its claim as
\* long as no connection is lost, and none that is needed is ever missing.
THEOREM ReferencesAlwaysMatch == RunSpec => []ReferencesMatch
<1>1. RunIInv => ReferencesMatch
  BY DEF RunIInv, StoresInv
<1>2. QED
  BY <1>1, InitInv, NextInv, PTL DEF RunSpec

-----------------------------------------------------------------------------
(* Members are paid what they have earned, whole and once                  *)

\* A step of the roster's kind, or none at all.
Kept == UNCHANGED <<enrolled, settled>> /\ \A r \in Runs : coord'[r].pub.gain = coord[r].pub.gain

LEMMA KeptStutters ==
  ASSUME Kept
  PROVE UNCHANGED Roster_!rosterVars
<1>1. [r \in Runs |-> Roster(r)]' = [r \in Runs |-> Roster(r)]
  BY DEF Kept, Roster, Settled
<1>2. [r \in Runs |-> coord[r].pub.gain]' = [r \in Runs |-> coord[r].pub.gain]
  BY DEF Kept
<1>3. QED
  BY <1>1, <1>2 DEF Kept, Roster_!rosterVars

\* EnrollRun takes those in who are inside of no run.
LEMMA EnrolEnters ==
  ASSUME RunIInv, NEW p \in Callers, cmd[p].pc = "enrol", EnrolEffect(p)
  PROVE Roster_!RosterNext
<1>1. PICK x \in Commands : x = cmd[p]
  BY DEF RunIInv, CommandsInv
<1>2. PICK r \in Runs : r = x.run
  BY <1>1 DEF RunIInv, CommandsInv, CmdInv
<1>3. PICK u \in Publications : u = x.draft.pub
  BY DEF Commands, Drafts
<1>4. /\ \A c \in u.members : claims[c] = NoRun
      /\ enrolled' = [enrolled EXCEPT ![r] = u.members] /\ UNCHANGED settled
      /\ coord' = [coord EXCEPT ![r] = [pub |-> u, pending |-> TRUE, removed |-> {}]]
  BY <1>1, <1>2, <1>3 DEF EnrolEffect, Enrollable
<1>5. /\ Revision(r) = 0 /\ u.gain = NoGain /\ u.members # {} /\ u.members \subseteq Challengers
  BY <1>1, <1>2, <1>3 DEF RunIInv, CommandsInv, CmdInv, Fresh, Publications
<1>6. /\ coord[r].pub = NoPublication /\ settled[r] = {} /\ Roster(r) = {} /\ Settled(r) = {}
  BY <1>5 DEF RunIInv, StoresInv, RowsInv, RowInv, Roster, Settled
<1>7. /\ \A s \in Runs \ {r} : enrolled'[s] = enrolled[s] /\ coord'[s] = coord[s]
      /\ enrolled'[r] = u.members /\ coord'[r].pub = u
  BY <1>4 DEF RunIInv, StoresInv, StoresOK
<1>8. Roster(r)' = u.members /\ \A s \in Runs \ {r} : Roster(s)' = Roster(s)
  BY <1>4, <1>6, <1>7 DEF Roster, Settled
<1>9. [s \in Runs |-> Roster(s)]' = [[s \in Runs |-> Roster(s)] EXCEPT ![r] = u.members]
  BY <1>8
<1>10. [s \in Runs |-> coord[s].pub.gain]' = [s \in Runs |-> coord[s].pub.gain]
  BY <1>5, <1>6, <1>7 DEF NoPublication
<1>11. \A s \in Runs : Roster(s) \cap u.members = {}
  <2> SUFFICES ASSUME NEW s \in Runs, NEW c \in Roster(s), c \in u.members
               PROVE FALSE
    OBVIOUS
  <2>1. c \in Challengers
    BY <1>5
  <2>2. claims[c] = s
    BY <2>1 DEF RunIInv, StoresInv, ClaimsMatchRoster
  <2>3. QED
    BY <1>4, <2>2, RunsAssumption
<1>12. Roster_!Enter(r, u.members)
  BY <1>4, <1>6, <1>9, <1>10, <1>11 DEF Roster_!Enter
<1>13. u.members \in (SUBSET Challengers) \ {{}}
  BY <1>5
<1>14. QED
  BY <1>12, <1>13 DEF Roster_!RosterNext

\* SaveTransition lets members earn, or pays those who leave.
LEMMA SaveEarnsOrPays ==
  ASSUME RunIInv, NEW p \in Callers, cmd[p].pc = "commit", Holds(p), Saves(cmd[p]),
         RunCommitEffect(p), UNCHANGED cuts
  PROVE [Roster_!RosterNext]_Roster_!rosterVars
<1>1. PICK x \in Commands : x = cmd[p]
  BY DEF RunIInv, CommandsInv
<1>2. PICK r \in Runs : r = x.run
  BY <1>1 DEF RunIInv, CommandsInv, CmdInv
<1>3. PICK d \in Drafts : d = x.draft
  BY DEF Commands
<1>4. PICK u \in Publications : u = coord[r].pub
  BY DEF RunIInv, StoresInv, StoresOK, Coordinates
<1>5. Outcome(d, u) /\ Roster(r) = u.members /\ Roster(r)' = Roster(r) \ d.removed
  BY <1>1, <1>2, <1>3, <1>4, Saved DEF RunIInv
<1>6. /\ coord' = [coord EXCEPT ![r] = [pub |-> d.pub, pending |-> TRUE, removed |-> d.removed]]
      /\ settled' = [settled EXCEPT ![r] = settled[r] \cup d.pays]
      /\ UNCHANGED enrolled
  BY <1>1, <1>2, <1>3 DEF RunCommitEffect
<1>7. /\ d.pays = {<<c, u.gain[c]>> : c \in d.removed}
      /\ d.removed \subseteq Roster(r) /\ u.members \subseteq Challengers
      /\ coord'[r].pub = d.pub
      /\ \A s \in Runs \ {r} : coord'[s] = coord[s] /\ settled'[s] = settled[s]
  BY <1>5, <1>6 DEF Outcome, Publications, RunIInv, StoresInv, StoresOK
<1>8. \A s \in Runs \ {r} : Roster(s)' = Roster(s)
  BY <1>6, <1>7 DEF Roster, Settled
<1>9. [s \in Runs |-> coord[s].pub.gain]' = [[s \in Runs |-> coord[s].pub.gain] EXCEPT ![r] = d.pub.gain]
  BY <1>7
<1>10. [s \in Runs |-> Roster(s)]' =
          [[s \in Runs |-> Roster(s)] EXCEPT ![r] = [s \in Runs |-> Roster(s)][r] \ d.removed]
  BY <1>5, <1>8
<1>11. CASE d.removed # {}
  <2>1. d.pub.gain = [c \in Challengers |-> IF c \in d.removed THEN 0 ELSE u.gain[c]]
    BY <1>5, <1>11 DEF Outcome
  <2>2. [s \in Runs |-> coord[s].pub.gain][r] = u.gain /\ [s \in Runs |-> Roster(s)][r] = Roster(r)
    BY <1>4
  <2>3. settled' = [settled EXCEPT ![r] = settled[r] \cup
                      {<<c, [s \in Runs |-> coord[s].pub.gain][r][c]>> : c \in d.removed}]
    <3> DEFINE E == [s \in Runs |-> coord[s].pub.gain]
    <3>1. E[r] = u.gain
      BY <2>2
    <3> HIDE DEF E
    <3>2. {<<c, E[r][c]>> : c \in d.removed} = {<<c, u.gain[c]>> : c \in d.removed}
      BY <3>1
    <3>3. settled' = [settled EXCEPT ![r] = settled[r] \cup {<<c, E[r][c]>> : c \in d.removed}]
      BY <1>6, <1>7, <3>2
    <3>4. QED
      BY <3>3 DEF E
  <2>4. Roster_!Leave(r, d.removed)
    BY <1>9, <1>10, <2>1, <2>2, <2>3 DEF Roster_!Leave
  <2>5. d.removed \in (SUBSET [s \in Runs |-> Roster(s)][r]) \ {{}}
    BY <1>7, <1>11, <2>2
  <2>6. QED
    BY <2>4, <2>5 DEF Roster_!RosterNext
<1>12. CASE d.removed = {}
  <2>1. PICK S \in SUBSET u.members :
           d.pub.gain = [c \in Challengers |-> IF c \in S THEN u.gain[c] + 1 ELSE u.gain[c]]
    BY <1>5, <1>12 DEF Outcome
  <2>2. UNCHANGED settled
    BY <1>6, <1>7, <1>12 DEF RunIInv, StoresInv, StoresOK
  <2>3. [s \in Runs |-> Roster(s)]' = [s \in Runs |-> Roster(s)]
    BY <1>5, <1>8, <1>12
  <2>4. [s \in Runs |-> coord[s].pub.gain][r] = u.gain /\ [s \in Runs |-> Roster(s)][r] = Roster(r)
    BY <1>4
  <2>5. CASE S = {}
    <3>1. d.pub.gain = u.gain
      BY <2>1, <2>5 DEF Publications
    <3>2. [s \in Runs |-> coord[s].pub.gain]' = [s \in Runs |-> coord[s].pub.gain]
      BY <1>4, <1>7, <3>1
    <3>3. QED
      BY <2>2, <2>3, <3>2 DEF Roster_!rosterVars
  <2>6. CASE S # {}
    <3>1. Roster_!Earn(r, S)
      BY <1>9, <2>1, <2>2, <2>3, <2>4 DEF Roster_!Earn
    <3>2. S \in (SUBSET [s \in Runs |-> Roster(s)][r]) \ {{}}
      BY <1>5, <2>4, <2>6
    <3>3. QED
      BY <3>1, <3>2 DEF Roster_!RosterNext
  <2>7. QED
    BY <2>5, <2>6
<1>13. QED
  BY <1>11, <1>12

\* What only acknowledges leaves the roster as it is.
LEMMA AcknowledgmentKeeps ==
  ASSUME RunIInv, NEW r \in Runs, UNCHANGED <<enrolled, settled>>,
         coord' = [coord EXCEPT ![r] = [pub |-> @.pub, pending |-> FALSE, removed |-> {}]]
  PROVE Kept
<1>1. PICK u \in Publications : u = coord[r].pub
  BY DEF RunIInv, StoresInv, StoresOK, Coordinates
<1>2. coord'[r].pub = u /\ \A s \in Runs \ {r} : coord'[s] = coord[s]
  BY <1>1 DEF RunIInv, StoresInv, StoresOK
<1>3. QED
  BY <1>1, <1>2 DEF Kept

LEMMA CommitImplements ==
  ASSUME RunIInv, NEW p \in Callers, cmd[p].pc = "commit", Holds(p), RunCommitEffect(p),
         UNCHANGED cuts
  PROVE [Roster_!RosterNext]_Roster_!rosterVars
<1>1. PICK x \in Commands : x = cmd[p]
  BY DEF RunIInv, CommandsInv
<1>2. PICK r \in Runs : r = x.run
  BY <1>1 DEF RunIInv, CommandsInv, CmdInv
<1>3. CASE Saves(x)
  BY <1>1, <1>3, SaveEarnsOrPays
<1>4. CASE ~Saves(x)
  <2>1. x.draft.pays = {}
    BY <1>1, <1>4 DEF Saves, RunIInv, CommandsInv, CmdInv, Drafted
  <2>2. UNCHANGED <<enrolled, settled>>
    BY <1>1, <1>2, <2>1 DEF RunCommitEffect, RunIInv, StoresInv, StoresOK
  <2>3. CASE x.acked
    BY <1>1, <1>2, <1>4, <2>2, <2>3, AcknowledgmentKeeps, KeptStutters DEF RunCommitEffect
  <2>4. CASE ~x.acked
    BY <1>1, <1>4, <2>2, <2>4, KeptStutters DEF RunCommitEffect, Kept
  <2>5. QED
    BY <2>3, <2>4
<1>5. QED
  BY <1>3, <1>4

LEMMA NextImplements == RunIInv /\ [RunNext]_runVars => [Roster_!RosterNext]_Roster_!rosterVars
<1> SUFFICES ASSUME RunIInv, [RunNext]_runVars
             PROVE [Roster_!RosterNext]_Roster_!rosterVars
  OBVIOUS
<1>1. CASE UNCHANGED runSql
  BY <1>1, KeptStutters DEF runSql, Kept
<1>2. ASSUME NEW p \in Callers, EnrolEffect(p), cmd[p].pc = "enrol"
      PROVE [Roster_!RosterNext]_Roster_!rosterVars
  BY <1>2, EnrolEnters
<1>3. ASSUME NEW p \in Callers, RunAckEffect(p), cmd[p].pc = "ack"
      PROVE [Roster_!RosterNext]_Roster_!rosterVars
  <2>1. cmd[p].run \in Runs
    BY <1>3 DEF RunIInv, CommandsInv, CmdInv
  <2>2. QED
    BY <1>3, <2>1, AcknowledgmentKeeps, KeptStutters DEF RunAckEffect
<1>4. ASSUME NEW p \in Callers, RunCommitEffect(p), Holds(p), cmd[p].pc = "commit", UNCHANGED cuts
      PROVE [Roster_!RosterNext]_Roster_!rosterVars
  BY <1>4, CommitImplements
<1>5. CASE UNCHANGED runVars
  BY <1>1, <1>5 DEF runVars, runStores
<1>6. ASSUME NEW p \in Callers, RunRequest(p)
      PROVE UNCHANGED runSql
  BY <1>6 DEF RunRequest, StartRun, Command, runStores
<1>7. ASSUME NEW p \in Callers, RunStep(p)
      PROVE [Roster_!RosterNext]_Roster_!rosterVars
  <2>1. CASE AcknowledgeRun(p)
    BY <1>3, <2>1 DEF AcknowledgeRun
  <2>2. CASE Enrol(p)
    BY <1>1, <1>2, <2>2 DEF Enrol, runStores
  <2>3. CASE RunCommit(p)
    BY <1>1, <1>4, <2>3 DEF RunCommit, runBounds
  <2>4. CASE LockAgain(p) \/ Check(p) \/ Receipt(p) \/ StepRefused(p)
    BY <1>1, <2>4 DEF LockAgain, Check, Receipt, StepRefused, runStores
  <2>5. CASE PublishHash(p)
    BY <1>1, <2>5 DEF PublishHash, HashEffect
  <2>6. CASE \E c \in Challengers : ClaimMember(p, c) \/ ReleaseMember(p, c)
    BY <1>1, <2>6 DEF ClaimMember, ReleaseMember, ClaimEffect, ReleaseEffect
  <2>7. QED
    BY <1>7, <2>1, <2>2, <2>3, <2>4, <2>5, <2>6 DEF RunStep
<1>8. ASSUME NEW p \in Callers, RunStepFails(p)
      PROVE [Roster_!RosterNext]_Roster_!rosterVars
  <2>1. UNCHANGED cuts
    BY <1>8 DEF RunStepFails
  <2>2. \/ UNCHANGED runSql
        \/ cmd[p].pc = "enrol" /\ EnrolEffect(p)
        \/ cmd[p].pc = "ack" /\ RunAckEffect(p)
        \/ cmd[p].pc = "commit" /\ Holds(p) /\ RunCommitEffect(p)
    BY <1>8 DEF RunStepFails, HashEffect, ClaimEffect, ReleaseEffect
  <2>3. QED
    BY <1>1, <1>2, <1>3, <1>4, <2>1, <2>2
<1>9. ASSUME NEW p \in Callers, ProcessStops(p) \/ ConnectionLost(p)
      PROVE UNCHANGED runSql
  BY <1>9 DEF ProcessStops, ConnectionLost
<1>10. ASSUME NEW r \in Runs, NEW v \in 1..Revision(r), DeadlinePasses(r, v)
       PROVE UNCHANGED runSql
  BY <1>10 DEF DeadlinePasses
<1>11. QED
  BY <1>1, <1>5, <1>6, <1>7, <1>8, <1>9, <1>10 DEF RunNext, RunFault

\* Members are paid what they have earned, whole and once: every start is an
\* Enter, every round and every exit that is saved an Earn or a Leave, and
\* nothing else that a command does, or fails to do, is seen of it.
THEOREM PaidRosterImplemented == RunSpec => ImplementsPaidRoster
<1>1. RunInit => Roster_!RosterInit
  <2> SUFFICES ASSUME RunInit
               PROVE Roster_!RosterInit
    OBVIOUS
  <2>1. \A r \in Runs : Roster(r) = {} /\ coord[r].pub.gain = NoGain
    BY DEF RunInit, Roster, NoPublication
  <2>2. Roster_!Nothing = NoGain
    BY DEF Roster_!Nothing, NoGain
  <2>3. QED
    BY <2>1, <2>2 DEF Roster_!RosterInit, RunInit
<1>2. QED
  BY <1>1, InitInv, NextInv, NextImplements, PTL DEF RunSpec, ImplementsPaidRoster, Roster_!RosterSpec
=============================================================================
