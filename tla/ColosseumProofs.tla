-------------------------- MODULE ColosseumProofs --------------------------
(***************************************************************************)
(* Proofs about Colosseum, for every number of callers, characters and     *)
(* rooms, and whatever fails, expires or overlaps.  Locks play no part in  *)
(* what is proved of the money: versions and claims alone protect it.      *)
(* They matter for what Valkey shows, which the last section is about.     *)
(*                                                                         *)
(* The inductive invariant says what the version of a room's state is      *)
(* worth: a room in Valkey, or in the hands of a call, that carries the    *)
(* version of the committed transition has its roster and its pool, and a  *)
(* transition proposed on top of it moves exactly the bets it should.      *)
(* Once another transition is committed, the proposal is out of date and   *)
(* the row's version refuses it.                                           *)
(***************************************************************************)
EXTENDS Colosseum, FiniteSetTheorems, TLAPS

Live == {"recruiting", "in_progress"}

\* The bets that a room in state m holds.
StakesOf(m) == IF m.status \in Live THEN m.members ELSE {}

WellFormed(d) ==
    d.status \in Live => d.leader \in d.members /\ d.pool = Bet * Cardinality(d.members)

\* d is as old as the committed state m, or agrees with it.
Follows(d, m) ==
    /\ d.version <= m.version
    /\ d.version = m.version /\ d.status \in Live =>
          m.status \in Live /\ d.members = m.members

\* t moves the bets it should out of or into a room that holds those of S.
Fits(t, S) ==
    \/ /\ t.detail.status = "recruiting"
       /\ t.payees = {} /\ t.removed = {}
       /\ \E c \in Characters : t.added = {c} /\ t.detail.members = S \cup {c}
    \/ /\ t.detail.status = "recruiting"
       /\ t.added = {} /\ t.amount = Bet
       /\ \E c \in S : t.removed = {c} /\ t.payees = {c} /\ t.detail.members = S \ {c}
    \/ /\ t.detail.status = "disbanded"
       /\ t.added = {} /\ t.removed = S /\ t.payees = S /\ t.amount = Bet
       /\ S # {} /\ t.detail.members = S
    \/ /\ t.detail.status = "completed"
       /\ t.added = {} /\ t.removed = {} /\ t.payees \subseteq S /\ t.payees # {}
       /\ t.amount = (Bet * Cardinality(S)) \div Cardinality(t.payees)
       /\ t.detail.members = S

Proposed(t, m) ==
    /\ t.pending /\ WellFormed(t.detail)
    /\ t.detail.version <= m.version + 1
    /\ t.detail.version = m.version + 1 => m.status \notin Finished /\ Fits(t, StakesOf(m))

\* What a call at each step may rely on, with F the committed states.
CallInv(x, F) ==
    /\ x.pc \notin {"idle", "check"} => x.at \in Rooms
    /\ x.pc \in {"check", "act", "unmap"} => x.actor \in Characters
    /\ x.pc \in {"check", "lock", "read"} => x.phase # "done"
    /\ x.pc # "idle" /\ x.phase # "done" =>
          x.actor \in Characters /\ (x.op = "create" \/ x.room \in Rooms)
    /\ x.pc = "commit" \/ (x.pc = "lock" /\ x.phase = "sync" /\ x.op = "create") =>
          Proposed(x.draft, F[x.at])
    /\ x.pc \in {"room", "maps", "ack", "save"} =>
          WellFormed(x.draft.detail) /\ Follows(x.draft.detail, F[x.at])

CommittedInv(t) ==
    /\ WellFormed(t.detail)
    /\ t.detail.version = 0 => t.detail.status = "missing"
    /\ StakesOf(t.detail) \cap t.removed = {}

Finance == [r \in Rooms |-> committed[r].detail]

RowsInv == \A r \in Rooms : CommittedInv(committed[r])
CacheInv == \A r \in Rooms : WellFormed(roomKey[r]) /\ Follows(roomKey[r], committed[r].detail)
CallsInv == \A p \in Callers : CallInv(call[p], Finance)

StoreInv == StoresTypeOK /\ RowsInv /\ ClaimsMatchStakes /\ CacheInv
IInv == TypeOK /\ RowsInv /\ ClaimsMatchStakes /\ CacheInv /\ CallsInv

-----------------------------------------------------------------------------
(* Records and versions                                                    *)
LEMMA StakesAgree ==
  ASSUME StoresTypeOK
  PROVE \A r \in Rooms : Stakes(r) = StakesOf(committed[r].detail)
<1>1. \A r \in Rooms : committed[r].detail.status \in Statuses
  BY DEF StoresTypeOK, Transitions, Details
<1>2. QED
  BY <1>1 DEF Stakes, Open, StakesOf, Live, Finished, Statuses

\* The absent key and the zero transition are what a room without history has.
LEMMA EmptyTyped ==
  /\ NoDetail \in Details /\ NoTransition \in Transitions /\ Idle \in Calls
<1>1. NoDetail \in Details
  BY ConstantsAssumption DEF NoDetail, Details, Statuses
<1>2. NoTransition \in Transitions
  BY <1>1 DEF NoTransition, Transitions
<1>3. Idle \in Calls
  BY <1>2 DEF Idle, Calls, Steps, Operations
<1>4. QED
  BY <1>1, <1>2, <1>3

LEMMA EmptySound ==
  ASSUME NEW m \in Details
  PROVE WellFormed(NoDetail) /\ Follows(NoDetail, m)
BY DEF NoDetail, WellFormed, Follows, Live, Details

\* A later commit makes everything else out of date.
LEMMA Outdated ==
  ASSUME NEW m \in Details, NEW n \in Details, n.version = m.version + 1
  PROVE /\ \A d \in Details : Follows(d, m) => Follows(d, n)
        /\ \A t \in Transitions : Proposed(t, m) => Proposed(t, n)
<1>1. ASSUME NEW d \in Details, Follows(d, m)
      PROVE Follows(d, n)
  BY <1>1 DEF Follows, Details
<1>2. ASSUME NEW t \in Transitions, Proposed(t, m)
      PROVE Proposed(t, n)
  <2>1. t.detail.version \in Nat /\ m.version \in Nat /\ n.version \in Nat
    BY DEF Transitions, Details
  <2>2. t.detail.version <= m.version + 1 /\ t.pending /\ WellFormed(t.detail)
    BY <1>2 DEF Proposed
  <2>3. t.detail.version <= n.version + 1 /\ t.detail.version # n.version + 1
    BY <2>1, <2>2
  <2>4. QED
    BY <2>2, <2>3 DEF Proposed
<1>3. QED
  BY <1>1, <1>2

-----------------------------------------------------------------------------
(* Calls                                                                   *)
LEMMA CallMoves ==
  ASSUME call \in [Callers -> Calls], CallsInv,
         NEW p \in Callers, NEW x \in Calls,
         Becomes(p, x), Finance' = Finance, CallInv(x, Finance)
  PROVE (call \in [Callers -> Calls])' /\ CallsInv'
<1>1. call' = [call EXCEPT ![p] = x]
  BY DEF Becomes
<1>2. call' \in [Callers -> Calls]
  BY <1>1
<1>3. ASSUME NEW q \in Callers
      PROVE CallInv(call'[q], Finance')
  <2>1. CASE q = p
    BY <1>1, <2>1
  <2>2. CASE q # p
    <3>1. call'[q] = call[q]
      BY <1>1, <2>2
    <3>2. CallInv(call[q], Finance)
      BY DEF CallsInv
    <3>3. QED
      BY <3>1, <3>2
  <2>3. QED
    BY <2>1, <2>2
<1>4. QED
  BY <1>2, <1>3 DEF CallsInv

LEMMA CallsStay ==
  ASSUME call \in [Callers -> Calls], CallsInv, UNCHANGED call, Finance' = Finance
  PROVE (call \in [Callers -> Calls])' /\ CallsInv'
BY DEF CallsInv

\* What a call does not rely on any more.
LEMMA IdleFits ==
  /\ CallInv(Idle, Finance)
  /\ \A r \in Rooms :
        LET x == [Idle EXCEPT !.pc = "unlock", !.phase = "done", !.at = r] IN
        x \in Calls /\ CallInv(x, Finance)
<1>1. Idle \in Calls
  BY EmptyTyped
<1>2. CallInv(Idle, Finance)
  BY DEF CallInv, Idle
<1>3. ASSUME NEW r \in Rooms
      PROVE LET x == [Idle EXCEPT !.pc = "unlock", !.phase = "done", !.at = r] IN
            x \in Calls /\ CallInv(x, Finance)
  <2> DEFINE x == [Idle EXCEPT !.pc = "unlock", !.phase = "done", !.at = r]
  <2>1. x.pc = "unlock" /\ x.phase = "done" /\ x.at = r
    BY DEF Idle
  <2>2. x \in Calls
    BY <1>1, <2>1 DEF Calls, Idle, Steps
  <2>3. CallInv(x, Finance)
    BY <2>1 DEF CallInv
  <2>4. QED
    BY <2>2, <2>3
<1>4. QED
  BY <1>2, <1>3

LEMMA Quits ==
  ASSUME TypeOK, CallsInv, NEW p \in Callers, call[p].at \in Rooms, Quit(p), Finance' = Finance
  PROVE (call \in [Callers -> Calls])' /\ CallsInv'
<1>1. call \in [Callers -> Calls]
  BY DEF TypeOK, CallsTypeOK
<1> DEFINE x == [Idle EXCEPT !.pc = "unlock", !.phase = "done", !.at = call[p].at]
<1>2. x \in Calls /\ CallInv(x, Finance)
  BY IdleFits
<1>3. Becomes(p, x)
  BY DEF Quit
<1>4. QED
  BY <1>1, <1>2, <1>3, CallMoves

LEMMA Returns ==
  ASSUME TypeOK, CallsInv, NEW p \in Callers, Return(p), Finance' = Finance
  PROVE (call \in [Callers -> Calls])' /\ CallsInv'
<1>1. call \in [Callers -> Calls]
  BY DEF TypeOK, CallsTypeOK
<1>2. Becomes(p, Idle)
  BY DEF Return
<1>3. QED
  BY <1>1, <1>2, IdleFits, EmptyTyped, CallMoves

-----------------------------------------------------------------------------
(* Effects on the cache                                                    *)
LEMMA RowsStay ==
  ASSUME UNCHANGED sql, RowsInv, ClaimsMatchStakes
  PROVE RowsInv' /\ ClaimsMatchStakes' /\ Finance' = Finance
BY DEF sql, RowsInv, ClaimsMatchStakes, Finance, Stakes, Open

\* One room's key is written with d.
LEMMA RoomWritten ==
  ASSUME StoreInv, NEW r \in Rooms, NEW d \in Details,
         WellFormed(d), Follows(d, committed[r].detail),
         roomKey' = [roomKey EXCEPT ![r] = d], UNCHANGED <<sql, mapping, lock>>
  PROVE StoreInv' /\ Finance' = Finance
<1>1. RowsInv' /\ ClaimsMatchStakes' /\ Finance' = Finance
  BY RowsStay DEF StoreInv
<1>2. StoresTypeOK'
  BY DEF StoreInv, StoresTypeOK, sql
<1>3. CacheInv'
  <2>1. ASSUME NEW s \in Rooms
        PROVE WellFormed(roomKey'[s]) /\ Follows(roomKey'[s], committed'[s].detail)
    <3>1. committed' = committed /\ roomKey'[s] = IF s = r THEN d ELSE roomKey[s]
      BY DEF StoreInv, StoresTypeOK, sql
    <3>2. QED
      BY <3>1 DEF StoreInv, CacheInv
  <2>2. QED
    BY <2>1 DEF CacheInv
<1>4. QED
  BY <1>1, <1>2, <1>3 DEF StoreInv

LEMMA CacheUntouched ==
  ASSUME StoreInv, UNCHANGED <<sql, roomKey>>,
         mapping' \in [Characters -> Rooms \cup {NoRoom}],
         lock' \in [Rooms -> Callers \cup {Free, Orphan}]
  PROVE StoreInv' /\ Finance' = Finance
<1>1. RowsInv' /\ ClaimsMatchStakes' /\ Finance' = Finance
  BY RowsStay DEF StoreInv
<1>2. StoresTypeOK' /\ CacheInv'
  BY DEF StoreInv, StoresTypeOK, CacheInv, sql
<1>3. QED
  BY <1>1, <1>2 DEF StoreInv

-----------------------------------------------------------------------------
(* Effects on SQL                                                          *)
\* An acknowledgement releases no claim that still stands for a bet.
LEMMA Acknowledges ==
  ASSUME StoreInv, NEW p \in Callers, call[p].at \in Rooms, AckEffect(p)
  PROVE StoreInv' /\ Finance' = Finance
<1> DEFINE r == call[p].at
<1> DEFINE t == committed[r]
<1>1. r \in Rooms /\ t \in Transitions
  BY DEF StoreInv, StoresTypeOK
<1>2. /\ claim' = [c \in Characters |-> IF c \in Released(t) /\ claim[c] = r THEN NoRoom ELSE claim[c]]
      /\ committed' = [committed EXCEPT ![r].pending = FALSE]
      /\ UNCHANGED <<money, cache, lock>>
  BY DEF AckEffect
<1>3. \A s \in Rooms : /\ committed'[s].detail = committed[s].detail
                       /\ committed'[s].removed = committed[s].removed
                       /\ committed'[s].pending = (IF s = r THEN FALSE ELSE committed[s].pending)
  BY <1>1, <1>2 DEF StoreInv, StoresTypeOK, Transitions
<1>4. StoresTypeOK'
  <2>1. committed' \in [Rooms -> Transitions]
    BY <1>1, <1>2 DEF StoreInv, StoresTypeOK, Transitions
  <2>2. claim' \in [Characters -> Rooms \cup {NoRoom}]
    BY <1>2 DEF StoreInv, StoresTypeOK
  <2>3. QED
    BY <1>2, <2>1, <2>2 DEF StoreInv, StoresTypeOK, cache
<1>5. Finance' = Finance
  BY <1>3 DEF Finance
<1>6. RowsInv' /\ CacheInv'
  BY <1>2, <1>3 DEF StoreInv, RowsInv, CommittedInv, CacheInv, cache
<1>7. ASSUME NEW c \in Characters, NEW s \in Rooms
      PROVE claim'[c] = s <=> \/ c \in Stakes(s)'
                              \/ committed'[s].pending /\ c \in Released(committed'[s])
  <2>1. Stakes(s)' = Stakes(s) /\ Released(committed'[s]) = Released(committed[s])
    BY <1>3 DEF Stakes, Open, Released
  <2>2. claim[c] = s <=> c \in Stakes(s) \/ (committed[s].pending /\ c \in Released(committed[s]))
    BY DEF StoreInv, ClaimsMatchStakes
  <2>3. claim'[c] = IF c \in Released(t) /\ claim[c] = r THEN NoRoom ELSE claim[c]
    BY <1>2
  <2>4. CASE s = r
    <3>1. c \in Stakes(r) => c \notin Released(t)
      <4>1. StakesOf(t.detail) \cap t.removed = {} /\ Stakes(r) = StakesOf(t.detail)
        BY <1>1, StakesAgree DEF StoreInv, RowsInv, CommittedInv
      <4>2. QED
        BY <4>1 DEF StakesOf, Released, Live
    <3>2. committed'[s].pending = FALSE
      BY <1>3, <2>4
    <3>3. QED
      BY <2>1, <2>2, <2>3, <2>4, <3>1, <3>2, ConstantsAssumption
  <2>5. CASE s # r
    <3>1. committed'[s].pending = committed[s].pending
      BY <1>3, <2>5
    <3>2. claim'[c] = s <=> claim[c] = s
      BY <2>3, <2>5, ConstantsAssumption
    <3>3. QED
      BY <2>1, <2>2, <3>1, <3>2
  <2>6. QED
    BY <2>4, <2>5
<1>8. ClaimsMatchStakes'
  BY <1>7 DEF ClaimsMatchStakes
<1>9. QED
  BY <1>4, <1>5, <1>6, <1>8 DEF StoreInv

\* What an accepted proposal knows of the row it replaces.
LEMMA AcceptedFits ==
  ASSUME StoreInv, NEW p \in Callers, call[p].at \in Rooms, call[p].draft \in Transitions,
         Accepted(p), Proposed(call[p].draft, committed[call[p].at].detail)
  PROVE LET t == call[p].draft
            r == call[p].at IN
        /\ Fits(t, Stakes(r)) /\ WellFormed(t.detail) /\ t.pending
        /\ t.detail.version = committed[r].detail.version + 1
        /\ ~committed[r].pending /\ committed[r].detail.status \notin Finished
        /\ \A c \in Characters : claim[c] = r <=> c \in Stakes(r)
        /\ \A c \in t.added : money[c] >= Bet /\ \A s \in Rooms : c \notin Stakes(s)
<1> DEFINE t == call[p].draft
<1> DEFINE r == call[p].at
<1>1. /\ t.detail.version = committed[r].detail.version + 1
      /\ ~committed[r].pending /\ committed[r].detail.status \notin Finished
      /\ \A c \in t.added : money[c] >= Bet /\ claim[c] = NoRoom
  BY DEF Accepted
<1>2. Fits(t, StakesOf(committed[r].detail)) /\ WellFormed(t.detail) /\ t.pending
  BY <1>1 DEF Proposed
<1>3. Stakes(r) = StakesOf(committed[r].detail)
  BY StakesAgree DEF StoreInv
<1>4. \A c \in Characters : claim[c] = r <=> c \in Stakes(r)
  BY <1>1 DEF StoreInv, ClaimsMatchStakes
<1>5. t.added \subseteq Characters
  BY DEF Transitions
<1>6. \A c \in t.added, s \in Rooms : c \notin Stakes(s)
  BY <1>1, <1>5, ConstantsAssumption DEF StoreInv, ClaimsMatchStakes
<1>7. QED
  BY <1>1, <1>2, <1>3, <1>4, <1>6

LEMMA CreditTyped ==
  ASSUME NEW w, w \in [Characters -> 0..MaxMoney], NEW S, NEW n \in Nat
  PROVE Credit(w, S, n) \in [Characters -> 0..MaxMoney]
<1>1. ASSUME NEW c \in Characters
      PROVE (IF c \notin S THEN w[c] ELSE IF w[c] + n > MaxMoney THEN MaxMoney ELSE w[c] + n)
               \in 0..MaxMoney
  <2>1. w[c] \in 0..MaxMoney /\ MaxMoney \in Nat
    BY ConstantsAssumption
  <2>2. QED
    BY <2>1
<1>2. QED
  BY <1>1 DEF Credit

\* The stakes and the claims that a fitting transition leaves.
LEMMA FittingClaims ==
  ASSUME NEW S \in SUBSET Characters, NEW t \in Transitions, t.pending, Fits(t, S)
  PROVE /\ StakesOf(t.detail) \cup Released(t) = S \cup t.added
        /\ StakesOf(t.detail) \cap t.removed = {}
        /\ t.detail.status # "missing" /\ t.amount \in Nat
<1> USE DEF StakesOf, Released, Live
<1>0. t.amount \in Nat
  BY DEF Transitions
<1>1. CASE /\ t.detail.status = "recruiting"
           /\ t.payees = {} /\ t.removed = {}
           /\ \E c \in Characters : t.added = {c} /\ t.detail.members = S \cup {c}
  BY <1>0, <1>1
<1>2. CASE /\ t.detail.status = "recruiting"
           /\ t.added = {} /\ t.amount = Bet
           /\ \E c \in S : t.removed = {c} /\ t.payees = {c} /\ t.detail.members = S \ {c}
  BY <1>0, <1>2
<1>3. CASE /\ t.detail.status = "disbanded"
           /\ t.added = {} /\ t.removed = S /\ t.payees = S /\ t.amount = Bet
           /\ S # {} /\ t.detail.members = S
  BY <1>0, <1>3
<1>4. CASE /\ t.detail.status = "completed"
           /\ t.added = {} /\ t.removed = {} /\ t.payees \subseteq S /\ t.payees # {}
           /\ t.amount = (Bet * Cardinality(S)) \div Cardinality(t.payees)
           /\ t.detail.members = S
  BY <1>0, <1>4
<1>5. QED
  BY <1>1, <1>2, <1>3, <1>4 DEF Fits

LEMMA Commits ==
  ASSUME StoreInv, NEW p \in Callers, call[p].at \in Rooms, call[p].draft \in Transitions,
         CommitEffect(p), Proposed(call[p].draft, committed[call[p].at].detail)
  PROVE /\ StoreInv'
        /\ committed' = [committed EXCEPT ![call[p].at] = call[p].draft]
        /\ Finance' = [Finance EXCEPT ![call[p].at] = call[p].draft.detail]
<1> DEFINE t == call[p].draft
<1> DEFINE r == call[p].at
<1> DEFINE S == Stakes(r)
<1> DEFINE w == [c \in Characters |-> IF c \in t.added THEN money[c] - Bet ELSE money[c]]
<1>1. /\ money' = Credit(w, t.payees, t.amount)
      /\ claim' = [c \in Characters |-> IF c \in t.added THEN r ELSE claim[c]]
      /\ committed' = [committed EXCEPT ![r] = t]
      /\ UNCHANGED <<cache, lock>> /\ Accepted(p)
  BY DEF CommitEffect
<1>2. /\ Fits(t, S) /\ WellFormed(t.detail) /\ t.pending
      /\ t.detail.version = committed[r].detail.version + 1
      /\ ~committed[r].pending
      /\ \A c \in Characters : claim[c] = r <=> c \in S
      /\ \A c \in t.added : money[c] >= Bet /\ \A s \in Rooms : c \notin Stakes(s)
  BY <1>1, AcceptedFits
<1>3. committed \in [Rooms -> Transitions] /\ r \in Rooms /\ t \in Transitions
  BY DEF StoreInv, StoresTypeOK
<1>4. S \in SUBSET Characters
  BY <1>3 DEF Stakes, Transitions, Details
<1>5. /\ StakesOf(t.detail) \cup Released(t) = S \cup t.added
      /\ StakesOf(t.detail) \cap t.removed = {}
      /\ t.detail.status # "missing" /\ t.amount \in Nat
  BY <1>2, <1>3, <1>4, FittingClaims
<1>6. \A s \in Rooms : committed'[s] = IF s = r THEN t ELSE committed[s]
  BY <1>1, <1>3
<1>7. Finance' = [Finance EXCEPT ![r] = t.detail]
  BY <1>3, <1>6 DEF Finance
<1>8. StoresTypeOK'
  <2>1. w \in [Characters -> 0..MaxMoney]
    <3>1. ASSUME NEW c \in Characters
          PROVE (IF c \in t.added THEN money[c] - Bet ELSE money[c]) \in 0..MaxMoney
      BY <1>2, ConstantsAssumption DEF StoreInv, StoresTypeOK
    <3>2. QED
      BY <3>1
  <2>2. money' \in [Characters -> 0..MaxMoney]
    BY <1>1, <1>5, <2>1, CreditTyped
  <2>3. claim' \in [Characters -> Rooms \cup {NoRoom}]
    BY <1>1, <1>3 DEF StoreInv, StoresTypeOK
  <2>4. committed' \in [Rooms -> Transitions]
    BY <1>1, <1>3
  <2>5. QED
    BY <1>1, <2>2, <2>3, <2>4 DEF StoreInv, StoresTypeOK, cache
<1>9. RowsInv'
  <2>1. t.detail.version # 0
    <3>1. committed[r].detail.version \in Nat
      BY <1>3 DEF Transitions, Details
    <3>2. QED
      BY <1>2, <3>1
  <2>2. CommittedInv(t)
    BY <1>2, <1>5, <2>1 DEF CommittedInv
  <2>3. QED
    BY <1>6, <2>2 DEF StoreInv, RowsInv
<1>10. CacheInv'
  <2>1. ASSUME NEW s \in Rooms
        PROVE WellFormed(roomKey'[s]) /\ Follows(roomKey'[s], committed'[s].detail)
    <3>1. /\ roomKey' = roomKey /\ roomKey[s] \in Details
          /\ WellFormed(roomKey[s]) /\ Follows(roomKey[s], committed[s].detail)
      BY <1>1 DEF StoreInv, StoresTypeOK, CacheInv, cache
    <3>2. committed[r].detail \in Details /\ t.detail \in Details
      BY <1>3 DEF Transitions
    <3>3. CASE s = r
      BY <1>2, <1>6, <3>1, <3>2, <3>3, Outdated
    <3>4. CASE s # r
      BY <1>6, <3>1, <3>4
    <3>5. QED
      BY <3>3, <3>4
  <2>2. QED
    BY <2>1 DEF CacheInv
<1>11. ClaimsMatchStakes'
  <2>1. \A s \in Rooms : Stakes(s)' = IF s = r THEN StakesOf(t.detail) ELSE Stakes(s)
    <3>1. t.detail.status \in Statuses
      BY <1>3 DEF Transitions, Details
    <3>2. QED
      BY <1>6, <3>1 DEF Stakes, Open, StakesOf, Live, Finished, Statuses
  <2>2. ASSUME NEW c \in Characters, NEW s \in Rooms
        PROVE claim'[c] = s <=> \/ c \in Stakes(s)'
                                \/ committed'[s].pending /\ c \in Released(committed'[s])
    <3>1. claim'[c] = IF c \in t.added THEN r ELSE claim[c]
      BY <1>1
    <3>2. claim[c] = s <=> c \in Stakes(s) \/ (committed[s].pending /\ c \in Released(committed[s]))
      BY DEF StoreInv, ClaimsMatchStakes
    <3>3. c \in t.added => claim[c] = NoRoom
      BY <1>1 DEF Accepted
    <3>4. CASE s = r
      <4>1. claim'[c] = r <=> c \in S \cup t.added
        BY <1>2, <3>1
      <4>2. (c \in Stakes(s)' \/ (committed'[s].pending /\ c \in Released(committed'[s])))
               <=> c \in StakesOf(t.detail) \cup Released(t)
        BY <1>2, <1>6, <2>1, <3>4
      <4>3. QED
        BY <1>5, <3>4, <4>1, <4>2
    <3>5. CASE s # r
      <4>1. claim'[c] = s <=> claim[c] = s
        BY <3>1, <3>3, <3>5, ConstantsAssumption
      <4>2. Stakes(s)' = Stakes(s) /\ committed'[s] = committed[s]
        BY <1>6, <2>1, <3>5
      <4>3. QED
        BY <3>2, <4>1, <4>2
    <3>6. QED
      BY <3>4, <3>5
  <2>3. QED
    BY <2>2 DEF ClaimsMatchStakes
<1>12. QED
  BY <1>1, <1>7, <1>8, <1>9, <1>10, <1>11 DEF StoreInv

\* The calls after a commit of room r's next state.
LEMMA CallsOutdated ==
  ASSUME TypeOK, CallsInv, NEW p \in Callers, call[p].at \in Rooms, NEW m \in Details,
         m.version = committed[call[p].at].detail.version + 1,
         Finance' = [Finance EXCEPT ![call[p].at] = m],
         NEW x \in Calls, Becomes(p, x), CallInv(x, Finance')
  PROVE (call \in [Callers -> Calls])' /\ CallsInv'
<1> DEFINE r == call[p].at
<1>1. call \in [Callers -> Calls] /\ call' = [call EXCEPT ![p] = x]
  BY DEF TypeOK, CallsTypeOK, Becomes
<1>2. call' \in [Callers -> Calls]
  BY <1>1
<1>3. ASSUME NEW q \in Callers
      PROVE CallInv(call'[q], Finance')
  <2>1. CASE q = p
    BY <1>1, <2>1
  <2>2. CASE q # p
    <3> DEFINE y == call[q]
    <3>1. call'[q] = y /\ y \in Calls /\ CallInv(y, Finance)
      BY <1>1, <2>2 DEF CallsInv
    <3>2. y.draft \in Transitions /\ y.draft.detail \in Details
      BY <3>1 DEF Calls, Transitions
    <3>3. \A s \in Rooms : /\ Finance[s] \in Details /\ Finance[s] = committed[s].detail
                           /\ Finance'[s] = IF s = r THEN m ELSE Finance[s]
      BY DEF Finance, TypeOK, StoresTypeOK, Transitions
    <3>4. ASSUME NEW s \in Rooms
          PROVE /\ Proposed(y.draft, Finance[s]) => Proposed(y.draft, Finance'[s])
                /\ Follows(y.draft.detail, Finance[s]) => Follows(y.draft.detail, Finance'[s])
      <4>1. CASE s = r
        BY <3>2, <3>3, <4>1, Outdated
      <4>2. CASE s # r
        BY <3>3, <4>2
      <4>3. QED
        BY <4>1, <4>2
    <3>5. CallInv(y, Finance')
      BY <3>1, <3>4 DEF CallInv
    <3>6. QED
      BY <3>1, <3>5
  <2>3. QED
    BY <2>1, <2>2
<1>4. QED
  BY <1>2, <1>3 DEF CallsInv

-----------------------------------------------------------------------------
(* Pools                                                                   *)
LEMMA PoolArithmetic ==
  ASSUME NEW n \in Nat
  PROVE Bet * (n + 1) = Bet * n + Bet /\ Bet * n \in Nat
BY ConstantsAssumption

LEMMA Rosters ==
  ASSUME NEW S \in SUBSET Characters
  PROVE /\ IsFiniteSet(S) /\ Cardinality(S) \in Nat
        /\ S # {} => Cardinality(S) > 0
        /\ \A c \in Characters \ S : Cardinality(S \cup {c}) = Cardinality(S) + 1
        /\ \A c \in S : Cardinality(S) = Cardinality(S \ {c}) + 1
<1>1. IsFiniteSet(S)
  BY ConstantsAssumption, FS_Subset
<1>2. Cardinality(S) \in Nat
  BY <1>1, FS_CardinalityType
<1>3. S # {} => Cardinality(S) > 0
  BY <1>1, <1>2, FS_EmptySet
<1>4. \A c \in Characters \ S : Cardinality(S \cup {c}) = Cardinality(S) + 1
  BY <1>1, FS_AddElement
<1>5. ASSUME NEW c \in S
      PROVE Cardinality(S) = Cardinality(S \ {c}) + 1
  <2>1. IsFiniteSet(S \ {c}) /\ c \notin S \ {c} /\ (S \ {c}) \cup {c} = S
    BY <1>1, FS_Subset
  <2>2. QED
    BY <2>1, FS_AddElement
<1>6. QED
  BY <1>1, <1>2, <1>3, <1>4, <1>5

Edited(d, M, n) == [d EXCEPT !.members = M, !.pool = n]

LEMMA RosterEdited ==
  ASSUME NEW d \in Details, NEW M \in SUBSET Characters, NEW n \in Nat
  PROVE /\ Edited(d, M, n) \in Details
        /\ Edited(d, M, n).members = M /\ Edited(d, M, n).pool = n
        /\ Edited(d, M, n).status = d.status /\ Edited(d, M, n).version = d.version
        /\ Edited(d, M, n).leader = d.leader
BY DEF Details, Edited

-----------------------------------------------------------------------------
(* What the operations leave to be written                                 *)
LEMMA Rewrites ==
  ASSUME IInv, NEW p \in Callers, call[p].pc = "act", call[p].at \in Rooms,
         NEW d \in Details, WellFormed(d), Follows(d, committed[call[p].at].detail),
         Rewrite(p, d), Finance' = Finance
  PROVE (call \in [Callers -> Calls])' /\ CallsInv'
<1> DEFINE t == [NoTransition EXCEPT !.detail = d]
<1> DEFINE x == [call[p] EXCEPT !.pc = "save", !.ver = 0, !.draft = t]
<1>1. call \in [Callers -> Calls] /\ CallsInv
  BY DEF IInv, TypeOK, CallsTypeOK
<1>2. t \in Transitions /\ t.detail = d
  BY EmptyTyped DEF Transitions, NoTransition
<1>3. /\ x \in Calls /\ x.pc = "save" /\ x.at = call[p].at /\ x.draft = t
      /\ x.phase = call[p].phase /\ x.op = call[p].op /\ x.actor = call[p].actor
      /\ x.room = call[p].room
  BY <1>1, <1>2 DEF Calls, Steps
<1>4. QED
  <2>1. CallInv(call[p], Finance) /\ Finance[call[p].at] = committed[call[p].at].detail
    BY <1>1 DEF CallsInv, Finance
  <2>2. CallInv(x, Finance)
    BY <1>2, <1>3, <2>1 DEF CallInv
  <2>3. Becomes(p, x)
    BY DEF Rewrite, Writing
  <2>4. QED
    BY <1>1, <1>3, <2>2, <2>3, CallMoves

Proposal(p, kind, d, added, removed, payees, amount) ==
    [kind |-> kind, actor |-> call[p].actor, detail |-> [d EXCEPT !.version = @ + 1],
     added |-> added, removed |-> removed,
     payees |-> payees, amount |-> amount, pending |-> TRUE]

LEMMA Proposes ==
  ASSUME IInv, NEW p \in Callers, call[p].pc = "act", call[p].at \in Rooms,
         NEW kind \in {"join", "leave", "disband", "settle"}, NEW d \in Details,
         NEW added \in SUBSET Characters, NEW removed \in SUBSET Characters,
         NEW payees \in SUBSET Characters, NEW amount \in Nat,
         WellFormed(d), d.version <= committed[call[p].at].detail.version,
         d.version = committed[call[p].at].detail.version =>
            /\ committed[call[p].at].detail.status \notin Finished
            /\ Fits(Proposal(p, kind, d, added, removed, payees, amount), Stakes(call[p].at)),
         Propose(p, kind, d, added, removed, payees, amount), Finance' = Finance
  PROVE (call \in [Callers -> Calls])' /\ CallsInv'
<1> DEFINE t == Proposal(p, kind, d, added, removed, payees, amount)
<1> DEFINE x == [call[p] EXCEPT !.pc = "commit", !.ver = 0, !.draft = t]
<1> DEFINE m == committed[call[p].at].detail
<1>1. call \in [Callers -> Calls] /\ CallsInv /\ TypeOK
  BY DEF IInv, TypeOK, CallsTypeOK
<1>2. CallInv(call[p], Finance) /\ Finance[call[p].at] = m /\ m \in Details
  BY <1>1 DEF CallsInv, Finance, TypeOK, StoresTypeOK, Transitions
<1>3. call[p].actor \in Characters
  BY <1>2 DEF CallInv
<1>4. /\ [d EXCEPT !.version = @ + 1] \in Details
      /\ t.detail.version = d.version + 1 /\ t.detail.status = d.status
      /\ t.detail.leader = d.leader /\ t.detail.members = d.members /\ t.detail.pool = d.pool
  BY DEF Details, Proposal
<1>5. t \in Transitions /\ t.pending
  BY <1>3, <1>4 DEF Transitions, Proposal
<1>6. Proposed(t, m)
  <2>1. WellFormed(t.detail)
    BY <1>4 DEF WellFormed
  <2>2. d.version \in Nat /\ m.version \in Nat
    BY <1>2 DEF Details
  <2>3. Stakes(call[p].at) = StakesOf(m)
    BY <1>1, StakesAgree DEF TypeOK
  <2>4. QED
    BY <1>4, <1>5, <2>1, <2>2, <2>3 DEF Proposed
<1>7. /\ x \in Calls /\ x.pc = "commit" /\ x.at = call[p].at /\ x.draft = t
      /\ x.phase = call[p].phase /\ x.op = call[p].op /\ x.actor = call[p].actor
      /\ x.room = call[p].room
  BY <1>1, <1>5 DEF Calls, Steps
<1>8. CallInv(x, Finance)
  BY <1>2, <1>6, <1>7 DEF CallInv
<1>9. CASE d.version = call[p].ver
  <2>1. Becomes(p, x)
    BY <1>9 DEF Propose, Writing, Proposal
  <2>2. QED
    BY <1>1, <1>7, <1>8, <2>1, CallMoves
<1>10. CASE d.version # call[p].ver
  <2>1. Quit(p)
    BY <1>10 DEF Propose
  <2>2. QED
    BY <1>1, <2>1, Quits
<1>11. QED
  BY <1>9, <1>10

\* What an operation finds under its lock.
LEMMA Found ==
  ASSUME IInv, NEW p \in Callers, NEW op, At(p, op)
  PROVE LET d == roomKey[call[p].at]
            m == committed[call[p].at].detail IN
        /\ call[p].pc = "act" /\ call[p].at \in Rooms /\ call[p].actor \in Characters
        /\ d \in Details /\ WellFormed(d) /\ Follows(d, m)
        /\ d.status \in Live /\ d.version = m.version =>
              m.status \notin Finished /\ Stakes(call[p].at) = d.members
        /\ StoreInv' /\ Finance' = Finance
        /\ bounds' = bounds
<1> DEFINE r == call[p].at
<1>1. call[p].pc = "act" /\ UNCHANGED stores /\ bounds' = bounds
  BY DEF At
<1>2. CallInv(call[p], Finance)
  BY DEF IInv, CallsInv
<1>3. r \in Rooms /\ call[p].actor \in Characters
  BY <1>1, <1>2 DEF CallInv
<1>4. /\ roomKey[r] \in Details /\ WellFormed(roomKey[r])
      /\ Follows(roomKey[r], committed[r].detail) /\ StoreInv
  BY <1>3 DEF IInv, StoreInv, TypeOK, StoresTypeOK, CacheInv
<1>5. Stakes(r) = StakesOf(committed[r].detail)
  BY <1>3, <1>4, StakesAgree DEF StoreInv
<1>6. roomKey[r].status \in Live /\ roomKey[r].version = committed[r].detail.version =>
         committed[r].detail.status \notin Finished /\ Stakes(r) = roomKey[r].members
  BY <1>4, <1>5 DEF Follows, StakesOf, Live, Finished
<1>7. StoreInv' /\ Finance' = Finance
  BY <1>1, <1>4, CacheUntouched DEF stores, cache, StoreInv, StoresTypeOK
<1>8. QED
  BY <1>1, <1>3, <1>4, <1>6, <1>7

-----------------------------------------------------------------------------
(* The operations                                                          *)
\* IInv' apart from the stores.
CallsHold == (call \in [Callers -> Calls]) /\ CallsInv

LEMMA JoinHolds ==
  ASSUME IInv, NEW p \in Callers, JoinRoom(p)
  PROVE CallsHold' /\ StoreInv' /\ bounds' = bounds
<1> USE DEF CallsHold
<1> DEFINE d == roomKey[call[p].at]
<1> DEFINE m == committed[call[p].at].detail
<1> DEFINE c == call[p].actor
<1> DEFINE e == [d EXCEPT !.members = @ \cup {c}, !.pool = @ + Bet]
<1>1. At(p, "join")
  BY DEF JoinRoom
<1>2. /\ call[p].pc = "act" /\ call[p].at \in Rooms /\ c \in Characters
      /\ d \in Details /\ WellFormed(d) /\ Follows(d, m)
      /\ d.status \in Live /\ d.version = m.version =>
            m.status \notin Finished /\ Stakes(call[p].at) = d.members
      /\ StoreInv' /\ Finance' = Finance /\ bounds' = bounds
  BY <1>1, Found
<1>3. CASE Quit(p)
  BY <1>2, <1>3, Quits DEF IInv
<1>4. CASE /\ d.status = "recruiting" /\ c \notin d.members
           /\ Propose(p, "join", e, {c}, {}, {}, 0)
  <2>1. d.members \in SUBSET Characters /\ d.pool \in Nat /\ d.version \in Nat
    BY <1>2 DEF Details
  <2>2. /\ e \in Details /\ e.members = d.members \cup {c} /\ e.pool = d.pool + Bet
        /\ e.status = "recruiting" /\ e.version = d.version /\ e.leader = d.leader
    <3>1. d.members \cup {c} \in SUBSET Characters /\ d.pool + Bet \in Nat
      BY <1>2, <2>1, ConstantsAssumption
    <3>2. e = Edited(d, d.members \cup {c}, d.pool + Bet)
      BY DEF Edited
    <3> HIDE DEF e
    <3>3. QED
      BY <1>2, <1>4, <3>1, <3>2, RosterEdited
  <2>3. Cardinality(e.members) = Cardinality(d.members) + 1 /\ Cardinality(d.members) \in Nat
    BY <1>2, <1>4, <2>1, <2>2, Rosters
  <2>4. WellFormed(e)
    <3>1. d.leader \in d.members /\ d.pool = Bet * Cardinality(d.members)
      BY <1>2, <1>4 DEF WellFormed, Live
    <3>2. e.pool = Bet * Cardinality(e.members)
      BY <2>2, <2>3, <3>1, PoolArithmetic
    <3>3. QED
      BY <2>2, <3>1, <3>2 DEF WellFormed
  <2>5. ASSUME e.version = m.version
        PROVE /\ m.status \notin Finished
              /\ Fits(Proposal(p, "join", e, {c}, {}, {}, 0), Stakes(call[p].at))
    <3>1. m.status \notin Finished /\ Stakes(call[p].at) = d.members
      BY <1>2, <1>4, <2>2, <2>5 DEF Live
    <3> DEFINE t == Proposal(p, "join", e, {c}, {}, {}, 0)
    <3>2. /\ t.detail.status = "recruiting" /\ t.payees = {} /\ t.removed = {}
          /\ t.added = {c} /\ t.detail.members = d.members \cup {c}
      BY <2>2 DEF Proposal, Details
    <3>3. QED
      BY <1>2, <3>1, <3>2 DEF Fits
  <2>6. e.version <= m.version
    BY <1>2, <2>2 DEF Follows
  <2>7. QED
    BY <1>2, <1>4, <2>2, <2>4, <2>5, <2>6, Proposes
<1>5. QED
  BY <1>3, <1>4 DEF JoinRoom

LEMMA SelectHolds ==
  ASSUME IInv, NEW p \in Callers, SelectTeam(p)
  PROVE CallsHold' /\ StoreInv' /\ bounds' = bounds
<1> USE DEF CallsHold
<1> DEFINE d == roomKey[call[p].at]
<1> DEFINE m == committed[call[p].at].detail
<1> DEFINE c == call[p].actor
<1>1. At(p, "select")
  BY DEF SelectTeam
<1>2. /\ call[p].pc = "act" /\ call[p].at \in Rooms /\ c \in Characters
      /\ d \in Details /\ WellFormed(d) /\ Follows(d, m)
      /\ StoreInv' /\ Finance' = Finance /\ bounds' = bounds
  BY <1>1, Found
<1>3. CASE Quit(p)
  BY <1>2, <1>3, Quits DEF IInv
<1>4. ASSUME NEW t \in Teams, Rewrite(p, [d EXCEPT !.team[c] = t])
      PROVE CallsHold'
  <2> DEFINE e == [d EXCEPT !.team[c] = t]
  <2>1. /\ e \in Details /\ e.members = d.members /\ e.pool = d.pool
        /\ e.status = d.status /\ e.version = d.version /\ e.leader = d.leader
    BY <1>2 DEF Details
  <2>2. WellFormed(e) /\ Follows(e, m)
    BY <1>2, <2>1 DEF WellFormed, Follows
  <2>3. QED
    BY <1>2, <1>4, <2>1, <2>2, Rewrites
<1>5. QED
  BY <1>2, <1>3, <1>4 DEF SelectTeam

LEMMA StartHolds ==
  ASSUME IInv, NEW p \in Callers, StartMatch(p)
  PROVE CallsHold' /\ StoreInv' /\ bounds' = bounds
<1> USE DEF CallsHold
<1> DEFINE d == roomKey[call[p].at]
<1> DEFINE m == committed[call[p].at].detail
<1> DEFINE e == [d EXCEPT !.status = "in_progress", !.round = 1]
<1>1. At(p, "start")
  BY DEF StartMatch
<1>2. /\ call[p].pc = "act" /\ call[p].at \in Rooms
      /\ d \in Details /\ WellFormed(d) /\ Follows(d, m)
      /\ StoreInv' /\ Finance' = Finance /\ bounds' = bounds
  BY <1>1, Found
<1>3. CASE Quit(p)
  BY <1>2, <1>3, Quits DEF IInv
<1>4. CASE d.status = "recruiting" /\ Rewrite(p, e)
  <2>1. /\ e \in Details /\ e.members = d.members /\ e.pool = d.pool
        /\ e.status = "in_progress" /\ e.version = d.version /\ e.leader = d.leader
    BY <1>2 DEF Details, Statuses
  <2>2. WellFormed(e) /\ Follows(e, m)
    BY <1>2, <1>4, <2>1 DEF WellFormed, Follows, Live
  <2>3. QED
    BY <1>2, <1>4, <2>1, <2>2, Rewrites
<1>5. QED
  BY <1>2, <1>3, <1>4 DEF StartMatch

LEMMA LeaveHolds ==
  ASSUME IInv, NEW p \in Callers, LeaveRoom(p)
  PROVE CallsHold' /\ StoreInv' /\ bounds' = bounds
<1> USE DEF CallsHold
<1> DEFINE d == roomKey[call[p].at]
<1> DEFINE m == committed[call[p].at].detail
<1> DEFINE c == call[p].actor
<1>1. At(p, "leave")
  BY DEF LeaveRoom
<1>2. /\ call[p].pc = "act" /\ call[p].at \in Rooms /\ c \in Characters
      /\ d \in Details /\ WellFormed(d) /\ Follows(d, m)
      /\ d.status \in Live /\ d.version = m.version =>
            m.status \notin Finished /\ Stakes(call[p].at) = d.members
      /\ StoreInv' /\ Finance' = Finance /\ bounds' = bounds
  BY <1>1, Found
<1>3. d.members \in SUBSET Characters /\ d.pool \in Nat /\ d.version \in Nat /\ Bet \in Nat
  BY <1>2, ConstantsAssumption DEF Details
<1>4. CASE Quit(p)
  BY <1>2, <1>4, Quits DEF IInv
<1>5. CASE Goto(p, "unmap")
  <2> DEFINE x == [call[p] EXCEPT !.pc = "unmap"]
  <2>1. call \in [Callers -> Calls] /\ CallsInv
    BY DEF IInv, TypeOK, CallsTypeOK
  <2>2. x \in Calls /\ CallInv(x, Finance)
    BY <1>2, <2>1 DEF Calls, Steps, CallsInv, CallInv
  <2>3. QED
    BY <1>2, <1>5, <2>1, <2>2, CallMoves DEF Goto
<1>6. CASE /\ d.status = "recruiting" /\ c = d.leader /\ c \in d.members
           /\ Propose(p, "disband", [d EXCEPT !.status = "disbanded", !.pool = 0],
                      {}, d.members, d.members, Bet)
  <2> DEFINE e == [d EXCEPT !.status = "disbanded", !.pool = 0]
  <2>1. /\ e \in Details /\ e.members = d.members /\ e.status = "disbanded"
        /\ e.version = d.version
    BY <1>2 DEF Details, Statuses
  <2>2. WellFormed(e)
    BY <2>1 DEF WellFormed, Live
  <2>3. ASSUME e.version = m.version
        PROVE /\ m.status \notin Finished
              /\ Fits(Proposal(p, "disband", e, {}, d.members, d.members, Bet), Stakes(call[p].at))
    <3> DEFINE t == Proposal(p, "disband", e, {}, d.members, d.members, Bet)
    <3>1. m.status \notin Finished /\ Stakes(call[p].at) = d.members
      BY <1>2, <1>6, <2>1, <2>3 DEF Live
    <3>2. /\ t.detail.status = "disbanded" /\ t.added = {} /\ t.removed = d.members
          /\ t.payees = d.members /\ t.amount = Bet /\ t.detail.members = d.members
      BY <2>1 DEF Proposal, Details
    <3>3. QED
      BY <1>6, <3>1, <3>2 DEF Fits
  <2>4. e.version <= m.version
    BY <1>2, <2>1 DEF Follows
  <2>5. QED
    BY <1>2, <1>3, <1>6, <2>1, <2>2, <2>3, <2>4, Proposes
<1>7. CASE /\ d.status = "recruiting" /\ c # d.leader /\ c \in d.members
           /\ Propose(p, "leave", Withdrawn(d, c), {}, {c}, {c}, Bet)
  <2> DEFINE e == Withdrawn(d, c)
  <2>1. d.leader \in d.members /\ d.pool = Bet * Cardinality(d.members)
    BY <1>2, <1>7 DEF WellFormed, Live
  <2>2. /\ Cardinality(d.members) = Cardinality(d.members \ {c}) + 1
        /\ Cardinality(d.members \ {c}) \in Nat
    <3>1. d.members \ {c} \in SUBSET Characters
      BY <1>3
    <3>2. QED
      BY <1>3, <1>7, <3>1, Rosters
  <2>3. d.pool = Bet * Cardinality(d.members \ {c}) + Bet
        /\ Bet * Cardinality(d.members \ {c}) \in Nat
    BY <2>1, <2>2, PoolArithmetic
  <2>4. /\ e \in Details /\ e.members = d.members \ {c} /\ e.status = "recruiting"
        /\ e.version = d.version /\ e.leader = d.leader
        /\ e.pool = IF d.pool < Bet THEN 0 ELSE d.pool - Bet
    <3> DEFINE f == [d EXCEPT !.team[c] = NoTeam]
    <3> DEFINE n == IF d.pool < Bet THEN 0 ELSE d.pool - Bet
    <3>1. d.members \ {c} \in SUBSET Characters /\ n \in Nat
      BY <1>3
    <3>2. /\ f \in Details /\ f.status = d.status /\ f.version = d.version
          /\ f.leader = d.leader
      BY <1>2 DEF Details
    <3>3. e = Edited(f, d.members \ {c}, n)
      BY <1>2 DEF Details, Withdrawn, Edited
    <3> HIDE DEF e, f, n
    <3>4. /\ e \in Details /\ e.members = d.members \ {c} /\ e.pool = n
          /\ e.status = f.status /\ e.version = f.version /\ e.leader = f.leader
      BY <3>1, <3>2, <3>3, RosterEdited
    <3>5. QED
      BY <1>7, <3>2, <3>4 DEF n
  <2>5. e.pool = Bet * Cardinality(d.members \ {c})
    BY <1>3, <2>3, <2>4
  <2>6. WellFormed(e)
    BY <1>7, <2>1, <2>4, <2>5 DEF WellFormed
  <2>7. ASSUME e.version = m.version
        PROVE /\ m.status \notin Finished
              /\ Fits(Proposal(p, "leave", e, {}, {c}, {c}, Bet), Stakes(call[p].at))
    <3> DEFINE t == Proposal(p, "leave", e, {}, {c}, {c}, Bet)
    <3>1. m.status \notin Finished /\ Stakes(call[p].at) = d.members
      BY <1>2, <1>7, <2>4, <2>7 DEF Live
    <3>2. /\ t.detail.status = "recruiting" /\ t.added = {} /\ t.removed = {c}
          /\ t.payees = {c} /\ t.amount = Bet /\ t.detail.members = d.members \ {c}
      BY <2>4 DEF Proposal, Details
    <3>3. QED
      BY <1>7, <3>1, <3>2 DEF Fits
  <2>8. e.version <= m.version
    BY <1>2, <2>4 DEF Follows
  <2>9. QED
    BY <1>2, <1>3, <1>7, <2>4, <2>6, <2>7, <2>8, Proposes
<1>8. QED
  BY <1>2, <1>4, <1>5, <1>6, <1>7 DEF LeaveRoom

LEMMA ScoreTyped ==
  ASSUME NEW d \in Details, NEW w
  PROVE /\ Scored(d, w) \in Details /\ Scored(d, w).members = d.members
        /\ Scored(d, w).pool = d.pool /\ Scored(d, w).status = d.status
        /\ Scored(d, w).version = d.version /\ Scored(d, w).leader = d.leader
<1>1. CASE w \in Teams
  <2>1. d.score[w] + 1 \in Nat
    BY <1>1 DEF Details
  <2>2. QED
    BY <1>1, <2>1 DEF Scored, Details
<1>2. CASE w \notin Teams
  BY <1>2 DEF Scored
<1>3. QED
  BY <1>1, <1>2

\* The pool is shared by members, and there are some.
LEMMA SettleHolds ==
  ASSUME IInv, NEW p \in Callers, At(p, "advance"), NEW w, NEW winners,
         roomKey[call[p].at].status = "in_progress",
         winners \subseteq roomKey[call[p].at].members, winners # {},
         Propose(p, "settle",
                 [Scored(roomKey[call[p].at], w) EXCEPT !.status = "completed", !.pool = 0],
                 {}, {}, winners, roomKey[call[p].at].pool \div Cardinality(winners))
  PROVE CallsHold'
<1> USE DEF CallsHold
<1> DEFINE d == roomKey[call[p].at]
<1> DEFINE m == committed[call[p].at].detail
<1> DEFINE e == [Scored(d, w) EXCEPT !.status = "completed", !.pool = 0]
<1> DEFINE n == d.pool \div Cardinality(winners)
<1>1. /\ call[p].pc = "act" /\ call[p].at \in Rooms
      /\ d \in Details /\ WellFormed(d) /\ Follows(d, m)
      /\ d.status \in Live /\ d.version = m.version =>
            m.status \notin Finished /\ Stakes(call[p].at) = d.members
      /\ Finance' = Finance
  BY Found
<1>2. d.members \in SUBSET Characters /\ d.pool \in Nat /\ winners \in SUBSET Characters
  BY <1>1 DEF Details
<1>3. Cardinality(winners) \in Nat /\ Cardinality(winners) > 0
  BY <1>2, Rosters
<1>4. n \in Nat
  BY <1>2, <1>3
<1>5. /\ e \in Details /\ e.members = d.members /\ e.status = "completed"
      /\ e.version = d.version
  <2> DEFINE g == Scored(d, w)
  <2>1. g \in Details /\ g.members = d.members /\ g.version = d.version
    BY <1>1, ScoreTyped
  <2>2. e = [g EXCEPT !.status = "completed", !.pool = 0]
    OBVIOUS
  <2> HIDE DEF e, g
  <2>3. QED
    BY <2>1, <2>2 DEF Details, Statuses
<1>6. WellFormed(e)
  BY <1>5 DEF WellFormed, Live
<1>7. d.pool = Bet * Cardinality(d.members)
  BY <1>1 DEF WellFormed, Live
<1>8. ASSUME e.version = m.version
      PROVE /\ m.status \notin Finished
            /\ Fits(Proposal(p, "settle", e, {}, {}, winners, n), Stakes(call[p].at))
  <2> DEFINE t == Proposal(p, "settle", e, {}, {}, winners, n)
  <2>1. m.status \notin Finished /\ Stakes(call[p].at) = d.members
    BY <1>1, <1>5, <1>8 DEF Live
  <2>2. /\ t.detail.status = "completed" /\ t.added = {} /\ t.removed = {}
        /\ t.payees = winners /\ t.amount = n /\ t.detail.members = d.members
    BY <1>5 DEF Proposal, Details
  <2>3. n = (Bet * Cardinality(d.members)) \div Cardinality(winners)
    BY <1>7
  <2> HIDE DEF n
  <2>4. QED
    BY <2>1, <2>2, <2>3 DEF Fits
<1>9. e.version <= m.version
  BY <1>1, <1>5 DEF Follows
<1>10. QED
  BY <1>1, <1>2, <1>4, <1>5, <1>6, <1>8, <1>9, Proposes

LEMMA AdvanceHolds ==
  ASSUME IInv, NEW p \in Callers, AdvanceRound(p)
  PROVE CallsHold' /\ StoreInv' /\ bounds' = bounds
<1> USE DEF CallsHold
<1> DEFINE d == roomKey[call[p].at]
<1> DEFINE m == committed[call[p].at].detail
<1>1. At(p, "advance")
  BY DEF AdvanceRound
<1>2. /\ call[p].pc = "act" /\ call[p].at \in Rooms
      /\ d \in Details /\ WellFormed(d) /\ Follows(d, m)
      /\ StoreInv' /\ Finance' = Finance /\ bounds' = bounds
  BY <1>1, Found
<1>3. CASE Quit(p)
  BY <1>2, <1>3, Quits DEF IInv
<1>4. ASSUME d.status = "in_progress",
             NEW w \in {d.team[c] : c \in d.members} \cup {NoTeam}, Resolve(p, d, w)
      PROVE CallsHold'
  <2> DEFINE e == Scored(d, w)
  <2> DEFINE winners == {c \in d.members : d.team[c] = w}
  <2>1. CASE /\ w \in Teams
             /\ Propose(p, "settle", [e EXCEPT !.status = "completed", !.pool = 0],
                        {}, {}, winners, d.pool \div Cardinality(winners))
    <3>1. winners # {} /\ winners \subseteq d.members
      BY <1>4, <2>1, ConstantsAssumption
    <3>2. QED
      BY <1>1, <1>4, <2>1, <3>1, SettleHolds
  <2>2. CASE Propose(p, "settle", [e EXCEPT !.status = "completed", !.pool = 0],
                     {}, {}, d.members, d.pool \div Cardinality(d.members))
    <3>1. d.members # {}
      BY <1>2, <1>4 DEF WellFormed, Live
    <3>2. QED
      BY <1>1, <1>4, <2>2, <3>1, SettleHolds
  <2>3. CASE Rewrite(p, [e EXCEPT !.round = @ + 1])
    <3> DEFINE f == [e EXCEPT !.round = @ + 1]
    <3>1. e \in Details /\ e.round + 1 \in Nat
      BY <1>2, ScoreTyped DEF Details
    <3>2. /\ f \in Details /\ f.members = d.members /\ f.pool = d.pool
          /\ f.status = d.status /\ f.version = d.version /\ f.leader = d.leader
      BY <1>2, <3>1, ScoreTyped DEF Details
    <3>3. WellFormed(f) /\ Follows(f, m)
      BY <1>2, <3>2 DEF WellFormed, Follows
    <3>4. QED
      BY <1>2, <2>3, <3>2, <3>3, Rewrites
  <2>4. QED
    BY <1>4, <2>1, <2>2, <2>3 DEF Resolve
<1>5. QED
  BY <1>1, <1>2, <1>3, <1>4 DEF AdvanceRound
-----------------------------------------------------------------------------
(* The steps around the operations                                         *)
LEMMA StoreFacts ==
  ASSUME IInv
  PROVE /\ StoreInv /\ TypeOK /\ CallsInv /\ call \in [Callers -> Calls]
        /\ \A r \in Rooms : Finance[r] = committed[r].detail /\ Finance[r] \in Details
                            /\ committed[r] \in Transitions
BY DEF IInv, StoreInv, TypeOK, CallsTypeOK, Finance, StoresTypeOK, Transitions

LEMMA CallFacts ==
  ASSUME IInv, NEW p \in Callers
  PROVE /\ call[p] \in Calls /\ CallInv(call[p], Finance) /\ StoreInv /\ TypeOK /\ CallsInv
        /\ call \in [Callers -> Calls]
        /\ \A r \in Rooms : Finance[r] = committed[r].detail /\ Finance[r] \in Details
                            /\ committed[r] \in Transitions
BY DEF IInv, StoreInv, TypeOK, CallsTypeOK, CallsInv, Finance, StoresTypeOK, Transitions

LEMMA ProceedingFits ==
  ASSUME NEW op \in Operations \cup {"none"}, NEW c \in Characters, NEW r \in Rooms \cup {NoRoom},
         op = "create" \/ r \in Rooms, NEW F
  PROVE Proceeding(op, c, r) \in Calls /\ CallInv(Proceeding(op, c, r), F)
<1> DEFINE x == Proceeding(op, c, r)
<1>1. /\ x.pc = (IF op = "create" THEN "check" ELSE "lock")
      /\ x.op = op /\ x.actor = c /\ x.room = r /\ x.phase = "sync" /\ x.at = r
  BY DEF Proceeding, Idle
<1>2. x \in Calls
  <2>1. NoTransition \in Transitions
    BY EmptyTyped
  <2>2. QED
    BY <1>1, <2>1 DEF Proceeding, Idle, Calls, Steps, Operations
<1> HIDE DEF x
<1>3. CallInv(x, F)
  BY <1>1 DEF CallInv
<1>4. QED
  BY <1>2, <1>3 DEF x

LEMMA AdmissionHolds ==
  ASSUME IInv, NEW p \in Callers, NEW op \in {"create", "join"}, NEW c \in Characters,
         NEW r \in Rooms \cup {NoRoom}, BeginAdmission(p, op, c, r)
  PROVE CallsHold' /\ StoreInv' /\ bounds' = bounds
<1> USE DEF CallsHold
<1>1. UNCHANGED stores /\ bounds' = bounds /\ (op = "create" \/ r \in Rooms)
  BY DEF BeginAdmission
<1>2. StoreInv' /\ Finance' = Finance
  BY <1>1, CallFacts, CacheUntouched DEF stores, cache, StoreInv, StoresTypeOK
<1>3. CASE Becomes(p, Proceeding(op, c, r))
  <2>1. Proceeding(op, c, r) \in Calls /\ CallInv(Proceeding(op, c, r), Finance)
    BY <1>1, ProceedingFits DEF Operations
  <2>2. QED
    BY <1>1, <1>2, <1>3, <2>1, CallFacts, CallMoves
<1>4. CASE /\ claim[c] # NoRoom
           /\ Becomes(p, [Idle EXCEPT !.pc = "lock", !.op = op, !.actor = c, !.room = r,
                                      !.at = claim[c]])
  <2> DEFINE x == [Idle EXCEPT !.pc = "lock", !.op = op, !.actor = c, !.room = r,
                               !.at = claim[c]]
  <2>1. claim[c] \in Rooms
    BY <1>4, CallFacts DEF StoreInv, StoresTypeOK
  <2>2. /\ x.pc = "lock" /\ x.op = op /\ x.actor = c /\ x.room = r /\ x.at = claim[c]
        /\ x.phase = "recover"
    BY DEF Idle
  <2>3. x \in Calls
    <3>1. NoTransition \in Transitions
      BY EmptyTyped
    <3>2. QED
      BY <2>1, <3>1 DEF Idle, Calls, Steps, Operations
  <2> HIDE DEF x
  <2>4. CallInv(x, Finance)
    BY <1>1, <2>1, <2>2 DEF CallInv
  <2>5. Becomes(p, x)
    BY <1>4 DEF x
  <2>6. QED
    BY <1>1, <1>2, <2>3, <2>4, <2>5, CallFacts, CallMoves
<1>5. QED
  BY <1>1, <1>2, <1>3, <1>4 DEF BeginAdmission

LEMMA BeginHolds ==
  ASSUME IInv, NEW p \in Callers, NEW op \in Operations \ {"create", "join"},
         NEW c \in Characters, NEW r \in Rooms, Begin(p, op, c, r)
  PROVE CallsHold' /\ StoreInv' /\ bounds' = bounds
<1> USE DEF CallsHold
<1>1. /\ lock' = [lock EXCEPT ![r] = p] /\ UNCHANGED <<sql, cache>> /\ bounds' = bounds
      /\ Becomes(p, [Proceeding(op, c, r) EXCEPT !.pc = "read"])
  BY DEF Begin
<1>2. StoreInv' /\ Finance' = Finance
  BY <1>1, CallFacts, CacheUntouched DEF cache, StoreInv, StoresTypeOK
<1> DEFINE x == Proceeding(op, c, r)
<1> DEFINE y == [x EXCEPT !.pc = "read"]
<1>3. x \in Calls /\ x.phase = "sync" /\ x.actor = c /\ x.room = r /\ x.at = r
  <2>1. op \in Operations \cup {"none"}
    OBVIOUS
  <2>2. x \in Calls
    BY <2>1, ProceedingFits
  <2>3. QED
    BY <2>2 DEF Proceeding, Idle
<1> HIDE DEF x
<1>4. y \in Calls /\ CallInv(y, Finance)
  BY <1>3 DEF Calls, Steps, CallInv
<1>5. Becomes(p, y)
  BY <1>1 DEF x
<1>6. QED
  BY <1>1, <1>2, <1>4, <1>5, CallFacts, CallMoves

LEMMA LockHolds ==
  ASSUME IInv, NEW p \in Callers, Lock(p)
  PROVE CallsHold' /\ StoreInv' /\ bounds' = bounds
<1> USE DEF CallsHold
<1> DEFINE x == call[p]
<1> DEFINE step == IF x.phase = "sync" /\ x.op = "create" THEN "commit" ELSE "read"
<1> DEFINE y == [x EXCEPT !.pc = step]
<1>1. /\ lock' = [lock EXCEPT ![x.at] = p] /\ UNCHANGED <<sql, cache>> /\ bounds' = bounds
      /\ x.pc = "lock" /\ Becomes(p, y)
  BY DEF Lock, Goto
<1>2. x \in Calls /\ CallInv(x, Finance)
  BY CallFacts
<1>3. StoreInv' /\ Finance' = Finance
  BY <1>1, <1>2, CallFacts, CacheUntouched DEF cache, StoreInv, StoresTypeOK
<1>4. y \in Calls /\ CallInv(y, Finance)
  BY <1>1, <1>2 DEF Calls, Steps, CallInv
<1>5. QED
  BY <1>1, <1>3, <1>4, CallFacts, CallMoves

LEMMA TimesOutHolds ==
  ASSUME IInv, NEW p \in Callers, LockTimesOut(p)
  PROVE CallsHold' /\ StoreInv' /\ bounds' = bounds
<1>1. UNCHANGED stores /\ bounds' = bounds /\ Return(p)
  BY DEF LockTimesOut
<1>2. StoreInv' /\ Finance' = Finance
  BY <1>1, CallFacts, CacheUntouched DEF stores, cache, StoreInv, StoresTypeOK
<1>3. QED
  BY <1>1, <1>2, CallFacts, Returns DEF CallsHold

LEMMA ReadHolds ==
  ASSUME IInv, NEW p \in Callers, Read(p)
  PROVE CallsHold' /\ StoreInv' /\ bounds' = bounds
<1> USE DEF CallsHold
<1> DEFINE x == call[p]
<1> DEFINE t == committed[x.at]
<1> DEFINE ver == IF x.phase = "sync" THEN t.detail.version ELSE 0
<1> DEFINE draft == IF t.pending THEN t ELSE NoTransition
<1> DEFINE step == IF t.pending THEN "room" ELSE IF x.phase = "recover" THEN "unlock" ELSE "act"
<1> DEFINE y == [x EXCEPT !.ver = ver, !.draft = draft, !.pc = step]
<1>1. UNCHANGED stores /\ bounds' = bounds /\ x.pc = "read" /\ Becomes(p, y)
  BY DEF Read
<1>2. x \in Calls /\ CallInv(x, Finance)
  BY CallFacts
<1>3. x.at \in Rooms
  BY <1>1, <1>2 DEF CallInv
<1>4. StoreInv' /\ Finance' = Finance
  BY <1>1, CallFacts, CacheUntouched DEF stores, cache, StoreInv, StoresTypeOK
<1>5. t \in Transitions /\ t.detail \in Details /\ Finance[x.at] = t.detail
  BY <1>3, CallFacts
<1>6. WellFormed(t.detail) /\ Follows(t.detail, t.detail)
  BY <1>3, <1>5 DEF IInv, RowsInv, CommittedInv, Follows, Details
<1>7. ver \in Nat /\ draft \in Transitions
  BY <1>5, EmptyTyped DEF Details
<1>8. step \in Steps /\ step \in {"room", "unlock", "act"}
      /\ (step = "room" => draft = t)
  BY DEF Steps
<1> HIDE DEF ver, draft, step, t
<1>9. /\ y \in Calls /\ y.pc = step /\ y.draft = draft /\ y.at = x.at /\ y.phase = x.phase
      /\ y.actor = x.actor /\ y.op = x.op /\ y.room = x.room
  BY <1>2, <1>7, <1>8 DEF Calls
<1> HIDE DEF y
<1>10. CallInv(y, Finance)
  BY <1>1, <1>2, <1>3, <1>5, <1>6, <1>8, <1>9 DEF CallInv
<1>11. QED
  BY <1>1, <1>4, <1>9, <1>10, CallFacts, CallMoves DEF y

-----------------------------------------------------------------------------
(* Publication                                                             *)
LEMMA RoomEffectHolds ==
  ASSUME IInv, NEW p \in Callers, call[p].pc = "room", RoomEffect(p)
  PROVE StoreInv' /\ Finance' = Finance
<1> DEFINE x == call[p]
<1> DEFINE d == IF x.draft.detail.status = "disbanded" THEN NoDetail ELSE x.draft.detail
<1>1. x \in Calls /\ CallInv(x, Finance) /\ StoreInv
  BY CallFacts
<1>2. /\ x.at \in Rooms /\ WellFormed(x.draft.detail) /\ Follows(x.draft.detail, Finance[x.at])
      /\ x.draft.detail \in Details
  BY <1>1 DEF CallInv, Calls, Transitions
<1>3. Finance[x.at] = committed[x.at].detail /\ committed[x.at].detail \in Details
  BY <1>2, CallFacts
<1>4. d \in Details /\ WellFormed(d) /\ Follows(d, committed[x.at].detail)
  BY <1>2, <1>3, EmptyTyped, EmptySound
<1>5. roomKey' = [roomKey EXCEPT ![x.at] = d] /\ UNCHANGED <<sql, mapping, lock>>
  BY DEF RoomEffect
<1> HIDE DEF d
<1>6. QED
  BY <1>1, <1>2, <1>4, <1>5, RoomWritten

LEMMA SaveEffectHolds ==
  ASSUME IInv, NEW p \in Callers, call[p].pc = "save", SaveEffect(p)
  PROVE StoreInv' /\ Finance' = Finance
<1> DEFINE x == call[p]
<1> DEFINE d == x.draft.detail
<1>1. x \in Calls /\ CallInv(x, Finance) /\ StoreInv
  BY CallFacts
<1>2. x.at \in Rooms /\ WellFormed(d) /\ Follows(d, Finance[x.at]) /\ d \in Details
  BY <1>1 DEF CallInv, Calls, Transitions
<1>3. Finance[x.at] = committed[x.at].detail
  BY <1>2, CallFacts
<1>4. roomKey' = [roomKey EXCEPT ![x.at] = d] /\ UNCHANGED <<sql, mapping, lock>>
  BY DEF SaveEffect
<1>5. QED
  BY <1>1, <1>2, <1>3, <1>4, RoomWritten

LEMMA MapsEffectHolds ==
  ASSUME IInv, NEW p \in Callers, call[p].pc = "maps", NEW S, MapsEffect(p, S)
  PROVE StoreInv' /\ Finance' = Finance
<1> DEFINE x == call[p]
<1>1. x.at \in Rooms /\ StoreInv
  BY CallFacts DEF CallInv
<1>2. /\ mapping' = [c \in Characters |->
             IF c \notin S THEN mapping[c]
             ELSE IF c \in x.draft.removed
                  THEN IF mapping[c] = x.at THEN NoRoom ELSE mapping[c]
                  ELSE x.at]
      /\ UNCHANGED <<sql, roomKey, lock>>
  BY DEF MapsEffect
<1>3. mapping' \in [Characters -> Rooms \cup {NoRoom}]
  BY <1>1, <1>2 DEF StoreInv, StoresTypeOK
<1>4. lock' \in [Rooms -> Callers \cup {Free, Orphan}]
  BY <1>1, <1>2 DEF StoreInv, StoresTypeOK
<1>5. QED
  BY <1>1, <1>2, <1>3, <1>4, CacheUntouched

LEMMA UnmapEffectHolds ==
  ASSUME IInv, NEW p \in Callers, call[p].pc = "unmap", UnmapEffect(p)
  PROVE StoreInv' /\ Finance' = Finance
<1>1. /\ mapping' = [mapping EXCEPT ![call[p].actor] = IF @ = call[p].at THEN NoRoom ELSE @]
      /\ UNCHANGED <<sql, roomKey, lock>>
  BY DEF UnmapEffect
<1>2. StoreInv
  BY CallFacts
<1>3. /\ mapping' \in [Characters -> Rooms \cup {NoRoom}]
      /\ lock' \in [Rooms -> Callers \cup {Free, Orphan}]
  BY <1>1, <1>2 DEF StoreInv, StoresTypeOK
<1>4. QED
  BY <1>1, <1>2, <1>3, CacheUntouched

LEMMA AckEffectHolds ==
  ASSUME IInv, NEW p \in Callers, call[p].pc = "ack", AckEffect(p)
  PROVE StoreInv' /\ Finance' = Finance
<1>1. call[p].at \in Rooms /\ StoreInv
  BY CallFacts DEF CallInv
<1>2. QED
  BY <1>1, Acknowledges

\* A call that goes on with what it has.
LEMMA PublishRoomHolds ==
  ASSUME IInv, NEW p \in Callers, PublishRoom(p)
  PROVE CallsHold' /\ StoreInv' /\ bounds' = bounds
<1> DEFINE y == [call[p] EXCEPT !.pc = "maps"]
<1>1. call[p].pc = "room" /\ RoomEffect(p) /\ Becomes(p, y) /\ bounds' = bounds
  BY DEF PublishRoom, Goto, bounds
<1>2. StoreInv' /\ Finance' = Finance
  BY <1>1, RoomEffectHolds
<1>3. y \in Calls /\ CallInv(y, Finance)
  BY <1>1, CallFacts DEF Calls, Steps, CallInv
<1>4. QED
  BY <1>1, <1>2, <1>3, CallFacts, CallMoves DEF CallsHold

LEMMA PublishMapsHolds ==
  ASSUME IInv, NEW p \in Callers, PublishMaps(p)
  PROVE CallsHold' /\ StoreInv' /\ bounds' = bounds
<1> DEFINE y == [call[p] EXCEPT !.pc = "ack"]
<1>1. /\ call[p].pc = "maps" /\ Becomes(p, y) /\ bounds' = bounds
      /\ MapsEffect(p, Joined(call[p].draft) \cup call[p].draft.removed)
  BY DEF PublishMaps, Goto, bounds
<1>2. StoreInv' /\ Finance' = Finance
  BY <1>1, MapsEffectHolds
<1>3. y \in Calls /\ CallInv(y, Finance)
  BY <1>1, CallFacts DEF Calls, Steps, CallInv
<1>4. QED
  BY <1>1, <1>2, <1>3, CallFacts, CallMoves DEF CallsHold

LEMMA AcknowledgeHolds ==
  ASSUME IInv, NEW p \in Callers, Acknowledge(p)
  PROVE CallsHold' /\ StoreInv' /\ bounds' = bounds
<1> USE DEF CallsHold
<1> DEFINE x == call[p]
<1>1. x.pc = "ack" /\ bounds' = bounds
  BY DEF Acknowledge, bounds
<1>2. x \in Calls /\ CallInv(x, Finance) /\ x.at \in Rooms /\ StoreInv
  BY <1>1, CallFacts DEF CallInv
<1>3. ASSUME AckEffect(p), x.phase = "sync",
             Becomes(p, [x EXCEPT !.pc = "act", !.draft = NoTransition])
      PROVE CallsHold' /\ StoreInv'
  <2> DEFINE y == [x EXCEPT !.pc = "act", !.draft = NoTransition]
  <2>1. StoreInv' /\ Finance' = Finance
    BY <1>1, <1>3, AckEffectHolds
  <2>2. y \in Calls /\ CallInv(y, Finance)
    BY <1>1, <1>2, <1>3, EmptyTyped DEF Calls, Steps, CallInv
  <2>3. QED
    BY <1>3, <2>1, <2>2, CallFacts, CallMoves
<1>4. ASSUME AckEffect(p), Goto(p, "unlock")
      PROVE CallsHold' /\ StoreInv'
  <2> DEFINE y == [x EXCEPT !.pc = "unlock"]
  <2>1. StoreInv' /\ Finance' = Finance
    BY <1>1, <1>4, AckEffectHolds
  <2>2. y \in Calls /\ CallInv(y, Finance)
    BY <1>1, <1>2 DEF Calls, Steps, CallInv
  <2>3. Becomes(p, y)
    BY <1>4 DEF Goto
  <2>4. QED
    BY <2>1, <2>2, <2>3, CallFacts, CallMoves
<1>5. ASSUME Quit(p), UNCHANGED stores
      PROVE CallsHold' /\ StoreInv'
  <2>1. StoreInv' /\ Finance' = Finance
    BY <1>2, <1>5, CacheUntouched DEF stores, cache, StoreInv, StoresTypeOK
  <2>2. QED
    BY <1>2, <1>5, <2>1, CallFacts, Quits
<1>6. QED
  BY <1>1, <1>3, <1>4, <1>5 DEF Acknowledge

LEMMA Resumes ==
  ASSUME IInv, NEW p \in Callers, call[p].pc = "unlock", Resume(p), Finance' = Finance
  PROVE CallsHold'
<1> USE DEF CallsHold
<1> DEFINE x == call[p]
<1>1. x \in Calls /\ CallInv(x, Finance)
  BY CallFacts
<1>2. \/ Return(p)
      \/ x.phase # "done" /\ Becomes(p, Proceeding(x.op, x.actor, x.room))
  BY DEF Resume, Return
<1>3. CASE Return(p)
  BY <1>3, CallFacts, Returns
<1>4. CASE x.phase # "done" /\ Becomes(p, Proceeding(x.op, x.actor, x.room))
  <2>1. /\ x.actor \in Characters /\ (x.op = "create" \/ x.room \in Rooms)
        /\ x.op \in Operations \cup {"none"} /\ x.room \in Rooms \cup {NoRoom}
    BY <1>1, <1>4 DEF CallInv, Calls
  <2>2. /\ Proceeding(x.op, x.actor, x.room) \in Calls
        /\ CallInv(Proceeding(x.op, x.actor, x.room), Finance)
    BY <2>1, ProceedingFits
  <2>3. QED
    BY <1>4, <2>2, CallFacts, CallMoves
<1>5. QED
  BY <1>2, <1>3, <1>4

LEMMA UnlockHolds ==
  ASSUME IInv, NEW p \in Callers, Unlock(p)
  PROVE CallsHold' /\ StoreInv' /\ bounds' = bounds
<1>1. /\ lock' = [lock EXCEPT ![call[p].at] = IF @ = p THEN Free ELSE @]
      /\ UNCHANGED <<sql, cache>> /\ bounds' = bounds /\ call[p].pc = "unlock" /\ Resume(p)
  BY DEF Unlock
<1>2. StoreInv
  BY CallFacts
<1>3. StoreInv' /\ Finance' = Finance
  BY <1>1, <1>2, CacheUntouched DEF cache, StoreInv, StoresTypeOK
<1>4. QED
  BY <1>1, <1>3, Resumes

-----------------------------------------------------------------------------
(* Commit                                                                  *)
\* What the SQL transaction of a transition does, whatever the call then is.
LEMMA CommitEffectHolds ==
  ASSUME IInv, NEW p \in Callers, call[p].pc = "commit", CommitEffect(p),
         NEW x \in Calls, Becomes(p, x), CallInv(x, Finance')
  PROVE CallsHold' /\ StoreInv'
<1> DEFINE t == call[p].draft
<1> DEFINE r == call[p].at
<1>1. call[p] \in Calls /\ CallInv(call[p], Finance) /\ StoreInv /\ TypeOK /\ CallsInv
  BY CallFacts
<1>2. r \in Rooms /\ t \in Transitions /\ Proposed(t, Finance[r])
  BY <1>1 DEF CallInv, Calls
<1>3. Finance[r] = committed[r].detail
  BY <1>2, CallFacts
<1>4. StoreInv' /\ Finance' = [Finance EXCEPT ![r] = t.detail]
  BY <1>1, <1>2, <1>3, Commits
<1>5. t.detail \in Details /\ t.detail.version = committed[r].detail.version + 1
  BY <1>2 DEF Transitions, CommitEffect, Accepted
<1>6. CallsHold'
  BY <1>1, <1>2, <1>4, <1>5, CallsOutdated DEF CallsHold
<1>7. QED
  BY <1>4, <1>6

LEMMA CommitHolds ==
  ASSUME IInv, NEW p \in Callers, Commit(p)
  PROVE CallsHold' /\ StoreInv' /\ bounds' = bounds
<1> DEFINE t == call[p].draft
<1> DEFINE r == call[p].at
<1> DEFINE x == [Idle EXCEPT !.pc = "room", !.phase = "done", !.at = r, !.draft = t]
<1>1. call[p].pc = "commit" /\ bounds' = bounds
  BY DEF Commit, bounds
<1>2. /\ call[p] \in Calls /\ CallInv(call[p], Finance) /\ StoreInv
      /\ r \in Rooms /\ t \in Transitions /\ Proposed(t, Finance[r])
  BY <1>1, CallFacts DEF CallInv, Calls
<1>3. ASSUME CommitEffect(p), Becomes(p, x)
      PROVE CallsHold' /\ StoreInv'
  <2>1. Finance[r] = committed[r].detail /\ committed[r].detail \in Details
    BY <1>2, CallFacts
  <2>2. Finance' = [Finance EXCEPT ![r] = t.detail]
    BY <1>2, <1>3, <2>1, Commits
  <2>3. Finance'[r] = t.detail /\ WellFormed(t.detail) /\ Follows(t.detail, t.detail)
    <3>1. t.detail.version \in Nat
      BY <1>2 DEF Transitions, Details
    <3>2. QED
      BY <1>2, <2>2, <3>1 DEF Proposed, Follows, Finance
  <2>4. x \in Calls /\ x.pc = "room" /\ x.phase = "done" /\ x.at = r /\ x.draft = t
    <3>1. Idle \in Calls
      BY EmptyTyped
    <3>2. QED
      BY <1>2, <3>1 DEF Idle, Calls, Steps
  <2> HIDE DEF x
  <2>5. CallInv(x, Finance')
    BY <1>2, <2>3, <2>4 DEF CallInv
  <2>6. QED
    BY <1>1, <1>3, <2>4, <2>5, CommitEffectHolds
<1>4. ASSUME Quit(p), UNCHANGED stores
      PROVE CallsHold' /\ StoreInv'
  <2>1. StoreInv' /\ Finance' = Finance
    BY <1>2, <1>4, CacheUntouched DEF stores, cache, StoreInv, StoresTypeOK
  <2>2. QED
    BY <1>2, <1>4, <2>1, CallFacts, Quits DEF CallsHold
<1>5. QED
  BY <1>1, <1>3, <1>4 DEF Commit

LEMMA SaveHolds ==
  ASSUME IInv, NEW p \in Callers, Save(p)
  PROVE CallsHold' /\ StoreInv' /\ bounds' = bounds
<1>1. call[p].pc = "save" /\ SaveEffect(p) /\ Quit(p) /\ bounds' = bounds
  BY DEF Save, bounds
<1>2. StoreInv' /\ Finance' = Finance /\ call[p].at \in Rooms
  BY <1>1, SaveEffectHolds, CallFacts DEF CallInv
<1>3. QED
  BY <1>1, <1>2, CallFacts, Quits DEF CallsHold

LEMMA UnmapHolds ==
  ASSUME IInv, NEW p \in Callers, Unmap(p)
  PROVE CallsHold' /\ StoreInv' /\ bounds' = bounds
<1>1. call[p].pc = "unmap" /\ UnmapEffect(p) /\ Quit(p) /\ bounds' = bounds
  BY DEF Unmap, bounds
<1>2. StoreInv' /\ Finance' = Finance /\ call[p].at \in Rooms
  BY <1>1, UnmapEffectHolds, CallFacts DEF CallInv
<1>3. QED
  BY <1>1, <1>2, CallFacts, Quits DEF CallsHold

\* The first transition fits a room that nothing was committed of.
LEMMA CreationFits ==
  ASSUME NEW c \in Characters, NEW m \in Details, m.version = 0 => m.status = "missing"
  PROVE Creation(c) \in Transitions /\ Proposed(Creation(c), m)
<1> DEFINE t == Creation(c)
<1>1. /\ NewRoom(c) \in Details /\ NewRoom(c).members = {c} /\ NewRoom(c).pool = Bet
      /\ NewRoom(c).status = "recruiting" /\ NewRoom(c).version = 1 /\ NewRoom(c).leader = c
  BY EmptyTyped, ConstantsAssumption DEF NewRoom, NoDetail, Details, Statuses
<1>2. /\ t \in Transitions /\ t.detail = NewRoom(c) /\ t.added = {c} /\ t.removed = {}
      /\ t.payees = {} /\ t.pending
  BY <1>1, EmptyTyped DEF Creation, NoTransition, Transitions
<1>3. WellFormed(t.detail)
  <2>1. Cardinality({c}) = 1
    BY FS_Singleton
  <2>2. Bet * 1 = Bet
    BY ConstantsAssumption
  <2>3. QED
    BY <1>1, <1>2, <2>1, <2>2 DEF WellFormed
<1>4. m.version \in Nat /\ t.detail.version <= m.version + 1
  BY <1>1, <1>2 DEF Details
<1>5. ASSUME t.detail.version = m.version + 1
      PROVE m.status \notin Finished /\ Fits(t, StakesOf(m))
  <2>1. m.status = "missing"
    BY <1>1, <1>2, <1>4, <1>5
  <2>2. StakesOf(m) = {} /\ m.status \notin Finished
    BY <2>1 DEF StakesOf, Live, Finished
  <2> HIDE DEF t
  <2>3. QED
    BY <1>1, <1>2, <2>2 DEF Fits
<1>6. QED
  BY <1>2, <1>3, <1>4, <1>5 DEF Proposed

LEMMA CheckCreateHolds ==
  ASSUME IInv, NEW p \in Callers, CheckCreate(p)
  PROVE CallsHold' /\ StoreInv' /\ bounds' = bounds
<1> USE DEF CallsHold
<1> DEFINE x == call[p]
<1>1. x.pc = "check" /\ UNCHANGED stores /\ bounds' = bounds
  BY DEF CheckCreate
<1>2. x \in Calls /\ CallInv(x, Finance) /\ StoreInv /\ x.actor \in Characters
  BY <1>1, CallFacts DEF CallInv
<1>3. StoreInv' /\ Finance' = Finance
  BY <1>1, <1>2, CacheUntouched DEF stores, cache, StoreInv, StoresTypeOK
<1>4. CASE Return(p)
  BY <1>1, <1>3, <1>4, CallFacts, Returns
<1>5. ASSUME NEW r \in Rooms,
             Becomes(p, [x EXCEPT !.pc = "lock", !.at = r, !.draft = Creation(x.actor)])
      PROVE CallsHold'
  <2> DEFINE t == Creation(x.actor)
  <2> DEFINE y == [x EXCEPT !.pc = "lock", !.at = r, !.draft = t]
  <2>1. Finance[r] = committed[r].detail /\ Finance[r] \in Details
    BY CallFacts
  <2>2. Finance[r].version = 0 => Finance[r].status = "missing"
    BY <2>1 DEF IInv, RowsInv, CommittedInv
  <2>3. t \in Transitions /\ Proposed(t, Finance[r])
    BY <1>2, <2>1, <2>2, CreationFits
  <2> HIDE DEF t
  <2>4. /\ y \in Calls /\ y.pc = "lock" /\ y.at = r /\ y.draft = t /\ y.phase = x.phase
        /\ y.op = x.op /\ y.actor = x.actor /\ y.room = x.room
    BY <1>2, <2>3 DEF Calls, Steps
  <2>5. x.phase # "done"
    BY <1>1, <1>2 DEF CallInv
  <2> HIDE DEF y
  <2>6. CallInv(y, Finance)
    BY <1>1, <1>2, <2>3, <2>4, <2>5 DEF CallInv
  <2>7. Becomes(p, y)
    BY <1>5 DEF y, t
  <2>8. QED
    BY <1>3, <2>4, <2>6, <2>7, CallFacts, CallMoves
<1>6. QED
  BY <1>1, <1>3, <1>4, <1>5 DEF CheckCreate

-----------------------------------------------------------------------------
(* Failures                                                                *)
LEMMA FailsHolds ==
  ASSUME IInv, NEW p \in Callers, StepFails(p)
  PROVE CallsHold' /\ StoreInv' /\ (faults \in 0..MaxFaults)' /\ UNCHANGED <<lapses, expiries>>
<1> USE DEF CallsHold
<1> DEFINE x == [Idle EXCEPT !.pc = "unlock", !.phase = "done", !.at = call[p].at]
<1>1. /\ faults < MaxFaults /\ faults' = faults + 1 /\ UNCHANGED <<lapses, expiries>>
      /\ call[p].pc \in {"read", "room", "maps", "ack", "act", "commit", "save", "unmap"}
      /\ Written(p) /\ Quit(p)
  BY DEF StepFails
<1>2. (faults \in 0..MaxFaults)'
  BY <1>1, ConstantsAssumption DEF IInv, TypeOK, CallsTypeOK
<1>3. call[p].at \in Rooms /\ StoreInv /\ CallInv(call[p], Finance)
  BY <1>1, CallFacts DEF CallInv
<1>4. ASSUME StoreInv', Finance' = Finance
      PROVE CallsHold'
  BY <1>1, <1>3, <1>4, CallFacts, Quits
<1>5. CASE UNCHANGED stores
  <2>1. StoreInv' /\ Finance' = Finance
    BY <1>3, <1>5, CacheUntouched DEF stores, cache, StoreInv, StoresTypeOK
  <2>2. QED
    BY <1>1, <1>2, <1>4, <2>1
<1>6. CASE call[p].pc = "commit" /\ CommitEffect(p)
  <2>1. Becomes(p, x)
    BY <1>1 DEF Quit
  <2>2. x \in Calls /\ x.pc = "unlock" /\ x.phase = "done" /\ x.at = call[p].at
    <3>1. Idle \in Calls
      BY EmptyTyped
    <3>2. QED
      BY <1>3, <3>1 DEF Idle, Calls, Steps
  <2> HIDE DEF x
  <2>3. CallInv(x, Finance')
    BY <1>3, <2>2 DEF CallInv
  <2>4. QED
    BY <1>1, <1>2, <1>6, <2>1, <2>2, <2>3, CommitEffectHolds
<1>7. CASE call[p].pc = "room" /\ RoomEffect(p)
  BY <1>1, <1>2, <1>4, <1>7, RoomEffectHolds
<1>8. CASE call[p].pc = "ack" /\ AckEffect(p)
  BY <1>1, <1>2, <1>4, <1>8, AckEffectHolds
<1>9. CASE call[p].pc = "save" /\ SaveEffect(p)
  BY <1>1, <1>2, <1>4, <1>9, SaveEffectHolds
<1>10. CASE call[p].pc = "unmap" /\ UnmapEffect(p)
  BY <1>1, <1>2, <1>4, <1>10, UnmapEffectHolds
<1>11. ASSUME call[p].pc = "maps", NEW S, MapsEffect(p, S)
       PROVE StoreInv' /\ Finance' = Finance
  BY <1>11, MapsEffectHolds
<1>12. QED
  BY <1>1, <1>2, <1>4, <1>5, <1>6, <1>7, <1>8, <1>9, <1>10, <1>11 DEF Written

LEMMA LockFailsHolds ==
  ASSUME IInv, NEW p \in Callers, LockFails(p)
  PROVE CallsHold' /\ StoreInv' /\ (faults \in 0..MaxFaults)' /\ UNCHANGED <<lapses, expiries>>
<1>1. /\ faults < MaxFaults /\ faults' = faults + 1 /\ UNCHANGED <<sql, cache, lapses, expiries>>
      /\ lock' = [lock EXCEPT ![call[p].at] = Orphan]
      /\ UNCHANGED call \/ (call[p].pc = "unlock" /\ Resume(p))
  BY DEF LockFails
<1>2. (faults \in 0..MaxFaults)'
  BY <1>1, ConstantsAssumption DEF IInv, TypeOK, CallsTypeOK
<1>3. StoreInv
  BY CallFacts
<1>4. StoreInv' /\ Finance' = Finance
  BY <1>1, <1>3, CacheUntouched DEF cache, StoreInv, StoresTypeOK
<1>5. CallsHold'
  BY <1>1, <1>4, CallFacts, CallsStay, Resumes DEF CallsHold
<1>6. QED
  BY <1>1, <1>2, <1>4, <1>5

LEMMA CrashHolds ==
  ASSUME IInv, NEW p \in Callers, Crash(p)
  PROVE CallsHold' /\ StoreInv' /\ (faults \in 0..MaxFaults)' /\ UNCHANGED <<lapses, expiries>>
<1>1. /\ faults < MaxFaults /\ faults' = faults + 1 /\ UNCHANGED <<sql, cache, lapses, expiries>>
      /\ lock' = [r \in Rooms |-> IF lock[r] = p THEN Orphan ELSE lock[r]] /\ Return(p)
  BY DEF Crash
<1>2. (faults \in 0..MaxFaults)'
  BY <1>1, ConstantsAssumption DEF IInv, TypeOK, CallsTypeOK
<1>3. StoreInv
  BY CallFacts
<1>4. StoreInv' /\ Finance' = Finance
  BY <1>1, <1>3, CacheUntouched DEF cache, StoreInv, StoresTypeOK
<1>5. QED
  BY <1>1, <1>2, <1>4, CallFacts, Returns DEF CallsHold

LEMMA LocksHold ==
  ASSUME IInv, NEW r \in Rooms, LockExpires(r) \/ LockLapses(r)
  PROVE CallsHold' /\ StoreInv' /\ (lapses \in 0..MaxLapses)' /\ UNCHANGED <<faults, expiries>>
<1>1. /\ lock' = [lock EXCEPT ![r] = Free] /\ UNCHANGED <<sql, cache, call, faults, expiries>>
      /\ lapses' = lapses \/ (lapses < MaxLapses /\ lapses' = lapses + 1)
  BY DEF LockExpires, LockLapses, bounds
<1>2. (lapses \in 0..MaxLapses)'
  BY <1>1, ConstantsAssumption DEF IInv, TypeOK, CallsTypeOK
<1>3. StoreInv
  BY StoreFacts
<1>4. StoreInv' /\ Finance' = Finance
  BY <1>1, <1>3, CacheUntouched DEF cache, StoreInv, StoresTypeOK
<1>5. QED
  BY <1>1, <1>2, <1>4, StoreFacts, CallsStay DEF CallsHold

LEMMA ExpiriesHold ==
  ASSUME IInv, \/ \E r \in Rooms : RoomExpires(r)
               \/ \E c \in Characters : MappingExpires(c)
  PROVE CallsHold' /\ StoreInv' /\ (expiries \in 0..MaxExpiries)' /\ UNCHANGED <<faults, lapses>>
<1>1. expiries < MaxExpiries /\ expiries' = expiries + 1 /\ UNCHANGED <<faults, lapses, call>>
  BY DEF RoomExpires, MappingExpires
<1>2. (expiries \in 0..MaxExpiries)'
  BY <1>1, ConstantsAssumption DEF IInv, TypeOK, CallsTypeOK
<1>3. StoreInv
  BY StoreFacts
<1>4. ASSUME NEW r \in Rooms, RoomExpires(r)
      PROVE StoreInv' /\ Finance' = Finance
  <2>1. roomKey' = [roomKey EXCEPT ![r] = NoDetail] /\ UNCHANGED <<sql, mapping, lock>>
    BY <1>4 DEF RoomExpires
  <2>2. committed[r].detail \in Details
    BY StoreFacts
  <2>3. NoDetail \in Details /\ WellFormed(NoDetail) /\ Follows(NoDetail, committed[r].detail)
    BY <2>2, EmptyTyped, EmptySound
  <2>4. QED
    BY <1>3, <2>1, <2>3, RoomWritten
<1>5. ASSUME NEW c \in Characters, MappingExpires(c)
      PROVE StoreInv' /\ Finance' = Finance
  <2>1. mapping' = [mapping EXCEPT ![c] = NoRoom] /\ UNCHANGED <<sql, roomKey, lock>>
    BY <1>5 DEF MappingExpires
  <2>2. QED
    BY <1>3, <2>1, CacheUntouched DEF StoreInv, StoresTypeOK
<1>6. StoreInv' /\ Finance' = Finance
  BY <1>4, <1>5
<1>7. QED
  BY <1>1, <1>2, <1>6, StoreFacts, CallsStay DEF CallsHold

-----------------------------------------------------------------------------
(* The theorems                                                            *)
LEMMA Initial ==
  ASSUME Init
  PROVE IInv
<1> USE DEF Init
<1>1. NoDetail \in Details /\ NoTransition \in Transitions /\ Idle \in Calls
  BY EmptyTyped
<1>2. TypeOK
  <2>1. StoresTypeOK
    BY <1>1, ConstantsAssumption DEF StoresTypeOK
  <2>2. CallsTypeOK
    BY <1>1, ConstantsAssumption DEF CallsTypeOK
  <2>3. QED
    BY <2>1, <2>2 DEF TypeOK
<1>3. \A r \in Rooms : committed[r] = NoTransition /\ roomKey[r] = NoDetail
  OBVIOUS
<1>4. NoTransition.detail = NoDetail /\ NoTransition.pending = FALSE /\ NoTransition.removed = {}
  BY DEF NoTransition
<1>5. NoDetail.status = "missing" /\ WellFormed(NoDetail) /\ Follows(NoDetail, NoDetail)
  BY <1>1, EmptySound DEF NoDetail
<1>6. RowsInv /\ CacheInv
  BY <1>3, <1>4, <1>5 DEF RowsInv, CommittedInv, CacheInv, StakesOf, Live
<1>7. ClaimsMatchStakes
  <2>1. \A r \in Rooms : Stakes(r) = {} /\ ~committed[r].pending
    BY <1>3, <1>4, <1>5 DEF Stakes, Open
  <2>2. \A c \in Characters : claim[c] = NoRoom
    OBVIOUS
  <2>3. QED
    BY <2>1, <2>2, ConstantsAssumption DEF ClaimsMatchStakes
<1>8. CallsInv
  BY IdleFits DEF CallsInv
<1>9. QED
  BY <1>2, <1>6, <1>7, <1>8 DEF IInv

LEMMA StepHolds ==
  ASSUME IInv, NEW p \in Callers, Step(p)
  PROVE CallsHold' /\ StoreInv' /\ bounds' = bounds
<1>1. CASE Lock(p) \/ LockTimesOut(p) \/ Read(p)
  BY <1>1, LockHolds, TimesOutHolds, ReadHolds
<1>2. CASE PublishRoom(p) \/ PublishMaps(p) \/ Acknowledge(p) \/ Unlock(p)
  BY <1>2, PublishRoomHolds, PublishMapsHolds, AcknowledgeHolds, UnlockHolds
<1>3. CASE Commit(p) \/ Save(p) \/ Unmap(p)
  BY <1>3, CommitHolds, SaveHolds, UnmapHolds
<1>4. CASE CheckCreate(p) \/ JoinRoom(p) \/ SelectTeam(p)
  BY <1>4, CheckCreateHolds, JoinHolds, SelectHolds
<1>5. CASE LeaveRoom(p) \/ StartMatch(p) \/ AdvanceRound(p)
  BY <1>5, LeaveHolds, StartHolds, AdvanceHolds
<1>6. QED
  BY <1>1, <1>2, <1>3, <1>4, <1>5 DEF Step

LEMMA Inductive ==
  ASSUME IInv, [Next]_vars
  PROVE IInv'
<1> DEFINE BoundsOK == /\ faults \in 0..MaxFaults /\ lapses \in 0..MaxLapses
                       /\ expiries \in 0..MaxExpiries
<1>1. ASSUME CallsHold', StoreInv', BoundsOK'
      PROVE IInv'
  BY <1>1 DEF CallsHold, StoreInv, IInv, TypeOK, CallsTypeOK
<1>2. BoundsOK
  BY DEF IInv, TypeOK, CallsTypeOK
<1>3. bounds' = bounds => BoundsOK'
  BY <1>2 DEF bounds
<1>4. ASSUME NEW p \in Callers, NEW c \in Characters, NEW op \in {"create", "join"},
             NEW r \in Rooms \cup {NoRoom}, BeginAdmission(p, op, c, r)
      PROVE IInv'
  BY <1>1, <1>3, <1>4, AdmissionHolds
<1>5. ASSUME NEW p \in Callers, NEW c \in Characters, NEW op \in Operations \ {"create", "join"},
             NEW r \in Rooms, Begin(p, op, c, r)
      PROVE IInv'
  BY <1>1, <1>3, <1>5, BeginHolds
<1>6. ASSUME NEW p \in Callers, Step(p)
      PROVE IInv'
  BY <1>1, <1>3, <1>6, StepHolds
<1>7. ASSUME NEW p \in Callers, StepFails(p) \/ LockFails(p) \/ Crash(p)
      PROVE IInv'
  BY <1>1, <1>2, <1>7, FailsHolds, LockFailsHolds, CrashHolds
<1>8. ASSUME NEW r \in Rooms, LockExpires(r) \/ LockLapses(r)
      PROVE IInv'
  BY <1>1, <1>2, <1>8, LocksHold
<1>9. ASSUME \/ \E r \in Rooms : RoomExpires(r)
             \/ \E c \in Characters : MappingExpires(c)
      PROVE IInv'
  BY <1>1, <1>2, <1>9, ExpiriesHold
<1>10. CASE UNCHANGED vars
  <2>1. StoreInv' /\ Finance' = Finance
    BY <1>10, StoreFacts, CacheUntouched DEF vars, stores, cache, StoreInv, StoresTypeOK
  <2>2. CallsHold' /\ bounds' = bounds
    BY <1>10, <2>1, StoreFacts, CallsStay DEF vars, CallsHold
  <2>3. QED
    BY <1>1, <1>3, <2>1, <2>2
<1>11. QED
  BY <1>4, <1>5, <1>6, <1>7, <1>8, <1>9, <1>10 DEF Next

LEMMA AlwaysIInv == Spec => []IInv
<1>1. Init => IInv
  BY Initial
<1>2. IInv /\ [Next]_vars => IInv'
  BY Inductive
<1>3. QED
  BY <1>1, <1>2, PTL DEF Spec

\* The variables keep their types: no wallet leaves 0..MaxMoney, whatever is
\* charged and credited (core/character's AddMoney and DeductMoney under
\* CommitTransition).
THEOREM TypeCorrect == Spec => []TypeOK
<1>1. IInv => TypeOK
  BY DEF IInv
<1>2. QED
  BY <1>1, AlwaysIInv, PTL

\* A character is reserved by a room exactly while its bet is in it or its
\* departure is not yet published (pvp_character_claims against the latest
\* transition), although locks lapse and keys expire.
THEOREM ClaimsCorrect == Spec => []ClaimsMatchStakes
<1>1. IInv => ClaimsMatchStakes
  BY DEF IInv
<1>2. QED
  BY <1>1, AlwaysIInv, PTL

-----------------------------------------------------------------------------
(* The escrow                                                              *)
Staked == [r \in Rooms |-> Stakes(r)]
Over == {r \in Rooms : committed[r].detail.status \in Finished}
Quiet == money' = money /\ Finance' = Finance

LEMMA QuietStutters ==
  ASSUME IInv, Quiet
  PROVE UNCHANGED Escrow!escrowVars
<1>1. \A r \in Rooms : committed'[r].detail = committed[r].detail
  BY DEF Quiet, Finance
<1>2. Staked' = Staked /\ Over' = Over
  BY <1>1 DEF Staked, Over, Stakes, Open
<1>3. QED
  BY <1>2 DEF Quiet, Escrow!escrowVars, Staked, Over

\* Only a commit moves money, stakes or the end of a room.
LEMMA OnlyCommits ==
  ASSUME IInv, [Next]_vars
  PROVE Quiet \/ \E p \in Callers : call[p].pc = "commit" /\ CommitEffect(p)
<1>1. UNCHANGED sql => Quiet
  BY DEF sql, Quiet, Finance
<1>2. UNCHANGED stores => UNCHANGED sql
  BY DEF stores
<1>3. ASSUME NEW p \in Callers, call[p].pc = "ack", AckEffect(p)
      PROVE Quiet
  BY <1>3, AckEffectHolds DEF Quiet, AckEffect
<1>4. ASSUME NEW p \in Callers, RoomEffect(p) \/ SaveEffect(p) \/ UnmapEffect(p)
      PROVE UNCHANGED sql
  BY <1>4 DEF RoomEffect, SaveEffect, UnmapEffect
<1>5. ASSUME NEW p \in Callers, NEW S, MapsEffect(p, S)
      PROVE UNCHANGED sql
  BY <1>5 DEF MapsEffect
<1>6. ASSUME NEW p \in Callers, Step(p)
      PROVE Quiet \/ (call[p].pc = "commit" /\ CommitEffect(p))
  <2>1. CASE Lock(p) \/ LockTimesOut(p) \/ Read(p) \/ Unlock(p) \/ CheckCreate(p)
    BY <1>1, <1>2, <2>1 DEF Lock, LockTimesOut, Read, Unlock, CheckCreate
  <2>2. CASE PublishRoom(p) \/ Save(p) \/ Unmap(p)
    BY <1>1, <1>4, <2>2 DEF PublishRoom, Save, Unmap
  <2>3. CASE PublishMaps(p)
    BY <1>1, <1>5, <2>3 DEF PublishMaps
  <2>4. CASE Acknowledge(p)
    BY <1>1, <1>2, <1>3, <2>4 DEF Acknowledge
  <2>5. CASE Commit(p)
    BY <1>1, <1>2, <2>5 DEF Commit
  <2>6. CASE JoinRoom(p) \/ SelectTeam(p) \/ LeaveRoom(p) \/ StartMatch(p) \/ AdvanceRound(p)
    <3>1. UNCHANGED stores
      BY <2>6 DEF JoinRoom, SelectTeam, LeaveRoom, StartMatch, AdvanceRound, At
    <3>2. QED
      BY <1>1, <1>2, <3>1
  <2>7. QED
    BY <1>6, <2>1, <2>2, <2>3, <2>4, <2>5, <2>6 DEF Step
<1>7. ASSUME NEW p \in Callers, StepFails(p)
      PROVE Quiet \/ (call[p].pc = "commit" /\ CommitEffect(p))
  <2>1. Written(p)
    BY <1>7 DEF StepFails
  <2>2. QED
    BY <1>1, <1>2, <1>3, <1>4, <1>5, <2>1 DEF Written
<1>8. ASSUME NEW p \in Callers, NEW c \in Characters, NEW op, NEW r,
             BeginAdmission(p, op, c, r) \/ Begin(p, op, c, r)
      PROVE UNCHANGED sql
  BY <1>2, <1>8 DEF BeginAdmission, Begin
<1>9. ASSUME NEW p \in Callers, LockFails(p) \/ Crash(p)
      PROVE UNCHANGED sql
  BY <1>9 DEF LockFails, Crash
<1>10. ASSUME NEW r \in Rooms, LockExpires(r) \/ LockLapses(r) \/ RoomExpires(r)
       PROVE UNCHANGED sql
  BY <1>10 DEF LockExpires, LockLapses, RoomExpires
<1>11. ASSUME NEW c \in Characters, MappingExpires(c)
       PROVE UNCHANGED sql
  BY <1>11 DEF MappingExpires
<1>12. CASE UNCHANGED vars
  BY <1>1, <1>12 DEF vars, stores
<1>13. QED
  BY <1>1, <1>6, <1>7, <1>8, <1>9, <1>10, <1>11, <1>12 DEF Next

LEMMA RefundPays ==
  ASSUME NEW r \in Rooms, NEW P \in SUBSET Stakes(r), P # {},
         money' = Escrow!Credited(money, P, Bet),
         Staked' = [Staked EXCEPT ![r] = Stakes(r) \ P],
         Over' = IF P = Stakes(r) THEN Over \cup {r} ELSE Over
  PROVE Escrow!EscrowNext
<1>1. Staked[r] = Stakes(r)
  BY DEF Staked
<1>2. Escrow!Refund(r, P)
  BY <1>1 DEF Escrow!Refund, Staked, Over
<1>3. QED
  BY <1>2 DEF Escrow!EscrowNext, Staked

LEMMA SameCardinality == \A S : Escrow!Cardinality(S) = Cardinality(S)
BY Zenon DEF Escrow!Cardinality, Cardinality

LEMMA SharePays ==
  ASSUME NEW r \in Rooms, NEW P \in SUBSET Stakes(r), P # {}, NEW n,
         n = (Bet * Cardinality(Staked[r])) \div Cardinality(P),
         money' = Escrow!Credited(money, P, n),
         Staked' = [Staked EXCEPT ![r] = {}], Over' = Over \cup {r}
  PROVE Escrow!EscrowNext
<1>1. n = (Bet * Escrow!Cardinality([q \in Rooms |-> Stakes(q)][r])) \div Escrow!Cardinality(P)
  BY SameCardinality DEF Staked
<1>2. Escrow!Share(r, P)
  BY <1>1 DEF Escrow!Share, Staked, Over
<1>3. QED
  BY <1>2 DEF Escrow!EscrowNext, Staked

\* A commit is a deposit, a refund or a share of the room's pool.
LEMMA CommitPays ==
  ASSUME IInv, NEW p \in Callers, call[p].pc = "commit", CommitEffect(p)
  PROVE Escrow!EscrowNext
<1> DEFINE t == call[p].draft
<1> DEFINE r == call[p].at
<1> DEFINE S == Stakes(r)
<1> DEFINE w == [c \in Characters |-> IF c \in t.added THEN money[c] - Bet ELSE money[c]]
<1>1. /\ r \in Rooms /\ t \in Transitions /\ Proposed(t, committed[r].detail) /\ StoreInv
  BY CallFacts DEF CallInv, Calls
<1>2. Accepted(p) /\ money' = Credit(w, t.payees, t.amount)
  BY DEF CommitEffect
<1>3. /\ Fits(t, S) /\ WellFormed(t.detail)
      /\ committed[r].detail.status \notin Finished
      /\ \A c \in t.added : money[c] >= Bet /\ \A s \in Rooms : c \notin Stakes(s)
  BY <1>1, <1>2, AcceptedFits
<1>4. /\ committed' = [committed EXCEPT ![r] = t] /\ committed \in [Rooms -> Transitions]
      /\ money \in [Characters -> 0..MaxMoney]
  BY <1>1, Commits DEF StoreInv, StoresTypeOK
<1>5. Staked' = [Staked EXCEPT ![r] = StakesOf(t.detail)]
  <2>1. t.detail.status \in Statuses
    BY <1>1 DEF Transitions, Details
  <2>2. \A s \in Rooms : Stakes(s)' = IF s = r THEN StakesOf(t.detail) ELSE Stakes(s)
    BY <1>1, <1>4, <2>1 DEF Stakes, Open, StakesOf, Live, Finished, Statuses
  <2>3. QED
    BY <1>1, <2>2 DEF Staked
<1>6. /\ t.detail.status \in Finished => Over' = Over \cup {r}
      /\ t.detail.status \notin Finished => Over' = Over
      /\ r \notin Over
  <2>1. \A s \in Rooms : committed'[s].detail.status =
                            IF s = r THEN t.detail.status ELSE committed[s].detail.status
    BY <1>1, <1>4
  <2>2. QED
    BY <1>1, <1>3, <2>1 DEF Over
<1>7. S \in SUBSET Characters /\ Staked[r] = S
  BY <1>1, <1>4 DEF Staked, Stakes, Transitions, Details
<1>8. t.added = {} => w = money
  BY <1>4
<1>9. \A W, P, n : Credit(W, P, n) = Escrow!Credited(W, P, n)
  BY DEF Credit, Escrow!Credited
<1>10. CASE /\ t.detail.status = "recruiting" /\ t.payees = {} /\ t.removed = {}
            /\ \E c \in Characters : t.added = {c} /\ t.detail.members = S \cup {c}
  <2>1. PICK c \in Characters : t.added = {c} /\ t.detail.members = S \cup {c}
    BY <1>10
  <2>2. money' = [money EXCEPT ![c] = @ - Bet]
    <3>1. money' = w
      BY <1>2, <1>10 DEF Credit
    <3>2. QED
      BY <1>4, <2>1, <3>1
  <2>3. Staked' = [Staked EXCEPT ![r] = S \cup {c}] /\ Over' = Over
    BY <1>5, <1>6, <1>10, <2>1 DEF StakesOf, Live, Finished
  <2>4. \A s \in Rooms : c \notin Staked[s]
    BY <1>3, <2>1 DEF Staked
  <2>5. Escrow!Deposit(r, c)
    BY <1>1, <1>3, <1>6, <1>7, <2>1, <2>2, <2>3, <2>4 DEF Escrow!Deposit, Staked, Over
  <2>6. QED
    BY <1>1, <2>5 DEF Escrow!EscrowNext
<1>11. CASE /\ t.detail.status = "recruiting" /\ t.added = {} /\ t.amount = Bet
            /\ \E c \in S : t.removed = {c} /\ t.payees = {c} /\ t.detail.members = S \ {c}
  <2>1. PICK c \in S : t.payees = {c} /\ t.detail.members = S \ {c}
    BY <1>11
  <2>2. money' = Escrow!Credited(money, {c}, Bet)
    BY <1>2, <1>8, <1>9, <1>11, <2>1
  <2>3. Staked' = [Staked EXCEPT ![r] = S \ {c}] /\ Over' = Over
    BY <1>5, <1>6, <1>11, <2>1 DEF StakesOf, Live, Finished
  <2>4. S # {c}
    BY <1>3, <1>11, <2>1 DEF WellFormed, Live
  <2>5. QED
    BY <1>1, <2>2, <2>3, <2>4, RefundPays
<1>12. CASE /\ t.detail.status = "disbanded" /\ t.added = {} /\ t.removed = S
            /\ t.payees = S /\ t.amount = Bet /\ S # {} /\ t.detail.members = S
  <2>1. money' = Escrow!Credited(money, S, Bet)
    BY <1>2, <1>8, <1>9, <1>12
  <2>2. Staked' = [Staked EXCEPT ![r] = S \ S] /\ Over' = Over \cup {r}
    BY <1>5, <1>6, <1>12 DEF StakesOf, Live, Finished
  <2>3. S \in SUBSET Stakes(r)
    OBVIOUS
  <2>4. QED
    BY <1>1, <1>12, <2>1, <2>2, <2>3, RefundPays
<1>13. CASE /\ t.detail.status = "completed" /\ t.added = {} /\ t.removed = {}
            /\ t.payees \subseteq S /\ t.payees # {}
            /\ t.amount = (Bet * Cardinality(S)) \div Cardinality(t.payees)
            /\ t.detail.members = S
  <2> DEFINE n == (Bet * Cardinality(Staked[r])) \div Cardinality(t.payees)
  <2>1. money' = Escrow!Credited(money, t.payees, n)
    BY <1>2, <1>7, <1>8, <1>9, <1>13
  <2>2. Staked' = [Staked EXCEPT ![r] = {}] /\ Over' = Over \cup {r}
    BY <1>5, <1>6, <1>13 DEF StakesOf, Live, Finished
  <2>3. t.payees # {} /\ t.payees \in SUBSET Stakes(r)
    BY <1>13
  <2>4. QED
    BY <1>1, <2>1, <2>2, <2>3, SharePays
<1>14. QED
  BY <1>3, <1>10, <1>11, <1>12, <1>13 DEF Fits

\* Bets are taken, given back and shared as the abstract escrow does, whatever
\* fails, expires or overlaps (internal/pvp's transitions, committed by
\* CommitTransition): nobody is charged twice, paid twice or left out of a
\* refund.
THEOREM EscrowImplemented == Spec => ImplementsEscrow
<1>1. Init => Escrow!EscrowInit
  <2> SUFFICES ASSUME Init PROVE Escrow!EscrowInit
    OBVIOUS
  <2>1. \A r \in Rooms : committed[r].detail.status = "missing"
    BY DEF Init, NoTransition, NoDetail
  <2>2. Staked = [r \in Rooms |-> {}] /\ Over = {}
    BY <2>1 DEF Staked, Over, Stakes, Open, Finished
  <2>3. money = [c \in Characters |-> Purse]
    BY DEF Init
  <2>4. QED
    BY <2>2, <2>3 DEF Escrow!EscrowInit, Staked, Over
<1>2. IInv /\ [Next]_vars => [Escrow!EscrowNext]_(Escrow!escrowVars)
  BY QuietStutters, OnlyCommits, CommitPays
<1>3. QED
  BY <1>1, <1>2, AlwaysIInv, PTL DEF Spec, ImplementsEscrow, Escrow!EscrowSpec

-----------------------------------------------------------------------------
(* Publication.  Here the locks count: while no key expires under its      *)
(* user, a call between its lock and its release is alone with its room,   *)
(* and what it leaves there is published or still marked as pending.       *)
Locked == Steps \ {"idle", "lock", "check"}

SameRoster(d, e) == d.version = e.version /\ d.members = e.members /\ d.pool = e.pool

\* What call p, now x, holds of its room.
Holds(p, x) ==
    /\ x.pc \in Locked => lock[x.at] = p
    /\ x.pc \in {"room", "maps", "ack"} =>
          committed[x.at].pending /\ x.draft.detail = committed[x.at].detail
    /\ x.pc \in {"maps", "ack"} /\ Open(x.at) => roomKey[x.at] = x.draft.detail
    /\ x.pc = "save" => SameRoster(x.draft.detail, roomKey[x.at])

Shown(r) ==
    committed[r].pending \/ ~Open(r) \/ SameRoster(roomKey[r], committed[r].detail)

Kept == (\A p \in Callers : Holds(p, call[p])) /\ (\A r \in Rooms : Shown(r))
PublishedInv == lapses = 0 /\ expiries = 0 => Kept

\* What the other calls hold is untouched.
Spares(p) ==
    \A r \in Rooms, q \in Callers \ {p} :
        lock[r] = q => /\ lock'[r] = q
                       /\ roomKey'[r] = roomKey[r] /\ committed'[r] = committed[r]

LEMMA OthersHold ==
  ASSUME IInv, Kept, NEW p \in Callers, NEW q \in Callers, q # p, Spares(p),
         call'[q] = call[q]
  PROVE Holds(q, call[q])'
<1> DEFINE r == call[q].at
<1>1. Holds(q, call[q])
  BY DEF Kept
<1>2. CASE call[q].pc \in Locked
  <2>1. lock[r] = q
    BY <1>1, <1>2 DEF Holds
  <2>2. r \in Rooms
    BY <1>2, CallFacts DEF CallInv, Locked
  <2>3. lock'[r] = q /\ roomKey'[r] = roomKey[r] /\ committed'[r] = committed[r]
    BY <2>1, <2>2 DEF Spares
  <2>4. QED
    BY <1>1, <2>1, <2>3 DEF Holds, Open
<1>3. CASE call[q].pc \notin Locked
  BY <1>3 DEF Holds, Locked, Steps
<1>4. QED
  BY <1>2, <1>3

\* The call takes a step that spares the others.
LEMMA Keeps ==
  ASSUME IInv, Kept, NEW p \in Callers, NEW y, Becomes(p, y), Spares(p),
         call'[p] = y => Holds(p, call[p])', \A r \in Rooms : Shown(r)'
  PROVE Kept'
<1>1. call' = [call EXCEPT ![p] = y] /\ call \in [Callers -> Calls]
  BY CallFacts DEF Becomes
<1>2. ASSUME NEW q \in Callers
      PROVE Holds(q, call[q])'
  <2>1. CASE q = p
    BY <1>1, <2>1
  <2>2. CASE q # p
    <3>1. call'[q] = call[q]
      BY <1>1, <2>2
    <3>2. QED
      BY <2>2, <3>1, OthersHold
  <2>3. QED
    BY <2>1, <2>2
<1>3. QED
  BY <1>2 DEF Kept

\* A call that holds nothing but its lock, or not even that.
LEMMA Rests ==
  ASSUME NEW p \in Callers, NEW y, y = call'[p], y.pc \in Steps \ {"room", "maps", "ack", "save"},
         y.pc \in Locked => lock'[y.at] = p
  PROVE Holds(p, call[p])'
BY DEF Holds

\* Only locks change, and none that another call holds.
LEMMA LocksKeep ==
  ASSUME IInv, Kept, NEW p \in Callers, NEW y, Becomes(p, y), UNCHANGED <<committed, roomKey>>,
         \A r \in Rooms, q \in Callers \ {p} : lock[r] = q => lock'[r] = q,
         call'[p] = y => Holds(p, call[p])'
  PROVE Kept'
<1>1. Spares(p)
  BY DEF Spares
<1>2. \A r \in Rooms : Shown(r)'
  BY DEF Kept, Shown, Open
<1>3. QED
  BY <1>1, <1>2, Keeps

LEMMA StoresKeep ==
  ASSUME IInv, Kept, NEW p \in Callers, NEW y, Becomes(p, y), UNCHANGED <<committed, roomKey, lock>>,
         call'[p] = y => Holds(p, call[p])'
  PROVE Kept'
BY LocksKeep

\* The call ends by way of its lock.
LEMMA QuitHolds ==
  ASSUME IInv, NEW p \in Callers, Quit(p), lock'[call[p].at] = p
  PROVE Holds(p, call[p])'
<1> DEFINE y == [Idle EXCEPT !.pc = "unlock", !.phase = "done", !.at = call[p].at]
<1>1. call' = [call EXCEPT ![p] = y] /\ call \in [Callers -> Calls]
  BY CallFacts DEF Quit, Becomes
<1>2. call'[p] = y /\ y.pc = "unlock" /\ y.at = call[p].at
  BY <1>1 DEF Idle
<1> HIDE DEF y
<1>3. QED
  BY <1>2, Rests DEF Steps

LEMMA QuitKeeps ==
  ASSUME IInv, Kept, NEW p \in Callers, call[p].pc \in Locked, Quit(p),
         UNCHANGED <<committed, roomKey, lock>>
  PROVE Kept'
<1> DEFINE y == [Idle EXCEPT !.pc = "unlock", !.phase = "done", !.at = call[p].at]
<1>1. lock[call[p].at] = p
  BY DEF Kept, Holds
<1>2. Holds(p, call[p])'
  BY <1>1, QuitHolds
<1>3. Becomes(p, y)
  BY DEF Quit
<1>4. QED
  BY <1>2, <1>3, StoresKeep

\* Only the call's own room is written.
OwnRoom(p) ==
    \E r \in Rooms :
        /\ r = call[p].at /\ lock' = lock /\ lock[r] = p
        /\ \A s \in Rooms \ {r} : roomKey'[s] = roomKey[s] /\ committed'[s] = committed[s]
        /\ Shown(r)'

LEMMA OwnRoomKeeps ==
  ASSUME IInv, Kept, NEW p \in Callers, NEW y, Becomes(p, y), OwnRoom(p),
         call'[p] = y => Holds(p, call[p])'
  PROVE Kept'
<1>0. PICK r \in Rooms :
         /\ r = call[p].at /\ lock' = lock /\ lock[r] = p
         /\ \A s \in Rooms \ {r} : roomKey'[s] = roomKey[s] /\ committed'[s] = committed[s]
         /\ Shown(r)'
  BY DEF OwnRoom
<1>1. Spares(p)
  BY <1>0 DEF Spares
<1>2. ASSUME NEW s \in Rooms
      PROVE Shown(s)'
  <2>1. CASE s = r
    BY <1>0, <2>1
  <2>2. CASE s # r
    BY <1>0, <2>2 DEF Kept, Shown, Open
  <2>3. QED
    BY <2>1, <2>2
<1>3. QED
  BY <1>1, <1>2, Keeps

\* What each effect leaves in the room.
LEMMA OwnRoomWritten ==
  ASSUME IInv, Kept, NEW p \in Callers, call[p].pc \in {"room", "ack", "commit", "save"}
  PROVE /\ call[p].pc = "room" /\ RoomEffect(p) => OwnRoom(p)
        /\ call[p].pc = "ack" /\ AckEffect(p) => OwnRoom(p)
        /\ call[p].pc = "commit" /\ CommitEffect(p) => OwnRoom(p)
        /\ call[p].pc = "save" /\ SaveEffect(p) => OwnRoom(p)
<1> DEFINE x == call[p]
<1>1. /\ x \in Calls /\ CallInv(x, Finance) /\ Holds(p, x)
      /\ \A s \in Rooms : Finance[s] = committed[s].detail /\ committed[s] \in Transitions
      /\ committed \in [Rooms -> Transitions] /\ roomKey \in [Rooms -> Details]
  BY CallFacts DEF Kept, StoreInv, StoresTypeOK
<1>2. PICK r \in Rooms : r = x.at /\ lock[r] = p
  BY <1>1 DEF CallInv, Holds, Locked, Steps
<1>3. ASSUME x.pc = "room", RoomEffect(p)
      PROVE OwnRoom(p)
  <2>1. committed[r].pending
    BY <1>1, <1>2, <1>3 DEF Holds
  <2>2. lock' = lock /\ committed' = committed /\ \A s \in Rooms \ {r} : roomKey'[s] = roomKey[s]
    BY <1>1, <1>2, <1>3 DEF RoomEffect, sql
  <2>3. QED
    BY <1>2, <2>1, <2>2 DEF OwnRoom, Shown
<1>4. ASSUME x.pc = "ack", AckEffect(p)
      PROVE OwnRoom(p)
  <2>1. Open(r) => roomKey[r] = committed[r].detail
    BY <1>1, <1>2, <1>4 DEF Holds
  <2>2. /\ committed' = [committed EXCEPT ![r].pending = FALSE]
        /\ lock' = lock /\ roomKey' = roomKey
    BY <1>2, <1>4 DEF AckEffect, cache
  <2>3. \A s \in Rooms \ {r} : committed'[s] = committed[s]
    BY <1>1, <2>2
  <2>4. committed'[r].detail = committed[r].detail
    BY <1>1, <2>1, <2>2 DEF Transitions
  <2>5. Shown(r)'
    BY <2>1, <2>2, <2>4 DEF Shown, Open, SameRoster
  <2>6. QED
    BY <1>2, <2>2, <2>3, <2>5 DEF OwnRoom
<1>5. ASSUME x.pc = "commit", CommitEffect(p)
      PROVE OwnRoom(p)
  <2>1. x.draft.pending
    BY <1>1, <1>2, <1>5 DEF CallInv, Proposed
  <2>2. committed' = [committed EXCEPT ![r] = x.draft] /\ lock' = lock /\ roomKey' = roomKey
    BY <1>2, <1>5 DEF CommitEffect, cache
  <2>3. committed'[r].pending /\ \A s \in Rooms \ {r} : committed'[s] = committed[s]
    BY <1>1, <2>1, <2>2
  <2>4. QED
    BY <1>2, <2>1, <2>2, <2>3 DEF OwnRoom, Shown
<1>6. ASSUME x.pc = "save", SaveEffect(p)
      PROVE OwnRoom(p)
  <2>1. SameRoster(x.draft.detail, roomKey[r]) /\ Shown(r)
    BY <1>1, <1>2, <1>6 DEF Holds, Kept
  <2>2. roomKey' = [roomKey EXCEPT ![r] = x.draft.detail] /\ lock' = lock /\ committed' = committed
    BY <1>2, <1>6 DEF SaveEffect, sql
  <2>3. roomKey'[r] = x.draft.detail /\ \A s \in Rooms \ {r} : roomKey'[s] = roomKey[s]
    BY <1>1, <2>1, <2>2
  <2>4. Shown(r)'
    BY <2>1, <2>2, <2>3 DEF Shown, Open, SameRoster
  <2>5. QED
    BY <1>2, <2>1, <2>2, <2>3, <2>4 DEF OwnRoom
<1>7. QED
  BY <1>3, <1>4, <1>5, <1>6

-----------------------------------------------------------------------------
(* Publication, action by action                                           *)
LEMMA CallTyped ==
  ASSUME IInv, Kept, NEW p \in Callers
  PROVE /\ call[p] \in Calls /\ CallInv(call[p], Finance) /\ Holds(p, call[p])
        /\ \A y : Becomes(p, y) => call'[p] = y
        /\ committed \in [Rooms -> Transitions] /\ roomKey \in [Rooms -> Details]
        /\ lock \in [Rooms -> Callers \cup {Free, Orphan}]
BY CallFacts DEF Kept, StoreInv, StoresTypeOK, Becomes

\* A call on its way into a room holds nothing.
LEMMA Enters ==
  ASSUME NEW op, NEW c, NEW r
  PROVE Proceeding(op, c, r).pc \in {"check", "lock"} /\ Proceeding(op, c, r).at = r
BY DEF Proceeding, Idle

LEMMA AdmissionKeeps ==
  ASSUME IInv, Kept, NEW p \in Callers, NEW c \in Characters, NEW op, NEW r,
         BeginAdmission(p, op, c, r)
  PROVE Kept'
<1> DEFINE y == IF claim[c] = NoRoom THEN Proceeding(op, c, r)
                ELSE [Idle EXCEPT !.pc = "lock", !.op = op, !.actor = c, !.room = r,
                                  !.at = claim[c]]
<1>1. Becomes(p, y) /\ UNCHANGED <<committed, roomKey, lock>>
  BY DEF BeginAdmission, stores, sql, cache
<1>2. y.pc \in {"check", "lock"}
  BY Enters DEF Idle
<1> HIDE DEF y
<1>3. call'[p] = y => Holds(p, call[p])'
  BY <1>2, Rests DEF Steps, Locked
<1>4. QED
  BY <1>1, <1>3, StoresKeep

LEMMA BeginKeeps ==
  ASSUME IInv, Kept, NEW p \in Callers, NEW c \in Characters, NEW op, NEW r \in Rooms,
         Begin(p, op, c, r)
  PROVE Kept'
<1> DEFINE y == [Proceeding(op, c, r) EXCEPT !.pc = "read"]
<1>1. /\ Becomes(p, y) /\ UNCHANGED <<committed, roomKey>>
      /\ lock[r] = Free /\ lock' = [lock EXCEPT ![r] = p]
  BY DEF Begin, sql, cache
<1>2. y.pc = "read" /\ y.at = r
  BY Enters DEF Proceeding, Idle
<1> HIDE DEF y
<1>3. lock'[r] = p /\ \A s \in Rooms, q \in Callers \ {p} : lock[s] = q => lock'[s] = q
  BY <1>1, CallTyped, ConstantsAssumption
<1>4. call'[p] = y => Holds(p, call[p])'
  BY <1>2, <1>3, Rests DEF Steps
<1>5. QED
  BY <1>1, <1>3, <1>4, LocksKeep

LEMMA LockKeeps ==
  ASSUME IInv, Kept, NEW p \in Callers, Lock(p)
  PROVE Kept'
<1> DEFINE x == call[p]
<1> DEFINE y == [x EXCEPT !.pc = IF x.phase = "sync" /\ x.op = "create" THEN "commit" ELSE "read"]
<1>1. /\ x.pc = "lock" /\ Becomes(p, y) /\ UNCHANGED <<committed, roomKey>>
      /\ lock[x.at] = Free /\ lock' = [lock EXCEPT ![x.at] = p]
  BY DEF Lock, Goto, sql, cache
<1>2. x.at \in Rooms /\ x \in Calls
  BY <1>1, CallTyped DEF CallInv
<1>3. y.pc \in {"commit", "read"} /\ y.at = x.at
  BY <1>2 DEF Calls
<1>4. lock'[y.at] = p /\ \A s \in Rooms, q \in Callers \ {p} : lock[s] = q => lock'[s] = q
  BY <1>1, <1>2, <1>3, CallTyped, ConstantsAssumption
<1> HIDE DEF y
<1>5. call'[p] = y => Holds(p, call[p])'
  BY <1>3, <1>4, Rests DEF Steps
<1>6. QED
  BY <1>1, <1>4, <1>5, LocksKeep

\* The call is over.
LEMMA ReturnKeeps ==
  ASSUME IInv, Kept, NEW p \in Callers, Return(p), UNCHANGED <<committed, roomKey>>,
         \A r \in Rooms, q \in Callers \ {p} : lock[r] = q => lock'[r] = q
  PROVE Kept'
<1>1. Becomes(p, Idle) /\ Idle.pc = "idle"
  BY DEF Return, Idle
<1>2. call'[p] = Idle => Holds(p, call[p])'
  BY <1>1, Rests DEF Steps, Locked
<1>3. QED
  BY <1>1, <1>2, LocksKeep

LEMMA ReadKeeps ==
  ASSUME IInv, Kept, NEW p \in Callers, Read(p)
  PROVE Kept'
<1> DEFINE x == call[p]
<1> DEFINE t == committed[x.at]
<1>1. PICK y : y = [x EXCEPT
          !.ver = IF x.phase = "sync" THEN t.detail.version ELSE 0,
          !.draft = IF t.pending THEN t ELSE NoTransition,
          !.pc = IF t.pending THEN "room" ELSE IF x.phase = "recover" THEN "unlock" ELSE "act"]
  OBVIOUS
<1>2. x.pc = "read" /\ Becomes(p, y) /\ UNCHANGED <<committed, roomKey, lock>>
  BY <1>1 DEF Read, stores, sql, cache
<1>3. /\ y.at = x.at /\ y.draft = IF t.pending THEN t ELSE NoTransition
      /\ y.pc = IF t.pending THEN "room" ELSE IF x.phase = "recover" THEN "unlock" ELSE "act"
  BY <1>1, CallTyped DEF Calls
<1>4. lock[x.at] = p
  BY <1>2, CallTyped DEF Holds, Locked, Steps
<1>5. ASSUME call'[p] = y
      PROVE Holds(p, call[p])'
  <2>1. CASE t.pending
    <3>1. y.pc = "room" /\ y.draft = committed[y.at] /\ committed[y.at].pending
      BY <1>3, <2>1
    <3>2. lock'[y.at] = p /\ committed' = committed
      BY <1>2, <1>3, <1>4
    <3>3. QED
      BY <1>5, <3>1, <3>2 DEF Holds
  <2>2. CASE ~t.pending
    <3>1. y.pc \in {"unlock", "act"}
      BY <1>3, <2>2
    <3>2. QED
      BY <1>2, <1>3, <1>4, <1>5, <3>1, Rests DEF Steps
  <2>3. QED
    BY <2>1, <2>2
<1>6. QED
  BY <1>2, <1>5, StoresKeep

LEMMA PublishRoomKeeps ==
  ASSUME IInv, Kept, NEW p \in Callers, PublishRoom(p)
  PROVE Kept'
<1> DEFINE x == call[p]
<1> DEFINE y == [x EXCEPT !.pc = "maps"]
<1>1. x.pc = "room" /\ RoomEffect(p) /\ Becomes(p, y)
  BY DEF PublishRoom, Goto
<1>2. y.pc = "maps" /\ y.at = x.at /\ y.draft = x.draft
  BY CallTyped DEF Calls
<1> HIDE DEF y
<1>3. OwnRoom(p)
  BY <1>1, OwnRoomWritten
<1>4. /\ x.at \in Rooms /\ lock[x.at] = p
      /\ committed[x.at].pending /\ x.draft.detail = committed[x.at].detail
  BY <1>1, CallTyped DEF CallInv, Holds, Locked, Steps
<1>5. ASSUME call'[p] = y
      PROVE Holds(p, call[p])'
  <2> DEFINE d == x.draft.detail
  <2>1. committed' = committed /\ lock' = lock
    BY <1>1 DEF RoomEffect, sql
  <2>2. roomKey'[x.at] = IF d.status = "disbanded" THEN NoDetail ELSE d
    BY <1>1, <1>4, CallTyped DEF RoomEffect
  <2>3. committed[x.at].detail.status \notin Finished \cup {"missing"} => d.status # "disbanded"
    BY <1>4 DEF Finished
  <2>4. call'[p].pc = "maps" /\ call'[p].at = x.at /\ call'[p].draft = x.draft
    BY <1>2, <1>5
  <2>5. Open(call[p].at)' => roomKey'[call'[p].at] = call'[p].draft.detail
    BY <2>1, <2>2, <2>3, <2>4 DEF Open
  <2>6. QED
    BY <1>4, <2>1, <2>4, <2>5 DEF Holds
<1>6. QED
  BY <1>1, <1>3, <1>5, OwnRoomKeeps

LEMMA PublishMapsKeeps ==
  ASSUME IInv, Kept, NEW p \in Callers, PublishMaps(p)
  PROVE Kept'
<1> DEFINE x == call[p]
<1> DEFINE y == [x EXCEPT !.pc = "ack"]
<1>1. x.pc = "maps" /\ Becomes(p, y) /\ UNCHANGED <<committed, roomKey, lock>>
  BY DEF PublishMaps, Goto, MapsEffect, sql
<1>2. y.pc = "ack" /\ y.at = x.at /\ y.draft = x.draft
  BY CallTyped DEF Calls
<1> HIDE DEF y
<1>3. Holds(p, x)
  BY CallTyped
<1>4. ASSUME call'[p] = y
      PROVE Holds(p, call[p])'
  BY <1>1, <1>2, <1>3, <1>4 DEF Holds, Open, Locked, Steps
<1>5. QED
  BY <1>1, <1>4, StoresKeep

LEMMA AcknowledgeKeeps ==
  ASSUME IInv, Kept, NEW p \in Callers, Acknowledge(p)
  PROVE Kept'
<1> DEFINE x == call[p]
<1>1. x.pc = "ack" /\ lock[x.at] = p
  BY CallTyped DEF Acknowledge, Holds, Locked, Steps
<1>2. ASSUME AckEffect(p), NEW y, Becomes(p, y), y.at = x.at, y.pc \in {"act", "unlock"}
      PROVE Kept'
  <2>1. OwnRoom(p)
    BY <1>1, <1>2, OwnRoomWritten
  <2>2. lock' = lock
    BY <1>2 DEF AckEffect
  <2>3. call'[p] = y => Holds(p, call[p])'
    BY <1>1, <1>2, <2>2, Rests DEF Steps
  <2>4. QED
    BY <1>2, <2>1, <2>3, OwnRoomKeeps
<1>3. CASE AckEffect(p) /\ Becomes(p, [x EXCEPT !.pc = "act", !.draft = NoTransition])
  <2>1. PICK y : y = [x EXCEPT !.pc = "act", !.draft = NoTransition]
    OBVIOUS
  <2>2. y.pc = "act" /\ y.at = x.at /\ Becomes(p, y)
    BY <1>3, <2>1, CallTyped DEF Calls
  <2>3. QED
    BY <1>2, <1>3, <2>2
<1>4. CASE AckEffect(p) /\ Goto(p, "unlock")
  <2>1. PICK y : y = [x EXCEPT !.pc = "unlock"]
    OBVIOUS
  <2>2. y.pc = "unlock" /\ y.at = x.at /\ Becomes(p, y)
    BY <1>4, <2>1, CallTyped DEF Calls, Goto
  <2>3. QED
    BY <1>2, <1>4, <2>2
<1>5. CASE Quit(p) /\ UNCHANGED stores
  BY <1>1, <1>5, QuitKeeps DEF stores, sql, cache, Locked, Steps
<1>6. QED
  BY <1>3, <1>4, <1>5 DEF Acknowledge

\* The lock is given back, or left to its expiry.
LEMMA ResumeKeeps ==
  ASSUME IInv, Kept, NEW p \in Callers, Resume(p), UNCHANGED <<committed, roomKey>>,
         \A r \in Rooms, q \in Callers \ {p} : lock[r] = q => lock'[r] = q
  PROVE Kept'
<1>1. PICK y : Becomes(p, y) /\ y.pc \in {"idle", "check", "lock"}
  BY Enters DEF Resume, Idle
<1>2. call'[p] = y => Holds(p, call[p])'
  BY <1>1, Rests DEF Steps, Locked
<1>3. QED
  BY <1>1, <1>2, LocksKeep

LEMMA UnlockKeeps ==
  ASSUME IInv, Kept, NEW p \in Callers, Unlock(p)
  PROVE Kept'
<1>1. /\ lock' = [lock EXCEPT ![call[p].at] = IF @ = p THEN Free ELSE @]
      /\ Resume(p) /\ UNCHANGED <<committed, roomKey>>
  BY DEF Unlock, sql, cache
<1>2. \A r \in Rooms, q \in Callers \ {p} : lock[r] = q => lock'[r] = q
  BY <1>1, CallTyped
<1>3. QED
  BY <1>1, <1>2, ResumeKeeps

LEMMA CommitKeeps ==
  ASSUME IInv, Kept, NEW p \in Callers, Commit(p)
  PROVE Kept'
<1> DEFINE x == call[p]
<1>1. /\ x.pc = "commit" /\ x.at \in Rooms /\ lock[x.at] = p /\ x \in Calls
      /\ x.draft.pending
  BY CallTyped DEF Commit, CallInv, Proposed, Holds, Locked, Steps
<1>2. CASE /\ CommitEffect(p)
           /\ Becomes(p, [Idle EXCEPT !.pc = "room", !.phase = "done", !.at = x.at,
                                      !.draft = x.draft])
  <2>1. PICK y : y = [Idle EXCEPT !.pc = "room", !.phase = "done", !.at = x.at, !.draft = x.draft]
    OBVIOUS
  <2>2. y.pc = "room" /\ y.at = x.at /\ y.draft = x.draft /\ Becomes(p, y)
    BY <1>2, <2>1 DEF Idle
  <2>3. OwnRoom(p)
    BY <1>1, <1>2, OwnRoomWritten
  <2>4. committed'[x.at] = x.draft /\ lock' = lock
    BY <1>1, <1>2, CallTyped DEF CommitEffect
  <2>5. call'[p] = y => Holds(p, call[p])'
    BY <1>1, <2>2, <2>4 DEF Holds
  <2>6. QED
    BY <2>2, <2>3, <2>5, OwnRoomKeeps
<1>3. CASE Quit(p) /\ UNCHANGED stores
  BY <1>1, <1>3, QuitKeeps DEF stores, sql, cache, Locked, Steps
<1>4. QED
  BY <1>2, <1>3 DEF Commit

\* A step that writes the room, or nothing, and ends the call.
LEMMA WrittenKeeps ==
  ASSUME IInv, Kept, NEW p \in Callers, Written(p), Quit(p), call[p].pc \in Locked
  PROVE Kept'
<1> DEFINE y == [Idle EXCEPT !.pc = "unlock", !.phase = "done", !.at = call[p].at]
<1>1. Becomes(p, y) /\ lock[call[p].at] = p
  BY CallTyped DEF Quit, Holds
<1>2. CASE OwnRoom(p)
  <2>1. Holds(p, call[p])'
    BY <1>1, <1>2, QuitHolds DEF OwnRoom
  <2>2. QED
    BY <1>1, <1>2, <2>1, OwnRoomKeeps
<1>3. CASE UNCHANGED <<committed, roomKey, lock>>
  BY <1>3, QuitKeeps
<1>4. OwnRoom(p) \/ UNCHANGED <<committed, roomKey, lock>>
  <2>1. CASE UNCHANGED stores \/ (call[p].pc = "unmap" /\ UnmapEffect(p))
    BY <2>1 DEF stores, sql, cache, UnmapEffect
  <2>2. CASE call[p].pc = "maps" /\ \E S : MapsEffect(p, S)
    BY <2>2 DEF MapsEffect, sql
  <2>3. CASE \/ call[p].pc = "room" /\ RoomEffect(p)
             \/ call[p].pc = "ack" /\ AckEffect(p)
             \/ call[p].pc = "commit" /\ CommitEffect(p)
             \/ call[p].pc = "save" /\ SaveEffect(p)
    BY <2>3, OwnRoomWritten
  <2>4. QED
    BY <2>1, <2>2, <2>3 DEF Written
<1>5. QED
  BY <1>2, <1>3, <1>4

LEMMA SaveOrUnmapKeeps ==
  ASSUME IInv, Kept, NEW p \in Callers, Save(p) \/ Unmap(p)
  PROVE Kept'
<1>1. Written(p) /\ Quit(p) /\ call[p].pc \in Locked
  BY DEF Save, Unmap, Written, Locked, Steps
<1>2. QED
  BY <1>1, WrittenKeeps

LEMMA CheckCreateKeeps ==
  ASSUME IInv, Kept, NEW p \in Callers, CheckCreate(p)
  PROVE Kept'
<1> DEFINE x == call[p]
<1>1. UNCHANGED <<committed, roomKey, lock>>
  BY DEF CheckCreate, stores, sql, cache
<1>2. CASE Return(p)
  BY <1>1, <1>2, ReturnKeeps
<1>3. ASSUME NEW r \in Rooms,
             Becomes(p, [x EXCEPT !.pc = "lock", !.at = r, !.draft = Creation(x.actor)])
      PROVE Kept'
  <2>1. PICK y : y = [x EXCEPT !.pc = "lock", !.at = r, !.draft = Creation(x.actor)]
    OBVIOUS
  <2>2. y.pc = "lock" /\ Becomes(p, y)
    BY <1>3, <2>1, CallTyped DEF Calls
  <2>3. call'[p] = y => Holds(p, call[p])'
    BY <2>2, Rests DEF Steps, Locked
  <2>4. QED
    BY <1>1, <2>2, <2>3, StoresKeep
<1>4. QED
  BY <1>2, <1>3 DEF CheckCreate

\* What an operation leaves to be written: a transition, or a state with the
\* roster of the key it was read from.
LEMMA OperationKeeps ==
  ASSUME IInv, Kept, NEW p \in Callers, NEW op, At(p, op),
         \/ Quit(p)
         \/ Goto(p, "unmap")
         \/ \E kind, d, added, removed, payees, amount :
               Propose(p, kind, d, added, removed, payees, amount)
         \/ \E d : SameRoster(d, roomKey[call[p].at]) /\ Rewrite(p, d)
  PROVE Kept'
<1> DEFINE x == call[p]
<1>1. /\ x.pc = "act" /\ lock[x.at] = p /\ x \in Calls
      /\ UNCHANGED <<committed, roomKey, lock>>
  BY CallTyped DEF At, Holds, Locked, Steps, stores, sql, cache
<1>2. CASE Quit(p)
  BY <1>1, <1>2, QuitKeeps DEF Locked, Steps
<1>3. ASSUME NEW y, Becomes(p, y), y.at = x.at, y.pc \in {"unmap", "commit"}
      PROVE Kept'
  <2>1. call'[p] = y => Holds(p, call[p])'
    BY <1>1, <1>3, Rests DEF Steps
  <2>2. QED
    BY <1>1, <1>3, <2>1, StoresKeep
<1>4. CASE Goto(p, "unmap")
  <2>1. PICK y : y = [x EXCEPT !.pc = "unmap"]
    OBVIOUS
  <2>2. y.pc = "unmap" /\ y.at = x.at /\ Becomes(p, y)
    BY <1>1, <1>4, <2>1 DEF Calls, Goto
  <2>3. QED
    BY <1>3, <2>2
<1>5. ASSUME NEW kind, NEW d, NEW added, NEW removed, NEW payees, NEW amount,
             Propose(p, kind, d, added, removed, payees, amount)
      PROVE Kept'
  <2>1. CASE d.version = x.ver
    <3>1. PICK y : y = [x EXCEPT !.pc = "commit", !.ver = 0,
                           !.draft = Proposal(p, kind, d, added, removed, payees, amount)]
      OBVIOUS
    <3>2. Becomes(p, y)
      BY <1>5, <2>1, <3>1 DEF Propose, Writing, Proposal
    <3>3. y.pc = "commit" /\ y.at = x.at
      BY <1>1, <3>1 DEF Calls
    <3>4. QED
      BY <1>3, <3>2, <3>3
  <2>2. CASE d.version # x.ver
    BY <1>2, <1>5, <2>2 DEF Propose
  <2>3. QED
    BY <2>1, <2>2
<1>6. ASSUME NEW d, SameRoster(d, roomKey[x.at]), Rewrite(p, d)
      PROVE Kept'
  <2>1. PICK t : t = [NoTransition EXCEPT !.detail = d]
    OBVIOUS
  <2>2. PICK y : y = [x EXCEPT !.pc = "save", !.ver = 0, !.draft = t]
    OBVIOUS
  <2>3. Becomes(p, y)
    BY <1>6, <2>1, <2>2 DEF Rewrite, Writing
  <2>4. t.detail = d
    BY <2>1 DEF NoTransition
  <2>5. y.pc = "save" /\ y.at = x.at /\ y.draft = t
    BY <1>1, <2>2 DEF Calls
  <2>6. call'[p] = y => Holds(p, call[p])'
    BY <1>1, <1>6, <2>4, <2>5 DEF Holds
  <2>7. QED
    BY <1>1, <2>3, <2>6, StoresKeep
<1>7. QED
  BY <1>2, <1>4, <1>5, <1>6

\* Edits that leave version, members and pool alone.
LEMMA SameRosters ==
  ASSUME NEW d \in Details
  PROVE /\ \A c, t : SameRoster([d EXCEPT !.team[c] = t], d)
        /\ \A s, n : SameRoster([d EXCEPT !.status = s, !.round = n], d)
        /\ \A w, n : SameRoster([Scored(d, w) EXCEPT !.round = n], d)
<1>1. \A c, t : SameRoster([d EXCEPT !.team[c] = t], d)
  BY DEF SameRoster, Details
<1>2. \A s, n : SameRoster([d EXCEPT !.status = s, !.round = n], d)
  BY DEF SameRoster, Details
<1>3. ASSUME NEW w, NEW n
      PROVE SameRoster([Scored(d, w) EXCEPT !.round = n], d)
  <2>1. CASE w \in Teams
    <3>1. Scored(d, w) = [d EXCEPT !.score[w] = @ + 1]
      BY <2>1 DEF Scored
    <3>2. QED
      BY <3>1 DEF SameRoster, Details
  <2>2. CASE w \notin Teams
    BY <2>2 DEF Scored, SameRoster, Details
  <2>3. QED
    BY <2>1, <2>2
<1>4. QED
  BY <1>1, <1>2, <1>3

LEMMA OperationsKeep ==
  ASSUME IInv, Kept, NEW p \in Callers,
         \/ JoinRoom(p) \/ SelectTeam(p) \/ LeaveRoom(p) \/ StartMatch(p) \/ AdvanceRound(p)
  PROVE Kept'
<1> DEFINE d == roomKey[call[p].at]
<1>1. PICK op : At(p, op)
  BY DEF JoinRoom, SelectTeam, LeaveRoom, StartMatch, AdvanceRound
<1>2. d \in Details
  BY <1>1, Found
<1>3. CASE JoinRoom(p)
  BY <1>1, <1>3, OperationKeeps DEF JoinRoom
<1>4. CASE SelectTeam(p)
  <2>1. Quit(p) \/ \E t \in Teams : Rewrite(p, [d EXCEPT !.team[call[p].actor] = t])
    BY <1>4 DEF SelectTeam
  <2>2. QED
    BY <1>1, <1>2, <2>1, SameRosters, OperationKeeps
<1>5. CASE LeaveRoom(p)
  BY <1>1, <1>5, OperationKeeps DEF LeaveRoom
<1>6. CASE StartMatch(p)
  <2>1. Quit(p) \/ Rewrite(p, [d EXCEPT !.status = "in_progress", !.round = 1])
    BY <1>6 DEF StartMatch
  <2>2. QED
    BY <1>1, <1>2, <2>1, SameRosters, OperationKeeps
<1>7. CASE AdvanceRound(p)
  <2>1. Quit(p) \/ \E w : Resolve(p, d, w)
    BY <1>7 DEF AdvanceRound
  <2>2. ASSUME NEW w, Resolve(p, d, w)
        PROVE Kept'
    <3> DEFINE e == Scored(d, w)
    <3>1. \/ \E kind, f, added, removed, payees, amount :
                Propose(p, kind, f, added, removed, payees, amount)
          \/ Rewrite(p, [e EXCEPT !.round = @ + 1])
      BY <2>2 DEF Resolve
    <3>2. SameRoster([e EXCEPT !.round = @ + 1], d)
      BY <1>2, SameRosters
    <3>3. QED
      BY <1>1, <3>1, <3>2, OperationKeeps
  <2>3. QED
    BY <1>1, <2>1, <2>2, OperationKeeps
<1>8. QED
  BY <1>3, <1>4, <1>5, <1>6, <1>7

LEMMA StepKeeps ==
  ASSUME IInv, Kept, NEW p \in Callers, Step(p)
  PROVE Kept'
<1>1. CASE LockTimesOut(p)
  BY <1>1, ReturnKeeps DEF LockTimesOut, stores, sql, cache
<1>2. CASE Lock(p) \/ Read(p) \/ PublishRoom(p) \/ PublishMaps(p) \/ Acknowledge(p)
  BY <1>2, LockKeeps, ReadKeeps, PublishRoomKeeps, PublishMapsKeeps, AcknowledgeKeeps
<1>3. CASE Unlock(p) \/ Commit(p) \/ Save(p) \/ Unmap(p) \/ CheckCreate(p)
  BY <1>3, UnlockKeeps, CommitKeeps, SaveOrUnmapKeeps, CheckCreateKeeps
<1>4. CASE JoinRoom(p) \/ SelectTeam(p) \/ LeaveRoom(p) \/ StartMatch(p) \/ AdvanceRound(p)
  BY <1>4, OperationsKeep
<1>5. QED
  BY <1>1, <1>2, <1>3, <1>4 DEF Step

\* A call that fails or stops leaves its room published or marked.
LEMMA FailuresKeep ==
  ASSUME IInv, Kept, NEW p \in Callers, StepFails(p) \/ LockFails(p) \/ Crash(p)
  PROVE Kept'
<1>1. CASE StepFails(p)
  BY <1>1, WrittenKeeps DEF StepFails, Locked, Steps
<1>2. CASE LockFails(p)
  <2>1. /\ lock' = [lock EXCEPT ![call[p].at] = Orphan]
        /\ UNCHANGED <<committed, roomKey>>
        /\ lock[call[p].at] \in {Free, p}
        /\ UNCHANGED call \/ Resume(p)
    BY <1>2 DEF LockFails, sql, cache
  <2>2. \A r \in Rooms, q \in Callers \ {p} : lock[r] = q => lock'[r] = q
    BY <2>1, CallTyped, ConstantsAssumption
  <2>3. CASE UNCHANGED call /\ call[p].pc = "lock"
    <3>1. Becomes(p, call[p])
      BY <2>3, CallFacts DEF Becomes
    <3>2. call'[p] = call[p] => Holds(p, call[p])'
      BY <2>3, Rests DEF Steps, Locked
    <3>3. QED
      BY <2>1, <2>2, <3>1, <3>2, LocksKeep
  <2>4. CASE Resume(p)
    BY <2>1, <2>2, <2>4, ResumeKeeps
  <2>5. QED
    BY <1>2, <2>3, <2>4 DEF LockFails
<1>3. CASE Crash(p)
  <2>1. /\ lock' = [r \in Rooms |-> IF lock[r] = p THEN Orphan ELSE lock[r]]
        /\ UNCHANGED <<committed, roomKey>> /\ Return(p)
    BY <1>3 DEF Crash, sql, cache
  <2>2. \A r \in Rooms, q \in Callers \ {p} : lock[r] = q => lock'[r] = q
    BY <2>1
  <2>3. QED
    BY <2>1, <2>2, ReturnKeeps
<1>4. QED
  BY <1>1, <1>2, <1>3

\* A lock nobody waits behind any more is given up.
LEMMA OrphanKeeps ==
  ASSUME IInv, Kept, NEW r \in Rooms, LockExpires(r)
  PROVE Kept'
<1>1. /\ lock[r] = Orphan /\ lock' = [lock EXCEPT ![r] = Free]
      /\ UNCHANGED <<committed, roomKey, call>>
  BY DEF LockExpires, sql, cache
<1>2. lock \in [Rooms -> Callers \cup {Free, Orphan}]
  BY StoreFacts DEF StoreInv, StoresTypeOK
<1>3. \A s \in Rooms, q \in Callers : lock[s] = q => lock'[s] = q
  BY <1>1, <1>2, ConstantsAssumption
<1>4. ASSUME NEW q \in Callers
      PROVE Holds(q, call[q])'
  <2>1. Holds(q, call[q]) /\ (call[q].pc \in Locked => call[q].at \in Rooms)
    BY CallFacts DEF Kept, CallInv, Locked
  <2>2. QED
    BY <1>1, <1>3, <2>1 DEF Holds, Open
<1>5. \A s \in Rooms : Shown(s)'
  BY <1>1 DEF Kept, Shown, Open
<1>6. QED
  BY <1>4, <1>5 DEF Kept

LEMMA PublishedInductive ==
  ASSUME IInv, PublishedInv, [Next]_vars
  PROVE PublishedInv'
<1>1. lapses \in Nat /\ expiries \in Nat
  BY ConstantsAssumption DEF IInv, TypeOK, CallsTypeOK
<1>2. ASSUME UNCHANGED <<lapses, expiries>>, Kept => Kept'
      PROVE PublishedInv'
  BY <1>2 DEF PublishedInv
<1>3. ASSUME lapses' = lapses + 1 \/ expiries' = expiries + 1
      PROVE PublishedInv'
  <2>1. ~(lapses' = 0 /\ expiries' = 0)
    BY <1>1, <1>3
  <2>2. QED
    BY <2>1 DEF PublishedInv
<1>4. ASSUME NEW p \in Callers, NEW c \in Characters, NEW op \in {"create", "join"},
             NEW r \in Rooms \cup {NoRoom}, BeginAdmission(p, op, c, r)
      PROVE PublishedInv'
  <2>1. UNCHANGED <<lapses, expiries>>
    BY <1>4 DEF BeginAdmission, bounds
  <2>2. Kept => Kept'
    BY <1>4, AdmissionKeeps
  <2>3. QED
    BY <1>2, <2>1, <2>2
<1>5. ASSUME NEW p \in Callers, NEW c \in Characters, NEW op \in Operations \ {"create", "join"},
             NEW r \in Rooms, Begin(p, op, c, r)
      PROVE PublishedInv'
  <2>1. UNCHANGED <<lapses, expiries>>
    BY <1>5 DEF Begin, bounds
  <2>2. Kept => Kept'
    BY <1>5, BeginKeeps
  <2>3. QED
    BY <1>2, <2>1, <2>2
<1>6. ASSUME NEW p \in Callers, Step(p)
      PROVE PublishedInv'
  <2>1. UNCHANGED <<lapses, expiries>>
    BY <1>6, StepHolds DEF bounds
  <2>2. Kept => Kept'
    BY <1>6, StepKeeps
  <2>3. QED
    BY <1>2, <2>1, <2>2
<1>7. ASSUME NEW p \in Callers, StepFails(p) \/ LockFails(p) \/ Crash(p)
      PROVE PublishedInv'
  <2>1. UNCHANGED <<lapses, expiries>>
    BY <1>7, FailsHolds, LockFailsHolds, CrashHolds
  <2>2. Kept => Kept'
    BY <1>7, FailuresKeep
  <2>3. QED
    BY <1>2, <2>1, <2>2
<1>8. ASSUME NEW r \in Rooms, LockExpires(r)
      PROVE PublishedInv'
  <2>1. UNCHANGED <<lapses, expiries>>
    BY <1>8 DEF LockExpires, bounds
  <2>2. Kept => Kept'
    BY <1>8, OrphanKeeps
  <2>3. QED
    BY <1>2, <2>1, <2>2
<1>9. ASSUME \/ \E r \in Rooms : LockLapses(r) \/ RoomExpires(r)
             \/ \E c \in Characters : MappingExpires(c)
      PROVE PublishedInv'
  BY <1>3, <1>9 DEF LockLapses, RoomExpires, MappingExpires
<1>10. CASE UNCHANGED vars
  <2>1. UNCHANGED <<committed, roomKey, lock, call, lapses, expiries>>
    BY <1>10 DEF vars, stores, sql, cache, bounds
  <2>2. QED
    BY <2>1 DEF PublishedInv, Kept, Holds, Shown, Open
<1>11. QED
  BY <1>4, <1>5, <1>6, <1>7, <1>8, <1>9, <1>10 DEF Next

\* As long as no lock lapses under its holder and no key expires, a room with
\* nothing left to publish shows in Valkey the roster and the pool that SQL
\* holds, whichever commands fail and calls stop (internal/pvp's
\* publishTransition, and withRoomLock, which publishes first what was left).
THEOREM CacheAlwaysFollows == Spec => []CacheFollowsClaim
<1>1. Init => PublishedInv
  <2> SUFFICES ASSUME Init PROVE Kept
    BY DEF PublishedInv
  <2>1. \A p \in Callers : call[p].pc = "idle"
    BY DEF Init, Idle
  <2>2. \A r \in Rooms : ~Open(r)
    BY DEF Init, Open, NoTransition, NoDetail
  <2>3. QED
    BY <2>1, <2>2 DEF Kept, Holds, Shown, Locked
<1>2. IInv /\ PublishedInv /\ [Next]_vars => PublishedInv'
  BY PublishedInductive
<1>3. IInv /\ PublishedInv => CacheFollowsClaim
  <2> SUFFICES ASSUME IInv, Kept, NEW r \in Rooms, ~committed[r].pending, Open(r)
               PROVE /\ roomKey[r].version = committed[r].detail.version
                     /\ roomKey[r].members = committed[r].detail.members
                     /\ roomKey[r].pool = Bet * Cardinality(roomKey[r].members)
    BY DEF PublishedInv, CacheFollowsClaim
  <2>1. SameRoster(roomKey[r], committed[r].detail)
    BY DEF Kept, Shown
  <2>2. committed[r].detail.status \in Live
    BY StoreFacts DEF Open, Live, Finished, Transitions, Details, Statuses
  <2>3. committed[r].detail.pool = Bet * Cardinality(committed[r].detail.members)
    BY <2>2 DEF IInv, RowsInv, CommittedInv, WellFormed
  <2>4. QED
    BY <2>1, <2>3 DEF SameRoster
<1>4. QED
  BY <1>1, <1>2, <1>3, AlwaysIInv, PTL DEF Spec
=============================================================================
