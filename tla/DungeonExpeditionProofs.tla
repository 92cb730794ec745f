---------------------- MODULE DungeonExpeditionProofs ----------------------
(***************************************************************************)
(* Proofs about DungeonExpedition, for every number of characters,         *)
(* requests, expeditions and setbacks.                                     *)
(*                                                                         *)
(* The inductive invariant says what the copy of an expedition that a      *)
(* request holds has to do with the keys of Valkey: it is older than what  *)
(* they hold, or the same (CopyOf), and a copy of what was frozen is what  *)
(* they hold until it is settled or lost (FrozenCopy).  An ID belongs to   *)
(* one leader, and to one request until it is written (FreshIn).           *)
(***************************************************************************)
EXTENDS DungeonExpedition, FiniteSetTheorems, TLAPS

References == (Delvers \X Ids) \cup {NoReference}

\* An expedition in Valkey.
BufferOK(b) ==
    /\ b.id <= handed
    /\ b.status = "none" \/ b.id = 0 => b = NoBuffer

BuffersInv ==
    /\ \A l \in Delvers : BufferOK(buffer[l])
    /\ \A l, k \in Delvers : buffer[l].id = buffer[k].id /\ buffer[l].id # 0 => l = k

\* What is settled was frozen, and stays so.
FinishedInv ==
    \A e \in Ids : finished[e] # NotSettled =>
        e <= handed /\ \A l \in Delvers : buffer[l].id = e => Frozen(buffer[l])

\* A copy e that was read from where b is now.
CopyOf(e, b) == e.id = b.id => e.rev <= b.rev /\ (e.rev = b.rev => e = b)

\* Nobody but the request p knows of the expedition that it starts.
FreshIn(p) ==
    LET x == delve[p] IN
    /\ x.exp.rev = 0 /\ x.exp.status = "exploring"
    /\ finished[x.exp.id] = NotSettled
    /\ \A l \in Delvers : buffer[l].id # x.exp.id
    /\ \A q \in Callers \ {p} : delve[q].pc # "idle" => delve[q].exp.id # x.exp.id

\* The copy of a request of what was frozen.
FrozenCopy(x) ==
    /\ buffer[x.who].id = x.exp.id => buffer[x.who] = x.exp
    /\ x.exp.id \in gone \/ finished[x.exp.id] # NotSettled \/ buffer[x.who] = x.exp

RequestOK(x) ==
    /\ x.pc # "idle" =>
          /\ x.who \in Delvers /\ x.exp.id \in 1..handed
          /\ \A l \in Delvers : buffer[l].id = x.exp.id => l = x.who
    /\ x.pc \in {"look", "explore", "freeze"} =>
          /\ CopyOf(x.exp, buffer[x.who])
          /\ x.op = "move" /\ ~Frozen(x.exp) => x.exp.foe = "none"
    /\ x.pc \in {"freeze", "reread"} => x.want # "none"
    /\ x.pc = "look" /\ Frozen(x.exp) => FrozenCopy(x)
    /\ x.pc = "settle" =>
          /\ Frozen(x.exp) /\ FrozenCopy(x)
          /\ x.exp.id \in gone \/ finished[x.exp.id] # NotSettled \/ spoils[x.who].n = x.loot
    /\ x.pc \in {"clean", "release"} => finished[x.exp.id] # NotSettled

RequestsInv ==
    \A p \in Callers : RequestOK(delve[p]) /\ (delve[p].pc = "reference" => FreshIn(p))

DelveIInv ==
    DelveTypeOK /\ memberOf \in [Delvers -> References] /\ BuffersInv /\ FinishedInv /\ RequestsInv

\* A start holds the rows of those it takes along, who are in no expedition.
Enrolling(p) ==
    LET x == delve[p] IN
    /\ x.who \in x.exp.members /\ x.todo \subseteq x.exp.members
    /\ \A m \in x.exp.members :
          /\ delverRow[m] = p /\ ~Kept(m)
          /\ \A l \in Delvers : buffer[l].status = "exploring" => m \notin buffer[l].members
          /\ m # x.who /\ m \notin x.todo => memberOf[m] = <<x.who, x.exp.id>>

EnrolledIInv ==
    /\ DelveIInv
    /\ EnrolledOnce
    /\ delveCuts = 0 => \A p \in Callers : delve[p].pc = "reference" => Enrolling(p)

-----------------------------------------------------------------------------
(* Types                                                                   *)

LEMMA NoBufferTyped ==
    /\ NoEarnings \in [Delvers -> Nat] /\ NoBuffer \in Buffers /\ NotSettled \in Settlements
    /\ NoDelve \in Delves /\ NoDelve.pc = "idle"
    /\ NoBuffer.id = 0 /\ NoBuffer.status = "none" /\ NoBuffer.rev = 0 /\ NoBuffer.gain = NoEarnings
    /\ NotSettled.outcome = "none"
<1>1. NoEarnings \in [Delvers -> Nat]
    BY DEF NoEarnings
<1>2. NoBuffer \in Buffers /\ NoBuffer.id = 0 /\ NoBuffer.status = "none" /\ NoBuffer.rev = 0
      /\ NoBuffer.gain = NoEarnings
    BY <1>1, DungeonAssumption DEF NoBuffer, Buffers
<1>3. NotSettled \in Settlements /\ NotSettled.outcome = "none"
    BY <1>1 DEF NotSettled, Settlements
<1>4. NoDelve \in Delves /\ NoDelve.pc = "idle"
    BY <1>2 DEF NoDelve, Delves
<1> QED
    BY <1>1, <1>2, <1>3, <1>4

\* The fields of an expedition.
LEMMA BufferFields ==
    ASSUME NEW b \in Buffers
    PROVE  /\ b.id \in 0..MaxExpeditions /\ b.rev \in Nat
           /\ b.status \in {"none", "exploring", "cleared", "escaped", "wiped_out"}
           /\ b.members \in SUBSET Delvers /\ b.fallen \in SUBSET Delvers /\ b.used \in SUBSET Kit
           /\ b.gain \in [Delvers -> Nat] /\ b.foe \in {"none", "monster", "boss"}
           /\ b.opened \in BOOLEAN
BY DEF Buffers

LEMMA MoreIsBounded ==
    ASSUME DelveTypeOK, MoreMayHappen
    PROVE  moves + 1 \in 0..MaxEvents /\ delveFaults + 1 \in 0..MaxEvents /\ delveCuts + 1 \in 0..MaxEvents
<1>1. PICK m \in Nat : m = Cardinality(gone)
    <2>1. IsFiniteSet(Ids)
        BY DungeonAssumption, FS_Interval DEF Ids
    <2>2. IsFiniteSet(gone)
        BY <2>1, FS_Subset DEF DelveTypeOK
    <2> QED
        BY <2>2, FS_CardinalityType
<1>2. PICK n \in Nat : n = Cardinality({c \in Delvers : pack[c] = "given"})
    <2>1. IsFiniteSet({c \in Delvers : pack[c] = "given"})
        BY DungeonAssumption, FS_Subset
    <2> QED
        BY <2>1, FS_CardinalityType
<1>3. handed + moves + delveFaults + delveCuts + m + n < MaxEvents
    BY <1>1, <1>2 DEF MoreMayHappen
<1>4. handed \in Nat /\ moves \in Nat /\ delveFaults \in Nat /\ delveCuts \in Nat /\ MaxEvents \in Nat
    BY DungeonAssumption DEF DelveTypeOK
<1> QED
    BY <1>3, <1>4

-----------------------------------------------------------------------------
(* The steps of an expedition                                              *)

\* What every step of dungeon_step.lua makes of the expedition B.
Stepped(b, B) ==
    /\ b \in Buffers /\ b.id = B.id /\ b.rev = B.rev + 1 /\ b.members = B.members
    /\ b.status # "none"
    /\ \A c \in Delvers : b.gain[c] # B.gain[c] => c \in Upright(B)

LEMMA AfterStepped ==
    ASSUME NEW B \in Buffers, B.status = "exploring", NEW hurt \in SUBSET Delvers, NEW spent \in BOOLEAN
    PROVE  /\ Stepped(After(B, hurt, spent), B)
           /\ After(B, hurt, spent).gain = B.gain /\ After(B, hurt, spent).used = B.used
           /\ After(B, hurt, spent).status \in {"exploring", "wiped_out"}
<1>1. PICK st : st = (IF spent \/ Upright(B) \subseteq hurt THEN "wiped_out" ELSE B.status)
    OBVIOUS
<1>2. st \in {"exploring", "wiped_out"}
    BY <1>1
<1>3. PICK rv \in Nat : rv = B.rev + 1
    BY DEF Buffers
<1>4. PICK fl \in SUBSET Delvers : fl = B.fallen \cup hurt
    BY DEF Buffers
<1>5. PICK y : y = [B EXCEPT !.rev = rv, !.fallen = fl, !.foe = "none", !.status = st]
    OBVIOUS
<1>6. After(B, hurt, spent) = y
    BY <1>1, <1>3, <1>4, <1>5, Zenon DEF After
<1>7. y \in Buffers
    BY <1>2, <1>5 DEF Buffers
<1>8. y.id = B.id /\ y.rev = rv /\ y.members = B.members /\ y.status = st /\ y.gain = B.gain
      /\ y.used = B.used
    BY <1>5 DEF Buffers
<1> QED
    BY <1>2, <1>3, <1>6, <1>7, <1>8 DEF Stepped

\* Who earns a share of a step was standing.
LEMMA EarnsStepped ==
    ASSUME NEW B \in Buffers, NEW S \in SUBSET Upright(B)
    PROVE  /\ Earns(B, S) \in [Delvers -> Nat]
           /\ \A c \in Delvers : Earns(B, S)[c] # B.gain[c] => c \in Upright(B)
<1>1. B.gain \in [Delvers -> Nat]
    BY DEF Buffers
<1> QED
    BY <1>1 DEF Earns

LEMMA GainStepped ==
    ASSUME NEW B \in Buffers, NEW y, Stepped(y, B), NEW S \in SUBSET Upright(B)
    PROVE  /\ Stepped([y EXCEPT !.opened = TRUE, !.gain = Earns(B, S)], B)
           /\ \A st \in {"exploring", "cleared", "wiped_out"} :
                 Stepped([y EXCEPT !.gain = Earns(B, S), !.status = st], B)
<1>1. PICK g \in [Delvers -> Nat] : g = Earns(B, S) /\ \A c \in Delvers : g[c] # B.gain[c] => c \in Upright(B)
    BY EarnsStepped
<1>2. y \in Buffers /\ y.id = B.id /\ y.rev = B.rev + 1 /\ y.members = B.members /\ y.status # "none"
    BY DEF Stepped
<1>3. PICK z : z = [y EXCEPT !.opened = TRUE, !.gain = g]
    OBVIOUS
<1>4. z \in Buffers
    BY <1>2, <1>3 DEF Buffers
<1>5. z.id = y.id /\ z.rev = y.rev /\ z.members = y.members /\ z.status = y.status /\ z.gain = g
    BY <1>2, <1>3 DEF Buffers
<1>6. Stepped(z, B)
    BY <1>1, <1>2, <1>4, <1>5 DEF Stepped
<1>7. ASSUME NEW st \in {"exploring", "cleared", "wiped_out"}
      PROVE  Stepped([y EXCEPT !.gain = g, !.status = st], B)
    <2>1. PICK w : w = [y EXCEPT !.gain = g, !.status = st]
        OBVIOUS
    <2>2. w \in Buffers
        BY <1>2, <2>1 DEF Buffers
    <2>3. w.id = y.id /\ w.rev = y.rev /\ w.members = y.members /\ w.status = st /\ w.gain = g
        BY <1>2, <2>1 DEF Buffers
    <2>4. Stepped(w, B)
        BY <1>1, <1>2, <2>2, <2>3 DEF Stepped
    <2> QED
        BY <2>1, <2>4
<1> QED
    BY <1>1, <1>3, <1>6, <1>7

\* The battles that are fought, on the copy e which is what Valkey holds.
LEMMA FoughtStepped ==
    ASSUME NEW p \in Callers, NEW B \in Buffers, B = buffer[delve[p].who], B = delve[p].exp,
           B.status = "exploring", NEW w \in Battles(p)
    PROVE  /\ Stepped(Fought(p, w), B) /\ Fought(p, w).status \in {"exploring", "wiped_out"}
           /\ Survivors(p, w) \in SUBSET Upright(B)
           /\ w.f \in {"monster", "boss"} \cup {B.foe}
<1>1. w.hurt \in SUBSET Upright(B) /\ w.U \in SUBSET Usable(B) /\ w.spent \in BOOLEAN /\ w.f \in Foes(p)
    BY DEF Battles
<1>2. Upright(B) \in SUBSET Delvers
    BY DEF Upright, Buffers
<1>3. Usable(B) \in SUBSET Kit
    BY DEF Usable
<1>4. PICK y : y = After(B, w.hurt, w.spent) /\ Stepped(y, B) /\ y.used = B.used
                     /\ y.status \in {"exploring", "wiped_out"}
    BY <1>1, <1>2, AfterStepped
<1>5. y \in Buffers /\ y.used \in SUBSET Kit
    BY <1>4 DEF Stepped, Buffers
<1>6. PICK u \in SUBSET Kit : u = y.used \cup w.U
    BY <1>1, <1>3, <1>5
<1>7. PICK z : z = [y EXCEPT !.used = u]
    OBVIOUS
<1>8. z \in Buffers /\ z.id = y.id /\ z.rev = y.rev /\ z.members = y.members /\ z.status = y.status
      /\ z.gain = y.gain
    BY <1>5, <1>7 DEF Buffers
<1>9. Stepped(z, B)
    BY <1>4, <1>8 DEF Stepped
<1>10. Fought(p, w) = z
    BY <1>4, <1>6, <1>7, Zenon DEF Fought
<1>11. w.f \in {"monster", "boss"} \cup {B.foe}
    BY <1>1 DEF Foes
<1> QED
    BY <1>1, <1>4, <1>8, <1>9, <1>10, <1>11 DEF Survivors

LEMMA FoeStepped ==
    ASSUME NEW B \in Buffers, NEW y, Stepped(y, B), NEW f \in {"none", "monster", "boss"}
    PROVE  Stepped([y EXCEPT !.foe = f], B)
<1>1. y \in Buffers
    BY DEF Stepped
<1>2. PICK z : z = [y EXCEPT !.foe = f]
    OBVIOUS
<1>3. z \in Buffers /\ z.id = y.id /\ z.rev = y.rev /\ z.members = y.members /\ z.status = y.status
      /\ z.gain = y.gain
    BY <1>1, <1>2 DEF Buffers
<1> QED
    BY <1>2, <1>3 DEF Stepped

\* freezeExpedition
LEMMA FreezeStepped ==
    ASSUME NEW B \in Buffers, NEW st \in {"cleared", "escaped"}
    PROVE  /\ Stepped([B EXCEPT !.rev = @ + 1, !.foe = "none", !.status = st], B)
           /\ Frozen([B EXCEPT !.rev = @ + 1, !.foe = "none", !.status = st])
<1>1. PICK rv \in Nat : rv = B.rev + 1
    BY DEF Buffers
<1>2. PICK y : y = [B EXCEPT !.rev = rv, !.foe = "none", !.status = st]
    OBVIOUS
<1>3. y \in Buffers /\ y.id = B.id /\ y.rev = rv /\ y.members = B.members /\ y.status = st /\ y.gain = B.gain
    BY <1>2 DEF Buffers
<1>4. Stepped(y, B) /\ Frozen(y)
    BY <1>1, <1>3 DEF Stepped, Frozen
<1>5. y = [B EXCEPT !.rev = @ + 1, !.foe = "none", !.status = st]
    BY <1>1, <1>2, Zenon
<1> QED
    BY <1>4, <1>5

-----------------------------------------------------------------------------
(* What a step may do to the keys                                          *)

\* An expedition takes a step or is replaced; one that is frozen only goes
\* when it was settled or is lost.
KeyStep(l) ==
    /\ buffer'[l].id = buffer[l].id =>
          \/ buffer'[l] = buffer[l]
          \/ buffer[l].status = "exploring" /\ buffer'[l].rev > buffer[l].rev
    /\ Frozen(buffer[l]) =>
          \/ buffer'[l] = buffer[l] /\ spoils'[l].n = spoils[l].n
          \/ buffer[l].id \in gone'
          \/ finished'[buffer[l].id] # NotSettled

\* What a request remembers.
LEMMA RequestFields ==
    ASSUME NEW x \in Delves
    PROVE  /\ x.exp \in Buffers /\ x.exp.id \in 0..MaxExpeditions /\ x.exp.rev \in Nat
           /\ x.loot \in Nat /\ x.todo \in SUBSET Delvers
           /\ x.want \in {"none", "cleared", "escaped"}
           /\ x.op \in {"start", "move", "fight", "escape"}
BY DEF Delves, Buffers

\* The requests that do not take the step.
LEMMA OtherKeeps ==
    ASSUME DelveTypeOK, NEW x \in Delves, RequestOK(x), gone \subseteq gone',
           handed' \in Nat, handed <= handed', buffer' \in [Delvers -> Buffers],
           \A e \in Ids : finished[e] # NotSettled => finished'[e] # NotSettled,
           \A l \in Delvers : KeyStep(l),
           x.pc # "idle" => \A l \in Delvers : buffer'[l].id = x.exp.id => buffer[l].id = x.exp.id
    PROVE  RequestOK(x)'
<1> SUFFICES ASSUME x.pc # "idle" PROVE RequestOK(x)'
    BY DEF RequestOK
<1>1. x.who \in Delvers /\ x.exp.id \in 1..handed
      /\ \A l \in Delvers : buffer[l].id = x.exp.id => l = x.who
    BY DEF RequestOK
<1>2. PICK l \in Delvers : l = x.who
    BY <1>1
<1>3. PICK e \in Ids : e = x.exp.id
    BY <1>1, DungeonAssumption DEF DelveTypeOK, Ids
<1>4. PICK b \in Buffers : b = buffer[l]
    BY DEF DelveTypeOK
<1>5. PICK c \in Buffers : c = buffer'[l]
    OBVIOUS
<1>6. x.exp.id \in 1..handed' /\ \A k \in Delvers : buffer'[k].id = x.exp.id => k = x.who
    BY <1>1, DungeonAssumption DEF DelveTypeOK
<1>7. KeyStep(l) /\ (c.id = e => b.id = e)
    BY <1>2, <1>3, <1>4, <1>5
<1>8. b.rev \in Nat /\ c.rev \in Nat /\ x.exp.rev \in Nat
    BY RequestFields DEF Buffers
<1>9. ASSUME CopyOf(x.exp, b)
      PROVE  CopyOf(x.exp, c)
    <2>1. SUFFICES ASSUME x.exp.id = c.id PROVE x.exp.rev <= c.rev /\ (x.exp.rev = c.rev => x.exp = c)
        BY DEF CopyOf
    <2>2. b.id = c.id /\ x.exp.rev <= b.rev /\ (x.exp.rev = b.rev => x.exp = b)
        BY <1>3, <1>7, <1>9, <2>1 DEF CopyOf
    <2>3. c = b \/ c.rev > b.rev
        BY <1>4, <1>5, <1>7, <2>2 DEF KeyStep
    <2> QED
        BY <1>8, <2>2, <2>3
<1>10. e \in gone => e \in gone'
    OBVIOUS
<1>11. finished[e] # NotSettled => finished'[e] # NotSettled
    OBVIOUS
<1>12. ASSUME FrozenCopy(x), Frozen(x.exp)
       PROVE  FrozenCopy(x)'
    <2>1. b = x.exp =>
             \/ c = x.exp /\ spoils'[l].n = spoils[l].n
             \/ e \in gone'
             \/ finished'[e] # NotSettled
        BY <1>3, <1>4, <1>5, <1>7, <1>12 DEF KeyStep
    <2>2. c.id = e => c = x.exp
        <3>1. SUFFICES ASSUME c.id = e PROVE c = x.exp
            OBVIOUS
        <3>2. b.id = e /\ b = x.exp
            BY <1>2, <1>3, <1>4, <1>7, <1>12, <3>1 DEF FrozenCopy
        <3>3. c = b \/ b.status = "exploring"
            BY <1>4, <1>5, <1>7, <3>1, <3>2 DEF KeyStep
        <3> QED
            BY <1>12, <3>2, <3>3 DEF Frozen
    <2>3. e \in gone' \/ finished'[e] # NotSettled \/ c = x.exp
        BY <1>2, <1>3, <1>4, <1>10, <1>11, <1>12, <2>1 DEF FrozenCopy
    <2> QED
        BY <1>2, <1>3, <1>5, <2>2, <2>3 DEF FrozenCopy
<1>13. ASSUME x.pc = "settle"
       PROVE  x.exp.id \in gone' \/ finished'[x.exp.id] # NotSettled \/ spoils'[x.who].n = x.loot
    <2>1. Frozen(x.exp) /\ FrozenCopy(x)
          /\ (e \in gone \/ finished[e] # NotSettled \/ spoils[l].n = x.loot)
        BY <1>2, <1>3, <1>13 DEF RequestOK
    <2>2. e \in gone' \/ finished'[e] # NotSettled \/ (b = x.exp /\ spoils[l].n = x.loot)
        BY <1>2, <1>3, <1>4, <1>10, <1>11, <2>1 DEF FrozenCopy
    <2>3. b = x.exp =>
             \/ spoils'[l].n = spoils[l].n
             \/ e \in gone'
             \/ finished'[e] # NotSettled
        BY <1>3, <1>4, <1>7, <2>1 DEF KeyStep
    <2> QED
        BY <1>2, <1>3, <2>2, <2>3
<1>14. x.pc \in {"look", "explore", "freeze"} =>
           /\ CopyOf(x.exp, buffer'[x.who])
           /\ x.op = "move" /\ ~Frozen(x.exp) => x.exp.foe = "none"
    BY <1>2, <1>4, <1>5, <1>9 DEF RequestOK
<1>15. x.pc = "look" /\ Frozen(x.exp) => FrozenCopy(x)'
    BY <1>12 DEF RequestOK
<1>16. x.pc = "settle" => Frozen(x.exp) /\ FrozenCopy(x)'
    BY <1>12 DEF RequestOK
<1>17. x.pc \in {"clean", "release"} => finished'[x.exp.id] # NotSettled
    BY <1>3, <1>11 DEF RequestOK
<1>18. x.pc \in {"freeze", "reread"} => x.want # "none"
    BY DEF RequestOK
<1> QED
    BY <1>1, <1>6, <1>13, <1>14, <1>15, <1>16, <1>17, <1>18 DEF RequestOK

\* All requests, when p takes a step and remembers y.
LEMMA RequestsKept ==
    ASSUME DelveIInv, NEW p \in Callers, NEW y \in Delves, DelveOn(p, y), RequestOK(y)',
           gone \subseteq gone', handed' \in Nat, handed <= handed', buffer' \in [Delvers -> Buffers],
           \A e \in Ids : finished[e] # NotSettled => finished'[e] # NotSettled,
           \A l \in Delvers : KeyStep(l),
           \A q \in Callers \ {p} : delve[q].pc # "idle" =>
              \A l \in Delvers : buffer'[l].id = delve[q].exp.id => buffer[l].id = delve[q].exp.id,
           \A q \in Callers \ {p} : delve[q].pc = "reference" =>
              /\ finished'[delve[q].exp.id] = NotSettled
              /\ y.pc # "idle" => y.exp.id # delve[q].exp.id,
           y.pc = "reference" => FreshIn(p)'
    PROVE  delve' \in [Callers -> Delves] /\ RequestsInv'
<1>1. delve \in [Callers -> Delves] /\ DelveTypeOK
    BY DEF DelveIInv, DelveTypeOK
<1>2. delve' = [delve EXCEPT ![p] = y]
    BY DEF DelveOn
<1>3. delve' \in [Callers -> Delves] /\ delve'[p] = y /\ \A q \in Callers \ {p} : delve'[q] = delve[q]
    BY <1>1, <1>2
<1>4. ASSUME NEW q \in Callers \ {p}
      PROVE  RequestOK(delve[q])' /\ (delve'[q].pc = "reference" => FreshIn(q)')
    <2>1. PICK x \in Delves : x = delve[q]
        BY <1>1
    <2>2. RequestOK(x)
        BY <2>1 DEF DelveIInv, RequestsInv
    <2>3. RequestOK(x)'
        BY <1>1, <2>1, <2>2, OtherKeeps
    <2>4. delve'[q] = x
        BY <1>3, <2>1
    <2>5. ASSUME x.pc = "reference"
          PROVE  FreshIn(q)'
        <3>1. FreshIn(q)
            BY <2>1, <2>5 DEF DelveIInv, RequestsInv
        <3>2. x.exp.rev = 0 /\ x.exp.status = "exploring"
            BY <2>1, <3>1 DEF FreshIn
        <3>3. finished'[x.exp.id] = NotSettled
            BY <2>1, <2>5
        <3>4. \A l \in Delvers : buffer'[l].id # x.exp.id
            BY <2>1, <2>5, <3>1 DEF FreshIn
        <3>5. \A z \in Callers \ {q} : delve'[z].pc # "idle" => delve'[z].exp.id # x.exp.id
            BY <1>3, <2>1, <2>5, <3>1 DEF FreshIn
        <3> QED
            BY <2>4, <3>2, <3>3, <3>4, <3>5 DEF FreshIn
    <2> QED
        BY <2>3, <2>4, <2>5
<1>5. RequestOK(delve[p])'
    BY <1>3
<1>6. delve'[p].pc = "reference" => FreshIn(p)'
    BY <1>3
<1> QED
    BY <1>3, <1>4, <1>5, <1>6 DEF RequestsInv

\* The ID of a fresh expedition is known to nobody else.
LEMMA FreshIsUnknown ==
    ASSUME DelveIInv, NEW p \in Callers, NEW q \in Callers \ {p}, delve[q].pc = "reference"
    PROVE  /\ delve[p].pc # "idle" => delve[p].exp.id # delve[q].exp.id
           /\ \A l \in Delvers : buffer[l].id # delve[q].exp.id
           /\ finished[delve[q].exp.id] = NotSettled
BY DEF DelveIInv, RequestsInv, FreshIn

\* The types of what is not about the requests.
TypesNext ==
    /\ buffer' \in [Delvers -> Buffers]
    /\ spoils' \in [Delvers -> [exists : BOOLEAN, n : Nat]]
    /\ memberOf' \in [Delvers -> References]
    /\ finished' \in [Ids -> Settlements]
    /\ pack' \in [Delvers -> {"none", "held", "used", "given"}]
    /\ delverRow' \in [Delvers -> Callers \cup {Nobody}]
    /\ handed' \in 0..MaxExpeditions /\ moves' \in 0..MaxEvents /\ gone' \subseteq Ids
    /\ delveFaults' \in 0..MaxEvents /\ delveCuts' \in 0..MaxEvents

LEMMA TypesFollow ==
    ASSUME TypesNext, delve' \in [Callers -> Delves]
    PROVE  DelveTypeOK' /\ (memberOf \in [Delvers -> References])'
<1>1. \A c \in Delvers : memberOf'[c] \in (Delvers \X Ids) \cup {NoReference}
    BY DEF TypesNext, References
<1> QED
    BY <1>1 DEF TypesNext, DelveTypeOK, References, Ids

\* A step of p that leaves the expeditions and the history as they are.
LEMMA QuietStep ==
    ASSUME DelveIInv, NEW p \in Callers, NEW y \in Delves, DelveOn(p, y),
           UNCHANGED <<buffer, spoils, finished, gone, handed>>,
           RequestOK(y),
           y.pc # "idle" => \A q \in Callers \ {p} : delve[q].pc = "reference" =>
                                y.exp.id # delve[q].exp.id,
           y.pc = "reference" => delve[p].pc = "reference" /\ y.exp = delve[p].exp,
           memberOf' \in [Delvers -> References],
           pack' \in [Delvers -> {"none", "held", "used", "given"}],
           delverRow' \in [Delvers -> Callers \cup {Nobody}],
           moves' \in 0..MaxEvents, delveFaults' \in 0..MaxEvents, delveCuts' \in 0..MaxEvents
    PROVE  DelveIInv'
<1>1. TypesNext
    BY DEF TypesNext, DelveIInv, DelveTypeOK
<1>2. RequestOK(y)'
    BY DEF RequestOK, FrozenCopy
<1>3. \A l \in Delvers : KeyStep(l)
    BY DEF KeyStep
<1>4. ASSUME y.pc = "reference"
      PROVE  FreshIn(p)'
    <2>1. FreshIn(p) /\ y.exp = delve[p].exp
        BY <1>4 DEF DelveIInv, RequestsInv
    <2>2. delve'[p] = y /\ \A q \in Callers \ {p} : delve'[q] = delve[q]
        BY DEF DelveOn, DelveIInv, DelveTypeOK
    <2> QED
        BY <2>1, <2>2 DEF FreshIn
<1>5. handed' \in Nat /\ handed <= handed' /\ gone \subseteq gone'
    BY DEF DelveIInv, DelveTypeOK
<1>6. buffer' \in [Delvers -> Buffers] /\ \A e \in Ids : finished[e] # NotSettled => finished'[e] # NotSettled
    BY <1>1 DEF TypesNext
<1>7. \A q \in Callers \ {p} : delve[q].pc = "reference" =>
         /\ finished'[delve[q].exp.id] = NotSettled
         /\ y.pc # "idle" => y.exp.id # delve[q].exp.id
    BY FreshIsUnknown
<1>8. delve' \in [Callers -> Delves] /\ RequestsInv'
    BY <1>2, <1>3, <1>4, <1>5, <1>6, <1>7, RequestsKept
<1>9. BuffersInv' /\ FinishedInv'
    BY DEF DelveIInv, BuffersInv, BufferOK, FinishedInv
<1> QED
    BY <1>1, <1>8, <1>9, TypesFollow DEF DelveIInv

\* A request goes on, with the copy it had.
LEMMA GoesOn ==
    ASSUME DelveIInv, NEW p \in Callers, NEW y \in Delves, delve[p].pc # "idle", y.exp = delve[p].exp
    PROVE  \A q \in Callers \ {p} : delve[q].pc = "reference" => y.exp.id # delve[q].exp.id
BY FreshIsUnknown

LEMMA RowsTyped ==
    ASSUME DelveIInv, NEW p \in Callers, RowsGivenUp(p)
    PROVE  delverRow' \in [Delvers -> Callers \cup {Nobody}]
BY DEF DelveIInv, DelveTypeOK, RowsGivenUp

\* A request answers.
LEMMA AnsweredStep ==
    ASSUME DelveIInv, NEW p \in Callers, Answered(p),
           UNCHANGED <<buffer, spoils, finished, gone, handed>>,
           memberOf' \in [Delvers -> References],
           pack' \in [Delvers -> {"none", "held", "used", "given"}],
           delverRow' \in [Delvers -> Callers \cup {Nobody}],
           moves' \in 0..MaxEvents, delveFaults' \in 0..MaxEvents, delveCuts' \in 0..MaxEvents
    PROVE  DelveIInv'
<1>1. RequestOK(NoDelve)
    BY NoBufferTyped DEF RequestOK
<1> QED
    BY <1>1, NoBufferTyped, QuietStep DEF Answered

-----------------------------------------------------------------------------
(* Requests that write nothing about an expedition                         *)

LEMMA SaveReferenceStep ==
    ASSUME DelveIInv, NEW p \in Callers, NEW m \in Delvers, SaveReference(p, m)
    PROVE  DelveIInv'
<1>1. PICK x \in Delves : x = delve[p]
    BY DEF DelveIInv, DelveTypeOK
<1>2. x.pc = "reference" /\ RequestOK(x)
    BY <1>1 DEF SaveReference, DelveIInv, RequestsInv
<1>3. PICK y : y = [x EXCEPT !.todo = @ \ {m}]
    OBVIOUS
<1>4. x.todo \ {m} \in SUBSET Delvers
    BY RequestFields
<1>5. y \in Delves /\ y.pc = "reference" /\ y.exp = x.exp /\ y.who = x.who
    BY <1>2, <1>3, <1>4 DEF Delves
<1>6. RequestOK(y)
    BY <1>2, <1>5 DEF RequestOK
<1>7. DelveOn(p, y) /\ memberOf' = [memberOf EXCEPT ![m] = <<x.who, x.exp.id>>]
      /\ UNCHANGED <<buffer, spoils, delveSql, delverRow, handed, delveCounts>>
    BY <1>1, <1>3 DEF SaveReference
<1>8. <<x.who, x.exp.id>> \in References
    BY <1>2, DungeonAssumption DEF RequestOK, References, Ids, DelveIInv, DelveTypeOK
<1>9. memberOf' \in [Delvers -> References]
    BY <1>7, <1>8 DEF DelveIInv
<1>10. UNCHANGED <<buffer, spoils, finished, gone, handed, pack, delverRow, moves, delveFaults, delveCuts>>
    BY <1>7 DEF delveSql, delveCounts
<1> QED
    BY <1>1, <1>2, <1>5, <1>6, <1>7, <1>9, <1>10, GoesOn, QuietStep DEF DelveIInv, DelveTypeOK

LEMMA CommitStartStep ==
    ASSUME DelveIInv, NEW p \in Callers, CommitStart(p)
    PROVE  DelveIInv'
<1>1. Answered(p) /\ RowsGivenUp(p)
      /\ UNCHANGED <<buffer, spoils, memberOf, finished, gone, handed, pack, moves, delveFaults, delveCuts>>
    BY DEF CommitStart, delveKeys, delveSql, delveCounts
<1> QED
    BY <1>1, AnsweredStep, RowsTyped DEF DelveIInv, DelveTypeOK

LEMMA AskDelveStep ==
    ASSUME DelveIInv, NEW p \in Callers, NEW c \in Delvers, NEW op \in {"move", "fight", "escape"},
           AskDelve(p, c, op)
    PROVE  DelveIInv'
<1>1. PICK b \in Buffers : b = buffer[c] /\ BufferOK(b) /\ b.status # "none"
    BY DEF DelveIInv, DelveTypeOK, BuffersInv, AskDelve, Kept
<1>2. PICK y : y = [NoDelve EXCEPT !.pc = "look", !.op = op, !.who = c, !.exp = b]
    OBVIOUS
<1>3. y \in Delves /\ y.pc = "look" /\ y.op = op /\ y.who = c /\ y.exp = b
    BY <1>2, NoBufferTyped DEF Delves, NoDelve
<1>4. Answers(op, b) /\ DelveOn(p, y) /\ UNCHANGED <<delveKeys, delveSql, delverRow, handed, gone, delveFaults, delveCuts>>
      /\ (UNCHANGED moves \/ (MoreMayHappen /\ moves' = moves + 1))
    BY <1>1, <1>2 DEF AskDelve
<1>5. UNCHANGED <<buffer, spoils, memberOf, finished, gone, handed, pack, delverRow, delveFaults, delveCuts>>
    BY <1>4 DEF delveKeys, delveSql
<1>6. moves' \in 0..MaxEvents
    BY <1>4, MoreIsBounded DEF DelveIInv, DelveTypeOK
<1>7. b.id \in 1..handed
    <2>1. b.id # 0
        BY <1>1, NoBufferTyped DEF BufferOK
    <2>2. b.id \in 0..MaxExpeditions /\ b.id <= handed /\ handed \in Nat
        BY <1>1, DungeonAssumption DEF BufferOK, Buffers, DelveIInv, DelveTypeOK
    <2> QED
        BY <2>1, <2>2, DungeonAssumption
<1>8. RequestOK(y)
    <2>1. \A l \in Delvers : buffer[l].id = b.id => l = c
        BY <1>1, <1>7 DEF DelveIInv, BuffersInv
    <2>2. CopyOf(b, b)
        BY BufferFields DEF CopyOf
    <2>3. op = "move" => b.foe = "none"
        BY <1>4 DEF Answers
    <2>4. FrozenCopy(y)
        BY <1>1, <1>3 DEF FrozenCopy
    <2> QED
        BY <1>1, <1>3, <1>7, <2>1, <2>2, <2>3, <2>4 DEF RequestOK
<1>9. \A q \in Callers \ {p} : delve[q].pc = "reference" => y.exp.id # delve[q].exp.id
    BY <1>1, <1>3, FreshIsUnknown
<1> QED
    BY <1>3, <1>4, <1>5, <1>6, <1>8, <1>9, QuietStep DEF DelveIInv, DelveTypeOK

LEMMA LookInStep ==
    ASSUME DelveIInv, NEW p \in Callers, LookIn(p)
    PROVE  DelveIInv'
<1>1. PICK x \in Delves : x = delve[p]
    BY DEF DelveIInv, DelveTypeOK
<1>2. x.pc = "look" /\ RequestOK(x)
    BY <1>1 DEF LookIn, DelveIInv, RequestsInv
<1>3. PICK n \in Nat : n = spoils[x.who].n
    BY <1>2 DEF RequestOK, DelveIInv, DelveTypeOK
<1>4. PICK y : y = [x EXCEPT !.loot = n]
    OBVIOUS
<1>5. y \in Delves /\ y.exp = x.exp /\ y.who = x.who /\ y.op = x.op /\ y.loot = n /\ y.pc = x.pc
    BY <1>3, <1>4 DEF Delves
<1>6. UNCHANGED <<buffer, spoils, memberOf, finished, gone, handed, pack, delverRow, moves, delveFaults, delveCuts>>
    BY DEF LookIn, delveKeys, delveSql, delveCounts
<1>7. ASSUME NEW z \in Delves, z.pc # "reference", z.exp = x.exp, RequestOK(z), DelveOn(p, z)
      PROVE  DelveIInv'
    BY <1>1, <1>2, <1>6, <1>7, GoesOn, QuietStep DEF DelveIInv, DelveTypeOK
<1>8. CASE Frozen(x.exp) /\ DelveOn(p, [y EXCEPT !.pc = "settle"])
    <2>1. PICK z : z = [y EXCEPT !.pc = "settle"]
        OBVIOUS
    <2>2. z \in Delves /\ z.pc = "settle" /\ z.exp = x.exp /\ z.who = x.who /\ z.loot = n
        BY <1>5, <2>1 DEF Delves
    <2>3. FrozenCopy(x)
        BY <1>2, <1>8 DEF RequestOK
    <2>4. RequestOK(z)
        BY <1>2, <1>3, <1>8, <2>2, <2>3 DEF RequestOK, FrozenCopy
    <2> QED
        BY <1>7, <1>8, <2>1, <2>2, <2>4
<1>9. CASE DelveOn(p, [y EXCEPT !.pc = "explore"])
    <2>1. PICK z : z = [y EXCEPT !.pc = "explore"]
        OBVIOUS
    <2>2. z \in Delves /\ z.pc = "explore" /\ z.exp = x.exp /\ z.who = x.who /\ z.op = x.op
        BY <1>5, <2>1 DEF Delves
    <2>3. RequestOK(z)
        BY <1>2, <2>2 DEF RequestOK
    <2> QED
        BY <1>7, <1>9, <2>1, <2>2, <2>3
<1>10. ASSUME NEW w \in {"escaped", "cleared"}, DelveOn(p, [y EXCEPT !.pc = "freeze", !.want = w])
       PROVE  DelveIInv'
    <2>1. PICK z : z = [y EXCEPT !.pc = "freeze", !.want = w]
        OBVIOUS
    <2>2. z \in Delves /\ z.pc = "freeze" /\ z.exp = x.exp /\ z.who = x.who /\ z.op = x.op /\ z.want = w
        BY <1>5, <2>1 DEF Delves
    <2>3. RequestOK(z)
        BY <1>2, <2>2 DEF RequestOK
    <2> QED
        BY <1>7, <1>10, <2>1, <2>2, <2>3
<1> QED
    BY <1>1, <1>3, <1>4, <1>8, <1>9, <1>10 DEF LookIn

LEMMA StepRejectedStep ==
    ASSUME DelveIInv, NEW p \in Callers, StepRejected(p)
    PROVE  DelveIInv'
<1>1. Answered(p) /\ UNCHANGED <<buffer, spoils, memberOf, finished, gone, handed, pack, delverRow,
                                moves, delveFaults, delveCuts>>
    BY DEF StepRejected, delveKeys, delveSql, delveCounts
<1> QED
    BY <1>1, AnsweredStep DEF DelveIInv, DelveTypeOK

LEMMA FrozenByOtherStep ==
    ASSUME DelveIInv, NEW p \in Callers, FrozenByOther(p)
    PROVE  DelveIInv'
<1>1. PICK x \in Delves : x = delve[p]
    BY DEF DelveIInv, DelveTypeOK
<1>2. x.pc = "freeze" /\ RequestOK(x)
    BY <1>1 DEF FrozenByOther, DelveIInv, RequestsInv
<1>3. PICK y : y = [x EXCEPT !.pc = "reread"]
    OBVIOUS
<1>4. y \in Delves /\ y.exp = x.exp /\ y.who = x.who /\ y.want = x.want /\ y.pc = "reread"
    BY <1>3 DEF Delves
<1>5. DelveOn(p, y) /\ UNCHANGED <<buffer, spoils, memberOf, finished, gone, handed, pack, delverRow,
                                  moves, delveFaults, delveCuts>>
    BY <1>1, <1>3 DEF FrozenByOther, delveKeys, delveSql, delveCounts
<1>6. RequestOK(y)
    BY <1>2, <1>4 DEF RequestOK
<1> QED
    BY <1>1, <1>2, <1>4, <1>5, <1>6, GoesOn, QuietStep DEF DelveIInv, DelveTypeOK

LEMMA RereadStep ==
    ASSUME DelveIInv, NEW p \in Callers, Reread(p)
    PROVE  DelveIInv'
<1>1. PICK x \in Delves : x = delve[p]
    BY DEF DelveIInv, DelveTypeOK
<1>2. x.pc = "reread" /\ RequestOK(x)
    BY <1>1 DEF Reread, DelveIInv, RequestsInv
<1>3. x.who \in Delvers /\ x.want \in {"cleared", "escaped"}
    BY <1>2, RequestFields DEF RequestOK
<1>4. PICK b \in Buffers : b = buffer[x.who]
    BY <1>3 DEF DelveIInv, DelveTypeOK
<1>5. UNCHANGED <<buffer, spoils, memberOf, finished, gone, handed, pack, delverRow, moves, delveFaults, delveCuts>>
    BY DEF Reread, delveKeys, delveSql, delveCounts
<1>6. CASE b.id = x.exp.id /\ b.status = x.want
    <2>1. PICK y : y = [x EXCEPT !.pc = "look", !.exp = b]
        OBVIOUS
    <2>2. y \in Delves /\ y.exp = b /\ y.who = x.who /\ y.pc = "look"
        BY <2>1 DEF Delves
    <2>3. DelveOn(p, y)
        BY <1>1, <1>4, <1>6, <2>1 DEF Reread
    <2>4. Frozen(b) /\ CopyOf(b, b)
        BY <1>3, <1>6, BufferFields DEF Frozen, CopyOf
    <2>5. FrozenCopy(y)
        BY <1>4, <2>2 DEF FrozenCopy
    <2>6. RequestOK(y)
        BY <1>2, <1>3, <1>4, <1>6, <2>2, <2>4, <2>5 DEF RequestOK
    <2>7. \A q \in Callers \ {p} : delve[q].pc = "reference" => y.exp.id # delve[q].exp.id
        BY <1>1, <1>2, <1>6, <2>2, FreshIsUnknown
    <2> QED
        BY <1>5, <2>2, <2>3, <2>6, <2>7, QuietStep DEF DelveIInv, DelveTypeOK
<1>7. CASE ~(b.id = x.exp.id /\ b.status = x.want)
    <2>1. Answered(p)
        BY <1>1, <1>4, <1>7 DEF Reread
    <2> QED
        BY <1>5, <2>1, AnsweredStep DEF DelveIInv, DelveTypeOK
<1> QED
    BY <1>6, <1>7

LEMMA CleanStep ==
    ASSUME DelveIInv, NEW p \in Callers, Clean(p)
    PROVE  DelveIInv'
<1>1. PICK x \in Delves : x = delve[p]
    BY DEF DelveIInv, DelveTypeOK
<1>2. x.pc = "clean" /\ RequestOK(x)
    BY <1>1 DEF Clean, DelveIInv, RequestsInv
<1>3. PICK b \in Buffers : b = buffer[x.who]
    BY <1>2 DEF DelveIInv, DelveTypeOK, RequestOK
<1>4. UNCHANGED <<buffer, spoils, memberOf, finished, gone, handed, pack, delverRow, moves, delveFaults, delveCuts>>
    BY DEF Clean, delveKeys, delveSql, delveCounts
<1>5. CASE DelveOn(p, [x EXCEPT !.pc = "release", !.todo = b.members \ {x.who}])
    <2>1. PICK y : y = [x EXCEPT !.pc = "release", !.todo = b.members \ {x.who}]
        OBVIOUS
    <2>2. b.members \ {x.who} \in SUBSET Delvers
        BY BufferFields
    <2>3. y \in Delves /\ y.exp = x.exp /\ y.who = x.who /\ y.pc = "release"
        BY <2>1, <2>2 DEF Delves
    <2>4. RequestOK(y)
        BY <1>2, <2>3 DEF RequestOK
    <2>5. DelveOn(p, y)
        BY <1>5, <2>1
    <2> QED
        BY <1>1, <1>2, <1>4, <2>3, <2>4, <2>5, GoesOn, QuietStep DEF DelveIInv, DelveTypeOK
<1>6. CASE Answered(p)
    BY <1>4, <1>6, AnsweredStep DEF DelveIInv, DelveTypeOK
<1> QED
    BY <1>1, <1>3, <1>5, <1>6 DEF Clean

LEMMA ReleaseReferenceStep ==
    ASSUME DelveIInv, NEW p \in Callers, NEW m \in Delvers, ReleaseReference(p, m)
    PROVE  DelveIInv'
<1>1. PICK x \in Delves : x = delve[p]
    BY DEF DelveIInv, DelveTypeOK
<1>2. x.pc = "release" /\ RequestOK(x)
    BY <1>1 DEF ReleaseReference, DelveIInv, RequestsInv
<1>3. PICK y : y = [x EXCEPT !.todo = @ \ {m}]
    OBVIOUS
<1>4. x.todo \ {m} \in SUBSET Delvers
    BY RequestFields
<1>5. y \in Delves /\ y.pc = "release" /\ y.exp = x.exp /\ y.who = x.who
    BY <1>2, <1>3, <1>4 DEF Delves
<1>6. RequestOK(y)
    BY <1>2, <1>5 DEF RequestOK
<1>7. DelveOn(p, y) /\ memberOf' = [memberOf EXCEPT ![m] =
                                     IF @ = <<x.who, x.exp.id>> THEN NoReference ELSE @]
      /\ UNCHANGED <<buffer, spoils, finished, gone, handed, pack, delverRow, moves, delveFaults, delveCuts>>
    BY <1>1, <1>3 DEF ReleaseReference, delveSql, delveCounts
<1>8. memberOf' \in [Delvers -> References]
    BY <1>7 DEF DelveIInv, References
<1> QED
    BY <1>1, <1>2, <1>5, <1>6, <1>7, <1>8, GoesOn, QuietStep DEF DelveIInv, DelveTypeOK

LEMMA BreakOffStep ==
    ASSUME DelveIInv, NEW p \in Callers, BreakOff(p)
    PROVE  DelveIInv'
<1>1. Answered(p) /\ RowsGivenUp(p) /\ MoreMayHappen /\ delveFaults' = delveFaults + 1
      /\ UNCHANGED <<buffer, spoils, memberOf, finished, gone, handed, pack, moves, delveCuts>>
    BY DEF BreakOff, delveKeys, delveSql
<1>2. delveFaults' \in 0..MaxEvents
    BY <1>1, MoreIsBounded DEF DelveIInv
<1> QED
    BY <1>1, <1>2, AnsweredStep, RowsTyped DEF DelveIInv, DelveTypeOK

-----------------------------------------------------------------------------
(* Steps of nobody's request                                               *)

\* The requests and the expeditions stay.
LEMMA KeptStep ==
    ASSUME DelveIInv, UNCHANGED <<buffer, spoils, memberOf, finished, gone, handed, moves, delveFaults, delve>>,
           pack' \in [Delvers -> {"none", "held", "used", "given"}],
           delverRow' \in [Delvers -> Callers \cup {Nobody}], delveCuts' \in 0..MaxEvents
    PROVE  DelveIInv'
<1>1. TypesNext /\ delve' \in [Callers -> Delves]
    BY DEF TypesNext, DelveIInv, DelveTypeOK
<1>2. BuffersInv' /\ FinishedInv'
    BY DEF DelveIInv, BuffersInv, BufferOK, FinishedInv
<1>3. RequestsInv'
    BY DEF DelveIInv, RequestsInv, RequestOK, FreshIn, FrozenCopy
<1> QED
    BY <1>1, <1>2, <1>3, TypesFollow DEF DelveIInv

LEMMA CutOffStep ==
    ASSUME DelveIInv, NEW p \in Callers, CutOff(p)
    PROVE  DelveIInv'
<1>1. RowsGivenUp(p) /\ MoreMayHappen /\ delveCuts' = delveCuts + 1
      /\ UNCHANGED <<buffer, spoils, memberOf, finished, gone, handed, pack, moves, delveFaults, delve>>
    BY DEF CutOff, delveKeys, delveSql
<1>2. delveCuts' \in 0..MaxEvents
    BY <1>1, MoreIsBounded DEF DelveIInv
<1> QED
    BY <1>1, <1>2, KeptStep, RowsTyped DEF DelveIInv, DelveTypeOK

LEMMA PartWithStep ==
    ASSUME DelveIInv, NEW c \in Delvers, PartWith(c)
    PROVE  DelveIInv'
<1>1. pack' = [pack EXCEPT ![c] = "given"]
      /\ UNCHANGED <<buffer, spoils, memberOf, finished, gone, handed, moves, delveFaults, delveCuts, delve, delverRow>>
    BY DEF PartWith, delveKeys, delveCounts
<1> QED
    BY <1>1, KeptStep DEF DelveIInv, DelveTypeOK

-----------------------------------------------------------------------------
(* Steps that write an expedition                                          *)

\* The requests that do not take part, when the expedition of l is written.
LEMMA WrittenKeys ==
    ASSUME DelveIInv, NEW p \in Callers, NEW y \in Delves, DelveOn(p, y), RequestOK(y)',
           NEW l \in Delvers, NEW b \in Buffers, NEW s \in [exists : BOOLEAN, n : Nat],
           buffer' = [buffer EXCEPT ![l] = b], spoils' = [spoils EXCEPT ![l] = s], KeyStep(l),
           b.id = buffer[l].id \/ b = NoBuffer \/ (delve[p].pc = "reference" /\ b.id = delve[p].exp.id),
           BufferOK(b), handed' = handed, finished' = finished, gone \subseteq gone', gone' \subseteq Ids,
           b.id # 0 /\ finished[b.id] # NotSettled => Frozen(b),
           y.pc \in {"idle", "rewards", "commit", "settle"},
           y.pc # "idle" => delve[p].pc # "idle" /\ y.exp.id = delve[p].exp.id,
           UNCHANGED <<memberOf, pack, delverRow, moves, delveFaults, delveCuts>>
    PROVE  DelveIInv'
<1>1. TypesNext
    BY DEF TypesNext, DelveIInv, DelveTypeOK
<1>2. buffer \in [Delvers -> Buffers] /\ buffer' \in [Delvers -> Buffers] /\ buffer'[l] = b
      /\ \A k \in Delvers \ {l} : buffer'[k] = buffer[k] /\ spoils'[k] = spoils[k]
    BY DEF DelveIInv, DelveTypeOK
<1>3. \A k \in Delvers : KeyStep(k)
    <2>1. ASSUME NEW k \in Delvers \ {l} PROVE KeyStep(k)
        BY <1>2 DEF KeyStep
    <2> QED
        BY <2>1
<1>4. handed' \in Nat /\ handed <= handed'
    BY DEF DelveIInv, DelveTypeOK
<1>5. \A q \in Callers \ {p} : delve[q].pc # "idle" => delve[q].exp.id # 0
    BY DEF DelveIInv, RequestsInv, RequestOK
<1>6. ASSUME NEW q \in Callers \ {p}, delve[q].pc # "idle", NEW k \in Delvers, buffer'[k].id = delve[q].exp.id
      PROVE  buffer[k].id = delve[q].exp.id
    <2>1. CASE k # l
        BY <1>2, <1>6, <2>1
    <2>2. CASE k = l
        <3>1. b.id = delve[q].exp.id /\ b.id # 0
            BY <1>2, <1>5, <1>6, <2>2
        <3>2. b # NoBuffer
            BY <3>1, NoBufferTyped
        <3>3. ~(delve[p].pc = "reference" /\ b.id = delve[p].exp.id)
            BY <1>6, <3>1 DEF DelveIInv, RequestsInv, FreshIn
        <3> QED
            BY <2>2, <3>1, <3>2, <3>3
    <2> QED
        BY <2>1, <2>2
<1>7. ASSUME NEW q \in Callers \ {p}, delve[q].pc = "reference"
      PROVE  /\ finished'[delve[q].exp.id] = NotSettled
             /\ y.pc # "idle" => y.exp.id # delve[q].exp.id
    BY <1>7, FreshIsUnknown
<1>8. delve' \in [Callers -> Delves] /\ RequestsInv'
    BY <1>2, <1>3, <1>4, <1>6, <1>7, RequestsKept
<1>9. BuffersInv'
    <2>1. \A k \in Delvers : BufferOK(buffer[k]) /\ BufferOK(buffer[k])'
        BY <1>2 DEF DelveIInv, BuffersInv, BufferOK
    <2>2. ASSUME NEW k \in Delvers \ {l}, b.id # 0
          PROVE  buffer[k].id # b.id
        <3>1. b # NoBuffer
            BY <2>2, NoBufferTyped
        <3>2. CASE b.id = buffer[l].id
            BY <2>2, <3>2 DEF DelveIInv, BuffersInv
        <3>3. CASE delve[p].pc = "reference" /\ b.id = delve[p].exp.id
            BY <3>3 DEF DelveIInv, RequestsInv, FreshIn
        <3> QED
            BY <3>1, <3>2, <3>3
    <2>3. ASSUME NEW k \in Delvers, NEW j \in Delvers, buffer'[k].id = buffer'[j].id, buffer'[k].id # 0
          PROVE  k = j
        <3>1. CASE k # l /\ j # l
            BY <1>2, <2>3, <3>1 DEF DelveIInv, BuffersInv
        <3>2. CASE k = l \/ j = l
            BY <1>2, <2>2, <2>3, <3>2
        <3> QED
            BY <3>1, <3>2
    <2> QED
        BY <2>1, <2>3 DEF BuffersInv
<1>10. FinishedInv'
    <2>1. ASSUME NEW e \in Ids, finished[e] # NotSettled
          PROVE  e <= handed /\ \A k \in Delvers : buffer'[k].id = e => Frozen(buffer'[k])
        <3>1. e <= handed /\ \A k \in Delvers : buffer[k].id = e => Frozen(buffer[k])
            BY <2>1 DEF DelveIInv, FinishedInv
        <3>2. e # 0
            BY DungeonAssumption DEF Ids
        <3> QED
            BY <1>2, <2>1, <3>1, <3>2
    <2> QED
        BY <2>1 DEF FinishedInv
<1> QED
    BY <1>1, <1>8, <1>9, <1>10, TypesFollow DEF DelveIInv

\* A step that the script accepts was decided on what Valkey holds.
LEMMA FencedCopy ==
    ASSUME DelveIInv, NEW p \in Callers, delve[p].pc \in {"explore", "freeze"},
           Fenced(buffer[delve[p].who], delve[p].exp)
    PROVE  /\ delve[p].who \in Delvers /\ buffer[delve[p].who] = delve[p].exp
           /\ delve[p].exp \in Buffers /\ delve[p].exp.status = "exploring"
           /\ delve[p].op = "move" => delve[p].exp.foe = "none"
<1>1. PICK x \in Delves : x = delve[p]
    BY DEF DelveIInv, DelveTypeOK
<1>2. RequestOK(x)
    BY <1>1 DEF DelveIInv, RequestsInv
<1>3. CopyOf(x.exp, buffer[x.who]) /\ x.who \in Delvers
      /\ (x.op = "move" /\ ~Frozen(x.exp) => x.exp.foe = "none")
    BY <1>1, <1>2 DEF RequestOK
<1>4. buffer[x.who] = x.exp /\ x.exp.status = "exploring"
    BY <1>1, <1>3 DEF Fenced, CopyOf
<1> QED
    BY <1>1, <1>3, <1>4, RequestFields DEF Frozen

LEMMA TakeStepStep ==
    ASSUME DelveIInv, NEW p \in Callers, delve[p].pc \in {"explore", "freeze"},
           Fenced(buffer[delve[p].who], delve[p].exp),
           NEW b, Stepped(b, delve[p].exp), NEW found \in Nat, NEW settles \in BOOLEAN,
           settles => Frozen(b), TakeStep(p, b, found, settles)
    PROVE  DelveIInv'
<1>1. PICK x \in Delves : x = delve[p]
    BY DEF DelveIInv, DelveTypeOK
<1>2. RequestOK(x) /\ x.pc # "idle"
    BY <1>1 DEF DelveIInv, RequestsInv
<1>3. PICK l \in Delvers : l = x.who
    BY <1>1, FencedCopy
<1>4. buffer[l] = x.exp /\ x.exp.status = "exploring" /\ x.exp \in Buffers
    BY <1>1, <1>3, FencedCopy
<1>5. PICK n \in Nat : n = spoils[l].n + found
    BY DEF DelveIInv, DelveTypeOK
<1>6. PICK s \in [exists : BOOLEAN, n : Nat] : s = [exists |-> TRUE, n |-> n]
    BY <1>5
<1>7. b \in Buffers /\ b.id = x.exp.id /\ b.rev = x.exp.rev + 1 /\ b.status # "none"
    BY <1>1 DEF Stepped
<1>8. /\ buffer' = [buffer EXCEPT ![l] = b] /\ spoils' = [spoils EXCEPT ![l] = s]
      /\ IF settles THEN DelveOn(p, [x EXCEPT !.pc = "settle", !.exp = b, !.loot = n]) ELSE Answered(p)
      /\ UNCHANGED <<memberOf, finished, gone, handed, pack, delverRow, moves, delveFaults, delveCuts>>
    BY <1>1, <1>3, <1>5, <1>6 DEF TakeStep, delveSql, delveCounts
<1>9. buffer'[l] = b /\ spoils'[l].n = n
    BY <1>6, <1>8 DEF DelveIInv, DelveTypeOK
<1>10. x.exp.id \in 1..handed /\ x.exp.rev \in Nat
    BY <1>2, RequestFields DEF RequestOK
<1>11. KeyStep(l)
    BY <1>4, <1>7, <1>9, <1>10 DEF KeyStep, Frozen
<1>12. BufferOK(b)
    <2>1. b.id <= handed /\ b.id # 0
        BY <1>7, <1>10 DEF DelveIInv, DelveTypeOK
    <2> QED
        BY <1>7, <2>1 DEF BufferOK
<1>13. finished[b.id] = NotSettled
    <2>1. b.id \in Ids
        BY <1>7, <1>10, DungeonAssumption DEF Ids, DelveIInv, DelveTypeOK
    <2> QED
        BY <1>4, <1>7, <2>1 DEF DelveIInv, FinishedInv, Frozen
<1>14. ASSUME NEW y \in Delves, DelveOn(p, y), RequestOK(y)', y.pc \in {"idle", "settle"},
              y.pc # "idle" => y.exp.id = x.exp.id
       PROVE  DelveIInv'
    <2>1. gone \subseteq gone' /\ gone' \subseteq Ids
        BY <1>8 DEF DelveIInv, DelveTypeOK
    <2> QED
        BY <1>1, <1>2, <1>4, <1>7, <1>8, <1>11, <1>12, <1>13, <1>14, <2>1, WrittenKeys
<1>15. CASE settles
    <2>1. PICK y : y = [x EXCEPT !.pc = "settle", !.exp = b, !.loot = n]
        OBVIOUS
    <2>2. y \in Delves /\ y.pc = "settle" /\ y.exp = b /\ y.loot = n /\ y.who = l
        BY <1>3, <1>7, <2>1 DEF Delves
    <2>3. DelveOn(p, y)
        BY <1>8, <1>15, <2>1
    <2>4. FrozenCopy(y)'
        BY <1>9, <2>2 DEF FrozenCopy
    <2>5. \A k \in Delvers : buffer'[k].id = b.id => k = l
        BY <1>2, <1>3, <1>7, <1>8 DEF RequestOK, DelveIInv, DelveTypeOK
    <2>6. b.id \in 1..handed'
        BY <1>7, <1>8, <1>10
    <2>7. RequestOK(y)'
        BY <1>9, <1>15, <2>2, <2>4, <2>5, <2>6 DEF RequestOK
    <2> QED
        BY <1>7, <1>14, <2>2, <2>3, <2>7
<1>16. CASE ~settles
    <2>1. RequestOK(NoDelve)'
        BY NoBufferTyped DEF RequestOK
    <2>2. DelveOn(p, NoDelve)
        BY <1>8, <1>16 DEF Answered
    <2> QED
        BY <1>14, <2>1, <2>2, NoBufferTyped
<1> QED
    BY <1>15, <1>16

\* The steps of the leader, as the script is asked for them.
ScriptStep(p) ==
    /\ delve[p].pc \in {"explore", "freeze"}
    /\ Fenced(buffer[delve[p].who], delve[p].exp)
    /\ \E b \in Buffers, found \in Nat, settles \in BOOLEAN :
          Stepped(b, delve[p].exp) /\ (settles => Frozen(b)) /\ TakeStep(p, b, found, settles)

LEMMA StepOrEndIsStep ==
    ASSUME NEW p \in Callers, delve[p].pc \in {"explore", "freeze"},
           Fenced(buffer[delve[p].who], delve[p].exp),
           NEW b, Stepped(b, delve[p].exp), NEW found \in Nat, StepOrEnd(p, b, found)
    PROVE  ScriptStep(p)
<1>1. b \in Buffers
    BY DEF Stepped
<1>2. CASE Frozen(b)
    <2>1. TakeStep(p, b, found, TRUE)
        BY <1>2 DEF StepOrEnd, TakeStep
    <2> QED
        BY <1>1, <1>2, <2>1 DEF ScriptStep
<1>3. CASE ~Frozen(b)
    <2>1. TakeStep(p, b, found, FALSE)
        BY <1>3 DEF StepOrEnd, TakeStep
    <2> QED
        BY <1>1, <2>1 DEF ScriptStep
<1> QED
    BY <1>2, <1>3

LEMMA EveryStepIsStepped ==
    ASSUME DelveIInv, NEW p \in Callers,
           Walk(p) \/ OpenTreasure(p) \/ SpringTrap(p) \/ Win(p) \/ Draw(p) \/ Defeat(p) \/ Freeze(p)
    PROVE  ScriptStep(p)
<1> DEFINE x == delve[p]
           B == delve[p].exp
<1>1. /\ x.pc \in {"explore", "freeze"} /\ Fenced(buffer[x.who], B)
    BY DEF Walk, OpenTreasure, SpringTrap, Win, Draw, Defeat, Battles, Freeze, Exploring
<1>2. x.who \in Delvers /\ buffer[x.who] = B /\ B \in Buffers /\ B.status = "exploring"
    BY <1>1, FencedCopy
<1>3. Upright(B) \in SUBSET Delvers
    BY <1>2, BufferFields DEF Upright
<1>4. CASE Walk(p)
    <2>1. PICK spent \in BOOLEAN : StepOrEnd(p, After(B, {}, spent), 0)
        BY <1>2, <1>4 DEF Walk
    <2>2. Stepped(After(B, {}, spent), B)
        BY <1>2, AfterStepped
    <2> QED
        BY <1>1, <2>1, <2>2, StepOrEndIsStep
<1>5. CASE OpenTreasure(p)
    <2>1. PICK spent \in BOOLEAN :
            IF B.opened
            THEN StepOrEnd(p, After(B, {}, spent), 0)
            ELSE StepOrEnd(p, [After(B, {}, spent) EXCEPT !.opened = TRUE,
                                !.gain = Earns(B, Upright(B))], 1)
        BY <1>2, <1>5 DEF OpenTreasure
    <2>2. Stepped(After(B, {}, spent), B)
        BY <1>2, AfterStepped
    <2>3. Stepped([After(B, {}, spent) EXCEPT !.opened = TRUE, !.gain = Earns(B, Upright(B))], B)
        BY <1>2, <2>2, GainStepped
    <2> QED
        BY <1>1, <2>1, <2>2, <2>3, StepOrEndIsStep
<1>6. CASE SpringTrap(p)
    <2>1. PICK hurt \in SUBSET Upright(B), spent \in BOOLEAN : StepOrEnd(p, After(B, hurt, spent), 0)
        BY <1>2, <1>6 DEF SpringTrap
    <2>2. Stepped(After(B, hurt, spent), B)
        BY <1>2, <1>3, AfterStepped
    <2> QED
        BY <1>1, <2>1, <2>2, StepOrEndIsStep
<1>7. CASE Win(p)
    <2>1. PICK w \in Battles(p) :
            TakeStep(p, [Fought(p, w) EXCEPT !.gain = Earns(B, Survivors(p, w)),
                         !.status = IF w.f = "boss" THEN "cleared" ELSE @], 1, w.f = "boss")
        BY <1>2, <1>7 DEF Win
    <2>2. Stepped(Fought(p, w), B) /\ Survivors(p, w) \in SUBSET Upright(B)
          /\ Fought(p, w).status \in {"exploring", "wiped_out"}
        BY <1>2, FoughtStepped
    <2>3. PICK y : y = Fought(p, w)
        OBVIOUS
    <2>4. CASE w.f = "boss"
        <3>1. PICK b : b = [y EXCEPT !.gain = Earns(B, Survivors(p, w)), !.status = "cleared"]
            OBVIOUS
        <3>2. Stepped(b, B)
            BY <1>2, <2>2, <2>3, <3>1, GainStepped
        <3>3. b.status = "cleared"
            <4>1. y \in Buffers
                BY <2>2, <2>3 DEF Stepped
            <4> QED
                BY <3>1, <4>1 DEF Buffers
        <3>4. TakeStep(p, b, 1, TRUE)
            BY <2>1, <2>3, <2>4, <3>1, Zenon
        <3> QED
            BY <1>1, <3>2, <3>3, <3>4 DEF ScriptStep, Stepped, Frozen
    <2>5. CASE w.f # "boss"
        <3>1. PICK b : b = [y EXCEPT !.gain = Earns(B, Survivors(p, w)), !.status = y.status]
            OBVIOUS
        <3>2. y.status \in {"exploring", "cleared", "wiped_out"}
            BY <2>2, <2>3
        <3>3. Stepped(b, B)
            BY <1>2, <2>2, <2>3, <3>1, <3>2, GainStepped
        <3>4. TakeStep(p, b, 1, FALSE)
            BY <2>1, <2>3, <2>5, <3>1, Zenon
        <3> QED
            BY <1>1, <3>3, <3>4 DEF ScriptStep, Stepped
    <2> QED
        BY <2>4, <2>5
<1>8. CASE Draw(p)
    <2>1. PICK w \in Battles(p) : StepOrEnd(p, [Fought(p, w) EXCEPT !.foe = w.f], 0)
        BY <1>8 DEF Draw
    <2>2. Stepped(Fought(p, w), B) /\ w.f \in {"monster", "boss"} \cup {B.foe}
        BY <1>2, FoughtStepped
    <2>3. w.f \in {"none", "monster", "boss"}
        BY <1>2, <2>2, BufferFields
    <2>4. Stepped([Fought(p, w) EXCEPT !.foe = w.f], B)
        BY <1>2, <2>2, <2>3, FoeStepped
    <2> QED
        BY <1>1, <2>1, <2>4, StepOrEndIsStep
<1>9. CASE Defeat(p)
    <2>1. PICK w \in Battles(p) : StepOrEnd(p, Fought(p, w), 0)
        BY <1>9 DEF Defeat
    <2>2. Stepped(Fought(p, w), B)
        BY <1>2, FoughtStepped
    <2> QED
        BY <1>1, <2>1, <2>2, StepOrEndIsStep
<1>10. CASE Freeze(p)
    <2>1. PICK st : st = x.want
        OBVIOUS
    <2>2. st \in {"cleared", "escaped"}
        BY <1>10, <2>1, RequestFields DEF Freeze, DelveIInv, DelveTypeOK, RequestsInv, RequestOK
    <2>3. TakeStep(p, [B EXCEPT !.rev = @ + 1, !.foe = "none", !.status = st], 0, TRUE)
        BY <1>2, <1>10, <2>1 DEF Freeze
    <2>4. PICK b : b = [B EXCEPT !.rev = @ + 1, !.foe = "none", !.status = st]
        OBVIOUS
    <2>5. Stepped(b, B) /\ Frozen(b)
        BY <1>2, <2>2, <2>4, FreezeStepped
    <2>6. TakeStep(p, b, 0, TRUE)
        BY <2>3, <2>4
    <2> QED
        BY <1>1, <2>5, <2>6 DEF ScriptStep, Stepped
<1> QED
    BY <1>4, <1>5, <1>6, <1>7, <1>8, <1>9, <1>10

LEMMA ScriptStepStep ==
    ASSUME DelveIInv, NEW p \in Callers, ScriptStep(p)
    PROVE  DelveIInv'
BY TakeStepStep DEF ScriptStep

\* What a write takes the place of is recorded as gone.
LEMMA OverwriteKeys ==
    ASSUME DelveIInv, NEW l \in Delvers, Overwrites(l)
    PROVE  /\ gone \subseteq gone' /\ gone' \subseteq Ids
           /\ Kept(l) => buffer[l].id \in gone'
<1>1. buffer[l].id \in 0..MaxExpeditions /\ gone \subseteq Ids /\ buffer[l].id <= handed
    BY BufferFields DEF DelveIInv, DelveTypeOK, BuffersInv, BufferOK
<1>2. Kept(l) => buffer[l].id \in Ids
    <2>1. Kept(l) => buffer[l].id # 0
        BY NoBufferTyped DEF Kept, DelveIInv, BuffersInv, BufferOK
    <2> QED
        BY <1>1, <2>1, DungeonAssumption DEF Ids
<1> QED
    BY <1>1, <1>2 DEF Overwrites

LEMMA SaveStateStep ==
    ASSUME DelveIInv, NEW p \in Callers, SaveState(p)
    PROVE  DelveIInv'
<1>1. PICK x \in Delves : x = delve[p]
    BY DEF DelveIInv, DelveTypeOK
<1>2. x.pc = "reference" /\ RequestOK(x) /\ FreshIn(p)
    BY <1>1 DEF SaveState, DelveIInv, RequestsInv
<1>3. PICK l \in Delvers : l = x.who
    BY <1>2 DEF RequestOK
<1>4. PICK b \in Buffers : b = x.exp
    BY RequestFields
<1>5. PICK s \in [exists : BOOLEAN, n : Nat] : s = spoils[l]
    BY DEF DelveIInv, DelveTypeOK
<1>6. PICK y : y = [x EXCEPT !.pc = "rewards"]
    OBVIOUS
<1>7. y \in Delves /\ y.pc = "rewards" /\ y.exp = b /\ y.who = l
    BY <1>3, <1>4, <1>6 DEF Delves
<1>8. Overwrites(l) /\ buffer' = [buffer EXCEPT ![l] = b] /\ DelveOn(p, y)
      /\ UNCHANGED <<spoils, memberOf, finished, handed, pack, delverRow, moves, delveFaults, delveCuts>>
    BY <1>1, <1>3, <1>4, <1>6 DEF SaveState, delveSql
<1>9. gone \subseteq gone' /\ gone' \subseteq Ids /\ (Kept(l) => buffer[l].id \in gone')
    BY <1>8, OverwriteKeys
<1>10. buffer'[l] = b /\ spoils' = [spoils EXCEPT ![l] = s]
    BY <1>5, <1>8 DEF DelveIInv, DelveTypeOK
<1>11. b.id \in 1..handed /\ b.status = "exploring" /\ finished[b.id] = NotSettled
       /\ \A k \in Delvers : buffer[k].id # b.id
    BY <1>1, <1>2, <1>4 DEF RequestOK, FreshIn
<1>12. KeyStep(l)
    BY <1>9, <1>10, <1>11 DEF KeyStep, Frozen, Kept
<1>13. BufferOK(b)
    BY <1>11 DEF BufferOK, DelveIInv, DelveTypeOK
<1>14. RequestOK(y)'
    <2>1. \A k \in Delvers : buffer'[k].id = b.id => k = l
        BY <1>8, <1>11 DEF DelveIInv, DelveTypeOK
    <2> QED
        BY <1>7, <1>8, <1>11, <2>1 DEF RequestOK
<1>15. /\ delve[p].pc = "reference" /\ b.id = delve[p].exp.id
       /\ b.id # 0 /\ finished[b.id] # NotSettled => Frozen(b)
       /\ y.pc # "idle" => delve[p].pc # "idle" /\ y.exp.id = delve[p].exp.id
    BY <1>1, <1>2, <1>4, <1>7, <1>11
<1>16. /\ buffer' = [buffer EXCEPT ![l] = b] /\ DelveOn(p, y) /\ y \in Delves
       /\ handed' = handed /\ finished' = finished
       /\ UNCHANGED <<memberOf, pack, delverRow, moves, delveFaults, delveCuts>>
    BY <1>7, <1>8
<1>17. y.pc \in {"idle", "rewards", "commit", "settle"}
    BY <1>7
<1> QED
    BY <1>9, <1>10, <1>12, <1>13, <1>14, <1>15, <1>16, <1>17, WrittenKeys

LEMMA SaveRewardsStep ==
    ASSUME DelveIInv, NEW p \in Callers, SaveRewards(p)
    PROVE  DelveIInv'
<1>1. PICK x \in Delves : x = delve[p]
    BY DEF DelveIInv, DelveTypeOK
<1>2. x.pc = "rewards" /\ RequestOK(x)
    BY <1>1 DEF SaveRewards, DelveIInv, RequestsInv
<1>3. PICK l \in Delvers : l = x.who
    BY <1>2 DEF RequestOK
<1>4. PICK b \in Buffers : b = buffer[l] /\ BufferOK(b)
    BY DEF DelveIInv, DelveTypeOK, BuffersInv
<1>5. PICK s \in [exists : BOOLEAN, n : Nat] : s = [exists |-> TRUE, n |-> 0]
    OBVIOUS
<1>6. PICK y : y = [x EXCEPT !.pc = "commit"]
    OBVIOUS
<1>7. y \in Delves /\ y.pc = "commit" /\ y.exp = x.exp /\ y.who = l
    BY <1>3, <1>6 DEF Delves
<1>8. /\ IF spoils[l].n > 0 THEN Overwrites(l) ELSE UNCHANGED gone
      /\ spoils' = [spoils EXCEPT ![l] = s] /\ DelveOn(p, y)
      /\ UNCHANGED <<buffer, memberOf, finished, handed, pack, delverRow, moves, delveFaults, delveCuts>>
    BY <1>1, <1>3, <1>5, <1>6 DEF SaveRewards, delveSql
<1>9. gone \subseteq gone' /\ gone' \subseteq Ids
    BY <1>8, OverwriteKeys DEF DelveIInv, DelveTypeOK
<1>10. buffer' = [buffer EXCEPT ![l] = b] /\ spoils'[l].n = 0 /\ spoils[l].n \in Nat
    BY <1>4, <1>5, <1>8 DEF DelveIInv, DelveTypeOK
<1>11. spoils[l].n = 0 \/ (Kept(l) => buffer[l].id \in gone')
    BY <1>8, <1>10, OverwriteKeys
<1>12. KeyStep(l)
    BY <1>8, <1>10, <1>11 DEF KeyStep, Frozen, Kept
<1>13. RequestOK(y)'
    BY <1>2, <1>7, <1>8, <1>3 DEF RequestOK
<1>14. b.id # 0 /\ finished[b.id] # NotSettled => Frozen(b)
    BY <1>4, BufferFields DEF DelveIInv, FinishedInv, Ids
<1> QED
    BY <1>1, <1>2, <1>4, <1>7, <1>8, <1>9, <1>10, <1>12, <1>13, <1>14, WrittenKeys

LEMMA DeleteExpeditionStep ==
    ASSUME DelveIInv, NEW p \in Callers, DeleteExpedition(p)
    PROVE  DelveIInv'
<1>1. PICK x \in Delves : x = delve[p]
    BY DEF DelveIInv, DelveTypeOK
<1>2. x.pc = "release" /\ RequestOK(x)
    BY <1>1 DEF DeleteExpedition, DelveIInv, RequestsInv
<1>3. PICK l \in Delvers : l = x.who
    BY <1>2 DEF RequestOK
<1>4. /\ UNCHANGED <<memberOf, finished, gone, handed, pack, delverRow, moves, delveFaults, delveCuts>>
      /\ DelveOn(p, NoDelve)
    BY DEF DeleteExpedition, Answered, delveSql, delveCounts
<1>5. RequestOK(NoDelve)'
    BY NoBufferTyped DEF RequestOK
<1>6. gone \subseteq gone' /\ gone' \subseteq Ids
    BY <1>4 DEF DelveIInv, DelveTypeOK
<1>7. CASE Kept(l) /\ buffer[l].id = x.exp.id
    <2>1. PICK s \in [exists : BOOLEAN, n : Nat] : s = Absent
        BY DEF Absent
    <2>2. buffer' = [buffer EXCEPT ![l] = NoBuffer] /\ spoils' = [spoils EXCEPT ![l] = s]
        BY <1>1, <1>3, <1>7, <2>1 DEF DeleteExpedition
    <2>3. buffer'[l] = NoBuffer
        BY <2>2 DEF DelveIInv, DelveTypeOK
    <2>4. finished'[buffer[l].id] # NotSettled /\ x.exp.id # 0
        BY <1>2, <1>4, <1>7 DEF RequestOK
    <2>5. KeyStep(l)
        BY <1>7, <2>3, <2>4, NoBufferTyped DEF KeyStep
    <2>6. BufferOK(NoBuffer)
        BY NoBufferTyped DEF BufferOK, DelveIInv, DelveTypeOK
    <2> QED
        BY <1>4, <1>5, <1>6, <2>2, <2>5, <2>6, NoBufferTyped, WrittenKeys
<1>8. CASE ~(Kept(l) /\ buffer[l].id = x.exp.id)
    <2>1. buffer' = buffer /\ spoils' = spoils
        BY <1>1, <1>3, <1>8 DEF DeleteExpedition, DelveIInv, DelveTypeOK
    <2> QED
        BY <1>4, <2>1, AnsweredStep DEF Answered, DelveIInv, DelveTypeOK
<1> QED
    BY <1>7, <1>8

LEMMA ForgottenStep ==
    ASSUME DelveIInv, NEW c \in Delvers, Forgotten(c)
    PROVE  DelveIInv'
<1>1. PICK b \in Buffers : b = buffer[c] /\ BufferOK(b) /\ b.status # "none"
    BY DEF DelveIInv, DelveTypeOK, BuffersInv, Forgotten, Kept
<1>2. /\ gone' = gone \cup {b.id} /\ buffer' = [buffer EXCEPT ![c] = NoBuffer]
      /\ spoils' = [spoils EXCEPT ![c] = Absent]
      /\ UNCHANGED <<memberOf, finished, pack, delverRow, delve, handed, moves, delveFaults, delveCuts>>
    BY <1>1 DEF Forgotten, delveSql
<1>3. b.id \in Ids
    BY <1>1, BufferFields, NoBufferTyped, DungeonAssumption DEF BufferOK, Ids
<1>4. buffer' \in [Delvers -> Buffers] /\ buffer'[c] = NoBuffer
      /\ \A l \in Delvers \ {c} : buffer'[l] = buffer[l] /\ spoils'[l] = spoils[l]
    BY <1>2, NoBufferTyped DEF DelveIInv, DelveTypeOK
<1>5. Absent \in [exists : BOOLEAN, n : Nat]
    BY DEF Absent
<1>6. TypesNext
    BY <1>2, <1>3, <1>4, <1>5 DEF TypesNext, DelveIInv, DelveTypeOK
<1>7. \A l \in Delvers : KeyStep(l)
    <2>1. ASSUME NEW l \in Delvers \ {c} PROVE KeyStep(l)
        BY <1>4 DEF KeyStep
    <2>2. KeyStep(c)
        BY <1>1, <1>2, <1>3, <1>4, NoBufferTyped, DungeonAssumption DEF KeyStep, Ids
    <2> QED
        BY <2>1, <2>2
<1>8. handed' \in Nat /\ handed <= handed' /\ gone \subseteq gone'
      /\ \A e \in Ids : finished[e] # NotSettled => finished'[e] # NotSettled
    BY <1>2 DEF DelveIInv, DelveTypeOK
<1>9. ASSUME NEW q \in Callers
      PROVE  RequestOK(delve[q])' /\ (delve'[q].pc = "reference" => FreshIn(q)')
    <2>1. PICK x \in Delves : x = delve[q]
        BY DEF DelveIInv, DelveTypeOK
    <2>2. RequestOK(x)
        BY <2>1 DEF DelveIInv, RequestsInv
    <2>3. x.pc # "idle" => \A l \in Delvers : buffer'[l].id = x.exp.id => buffer[l].id = x.exp.id
        BY <1>4, <2>2, NoBufferTyped DEF RequestOK
    <2>4. RequestOK(x)'
        BY <1>4, <1>7, <1>8, <2>2, <2>3, OtherKeeps DEF DelveIInv
    <2>5. ASSUME x.pc = "reference"
          PROVE  FreshIn(q)'
        <3>1. FreshIn(q) /\ x.exp.id # 0
            BY <2>1, <2>2, <2>5 DEF DelveIInv, RequestsInv, RequestOK
        <3>2. \A l \in Delvers : buffer'[l].id # x.exp.id
            BY <1>4, <2>1, <3>1, NoBufferTyped DEF FreshIn
        <3>3. delve' = delve /\ finished' = finished
            BY <1>2
        <3> QED
            BY <2>1, <3>1, <3>2, <3>3 DEF FreshIn
    <2> QED
        BY <1>2, <2>1, <2>4, <2>5
<1>10. RequestsInv'
    BY <1>2, <1>9 DEF RequestsInv
<1>11. BuffersInv'
    <2>1. \A k \in Delvers : BufferOK(buffer[k])'
        BY <1>2, <1>4, NoBufferTyped DEF DelveIInv, DelveTypeOK, BuffersInv, BufferOK
    <2>2. \A k, j \in Delvers : buffer'[k].id = buffer'[j].id /\ buffer'[k].id # 0 => k = j
        BY <1>4, NoBufferTyped DEF DelveIInv, BuffersInv
    <2> QED
        BY <2>1, <2>2 DEF BuffersInv
<1>12. FinishedInv'
    <2>1. \A e \in Ids : \A l \in Delvers : buffer'[l].id = e => buffer'[l] = buffer[l]
        BY <1>4, NoBufferTyped, DungeonAssumption DEF Ids
    <2> QED
        BY <1>2, <2>1 DEF DelveIInv, FinishedInv, Frozen
<1> QED
    BY <1>2, <1>6, <1>10, <1>11, <1>12, TypesFollow DEF DelveIInv, DelveTypeOK

-----------------------------------------------------------------------------
(* Settlement                                                              *)

LEMMA SettlementTyped ==
    ASSUME NEW b \in Buffers, Frozen(b), NEW n \in Nat
    PROVE  Settlement(b, n) \in Settlements /\ Settlement(b, n) # NotSettled
<1>1. PICK paid \in [Delvers -> Nat] : paid =
         IF b.status = "wiped_out" THEN NoEarnings
         ELSE [c \in Delvers |-> b.gain[c] + IF b.status = "cleared" /\ c \in Upright(b) THEN 1 ELSE 0]
    <2>1. PICK g \in [Delvers -> Nat] : g = b.gain
        BY BufferFields
    <2>2. PICK up \in SUBSET Delvers : up = {c \in Delvers : b.status = "cleared" /\ c \in Upright(b)}
        OBVIOUS
    <2>3. [c \in Delvers |-> g[c] + IF c \in up THEN 1 ELSE 0] \in [Delvers -> Nat]
        OBVIOUS
    <2>4. [c \in Delvers |-> g[c] + IF c \in up THEN 1 ELSE 0]
             = [c \in Delvers |-> b.gain[c] + IF b.status = "cleared" /\ c \in Upright(b) THEN 1 ELSE 0]
        BY <2>1, <2>2
    <2> QED
        BY <2>3, <2>4, NoBufferTyped
<1>2. PICK loot \in Nat : loot =
         CASE b.status = "wiped_out" -> 0 [] b.status = "escaped" -> n [] OTHER -> n + 1
    BY DEF Frozen
<1>3. Settlement(b, n) = [outcome |-> b.status, paid |-> paid, loot |-> loot]
    BY <1>1, <1>2 DEF Settlement
<1>4. b.status \in {"cleared", "escaped", "wiped_out"}
    BY DEF Frozen
<1> QED
    BY <1>3, <1>4, NoBufferTyped DEF Settlements

\* The transaction of a settlement that claims the ID.
Claims(p) ==
    LET x == delve[p] IN
    /\ x.pc = "settle" /\ finished[x.exp.id] = NotSettled
    /\ finished' = [finished EXCEPT ![x.exp.id] = Settlement(x.exp, x.loot)]

LEMMA FinalizeCases ==
    ASSUME DelveIInv, NEW p \in Callers, Finalize(p)
    PROVE  /\ UNCHANGED <<buffer, spoils, memberOf, gone, handed, delverRow, moves, delveFaults, delveCuts>>
           /\ UNCHANGED finished \/ Claims(p)
           /\ pack' \in [Delvers -> {"none", "held", "used", "given"}]
           /\ \/ Answered(p) /\ UNCHANGED finished
              \/ /\ finished'[delve[p].exp.id] # NotSettled
                 /\ DelveOn(p, [NoDelve EXCEPT !.pc = "clean", !.who = delve[p].who,
                                               !.exp = [NoBuffer EXCEPT !.id = delve[p].exp.id]])
<1>1. PICK x \in Delves : x = delve[p]
    BY DEF DelveIInv, DelveTypeOK
<1>2. x.pc = "settle" /\ RequestOK(x)
    BY <1>1 DEF Finalize, DelveIInv, RequestsInv
<1>3. PICK b \in Buffers : b = x.exp
    BY RequestFields
<1>4. Frozen(b) /\ b.id \in Ids /\ x.loot \in Nat
    BY <1>2, <1>3, RequestFields, DungeonAssumption DEF RequestOK, Ids, DelveIInv, DelveTypeOK
<1>5. UNCHANGED <<buffer, spoils, memberOf, gone, handed, delverRow, moves, delveFaults, delveCuts>>
    BY DEF Finalize, delveKeys, delveCounts
<1>6. PICK z : z = [NoDelve EXCEPT !.pc = "clean", !.who = delve[p].who,
                                   !.exp = [NoBuffer EXCEPT !.id = delve[p].exp.id]]
    OBVIOUS
<1>7. CASE finished[b.id] # NotSettled
    <2>1. DelveOn(p, z) /\ UNCHANGED delveSql
        BY <1>1, <1>3, <1>6, <1>7 DEF Finalize
    <2>2. finished' = finished /\ pack' = pack
        BY <2>1 DEF delveSql
    <2>3. pack' \in [Delvers -> {"none", "held", "used", "given"}]
        BY <2>2 DEF DelveIInv, DelveTypeOK
    <2> QED
        BY <1>1, <1>3, <1>5, <1>6, <1>7, <2>1, <2>2, <2>3
<1>8. CASE finished[b.id] = NotSettled /\ Consumable(b)
    <2>1. /\ DelveOn(p, z)
          /\ finished' = [finished EXCEPT ![b.id] = Settlement(b, x.loot)]
          /\ pack' = [c \in Delvers |-> IF c \in b.used THEN "used" ELSE pack[c]]
        BY <1>1, <1>3, <1>6, <1>8 DEF Finalize
    <2>2. finished'[b.id] # NotSettled
        BY <1>4, <2>1, SettlementTyped DEF DelveIInv, DelveTypeOK
    <2>3. pack' \in [Delvers -> {"none", "held", "used", "given"}]
        BY <2>1 DEF DelveIInv, DelveTypeOK
    <2>4. Claims(p)
        BY <1>1, <1>2, <1>3, <1>8, <2>1 DEF Claims
    <2> QED
        BY <1>1, <1>3, <1>5, <1>6, <2>1, <2>2, <2>3, <2>4
<1>9. CASE finished[b.id] = NotSettled /\ ~Consumable(b)
    <2>1. Answered(p) /\ UNCHANGED delveSql
        BY <1>1, <1>3, <1>9 DEF Finalize
    <2>2. finished' = finished /\ pack' = pack
        BY <2>1 DEF delveSql
    <2>3. pack' \in [Delvers -> {"none", "held", "used", "given"}]
        BY <2>2 DEF DelveIInv, DelveTypeOK
    <2> QED
        BY <1>5, <2>1, <2>2, <2>3
<1> QED
    BY <1>7, <1>8, <1>9

LEMMA FinalizeStep ==
    ASSUME DelveIInv, NEW p \in Callers, Finalize(p)
    PROVE  DelveIInv'
<1>1. PICK x \in Delves : x = delve[p]
    BY DEF DelveIInv, DelveTypeOK
<1>2. x.pc = "settle" /\ RequestOK(x)
    BY <1>1 DEF Finalize, DelveIInv, RequestsInv
<1>3. PICK b \in Buffers : b = x.exp
    BY RequestFields
<1>4. Frozen(b) /\ FrozenCopy(x) /\ x.loot \in Nat /\ x.who \in Delvers /\ b.id \in 1..handed
      /\ \A l \in Delvers : buffer[l].id = b.id => l = x.who
    BY <1>2, <1>3, RequestFields DEF RequestOK
<1>5. b.id \in Ids /\ b.id <= handed
    BY <1>4, DungeonAssumption DEF Ids, DelveIInv, DelveTypeOK
<1>6. /\ UNCHANGED <<buffer, spoils, memberOf, gone, handed, delverRow, moves, delveFaults, delveCuts>>
      /\ UNCHANGED finished \/ Claims(p)
      /\ pack' \in [Delvers -> {"none", "held", "used", "given"}]
    BY FinalizeCases
<1>7. CASE Answered(p) /\ UNCHANGED finished
    BY <1>6, <1>7, AnsweredStep DEF DelveIInv, DelveTypeOK
<1>8. CASE /\ finished'[b.id] # NotSettled
           /\ DelveOn(p, [NoDelve EXCEPT !.pc = "clean", !.who = x.who, !.exp = [NoBuffer EXCEPT !.id = b.id]])
    <2>1. PICK e : e = [NoBuffer EXCEPT !.id = b.id]
        OBVIOUS
    <2>2. e \in Buffers /\ e.id = b.id
        BY <2>1, NoBufferTyped, BufferFields DEF Buffers
    <2>3. PICK y : y = [NoDelve EXCEPT !.pc = "clean", !.who = x.who, !.exp = e]
        OBVIOUS
    <2>4. y \in Delves /\ y.pc = "clean" /\ y.who = x.who /\ y.exp = e
        BY <1>4, <2>2, <2>3, NoBufferTyped DEF Delves
    <2>5. DelveOn(p, y)
        BY <1>8, <2>1, <2>3
    <2>6. finished' = finished \/ finished' = [finished EXCEPT ![b.id] = Settlement(b, x.loot)]
        BY <1>1, <1>3, <1>6 DEF Claims
    <2>7. Settlement(b, x.loot) \in Settlements /\ Settlement(b, x.loot) # NotSettled
        BY <1>4, SettlementTyped
    <2>8. finished' \in [Ids -> Settlements] /\ \A f \in Ids \ {b.id} : finished'[f] = finished[f]
        BY <2>6, <2>7 DEF DelveIInv, DelveTypeOK
    <2>9. \A f \in Ids : finished[f] # NotSettled => finished'[f] # NotSettled
        BY <1>8, <2>8
    <2>10. TypesNext
        BY <1>6, <2>8 DEF TypesNext, DelveIInv, DelveTypeOK
    <2>11. \A l \in Delvers : KeyStep(l)
        BY <1>6 DEF KeyStep
    <2>12. RequestOK(y)'
        BY <1>4, <1>6, <1>8, <2>2, <2>4 DEF RequestOK
    <2>13. ASSUME NEW q \in Callers \ {p}, delve[q].pc = "reference"
           PROVE  finished'[delve[q].exp.id] = NotSettled /\ y.exp.id # delve[q].exp.id
        <3>1. y.exp.id # delve[q].exp.id /\ finished[delve[q].exp.id] = NotSettled
            BY <1>1, <1>2, <1>3, <2>2, <2>4, <2>13, FreshIsUnknown
        <3>2. delve[q].exp.id \in Ids
            BY <2>13, DungeonAssumption DEF DelveIInv, DelveTypeOK, RequestsInv, RequestOK, Ids
        <3> QED
            BY <2>2, <2>4, <2>8, <3>1, <3>2
    <2>14. handed' \in Nat /\ handed <= handed' /\ gone \subseteq gone' /\ buffer' \in [Delvers -> Buffers]
        BY <1>6 DEF DelveIInv, DelveTypeOK
    <2>15. \A q \in Callers \ {p} : delve[q].pc # "idle" =>
              \A l \in Delvers : buffer'[l].id = delve[q].exp.id => buffer[l].id = delve[q].exp.id
        BY <1>6
    <2>16. delve' \in [Callers -> Delves] /\ RequestsInv'
        BY <2>4, <2>5, <2>9, <2>11, <2>12, <2>13, <2>14, <2>15, RequestsKept
    <2>17. BuffersInv'
        BY <1>6 DEF DelveIInv, BuffersInv, BufferOK
    <2>18. FinishedInv'
        <3>1. \A l \in Delvers : buffer[l].id = b.id => Frozen(buffer[l])
            BY <1>3, <1>4 DEF FrozenCopy
        <3>2. \A f \in Ids \ {b.id} : finished'[f] # NotSettled =>
                  f <= handed /\ \A l \in Delvers : buffer[l].id = f => Frozen(buffer[l])
            BY <2>8 DEF DelveIInv, FinishedInv
        <3> QED
            BY <1>5, <1>6, <3>1, <3>2 DEF FinishedInv
    <2> QED
        BY <2>10, <2>16, <2>17, <2>18, TypesFollow DEF DelveIInv
<1> QED
    BY <1>1, <1>3, <1>7, <1>8, FinalizeCases

-----------------------------------------------------------------------------
(* Start                                                                   *)

\* The request of a start.
LEMMA AdmitRequest ==
    ASSUME DelveIInv, NEW p \in Callers, NEW c \in Delvers, NEW S \in SUBSET Delvers, Admit(p, c, S)
    PROVE  \E y \in Delves :
              /\ y.pc = "reference" /\ y.who = c /\ y.todo = S \ {c} /\ y.exp.members = S
              /\ y.exp.id = handed + 1 /\ y.exp.rev = 0 /\ y.exp.status = "exploring" /\ DelveOn(p, y)
<1>1. handed + 1 \in 0..MaxExpeditions /\ handed' = handed + 1
    BY DungeonAssumption DEF Admit, DelveIInv, DelveTypeOK
<1>2. PICK e : e = [NoBuffer EXCEPT !.id = handed + 1, !.status = "exploring", !.members = S]
    OBVIOUS
<1>3. e \in Buffers /\ e.id = handed + 1 /\ e.status = "exploring" /\ e.members = S /\ e.rev = 0
    BY <1>1, <1>2, NoBufferTyped DEF Buffers
<1>4. PICK y : y = [NoDelve EXCEPT !.pc = "reference", !.who = c, !.todo = S \ {c}, !.exp = e]
    OBVIOUS
<1>5. y \in Delves /\ y.pc = "reference" /\ y.who = c /\ y.todo = S \ {c} /\ y.exp = e
    BY <1>3, <1>4, NoBufferTyped DEF Delves
<1>6. DelveOn(p, y)
    BY <1>1, <1>2, <1>4 DEF Admit
<1> QED
    BY <1>3, <1>5, <1>6

LEMMA AdmitStep ==
    ASSUME DelveIInv, NEW p \in Callers, NEW c \in Delvers, NEW S \in SUBSET Delvers, Admit(p, c, S)
    PROVE  DelveIInv'
<1>1. PICK y \in Delves :
          /\ y.pc = "reference" /\ y.who = c /\ y.exp.members = S
          /\ y.exp.id = handed + 1 /\ y.exp.rev = 0 /\ y.exp.status = "exploring" /\ DelveOn(p, y)
    BY AdmitRequest
<1>2. /\ handed' = handed + 1 /\ handed < MaxExpeditions
      /\ delverRow' = [m \in Delvers |-> IF m \in S THEN p ELSE delverRow[m]]
      /\ UNCHANGED <<buffer, spoils, memberOf, finished, gone, pack, moves, delveFaults, delveCuts>>
    BY DEF Admit, delveKeys, delveSql, delveCounts
<1>3. handed \in Nat /\ handed' \in 0..MaxExpeditions /\ MaxExpeditions \in Nat
    BY <1>2, DungeonAssumption DEF DelveIInv, DelveTypeOK
<1>4. TypesNext
    BY <1>2, <1>3 DEF TypesNext, DelveIInv, DelveTypeOK
<1>5. \A l \in Delvers : KeyStep(l)
    BY <1>2 DEF KeyStep
<1>6. \A l \in Delvers : buffer[l].id \in Nat /\ buffer[l].id <= handed
    BY BufferFields, DungeonAssumption DEF DelveIInv, DelveTypeOK, BuffersInv, BufferOK
<1>7. \A q \in Callers : delve[q].pc # "idle" => delve[q].exp.id \in 1..handed
    BY DEF DelveIInv, RequestsInv, RequestOK
<1>8. RequestOK(y)'
    BY <1>1, <1>2, <1>3, <1>6 DEF RequestOK
<1>9. FreshIn(p)'
    <2>1. handed + 1 \in Ids
        BY <1>2, <1>3 DEF Ids
    <2>2. finished[handed + 1] = NotSettled
        BY <1>3, <2>1 DEF DelveIInv, FinishedInv
    <2>3. delve'[p] = y /\ \A q \in Callers \ {p} : delve'[q] = delve[q]
        BY <1>1 DEF DelveOn, DelveIInv, DelveTypeOK
    <2> QED
        BY <1>1, <1>2, <1>3, <1>6, <1>7, <2>2, <2>3 DEF FreshIn
<1>10. \A q \in Callers \ {p} : delve[q].pc = "reference" =>
         finished'[delve[q].exp.id] = NotSettled /\ y.exp.id # delve[q].exp.id
    BY <1>1, <1>2, <1>3, <1>7, FreshIsUnknown
<1>11. delve' \in [Callers -> Delves] /\ RequestsInv'
    BY <1>1, <1>2, <1>3, <1>4, <1>5, <1>8, <1>9, <1>10, RequestsKept DEF TypesNext
<1>12. BuffersInv'
    BY <1>2, <1>3, <1>6 DEF DelveIInv, BuffersInv, BufferOK
<1>13. FinishedInv'
    <2>1. \A e \in Ids : e <= handed => e <= handed'
        BY <1>2, <1>3 DEF Ids
    <2> QED
        BY <1>2, <2>1 DEF DelveIInv, FinishedInv
<1> QED
    BY <1>4, <1>11, <1>12, <1>13, TypesFollow DEF DelveIInv

-----------------------------------------------------------------------------
(* The invariant                                                           *)

LEMMA DelveInitially ==
    ASSUME DelveInit
    PROVE  DelveIInv
<1>1. DelveTypeOK /\ memberOf \in [Delvers -> References]
    BY NoBufferTyped, DungeonAssumption DEF DelveInit, DelveTypeOK, References, Absent
<1>2. BuffersInv
    BY NoBufferTyped DEF DelveInit, BuffersInv, BufferOK
<1>3. FinishedInv
    BY DEF DelveInit, FinishedInv
<1>4. RequestsInv
    BY NoBufferTyped DEF DelveInit, RequestsInv, RequestOK
<1> QED
    BY <1>1, <1>2, <1>3, <1>4 DEF DelveIInv

LEMMA DelveStepAll ==
    ASSUME DelveIInv, [DelveNext]_delveVars
    PROVE  DelveIInv'
<1>1. CASE UNCHANGED delveVars
    <2>1. UNCHANGED <<buffer, spoils, memberOf, finished, gone, pack, handed, moves, delveFaults, delveCuts,
                      delverRow, delve>>
        BY <1>1 DEF delveVars, delveKeys, delveSql, delveCounts
    <2>2. pack' \in [Delvers -> {"none", "held", "used", "given"}]
          /\ delverRow' \in [Delvers -> Callers \cup {Nobody}] /\ delveCuts' \in 0..MaxEvents
        BY <2>1 DEF DelveIInv, DelveTypeOK
    <2> QED
        BY <2>1, <2>2, KeptStep
<1>2. ASSUME NEW p \in Callers, DelveAsks(p) PROVE DelveIInv'
    BY <1>2, AdmitStep, AskDelveStep DEF DelveAsks
<1>3. ASSUME NEW p \in Callers, DelveStep(p) PROVE DelveIInv'
    <2>1. CASE Walk(p) \/ OpenTreasure(p) \/ SpringTrap(p) \/ Win(p) \/ Draw(p) \/ Defeat(p) \/ Freeze(p)
        BY <2>1, EveryStepIsStepped, ScriptStepStep
    <2>2. CASE SaveState(p) \/ SaveRewards(p) \/ CommitStart(p) \/ LookIn(p) \/ StepRejected(p)
        BY <2>2, SaveStateStep, SaveRewardsStep, CommitStartStep, LookInStep, StepRejectedStep
    <2>3. CASE FrozenByOther(p) \/ Reread(p) \/ Finalize(p) \/ Clean(p) \/ DeleteExpedition(p)
        BY <2>3, FrozenByOtherStep, RereadStep, FinalizeStep, CleanStep, DeleteExpeditionStep
    <2>4. CASE \E m \in Delvers : SaveReference(p, m) \/ ReleaseReference(p, m)
        BY <2>4, SaveReferenceStep, ReleaseReferenceStep
    <2> QED
        BY <1>3, <2>1, <2>2, <2>3, <2>4 DEF DelveStep
<1>4. CASE DelveFault
    BY <1>4, BreakOffStep, CutOffStep, ForgottenStep, PartWithStep DEF DelveFault
<1> QED
    BY <1>1, <1>2, <1>3, <1>4 DEF DelveNext

LEMMA DelveInvariant == DelveSpec => []DelveIInv
BY DelveInitially, DelveStepAll, PTL DEF DelveSpec

\* An expedition, its references, its settlement, the rows, and what each
\* request remembers stay what the code takes them for; whatever is asked for
\* and whatever goes wrong stays within the bounds.
THEOREM TypeCorrect == DelveSpec => []DelveTypeOK
BY DelveInvariant, PTL DEF DelveIInv

-----------------------------------------------------------------------------
(* The ledger of an expedition                                             *)

LedgerNow ==
    /\ \A e \in Ids : SettledAsFrozen(e)
    /\ \A l \in Delvers : EarnedInOrder(l) /\ KeptUntilSettled(l)

LEMMA LedgerOfOne ==
    ASSUME NEW l \in Delvers, UNCHANGED finished, \A k \in Delvers \ {l} : buffer'[k] = buffer[k],
           EarnedInOrder(l), KeptUntilSettled(l)
    PROVE  LedgerNow
<1>1. ASSUME NEW k \in Delvers \ {l} PROVE EarnedInOrder(k) /\ KeptUntilSettled(k)
    BY <1>1 DEF EarnedInOrder, KeptUntilSettled
<1> QED
    BY <1>1 DEF LedgerNow, SettledAsFrozen

LEMMA LedgerAtRest ==
    ASSUME UNCHANGED <<buffer, finished>>
    PROVE  LedgerNow
BY DEF LedgerNow, SettledAsFrozen, EarnedInOrder, KeptUntilSettled

LEMMA ScriptStepLedger ==
    ASSUME DelveIInv, NEW p \in Callers, ScriptStep(p)
    PROVE  LedgerNow
<1>1. PICK x \in Delves : x = delve[p]
    BY DEF DelveIInv, DelveTypeOK
<1>2. PICK l \in Delvers : l = x.who /\ buffer[l] = x.exp /\ x.exp.status = "exploring" /\ x.exp \in Buffers
                           /\ (x.op = "move" => x.exp.foe = "none")
    BY <1>1, FencedCopy DEF ScriptStep
<1>3. PICK b \in Buffers, found \in Nat, settles \in BOOLEAN :
         Stepped(b, x.exp) /\ TakeStep(p, b, found, settles)
    BY <1>1 DEF ScriptStep
<1>4. /\ buffer' = [buffer EXCEPT ![l] = b]
      /\ finished' = finished
    BY <1>1, <1>2, <1>3 DEF TakeStep, delveSql
<1>5. buffer'[l] = b /\ \A k \in Delvers \ {l} : buffer'[k] = buffer[k]
    BY <1>4 DEF DelveIInv, DelveTypeOK
<1>6. delve'[p] # x
    <2>1. x.pc \in {"explore", "freeze"}
        BY <1>1 DEF ScriptStep
    <2>2. PICK n : n = spoils[x.who].n + found
        OBVIOUS
    <2>3. PICK y : y = [x EXCEPT !.pc = "settle", !.exp = b, !.loot = n]
        OBVIOUS
    <2>4. y.pc = "settle"
        BY <2>3 DEF Delves
    <2>5. DelveOn(p, y) \/ DelveOn(p, NoDelve)
        BY <1>1, <1>3, <2>2, <2>3 DEF TakeStep, Answered
    <2>6. delve'[p] = y \/ delve'[p] = NoDelve
        BY <2>5 DEF DelveOn, DelveIInv, DelveTypeOK
    <2> QED
        BY <2>1, <2>4, <2>6, NoBufferTyped
<1>7. EarnedInOrder(l)
    <2>1. \A c \in Delvers : b.gain[c] # x.exp.gain[c] => c \in Upright(x.exp)
        BY <1>3 DEF Stepped
    <2>2. x.exp.foe # "none" => delve[p].who = l /\ delve[p].op # "move" /\ delve'[p] # delve[p]
        BY <1>1, <1>2, <1>6
    <2> QED
        BY <1>2, <1>5, <2>1, <2>2 DEF EarnedInOrder
<1>8. KeptUntilSettled(l)
    BY <1>2, <1>3, <1>5 DEF KeptUntilSettled, Stepped
<1> QED
    BY <1>4, <1>5, <1>7, <1>8, LedgerOfOne

LEMMA SaveStateLedger ==
    ASSUME DelveIInv, NEW p \in Callers, SaveState(p)
    PROVE  LedgerNow
<1>1. PICK x \in Delves : x = delve[p]
    BY DEF DelveIInv, DelveTypeOK
<1>2. x.pc = "reference" /\ x.who \in Delvers /\ \A k \in Delvers : buffer[k].id # x.exp.id
    BY <1>1 DEF SaveState, DelveIInv, RequestsInv, RequestOK, FreshIn
<1>3. PICK l \in Delvers : l = x.who
    BY <1>2
<1>4. buffer' = [buffer EXCEPT ![l] = x.exp] /\ finished' = finished /\ Overwrites(l)
    BY <1>1, <1>3 DEF SaveState, delveSql
<1>5. buffer'[l] = x.exp /\ \A k \in Delvers \ {l} : buffer'[k] = buffer[k]
    BY <1>4 DEF DelveIInv, DelveTypeOK
<1>6. EarnedInOrder(l)
    BY <1>2, <1>5 DEF EarnedInOrder
<1>7. KeptUntilSettled(l)
    BY <1>4, OverwriteKeys DEF KeptUntilSettled
<1> QED
    BY <1>4, <1>5, <1>6, <1>7, LedgerOfOne

\* An expedition is taken away.
LEMMA TakenAwayLedger ==
    ASSUME DelveIInv, NEW l \in Delvers, UNCHANGED finished,
           buffer' = [buffer EXCEPT ![l] = NoBuffer],
           buffer[l].id \in gone' \/ finished[buffer[l].id] # NotSettled
    PROVE  LedgerNow
<1>1. buffer'[l] = NoBuffer /\ \A k \in Delvers \ {l} : buffer'[k] = buffer[k]
    BY DEF DelveIInv, DelveTypeOK
<1>2. EarnedInOrder(l)
    BY <1>1, NoBufferTyped DEF EarnedInOrder, DelveIInv, BuffersInv, BufferOK
<1>3. KeptUntilSettled(l)
    BY <1>1 DEF KeptUntilSettled
<1> QED
    BY <1>1, <1>2, <1>3, LedgerOfOne

LEMMA DeleteExpeditionLedger ==
    ASSUME DelveIInv, NEW p \in Callers, DeleteExpedition(p)
    PROVE  LedgerNow
<1>1. PICK x \in Delves : x = delve[p]
    BY DEF DelveIInv, DelveTypeOK
<1>2. x.who \in Delvers /\ finished[x.exp.id] # NotSettled
    BY <1>1 DEF DeleteExpedition, DelveIInv, RequestsInv, RequestOK
<1>3. PICK l \in Delvers : l = x.who
    BY <1>2
<1>4. finished' = finished
    BY DEF DeleteExpedition, delveSql
<1>5. CASE Kept(l) /\ buffer[l].id = x.exp.id
    <2>1. buffer' = [buffer EXCEPT ![l] = NoBuffer]
        BY <1>1, <1>3, <1>5 DEF DeleteExpedition
    <2>2. buffer[l].id \in gone' \/ finished[buffer[l].id] # NotSettled
        BY <1>2, <1>5
    <2> QED
        BY <1>4, <2>1, <2>2, TakenAwayLedger
<1>6. CASE ~(Kept(l) /\ buffer[l].id = x.exp.id)
    <2>1. buffer' = [buffer EXCEPT ![l] = buffer[l]]
        BY <1>1, <1>3, <1>6 DEF DeleteExpedition
    <2>2. buffer' = buffer
        BY <2>1 DEF DelveIInv, DelveTypeOK
    <2> QED
        BY <1>4, <2>2, LedgerAtRest
<1> QED
    BY <1>5, <1>6

LEMMA FinalizeLedger ==
    ASSUME DelveIInv, NEW p \in Callers, Finalize(p)
    PROVE  LedgerNow
<1>1. UNCHANGED <<buffer, spoils, gone>>
    BY FinalizeCases
<1>2. CASE UNCHANGED finished
    BY <1>1, <1>2, LedgerAtRest
<1>3. CASE Claims(p)
    <2>1. PICK x \in Delves : x = delve[p]
        BY DEF DelveIInv, DelveTypeOK
    <2>2. x.pc = "settle" /\ finished[x.exp.id] = NotSettled
          /\ finished' = [finished EXCEPT ![x.exp.id] = Settlement(x.exp, x.loot)]
        BY <1>3, <2>1 DEF Claims
    <2>3. RequestOK(x)
        BY <2>1 DEF DelveIInv, RequestsInv
    <2>4. x.who \in Delvers /\ Frozen(x.exp) /\ FrozenCopy(x) /\ x.exp.id \in 1..handed
          /\ (x.exp.id \in gone \/ finished[x.exp.id] # NotSettled \/ spoils[x.who].n = x.loot)
        BY <2>2, <2>3 DEF RequestOK
    <2>5. PICK l \in Delvers : l = x.who
        BY <2>4
    <2>6. PICK e \in Ids : e = x.exp.id
        BY <2>4, DungeonAssumption DEF Ids, DelveIInv, DelveTypeOK
    <2>7. finished'[e] = Settlement(x.exp, x.loot) /\ \A f \in Ids \ {e} : finished'[f] = finished[f]
        BY <2>2, <2>6 DEF DelveIInv, DelveTypeOK
    <2>8. SettledAsFrozen(e)
        <3>1. CASE e \in gone
            BY <2>2, <2>6, <3>1 DEF SettledAsFrozen
        <3>2. CASE e \notin gone
            <4>1. buffer[l] = x.exp /\ spoils[l].n = x.loot
                BY <2>2, <2>4, <2>5, <2>6, <3>2 DEF FrozenCopy
            <4>2. finished'[e] = Settlement(buffer[l], spoils[l].n)
                BY <2>7, <4>1
            <4>3. buffer[l].id = e /\ Frozen(buffer[l])
                BY <2>4, <2>6, <4>1
            <4>4. finished[e] = NotSettled
                BY <2>2, <2>6
            <4> QED
                BY <4>2, <4>3, <4>4 DEF SettledAsFrozen
        <3> QED
            BY <3>1, <3>2
    <2>9. \A f \in Ids \ {e} : SettledAsFrozen(f)
        BY <2>7 DEF SettledAsFrozen
    <2>10. \A k \in Delvers : EarnedInOrder(k) /\ KeptUntilSettled(k)
        BY <1>1 DEF EarnedInOrder, KeptUntilSettled
    <2> QED
        BY <2>8, <2>9, <2>10 DEF LedgerNow
<1> QED
    BY <1>2, <1>3, FinalizeCases

LEMMA LedgerKept ==
    ASSUME DelveIInv, DelveNext
    PROVE  LedgerNow
<1>1. ASSUME NEW p \in Callers, DelveAsks(p) PROVE LedgerNow
    <2>1. UNCHANGED <<buffer, finished>>
        BY <1>1 DEF DelveAsks, Admit, AskDelve, delveKeys, delveSql
    <2> QED
        BY <2>1, LedgerAtRest
<1>2. ASSUME NEW p \in Callers, DelveStep(p) PROVE LedgerNow
    <2>1. CASE Walk(p) \/ OpenTreasure(p) \/ SpringTrap(p) \/ Win(p) \/ Draw(p) \/ Defeat(p) \/ Freeze(p)
        BY <2>1, EveryStepIsStepped, ScriptStepLedger
    <2>2. CASE SaveState(p) \/ Finalize(p) \/ DeleteExpedition(p)
        BY <2>2, SaveStateLedger, FinalizeLedger, DeleteExpeditionLedger
    <2>3. CASE SaveRewards(p) \/ CommitStart(p) \/ LookIn(p) \/ StepRejected(p)
               \/ FrozenByOther(p) \/ Reread(p) \/ Clean(p)
               \/ \E m \in Delvers : SaveReference(p, m) \/ ReleaseReference(p, m)
        <3>1. UNCHANGED <<buffer, finished>>
            BY <2>3 DEF SaveRewards, CommitStart, LookIn, StepRejected, FrozenByOther, Reread, Clean,
                        SaveReference, ReleaseReference, delveKeys, delveSql
        <3> QED
            BY <3>1, LedgerAtRest
    <2> QED
        BY <1>2, <2>1, <2>2, <2>3 DEF DelveStep
<1>3. CASE DelveFault
    <2>1. CASE \E p \in Callers : BreakOff(p) \/ CutOff(p)
        <3>1. UNCHANGED <<buffer, finished>>
            BY <2>1 DEF BreakOff, CutOff, delveKeys, delveSql
        <3> QED
            BY <3>1, LedgerAtRest
    <2>2. ASSUME NEW c \in Delvers, Forgotten(c) PROVE LedgerNow
        BY <2>2, TakenAwayLedger DEF Forgotten, delveSql
    <2>3. ASSUME NEW c \in Delvers, PartWith(c) PROVE LedgerNow
        BY <2>3, LedgerAtRest DEF PartWith, delveKeys
    <2> QED
        BY <1>3, <2>1, <2>2, <2>3 DEF DelveFault
<1> QED
    BY <1>1, <1>2, <1>3 DEF DelveNext

\* However many moves, fights and exits of a leader run at the same time, from
\* copies that grow old, and whatever breaks off: every step of an expedition
\* is one that dungeon_step.lua accepts of the copy that Valkey holds, so that
\* who has fallen earns nothing and a pending foe is not walked past; what is
\* frozen is what FinalizeExpedition pays, once; and only what is paid or lost
\* is deleted.
THEOREM LedgerAlwaysSettledOnce == DelveSpec => LedgerSettledOnce
<1>1. DelveIInv /\ [DelveNext]_delveVars =>
         [/\ \A e \in Ids : SettledAsFrozen(e)
          /\ \A l \in Delvers : EarnedInOrder(l) /\ KeptUntilSettled(l)]_delveVars
    BY LedgerKept DEF LedgerNow
<1> QED
    BY <1>1, DelveInvariant, PTL DEF DelveSpec, LedgerSettledOnce

-----------------------------------------------------------------------------
(* Everyone inside is found there                                          *)

\* EnrolledOnce of the expedition of l.
Inside(l) ==
    buffer[l].status = "exploring" =>
        \A c \in buffer[l].members \ {l} : ~Kept(c) /\ memberOf[c] = <<l, buffer[l].id>>

\* What the start q relies on is not touched by a step of another request.
LeavesStart(q) ==
    /\ delve'[q] = delve[q]
    /\ \A m \in Delvers : delverRow[m] = q =>
          /\ delverRow'[m] = q
          /\ ~Kept(m) => ~Kept(m)'
          /\ \A l \in Delvers : buffer'[l].status = "exploring" /\ m \in buffer'[l].members =>
                buffer[l].status = "exploring" /\ m \in buffer[l].members
          /\ memberOf[m] = <<delve[q].who, delve[q].exp.id>> => memberOf'[m] = memberOf[m]

LEMMA StartGoesOn ==
    ASSUME DelveIInv, NEW q \in Callers, delve[q].pc = "reference", Enrolling(q), LeavesStart(q)
    PROVE  Enrolling(q)'
<1>1. PICK x \in Delves : x = delve[q]
    BY DEF DelveIInv, DelveTypeOK
<1>2. x.exp.members \subseteq Delvers /\ delve'[q] = x
    BY <1>1, RequestFields, BufferFields DEF LeavesStart
<1>3. x.who \in x.exp.members /\ x.todo \subseteq x.exp.members
    BY <1>1 DEF Enrolling
<1>4. ASSUME NEW m \in x.exp.members
      PROVE  /\ delverRow'[m] = q /\ ~Kept(m)'
             /\ \A l \in Delvers : buffer'[l].status = "exploring" => m \notin buffer'[l].members
             /\ m # x.who /\ m \notin x.todo => memberOf'[m] = <<x.who, x.exp.id>>
    <2>1. m \in Delvers /\ delverRow[m] = q /\ ~Kept(m)
          /\ (\A l \in Delvers : buffer[l].status = "exploring" => m \notin buffer[l].members)
          /\ (m # x.who /\ m \notin x.todo => memberOf[m] = <<x.who, x.exp.id>>)
        BY <1>1, <1>2 DEF Enrolling
    <2> QED
        BY <1>1, <2>1 DEF LeavesStart
<1> QED
    BY <1>2, <1>3, <1>4 DEF Enrolling

\* A step of the request p.
LEMMA EnrolledFollows ==
    ASSUME EnrolledIInv, DelveIInv', NEW p \in Callers, delveCuts' = delveCuts,
           delveCuts = 0 => /\ \A l \in Delvers : Inside(l)'
                            /\ \A q \in Callers \ {p} : delve[q].pc = "reference" => LeavesStart(q)
                            /\ delve'[p].pc = "reference" => Enrolling(p)',
           \A q \in Callers \ {p} : delve'[q] = delve[q]
    PROVE  EnrolledIInv'
<1>1. EnrolledOnce'
    BY DEF EnrolledOnce, Inside
<1>2. ASSUME delveCuts' = 0, NEW q \in Callers, delve'[q].pc = "reference"
      PROVE  Enrolling(q)'
    <2>1. CASE q = p
        BY <1>2, <2>1
    <2>2. CASE q # p
        <3>1. delve[q].pc = "reference" /\ LeavesStart(q) /\ Enrolling(q)
            BY <1>2, <2>2 DEF EnrolledIInv
        <3> QED
            BY <3>1, StartGoesOn DEF EnrolledIInv
    <2> QED
        BY <2>1, <2>2
<1> QED
    BY <1>1, <1>2 DEF EnrolledIInv

LEMMA EnrolledFacts ==
    ASSUME EnrolledIInv, delveCuts = 0
    PROVE  /\ \A l \in Delvers : Inside(l)
           /\ \A p \in Callers : delve[p].pc = "reference" => Enrolling(p)
BY DEF EnrolledIInv, EnrolledOnce, Inside

\* A request that is no start, and leaves the keys alone.
LEMMA EnrolledAtRest ==
    ASSUME EnrolledIInv, DelveIInv', NEW p \in Callers, NEW y, DelveOn(p, y), y.pc # "reference",
           UNCHANGED <<buffer, memberOf, delveCuts>>, UNCHANGED delverRow \/ RowsGivenUp(p)
    PROVE  EnrolledIInv'
<1>1. delve'[p] = y /\ \A q \in Callers \ {p} : delve'[q] = delve[q]
    BY DEF DelveOn, EnrolledIInv, DelveIInv, DelveTypeOK
<1>2. \A m \in Delvers : delverRow[m] # p => delverRow'[m] = delverRow[m]
    BY DEF RowsGivenUp
<1>3. ASSUME NEW q \in Callers \ {p}
      PROVE  LeavesStart(q)
    BY <1>1, <1>2 DEF LeavesStart, Kept
<1>4. ASSUME delveCuts = 0, NEW l \in Delvers PROVE Inside(l)'
    <2>1. Inside(l)
        BY <1>4, EnrolledFacts
    <2> QED
        BY <2>1 DEF Inside, Kept
<1> QED
    BY <1>1, <1>3, <1>4, EnrolledFollows

\* An expedition takes a step, or is taken away.
LEMMA EnrolledAfterStep ==
    ASSUME EnrolledIInv, DelveIInv', NEW l \in Delvers, NEW b, buffer' = [buffer EXCEPT ![l] = b],
           b.status = "exploring" => /\ buffer[l].status = "exploring" /\ b.id = buffer[l].id
                                     /\ b.members = buffer[l].members,
           ~Kept(l) => b.status = "none",
           UNCHANGED <<memberOf, delverRow>>
    PROVE  /\ delveCuts = 0 => \A k \in Delvers : Inside(k)'
           /\ \A q \in Callers : delve'[q] = delve[q] => LeavesStart(q)
<1>1. buffer'[l] = b /\ \A k \in Delvers \ {l} : buffer'[k] = buffer[k]
    BY DEF EnrolledIInv, DelveIInv, DelveTypeOK
<1>2. \A c \in Delvers : ~Kept(c) => ~Kept(c)'
    BY <1>1 DEF Kept
<1>3. \A k \in Delvers : buffer'[k].status = "exploring" =>
         buffer[k].status = "exploring" /\ buffer'[k].id = buffer[k].id
         /\ buffer'[k].members = buffer[k].members
    BY <1>1
<1>4. ASSUME delveCuts = 0, NEW k \in Delvers PROVE Inside(k)'
    <2>1. Inside(k)
        BY <1>4, EnrolledFacts
    <2>2. buffer[k].members \subseteq Delvers
        BY BufferFields DEF EnrolledIInv, DelveIInv, DelveTypeOK
    <2> QED
        BY <1>2, <1>3, <2>1, <2>2 DEF Inside
<1>5. ASSUME NEW q \in Callers, delve'[q] = delve[q] PROVE LeavesStart(q)
    BY <1>2, <1>3, <1>5 DEF LeavesStart
<1> QED
    BY <1>4, <1>5

LEMMA AdmitEnrolls ==
    ASSUME EnrolledIInv, DelveIInv', NEW p \in Callers, NEW c \in Delvers, NEW S \in SUBSET Delvers,
           Admit(p, c, S)
    PROVE  EnrolledIInv'
<1>1. PICK y \in Delves :
         /\ y.who = c /\ y.todo = S \ {c} /\ y.exp.members = S /\ DelveOn(p, y)
    BY AdmitRequest DEF EnrolledIInv
<1>2. delve'[p] = y /\ \A q \in Callers \ {p} : delve'[q] = delve[q]
    BY <1>1 DEF DelveOn, EnrolledIInv, DelveIInv, DelveTypeOK
<1>3. /\ c \in S /\ FreeToEnter(S) /\ \A m \in S : delverRow[m] = Nobody
      /\ delverRow' = [m \in Delvers |-> IF m \in S THEN p ELSE delverRow[m]]
      /\ UNCHANGED <<buffer, memberOf, delveCuts>>
    BY DEF Admit, delveKeys, delveCounts
<1>4. ASSUME NEW q \in Callers \ {p} PROVE LeavesStart(q)
    <2>1. q # Nobody
        BY ActorsAssumption
    <2> QED
        BY <1>2, <1>3, <2>1 DEF LeavesStart, Kept
<1>5. ASSUME delveCuts = 0 PROVE Enrolling(p)'
    <2>1. ASSUME NEW m \in S
          PROVE  ~Kept(m) /\ \A l \in Delvers : buffer[l].status = "exploring" => m \notin buffer[l].members
        <3>1. ~Enrolled(m)
            BY <1>3 DEF FreeToEnter
        <3>2. ~Kept(m)
            BY <3>1 DEF Enrolled
        <3>3. ASSUME NEW l \in Delvers, buffer[l].status = "exploring", m \in buffer[l].members
              PROVE  FALSE
            <4>1. Kept(l) /\ m # l
                BY <3>2, <3>3 DEF Kept
            <4>2. memberOf[m] = <<l, buffer[l].id>>
                BY <1>5, <3>3, <4>1, EnrolledFacts DEF Inside
            <4> QED
                BY <3>1, <3>3, <4>1, <4>2 DEF Enrolled
        <3> QED
            BY <3>2, <3>3
    <2> QED
        BY <1>1, <1>2, <1>3, <2>1 DEF Enrolling, Kept
<1>6. ASSUME delveCuts = 0, NEW l \in Delvers PROVE Inside(l)'
    <2>1. Inside(l)
        BY <1>6, EnrolledFacts
    <2> QED
        BY <1>3, <2>1 DEF Inside, Kept
<1> QED
    BY <1>2, <1>3, <1>4, <1>5, <1>6, EnrolledFollows

\* No two starts take the same character along.
LEMMA StartsApart ==
    ASSUME EnrolledIInv, delveCuts = 0, NEW p \in Callers, delve[p].pc = "reference",
           NEW q \in Callers \ {p}
    PROVE  /\ \A m \in delve[p].exp.members : m \in Delvers /\ delverRow[m] # q
           /\ delve[p].who \in delve[p].exp.members
<1>1. Enrolling(p)
    BY EnrolledFacts
<1>2. delve[p].exp.members \subseteq Delvers
    BY RequestFields, BufferFields DEF EnrolledIInv, DelveIInv, DelveTypeOK
<1> QED
    BY <1>1, <1>2 DEF Enrolling

LEMMA SaveReferenceEnrolls ==
    ASSUME EnrolledIInv, DelveIInv', NEW p \in Callers, NEW m \in Delvers, SaveReference(p, m)
    PROVE  EnrolledIInv'
<1>1. PICK x \in Delves : x = delve[p]
    BY DEF EnrolledIInv, DelveIInv, DelveTypeOK
<1>2. PICK y : y = [x EXCEPT !.todo = @ \ {m}]
    OBVIOUS
<1>3. y.pc = x.pc /\ y.who = x.who /\ y.exp = x.exp /\ y.todo = x.todo \ {m}
    BY <1>2 DEF Delves
<1>4. DelveOn(p, y)
    BY <1>1, <1>2 DEF SaveReference
<1>5. delve'[p] = y /\ \A q \in Callers \ {p} : delve'[q] = delve[q]
    BY <1>4 DEF DelveOn, EnrolledIInv, DelveIInv, DelveTypeOK
<1>6. /\ x.pc = "reference" /\ m \in x.todo
      /\ memberOf' = [memberOf EXCEPT ![m] = <<x.who, x.exp.id>>]
      /\ UNCHANGED <<buffer, delverRow, delveCuts>>
    BY <1>1 DEF SaveReference, delveCounts
<1>7. memberOf'[m] = <<x.who, x.exp.id>> /\ \A c \in Delvers \ {m} : memberOf'[c] = memberOf[c]
    BY <1>6 DEF EnrolledIInv, DelveIInv
<1>8. ASSUME delveCuts = 0 PROVE Enrolling(p) /\ m \in x.exp.members
    BY <1>1, <1>6, <1>8, EnrolledFacts DEF Enrolling
<1>9. ASSUME delveCuts = 0, NEW q \in Callers \ {p} PROVE LeavesStart(q)
    <2>1. delverRow[m] # q
        BY <1>1, <1>6, <1>8, <1>9, StartsApart
    <2> QED
        BY <1>5, <1>6, <1>7, <2>1 DEF LeavesStart, Kept
<1>10. ASSUME delveCuts = 0 PROVE Enrolling(p)'
    <2>1. x.exp.members \subseteq Delvers
        BY RequestFields, BufferFields
    <2> QED
        BY <1>1, <1>3, <1>5, <1>6, <1>7, <1>8, <1>10, <2>1 DEF Enrolling, Kept
<1>11. ASSUME delveCuts = 0, NEW l \in Delvers PROVE Inside(l)'
    <2>1. Inside(l)
        BY <1>11, EnrolledFacts
    <2>2. buffer[l].status = "exploring" => m \notin buffer[l].members
        BY <1>1, <1>8, <1>11 DEF Enrolling
    <2>3. buffer[l].members \subseteq Delvers
        BY BufferFields DEF EnrolledIInv, DelveIInv, DelveTypeOK
    <2> QED
        BY <1>6, <1>7, <2>1, <2>2, <2>3 DEF Inside, Kept
<1> QED
    BY <1>5, <1>6, <1>9, <1>10, <1>11, EnrolledFollows

LEMMA SaveStateEnrolls ==
    ASSUME EnrolledIInv, DelveIInv', NEW p \in Callers, SaveState(p)
    PROVE  EnrolledIInv'
<1>1. PICK x \in Delves : x = delve[p]
    BY DEF EnrolledIInv, DelveIInv, DelveTypeOK
<1>2. PICK y : y = [x EXCEPT !.pc = "rewards"]
    OBVIOUS
<1>3. y.pc = "rewards"
    BY <1>2 DEF Delves
<1>4. DelveOn(p, y)
    BY <1>1, <1>2 DEF SaveState
<1>5. delve'[p] = y /\ \A q \in Callers \ {p} : delve'[q] = delve[q]
    BY <1>4 DEF DelveOn, EnrolledIInv, DelveIInv, DelveTypeOK
<1>6. x.pc = "reference" /\ x.todo = {} /\ UNCHANGED <<memberOf, delverRow, delveCuts>>
    BY <1>1 DEF SaveState
<1>7. PICK l \in Delvers : l = x.who
    BY <1>1, <1>6 DEF EnrolledIInv, DelveIInv, RequestsInv, RequestOK
<1>8. PICK b \in Buffers : b = x.exp
    BY RequestFields
<1>9. buffer' = [buffer EXCEPT ![l] = b]
    BY <1>1, <1>7, <1>8 DEF SaveState
<1>10. buffer'[l] = b /\ \A k \in Delvers \ {l} : buffer'[k] = buffer[k]
    BY <1>9 DEF EnrolledIInv, DelveIInv, DelveTypeOK
<1>11. ASSUME delveCuts = 0
       PROVE  /\ l \in b.members
              /\ \A m \in b.members :
                    /\ m \in Delvers /\ delverRow[m] = p /\ ~Kept(m)
                    /\ \A k \in Delvers : buffer[k].status = "exploring" => m \notin buffer[k].members
                    /\ m # l => memberOf[m] = <<l, b.id>>
    <2>1. Enrolling(p)
        BY <1>1, <1>6, <1>11, EnrolledFacts
    <2>2. b.members \subseteq Delvers
        BY BufferFields
    <2> QED
        BY <1>1, <1>6, <1>7, <1>8, <2>1, <2>2 DEF Enrolling
<1>12. ASSUME delveCuts = 0, NEW q \in Callers \ {p} PROVE LeavesStart(q)
    <2>1. ASSUME NEW m \in Delvers, delverRow[m] = q
          PROVE  m \notin b.members /\ m # l
        BY <1>11, <1>12, <2>1
    <2> QED
        BY <1>5, <1>6, <1>10, <2>1 DEF LeavesStart, Kept
<1>13. ASSUME delveCuts = 0, NEW k \in Delvers PROVE Inside(k)'
    <2>1. CASE k = l
        BY <1>6, <1>10, <1>11, <1>13, <2>1 DEF Inside, Kept
    <2>2. CASE k # l
        <3>1. Inside(k)
            BY <1>13, EnrolledFacts
        <3>2. buffer[k].status = "exploring" => l \notin buffer[k].members
            BY <1>11, <1>13
        <3>3. buffer[k].members \subseteq Delvers
            BY BufferFields DEF EnrolledIInv, DelveIInv, DelveTypeOK
        <3> QED
            BY <1>6, <1>10, <2>2, <3>1, <3>2, <3>3 DEF Inside, Kept
    <2> QED
        BY <2>1, <2>2
<1> QED
    BY <1>3, <1>5, <1>6, <1>12, <1>13, EnrolledFollows

LEMMA ScriptStepEnrolls ==
    ASSUME EnrolledIInv, DelveIInv', NEW p \in Callers, ScriptStep(p)
    PROVE  EnrolledIInv'
<1>1. PICK x \in Delves : x = delve[p]
    BY DEF EnrolledIInv, DelveIInv, DelveTypeOK
<1>2. PICK l \in Delvers : l = x.who /\ buffer[l] = x.exp /\ x.exp.status = "exploring" /\ x.exp \in Buffers
    BY <1>1, FencedCopy DEF ScriptStep, EnrolledIInv
<1>3. PICK b \in Buffers, found \in Nat, settles \in BOOLEAN :
         Stepped(b, x.exp) /\ TakeStep(p, b, found, settles)
    BY <1>1 DEF ScriptStep
<1>4. buffer' = [buffer EXCEPT ![l] = b] /\ UNCHANGED <<memberOf, delverRow, delveCuts>>
    BY <1>1, <1>2, <1>3 DEF TakeStep, delveCounts
<1>5. PICK n : n = spoils[x.who].n + found
    OBVIOUS
<1>6. PICK y : y = [x EXCEPT !.pc = "settle", !.exp = b, !.loot = n]
    OBVIOUS
<1>7. y.pc = "settle"
    BY <1>6 DEF Delves
<1>8. DelveOn(p, y) \/ DelveOn(p, NoDelve)
    BY <1>1, <1>3, <1>5, <1>6 DEF TakeStep, Answered
<1>9. delve'[p].pc # "reference" /\ \A q \in Callers \ {p} : delve'[q] = delve[q]
    BY <1>7, <1>8, NoBufferTyped DEF DelveOn, EnrolledIInv, DelveIInv, DelveTypeOK
<1>10. b.id = x.exp.id /\ b.members = x.exp.members
    BY <1>3 DEF Stepped
<1>11. Kept(l)
    BY <1>2 DEF Kept
<1>12. /\ delveCuts = 0 => \A k \in Delvers : Inside(k)'
       /\ \A q \in Callers : delve'[q] = delve[q] => LeavesStart(q)
    BY <1>2, <1>4, <1>10, <1>11, EnrolledAfterStep
<1> QED
    BY <1>4, <1>9, <1>12, EnrolledFollows

LEMMA DeleteExpeditionEnrolls ==
    ASSUME EnrolledIInv, DelveIInv', NEW p \in Callers, DeleteExpedition(p)
    PROVE  EnrolledIInv'
<1>1. PICK x \in Delves : x = delve[p]
    BY DEF EnrolledIInv, DelveIInv, DelveTypeOK
<1>2. PICK l \in Delvers : l = x.who
    BY <1>1 DEF DeleteExpedition, EnrolledIInv, DelveIInv, RequestsInv, RequestOK
<1>3. UNCHANGED <<memberOf, delverRow, delveCuts>> /\ DelveOn(p, NoDelve)
    BY DEF DeleteExpedition, delveCounts, Answered
<1>4. delve'[p].pc # "reference" /\ \A q \in Callers \ {p} : delve'[q] = delve[q]
    BY <1>3, NoBufferTyped DEF DelveOn, EnrolledIInv, DelveIInv, DelveTypeOK
<1>5. CASE Kept(l) /\ buffer[l].id = x.exp.id
    <2>1. buffer' = [buffer EXCEPT ![l] = NoBuffer]
        BY <1>1, <1>2, <1>5 DEF DeleteExpedition
    <2>2. /\ delveCuts = 0 => \A k \in Delvers : Inside(k)'
          /\ \A q \in Callers : delve'[q] = delve[q] => LeavesStart(q)
        BY <1>3, <2>1, NoBufferTyped, EnrolledAfterStep
    <2> QED
        BY <1>3, <1>4, <2>2, EnrolledFollows
<1>6. CASE ~(Kept(l) /\ buffer[l].id = x.exp.id)
    <2>1. buffer' = [buffer EXCEPT ![l] = buffer[l]]
        BY <1>1, <1>2, <1>6 DEF DeleteExpedition
    <2>2. buffer' = buffer
        BY <2>1 DEF EnrolledIInv, DelveIInv, DelveTypeOK
    <2> QED
        BY <1>3, <2>2, NoBufferTyped, EnrolledAtRest
<1> QED
    BY <1>5, <1>6

LEMMA ReleaseReferenceEnrolls ==
    ASSUME EnrolledIInv, DelveIInv', NEW p \in Callers, NEW m \in Delvers, ReleaseReference(p, m)
    PROVE  EnrolledIInv'
<1>1. PICK x \in Delves : x = delve[p]
    BY DEF EnrolledIInv, DelveIInv, DelveTypeOK
<1>2. PICK y : y = [x EXCEPT !.todo = @ \ {m}]
    OBVIOUS
<1>3. y.pc = x.pc
    BY <1>2 DEF Delves
<1>4. DelveOn(p, y)
    BY <1>1, <1>2 DEF ReleaseReference
<1>5. delve'[p] = y /\ \A q \in Callers \ {p} : delve'[q] = delve[q]
    BY <1>4 DEF DelveOn, EnrolledIInv, DelveIInv, DelveTypeOK
<1>6. x.pc = "release" /\ UNCHANGED <<buffer, delverRow, delveCuts>>
      /\ memberOf' = [memberOf EXCEPT ![m] =
             IF memberOf[m] = <<x.who, x.exp.id>> THEN NoReference ELSE memberOf[m]]
    BY <1>1 DEF ReleaseReference, delveCounts
<1>7. (\A c \in Delvers \ {m} : memberOf'[c] = memberOf[c])
      /\ (memberOf'[m] = memberOf[m] \/ memberOf[m] = <<x.who, x.exp.id>>)
    BY <1>6 DEF EnrolledIInv, DelveIInv
<1>8. finished[x.exp.id] # NotSettled /\ x.exp.id \in Ids
    BY <1>1, <1>6, DungeonAssumption
    DEF EnrolledIInv, DelveIInv, RequestsInv, RequestOK, DelveTypeOK, Ids
<1>9. ASSUME NEW q \in Callers \ {p}, delve[q].pc = "reference" PROVE LeavesStart(q)
    <2>1. finished[delve[q].exp.id] = NotSettled
        BY <1>9, FreshIsUnknown DEF EnrolledIInv
    <2>2. delve[q].exp.id # x.exp.id
        BY <1>8, <2>1
    <2>3. memberOf[m] = <<delve[q].who, delve[q].exp.id>> => memberOf'[m] = memberOf[m]
        BY <1>7, <2>2
    <2> QED
        BY <1>5, <1>6, <1>7, <2>3 DEF LeavesStart, Kept
<1>10. ASSUME delveCuts = 0, NEW l \in Delvers PROVE Inside(l)'
    <2>1. Inside(l)
        BY <1>10, EnrolledFacts
    <2>2. buffer[l].status = "exploring" => buffer[l].id # x.exp.id
        BY <1>8 DEF EnrolledIInv, DelveIInv, FinishedInv, Frozen
    <2>3. buffer[l].members \subseteq Delvers
        BY BufferFields DEF EnrolledIInv, DelveIInv, DelveTypeOK
    <2>4. ASSUME buffer[l].status = "exploring", NEW c \in buffer[l].members \ {l}
          PROVE  ~Kept(c) /\ memberOf'[c] = <<l, buffer[l].id>>
        <3>1. ~Kept(c) /\ memberOf[c] = <<l, buffer[l].id>> /\ c \in Delvers
            BY <2>1, <2>3, <2>4 DEF Inside
        <3>2. memberOf[c] # <<x.who, x.exp.id>>
            BY <2>2, <2>4, <3>1
        <3> QED
            BY <1>7, <3>1, <3>2
    <2> QED
        BY <1>6, <2>4 DEF Inside, Kept
<1> QED
    BY <1>3, <1>5, <1>6, <1>9, <1>10, EnrolledFollows

\* The requests of an expedition that is under way, and the answers.
LEMMA UnderWayEnrolls ==
    ASSUME EnrolledIInv, DelveIInv', NEW p \in Callers,
           \/ SaveRewards(p) \/ CommitStart(p) \/ LookIn(p) \/ StepRejected(p)
           \/ FrozenByOther(p) \/ Reread(p) \/ Clean(p) \/ Finalize(p) \/ BreakOff(p)
    PROVE  EnrolledIInv'
<1>1. PICK x \in Delves : x = delve[p]
    BY DEF EnrolledIInv, DelveIInv, DelveTypeOK
<1>2. UNCHANGED <<buffer, memberOf, delveCuts>>
    <2>1. CASE Finalize(p)
        BY <2>1, FinalizeCases DEF EnrolledIInv
    <2>2. CASE ~Finalize(p)
        BY <2>2 DEF SaveRewards, CommitStart, LookIn, StepRejected, FrozenByOther, Reread, Clean,
                    BreakOff, delveKeys, delveCounts
    <2> QED
        BY <2>1, <2>2
<1>3. UNCHANGED delverRow \/ RowsGivenUp(p)
    BY DEF SaveRewards, CommitStart, LookIn, StepRejected, FrozenByOther, Reread, Clean,
           Finalize, BreakOff
<1>4. ASSUME NEW y, DelveOn(p, y), y.pc # "reference" PROVE EnrolledIInv'
    BY <1>2, <1>3, <1>4, EnrolledAtRest
<1>5. CASE Answered(p)
    BY <1>4, <1>5, NoBufferTyped DEF Answered
<1>6. CASE SaveRewards(p)
    <2>1. PICK y : y = [x EXCEPT !.pc = "commit"]
        OBVIOUS
    <2>2. y.pc = "commit"
        BY <2>1 DEF Delves
    <2>3. DelveOn(p, y)
        BY <1>1, <1>6, <2>1 DEF SaveRewards
    <2> QED
        BY <1>4, <2>2, <2>3
<1>7. CASE LookIn(p)
    <2>1. PICK n : n = spoils[x.who].n
        OBVIOUS
    <2>2. PICK z : z = [x EXCEPT !.loot = n]
        OBVIOUS
    <2>3. PICK y1 : y1 = [z EXCEPT !.pc = "settle"]
        OBVIOUS
    <2>4. PICK y2 : y2 = [z EXCEPT !.pc = "explore"]
        OBVIOUS
    <2>5. PICK y3 : y3 = [z EXCEPT !.pc = "freeze", !.want = "escaped"]
        OBVIOUS
    <2>6. PICK y4 : y4 = [z EXCEPT !.pc = "freeze", !.want = "cleared"]
        OBVIOUS
    <2>7. DelveOn(p, y1) \/ DelveOn(p, y2) \/ DelveOn(p, y3) \/ DelveOn(p, y4)
        BY <1>1, <1>7, <2>1, <2>2, <2>3, <2>4, <2>5, <2>6 DEF LookIn
    <2>8. y1.pc = "settle" /\ y2.pc = "explore" /\ y3.pc = "freeze" /\ y4.pc = "freeze"
        BY <2>2, <2>3, <2>4, <2>5, <2>6 DEF Delves
    <2> QED
        BY <1>4, <2>7, <2>8
<1>8. CASE FrozenByOther(p)
    <2>1. PICK y : y = [x EXCEPT !.pc = "reread"]
        OBVIOUS
    <2>2. y.pc = "reread"
        BY <2>1 DEF Delves
    <2>3. DelveOn(p, y)
        BY <1>1, <1>8, <2>1 DEF FrozenByOther
    <2> QED
        BY <1>4, <2>2, <2>3
<1>9. CASE Reread(p) /\ ~Answered(p)
    <2>1. PICK y : y = [x EXCEPT !.pc = "look", !.exp = buffer[x.who]]
        OBVIOUS
    <2>2. y.pc = "look"
        BY <2>1 DEF Delves
    <2>3. DelveOn(p, y)
        BY <1>1, <1>9, <2>1 DEF Reread
    <2> QED
        BY <1>4, <2>2, <2>3
<1>10. CASE Clean(p) /\ ~Answered(p)
    <2>1. PICK y : y = [x EXCEPT !.pc = "release", !.todo = buffer[x.who].members \ {x.who}]
        OBVIOUS
    <2>2. y.pc = "release"
        BY <2>1 DEF Delves
    <2>3. DelveOn(p, y)
        BY <1>1, <1>10, <2>1 DEF Clean
    <2> QED
        BY <1>4, <2>2, <2>3
<1>11. CASE Finalize(p) /\ ~Answered(p)
    <2>1. PICK e : e = [NoBuffer EXCEPT !.id = x.exp.id]
        OBVIOUS
    <2>2. PICK y : y = [NoDelve EXCEPT !.pc = "clean", !.who = x.who, !.exp = e]
        OBVIOUS
    <2>3. y.pc = "clean"
        BY <2>2, NoBufferTyped DEF Delves
    <2>4. DelveOn(p, y)
        BY <1>1, <1>11, <2>1, <2>2, FinalizeCases DEF EnrolledIInv
    <2> QED
        BY <1>4, <2>3, <2>4
<1> QED
    BY <1>5, <1>6, <1>7, <1>8, <1>9, <1>10, <1>11 DEF CommitStart, StepRejected, BreakOff

LEMMA AskDelveEnrolls ==
    ASSUME EnrolledIInv, DelveIInv', NEW p \in Callers, NEW c \in Delvers, NEW op, AskDelve(p, c, op)
    PROVE  EnrolledIInv'
<1>1. PICK y : y = [NoDelve EXCEPT !.pc = "look", !.op = op, !.who = c, !.exp = buffer[c]]
    OBVIOUS
<1>2. y.pc = "look"
    BY <1>1, NoBufferTyped DEF Delves
<1>3. DelveOn(p, y)
    BY <1>1 DEF AskDelve
<1>4. UNCHANGED <<buffer, memberOf, delveCuts, delverRow>>
    BY DEF AskDelve, delveKeys
<1> QED
    BY <1>2, <1>3, <1>4, EnrolledAtRest

\* What comes in between leaves every request where it is.
LEMMA BetweenEnrolls ==
    ASSUME EnrolledIInv, DelveIInv',
           \/ \E p \in Callers : CutOff(p)
           \/ \E c \in Delvers : Forgotten(c) \/ PartWith(c)
           \/ UNCHANGED delveVars
    PROVE  EnrolledIInv'
<1>1. CASE \E p \in Callers : CutOff(p)
    <2>1. delveCuts' = delveCuts + 1 /\ delveCuts \in Nat
        BY <1>1 DEF CutOff, EnrolledIInv, DelveIInv, DelveTypeOK
    <2>2. delveCuts' # 0
        BY <2>1
    <2> QED
        BY <2>2 DEF EnrolledIInv, EnrolledOnce
<1>2. ASSUME NEW c \in Delvers, Forgotten(c) PROVE EnrolledIInv'
    <2>1. buffer' = [buffer EXCEPT ![c] = NoBuffer] /\ UNCHANGED <<memberOf, delverRow, delve, delveCuts>>
        BY <1>2 DEF Forgotten
    <2>2. /\ delveCuts = 0 => \A k \in Delvers : Inside(k)'
          /\ \A q \in Callers : delve'[q] = delve[q] => LeavesStart(q)
        BY <2>1, NoBufferTyped, EnrolledAfterStep
    <2>3. EnrolledOnce'
        BY <2>1, <2>2 DEF EnrolledOnce, Inside
    <2>4. ASSUME delveCuts' = 0, NEW q \in Callers, delve'[q].pc = "reference" PROVE Enrolling(q)'
        BY <2>1, <2>2, <2>4, EnrolledFacts, StartGoesOn DEF EnrolledIInv
    <2> QED
        BY <2>3, <2>4 DEF EnrolledIInv
<1>3. CASE UNCHANGED <<buffer, memberOf, delverRow, delve, delveCuts>>
    <2>1. EnrolledOnce'
        BY <1>3 DEF EnrolledIInv, EnrolledOnce, Kept
    <2>2. ASSUME delveCuts' = 0, NEW q \in Callers, delve'[q].pc = "reference" PROVE Enrolling(q)'
        <3>1. Enrolling(q)
            BY <1>3, <2>2, EnrolledFacts
        <3> QED
            BY <1>3, <3>1 DEF Enrolling, Kept
    <2> QED
        BY <2>1, <2>2 DEF EnrolledIInv
<1> QED
    BY <1>1, <1>2, <1>3 DEF PartWith, delveVars, delveKeys, delveCounts

LEMMA EnrolledStepAll ==
    ASSUME EnrolledIInv, [DelveNext]_delveVars
    PROVE  EnrolledIInv'
<1>0. DelveIInv /\ DelveIInv'
    BY DelveStepAll DEF EnrolledIInv
<1>1. ASSUME NEW p \in Callers, DelveAsks(p) PROVE EnrolledIInv'
    BY <1>0, <1>1, AdmitEnrolls, AskDelveEnrolls DEF DelveAsks
<1>2. ASSUME NEW p \in Callers, DelveStep(p) PROVE EnrolledIInv'
    <2>1. CASE Walk(p) \/ OpenTreasure(p) \/ SpringTrap(p) \/ Win(p) \/ Draw(p) \/ Defeat(p) \/ Freeze(p)
        BY <1>0, <2>1, EveryStepIsStepped, ScriptStepEnrolls
    <2>2. CASE SaveState(p) \/ DeleteExpedition(p)
        BY <1>0, <2>2, SaveStateEnrolls, DeleteExpeditionEnrolls
    <2>3. CASE SaveRewards(p) \/ CommitStart(p) \/ LookIn(p) \/ StepRejected(p)
               \/ FrozenByOther(p) \/ Reread(p) \/ Clean(p) \/ Finalize(p)
        BY <1>0, <2>3, UnderWayEnrolls
    <2>4. CASE \E m \in Delvers : SaveReference(p, m) \/ ReleaseReference(p, m)
        BY <1>0, <2>4, SaveReferenceEnrolls, ReleaseReferenceEnrolls
    <2> QED
        BY <1>2, <2>1, <2>2, <2>3, <2>4 DEF DelveStep
<1>3. ASSUME NEW p \in Callers, BreakOff(p) PROVE EnrolledIInv'
    BY <1>0, <1>3, UnderWayEnrolls
<1> QED
    BY <1>0, <1>1, <1>2, <1>3, BetweenEnrolls DEF DelveNext, DelveFault

\* As long as the database loses no connection, everyone who is inside of an
\* expedition that is explored is found there by GetActiveExpedition: starts
\* that race or break off, and clean-ups that come late, never free a member
\* for a second expedition.
THEOREM AlwaysEnrolledOnce == DelveSpec => []EnrolledOnce
<1>1. DelveInit => EnrolledIInv
    BY DelveInitially, NoBufferTyped DEF DelveInit, EnrolledIInv, EnrolledOnce
<1>2. EnrolledIInv => EnrolledOnce
    BY DEF EnrolledIInv
<1> QED
    BY <1>1, <1>2, EnrolledStepAll, PTL DEF DelveSpec
=============================================================================
