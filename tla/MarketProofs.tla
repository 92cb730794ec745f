---------------------------- MODULE MarketProofs ----------------------------
(***************************************************************************)
(* Proofs about Market, for every number of traders, callers, listings and *)
(* sales: its transfers never wait for each other in a circle, its rows    *)
(* keep their types, its limits hold, and it makes no item and no gold.    *)
(*                                                                         *)
(* What a transaction locks is the sequence of rows RowPlan, fixed by its  *)
(* request and by the seller of the listing or sale that it has locked     *)
(* first.  In it the row that several characters share comes first, the    *)
(* characters follow in the order of their IDs, and a depot, inventory or  *)
(* gem box comes after its owner.  So nobody waits for what an owner's     *)
(* lock protects already, nobody who waits for a shared row holds any      *)
(* other, and of those that wait for characters the one that waits for the *)
(* highest is blocked by somebody who waits for none.                      *)
(*                                                                         *)
(* What a transaction has counted holds until it commits, since the rows   *)
(* that it has locked keep away whoever could make it more, or take away   *)
(* the gold that it has checked (Checked, ValuesGuarded).                  *)
(*                                                                         *)
(* Units of an item are on the market, in stores or in hands.  A commit    *)
(* takes one from a part that has it still, which is what the invariants   *)
(* are for, and puts it into another; so the sum of the three stays.       *)
(***************************************************************************)
EXTENDS Market, SumProofs, FiniteSetTheorems, SequenceTheorems, WellFoundedInduction, TLAPS

-----------------------------------------------------------------------------
(* Characters in the order of their IDs                                    *)
Lower(a, b) == IF IdOrder[a] < IdOrder[b] THEN a ELSE b
Higher(a, b) == IF IdOrder[a] < IdOrder[b] THEN b ELSE a

\* The rows of a and, where it is another character, of b.
Sorted(table, a, b) ==
    IF b \notin Traders \/ a = b THEN <<<<table, a>>>>
    ELSE <<<<table, Lower(a, b)>>, <<table, Higher(a, b)>>>>

LEMMA IdsDiffer ==
  ASSUME NEW a \in Traders, NEW b \in Traders, a # b
  PROVE /\ IdOrder[a] \in Nat /\ IdOrder[b] \in Nat /\ IdOrder[a] # IdOrder[b]
        /\ Lower(a, b) \in Traders /\ Higher(a, b) \in Traders
        /\ {Lower(a, b), Higher(a, b)} = {a, b} /\ Lower(a, b) # Higher(a, b)
        /\ IdOrder[Lower(a, b)] < IdOrder[Higher(a, b)]
BY MarketAssumption DEF IsInjective, Lower, Higher

LEMMA NthOfOne ==
  ASSUME NEW a \in Traders
  PROVE Cardinality({a}) = 1 /\ Nth({a}, 1) = a
<1>1. IdOrder[a] \in Nat
  BY MarketAssumption
<1>2. {d \in {a} : IdOrder[d] < IdOrder[a]} = {}
  BY <1>1
<1>3. Cardinality({}) = 0 /\ Cardinality({a}) = 1
  BY FS_EmptySet, FS_Singleton
<1>4. \A c \in {a} : Cardinality({d \in {a} : IdOrder[d] < IdOrder[c]}) = 1 - 1
  BY <1>2, <1>3
<1>5. QED
  BY <1>3, <1>4 DEF Nth

LEMMA NthOfTwo ==
  ASSUME NEW a \in Traders, NEW b \in Traders, IdOrder[a] < IdOrder[b]
  PROVE Cardinality({a, b}) = 2 /\ Nth({a, b}, 1) = a /\ Nth({a, b}, 2) = b
<1>1. IdOrder[a] \in Nat /\ IdOrder[b] \in Nat /\ a # b
  BY MarketAssumption
<1>2. /\ {d \in {a, b} : IdOrder[d] < IdOrder[a]} = {}
      /\ {d \in {a, b} : IdOrder[d] < IdOrder[b]} = {a}
  BY <1>1
<1>3. Cardinality({}) = 0 /\ Cardinality({a}) = 1
  BY FS_EmptySet, FS_Singleton
<1>4. Cardinality({a, b}) = 2
  <2>1. IsFiniteSet({a}) /\ {a, b} = {a} \cup {b} /\ b \notin {a}
    BY <1>1, FS_Singleton
  <2>2. QED
    BY <1>3, <2>1, FS_AddElement
<1> DEFINE N(c) == Cardinality({d \in {a, b} : IdOrder[d] < IdOrder[c]})
<1>5. N(a) = 0 /\ N(b) = 1
  BY <1>2, <1>3
<1> HIDE DEF N
<1>6. \A i : Nth({a, b}, i) = CHOOSE c \in {a, b} : N(c) = i - 1
  BY DEF Nth, N
<1>7. /\ \A c \in {a, b} : N(c) = 1 - 1 <=> c = a
      /\ \A c \in {a, b} : N(c) = 2 - 1 <=> c = b
  BY <1>1, <1>5
<1>8. QED
  BY <1>4, <1>6, <1>7

LEMMA AscendingOne ==
  ASSUME NEW t, NEW a \in Traders, NEW S, S = {a}
  PROVE Ascending(t, S) = <<Take(<<t, a>>)>>
<1>1. Cardinality(S) = 1 /\ Nth(S, 1) = a
  BY NthOfOne
<1>2. QED
  BY <1>1 DEF Ascending

LEMMA AscendingTwo ==
  ASSUME NEW t, NEW a \in Traders, NEW b \in Traders, a # b, NEW S, S = {a, b}
  PROVE Ascending(t, S) = <<Take(<<t, Lower(a, b)>>), Take(<<t, Higher(a, b)>>)>>
<1>1. PICK l \in Traders, h \in Traders :
         l = Lower(a, b) /\ h = Higher(a, b) /\ S = {l, h} /\ IdOrder[l] < IdOrder[h]
  BY IdsDiffer
<1>2. Cardinality(S) = 2 /\ Nth(S, 1) = Lower(a, b) /\ Nth(S, 2) = Higher(a, b)
  BY <1>1, NthOfTwo
<1>3. Ascending(t, S) = [i \in 1..2 |-> Take(<<t, Nth(S, i)>>)]
  BY <1>2 DEF Ascending
<1>4. \A f, g : <<f, g>> = [i \in 1..2 |-> IF i = 1 THEN f ELSE g]
  OBVIOUS
<1>5. \A i \in 1..2 : Take(<<t, Nth(S, i)>>) =
          IF i = 1 THEN Take(<<t, Lower(a, b)>>) ELSE Take(<<t, Higher(a, b)>>)
  BY <1>2
<1>6. QED
  BY <1>3, <1>4, <1>5

\* Of a set of characters one has the highest ID.
LEMMA HighestTrader ==
  ASSUME NEW C \in SUBSET Traders, C # {}
  PROVE \E c \in C : \A d \in C : ~(IdOrder[c] < IdOrder[d])
<1> DEFINE Later(c) == {d \in Traders : IdOrder[c] < IdOrder[d]}
<1> DEFINE T == {Later(c) : c \in C}
<1>1. IsWellFoundedOn(StrictSubsetOrdering(Traders), FiniteSubsetsOf(Traders))
  BY FS_StrictSubsetOrderingWellFounded
<1>2. T \subseteq FiniteSubsetsOf(Traders) /\ T # {}
  <2>1. \A c \in C : Later(c) \subseteq Traders /\ IsFiniteSet(Later(c))
    BY MarketAssumption, FS_Subset
  <2>2. QED
    BY <2>1 DEF FiniteSubsetsOf
<1>3. PICK x \in T : \A y \in T : ~(<<y, x>> \in StrictSubsetOrdering(Traders))
  BY <1>1, <1>2, WFMin
<1>4. PICK c \in C : x = Later(c)
  BY <1>3
<1>5. ASSUME NEW d \in C, IdOrder[c] < IdOrder[d]
      PROVE FALSE
  <2>1. \A e \in Traders : IdOrder[e] \in Nat
    BY MarketAssumption
  <2>2. Later(d) \subseteq Later(c) /\ d \in Later(c) /\ d \notin Later(d)
    BY <1>5, <2>1
  <2>3. <<Later(d), x>> \in StrictSubsetOrdering(Traders)
    BY <1>4, <2>2 DEF StrictSubsetOrdering
  <2>4. Later(d) \in T
    OBVIOUS
  <2>5. QED
    BY <1>3, <2>3, <2>4
<1>6. QED
  BY <1>5
-----------------------------------------------------------------------------
(* The rows of a plan                                                      *)
Transfers == {"gold", "money", "send", "auction", "gem"}
OnListings == {"buy", "cancel"}
OnSales == {"withdraw", "purchase", "trade"}
Solitary == {"save", "spend", "stow", "fetch", "list", "offer", "barter", "build", "ticket"}
Working == Transfers \cup OnListings \cup OnSales \cup Solitary

\* What is locked before the characters.
Shared(x) ==
    CASE x.op = "list" -> <<<<"market">>, NoRow>>
      [] x.op = "ticket" -> <<<<"round">>, NoRow>>
      [] x.op \in OnListings -> <<<<"listing", x.id>>>>
      [] x.op \in OnSales -> <<<<"sale", x.id>>>>
      [] OTHER -> <<>>

\* The other character, if any.
Other(x, seller) ==
    CASE x.op \in Transfers -> x.you
      [] x.op \in {"buy", "purchase", "trade"} -> seller
      [] OTHER -> Nobody

\* What is locked after the characters.
Rest(x, seller) ==
    CASE x.op \in {"money", "list", "cancel", "withdraw"} -> <<Depot(x.me)>>
      [] x.op \in {"stow", "fetch"} -> <<<<"bag", x.me>>, Depot(x.me)>>
      [] x.op = "send" -> <<<<"bag", x.me>>, Depot(x.you), Depot(x.me)>>
      [] x.op = "auction" -> <<<<"bag", x.me>>, Depot(x.you)>>
      [] x.op = "gem" -> Sorted("box", x.me, x.you)
      [] x.op = "buy" -> <<NoRow, Depot(x.me)>>
      [] x.op \in {"offer", "barter"} -> <<Depot(x.me), NoRow>>
      [] x.op \in {"purchase", "trade"} -> <<NoRow>> \o Sorted("depot", x.me, seller)
      [] x.op = "build" -> <<NoRow>>
      [] OTHER -> <<>>

Characters(x, seller) == Sorted("character", x.me, Other(x, seller))

\* The rows that x locks, in their order; NoRow stands for a count.
RowPlan(x, seller) == Shared(x) \o Characters(x, seller) \o Rest(x, seller)

\* Who sells what x is about.
Seller(x) == IF x.op \in OnListings THEN listing[x.id].seller ELSE sale[x.id].seller

\* Statements that lock the rows r, one each.
Locks(s, r) == \E S, R :
    s \in Seq(S) /\ r \in Seq(R) /\ Len(s) = Len(r) /\ \A i \in 1..Len(r) : s[i].row = r[i]

LEMMA ConcatRanges ==
  ASSUME NEW S, NEW s \in Seq(S), NEW t \in Seq(S), NEW m, NEW n, m = Len(s), n = Len(t)
  PROVE /\ m \in Nat /\ n \in Nat /\ s \o t \in Seq(S) /\ Len(s \o t) = m + n
        /\ \A i \in 1..m : (s \o t)[i] = s[i]
        /\ \A i \in 1..n : (s \o t)[m + i] = t[i]
        /\ \A i \in 1..(m + n) : (s \o t)[i] = IF i <= m THEN s[i] ELSE t[i - m]
<1>1. m \in Nat /\ n \in Nat
  OBVIOUS
<1>2. PICK q : q = s \o t
  OBVIOUS
<1>3. /\ q \in Seq(S) /\ Len(q) = m + n
      /\ \A i \in 1..(m + n) : q[i] = IF i <= m THEN s[i] ELSE t[i - m]
  BY <1>2, ConcatProperties
<1>4. \A i \in 1..m : q[i] = s[i]
  BY <1>1, <1>3
<1>5. \A i \in 1..n : q[m + i] = t[i]
  <2> SUFFICES ASSUME NEW i \in 1..n PROVE q[m + i] = t[i]
    OBVIOUS
  <2>1. m + i \in 1..(m + n) /\ ~(m + i <= m) /\ (m + i) - m = i
    BY <1>1
  <2>2. QED
    BY <1>3, <2>1
<1>6. QED
  BY <1>1, <1>2, <1>3, <1>4, <1>5

LEMMA Glue ==
  ASSUME NEW S, NEW s \in Seq(S), NEW t \in Seq(S), NEW u \in Seq(S), Len(u) = Len(s) + Len(t),
         \A i \in 1..Len(u) : u[i] = IF i <= Len(s) THEN s[i] ELSE t[i - Len(s)]
  PROVE u = s \o t
<1>1. s \o t \in Seq(S) /\ Len(s \o t) = Len(u) /\ \A i \in 1..Len(u) : u[i] = (s \o t)[i]
  BY ConcatRanges
<1>2. QED
  BY <1>1, SeqEqual

LEMMA SplitTwo ==
  ASSUME NEW a, NEW b
  PROVE <<a, b>> = <<a>> \o <<b>> /\ <<a, b>> = <<>> \o <<a>> \o <<b>> /\ <<a>> = <<>> \o <<a>> \o <<>>
<1>1. PICK S, p, q, e : S = {a, b} /\ p = <<a>> /\ q = <<a, b>> /\ e = <<b>>
  OBVIOUS
<1>2. /\ p \in Seq(S) /\ Len(p) = 1 /\ p[1] = a
      /\ q \in Seq(S) /\ Len(q) = 2 /\ q[1] = a /\ q[2] = b
      /\ e \in Seq(S) /\ Len(e) = 1 /\ e[1] = b
  BY <1>1
<1>3. q = p \o e
  <2>1. Len(q) = Len(p) + Len(e)
    BY <1>2
  <2>2. \A i \in 1..Len(q) : q[i] = IF i <= Len(p) THEN p[i] ELSE e[i - Len(p)]
    BY <1>2
  <2>3. QED
    BY <1>2, <2>1, <2>2, Glue
<1>4. <<>> \o p = p /\ p \o <<>> = p
  BY <1>2, ConcatEmptySeq
<1>5. QED
  BY <1>1, <1>3, <1>4

LEMMA SplitThree ==
  ASSUME NEW a, NEW b, NEW c
  PROVE /\ <<a, b, c>> = <<a>> \o <<b>> \o <<c>> /\ <<a, b, c>> = <<>> \o <<a>> \o <<b, c>>
        /\ <<a, b, c>> = <<a, b>> \o <<c>> \o <<>>
<1>1. PICK S, p, q, r : S = {a, b, c} /\ p = <<a>> /\ q = <<a, b>> /\ r = <<a, b, c>>
  OBVIOUS
<1>2. PICK e, f : e = <<c>> /\ f = <<b, c>>
  OBVIOUS
<1>3. /\ p \in Seq(S) /\ Len(p) = 1 /\ p[1] = a
      /\ q \in Seq(S) /\ Len(q) = 2 /\ q[1] = a /\ q[2] = b
      /\ r \in Seq(S) /\ Len(r) = 3 /\ r[1] = a /\ r[2] = b /\ r[3] = c
      /\ e \in Seq(S) /\ Len(e) = 1 /\ e[1] = c
      /\ f \in Seq(S) /\ Len(f) = 2 /\ f[1] = b /\ f[2] = c
  BY <1>1, <1>2
<1>4. r = q \o e
  <2>1. Len(r) = Len(q) + Len(e)
    BY <1>3
  <2>2. \A i \in 1..Len(r) : r[i] = IF i <= Len(q) THEN q[i] ELSE e[i - Len(q)]
    BY <1>3
  <2>3. QED
    BY <1>3, <2>1, <2>2, Glue
<1>5. r = p \o f
  <2>1. Len(r) = Len(p) + Len(f)
    BY <1>3
  <2>2. \A i \in 1..Len(r) : r[i] = IF i <= Len(p) THEN p[i] ELSE f[i - Len(p)]
    BY <1>3
  <2>3. QED
    BY <1>3, <2>1, <2>2, Glue
<1>6. <<>> \o p = p /\ r \o <<>> = r
  BY <1>3, ConcatEmptySeq
<1>7. q = <<a>> \o <<b>>
  BY <1>1, SplitTwo
<1>8. QED
  BY <1>1, <1>2, <1>4, <1>5, <1>6, <1>7

LEMMA SplitThrice ==
  ASSUME NEW a, NEW b, NEW c
  PROVE <<a, b, c>> = <<a>> \o <<b>> \o <<c>>
<1>1. <<a, b, c>> = <<>> \o <<a>> \o <<b, c>> /\ <<b, c>> = <<b>> \o <<c>>
  <2>1. <<a, b, c>> = <<>> \o <<a>> \o <<b, c>>
    BY SplitThree
  <2>2. <<b, c>> = <<b>> \o <<c>>
    BY SplitTwo
  <2>3. QED
    BY <2>1, <2>2
<1>2. PICK S : S = {a, b, c}
  OBVIOUS
<1>3. <<a>> \in Seq(S) /\ <<b>> \in Seq(S) /\ <<c>> \in Seq(S)
  BY <1>2
<1>4. <<>> \o <<a>> = <<a>>
  BY <1>3, ConcatEmptySeq
<1>5. <<a>> \o (<<b>> \o <<c>>) = <<a>> \o <<b>> \o <<c>>
  BY <1>3, ConcatAssociative
<1>6. QED
  BY <1>1, <1>4, <1>5

LEMMA SplitFour ==
  ASSUME NEW a, NEW b, NEW c, NEW d
  PROVE <<a, b, c, d>> = <<a, b>> \o <<c>> \o <<d>>
<1>1. PICK S, r, s, e : S = {a, b, c, d} /\ r = <<a, b, c>> /\ s = <<a, b, c, d>> /\ e = <<d>>
  OBVIOUS
<1>2. /\ r \in Seq(S) /\ Len(r) = 3 /\ r[1] = a /\ r[2] = b /\ r[3] = c
      /\ s \in Seq(S) /\ Len(s) = 4 /\ s[1] = a /\ s[2] = b /\ s[3] = c /\ s[4] = d
      /\ e \in Seq(S) /\ Len(e) = 1 /\ e[1] = d
  BY <1>1
<1>3. s = r \o e
  <2>1. Len(s) = Len(r) + Len(e)
    BY <1>2
  <2>2. \A i \in 1..Len(s) : s[i] = IF i <= Len(r) THEN r[i] ELSE e[i - Len(r)]
    BY <1>2
  <2>3. QED
    BY <1>2, <2>1, <2>2, Glue
<1>4. r = <<a, b>> \o <<c>> \o <<>> /\ r \o <<>> = r
  BY <1>1, <1>2, SplitThree, ConcatEmptySeq
<1>5. r = <<a, b>> \o <<c>>
  <2>1. <<a, b>> \in Seq(S) /\ <<c>> \in Seq(S)
    BY <1>1
  <2>2. <<a, b>> \o <<c>> \in Seq(S)
    BY <2>1, ConcatProperties
  <2>3. QED
    BY <1>4, <2>2, ConcatEmptySeq
<1>6. QED
  BY <1>1, <1>3, <1>5

LEMMA LocksConcat ==
  ASSUME NEW s, NEW t, NEW r, NEW u, Locks(s, r), Locks(t, u)
  PROVE Locks(s \o t, r \o u)
<1>1. PICK S1, R1 : s \in Seq(S1) /\ r \in Seq(R1) /\ Len(s) = Len(r)
                    /\ \A i \in 1..Len(r) : s[i].row = r[i]
  BY DEF Locks
<1>2. PICK S2, R2 : t \in Seq(S2) /\ u \in Seq(R2) /\ Len(t) = Len(u)
                    /\ \A i \in 1..Len(u) : t[i].row = u[i]
  BY DEF Locks
<1> DEFINE S == S1 \cup S2
<1> DEFINE R == R1 \cup R2
<1>3. s \in Seq(S) /\ t \in Seq(S) /\ r \in Seq(R) /\ u \in Seq(R)
  BY <1>1, <1>2
<1> HIDE DEF S, R
<1>4. s \o t \in Seq(S) /\ r \o u \in Seq(R) /\ Len(s \o t) = Len(r \o u)
  BY <1>1, <1>2, <1>3
<1>5. PICK m \in Nat, n \in Nat : m = Len(s) /\ m = Len(r) /\ n = Len(t) /\ n = Len(u)
  BY <1>1, <1>2, <1>3
<1>6. /\ \A i \in 1..(m + n) : (s \o t)[i] = IF i <= m THEN s[i] ELSE t[i - m]
      /\ \A i \in 1..(m + n) : (r \o u)[i] = IF i <= m THEN r[i] ELSE u[i - m]
      /\ Len(r \o u) = m + n
  <2>1. /\ \A i \in 1..(m + n) : (s \o t)[i] = IF i <= m THEN s[i] ELSE t[i - m]
        /\ Len(s \o t) = m + n
    <3>1. s \in Seq(S) /\ t \in Seq(S) /\ m = Len(s) /\ n = Len(t)
      BY <1>3, <1>5
    <3>2. QED
      BY <3>1, ConcatRanges
  <2>2. /\ \A i \in 1..(m + n) : (r \o u)[i] = IF i <= m THEN r[i] ELSE u[i - m]
        /\ Len(r \o u) = m + n
    BY <1>3, <1>5, ConcatRanges
  <2>3. QED
    BY <2>1, <2>2
<1>7. \A i \in 1..(m + n) : (s \o t)[i].row = (r \o u)[i]
  <2> SUFFICES ASSUME NEW i \in 1..(m + n) PROVE (s \o t)[i].row = (r \o u)[i]
    OBVIOUS
  <2>1. CASE i <= m
    <3>1. i \in 1..m
      BY <2>1
    <3>2. s[i].row = r[i] /\ (s \o t)[i] = s[i] /\ (r \o u)[i] = r[i]
      BY <1>1, <1>5, <1>6, <2>1, <3>1
    <3>3. QED
      BY <3>2
  <2>2. CASE ~(i <= m)
    <3>1. i - m \in 1..n
      BY <2>2
    <3>2. t[i - m].row = u[i - m] /\ (s \o t)[i] = t[i - m] /\ (r \o u)[i] = u[i - m]
      BY <1>2, <1>5, <1>6, <2>2, <3>1
    <3>3. QED
      BY <3>2
  <2>3. QED
    BY <2>1, <2>2
<1>8. QED
  BY <1>4, <1>6, <1>7 DEF Locks

LEMMA LocksEach ==
  ASSUME NEW S, NEW R, NEW s \in Seq(S), NEW r \in Seq(R), Len(s) = Len(r),
         \A i \in 1..Len(r) : s[i].row = r[i]
  PROVE Locks(s, r)
BY DEF Locks

LEMMA LocksNothing == Locks(<<>>, <<>>)
<1>1. <<>> \in Seq({1}) /\ Len(<<>>) = 0
  OBVIOUS
<1>2. \A i \in 1..Len(<<>>) : <<>>[i].row = <<>>[i]
  OBVIOUS
<1>3. QED
  BY <1>1, <1>2, LocksEach

LEMMA LocksOne ==
  ASSUME NEW a
  PROVE Locks(<<a>>, <<a.row>>)
<1>1. PICK s, r : s = <<a>> /\ r = <<a.row>>
  OBVIOUS
<1>2. s \in Seq({a}) /\ r \in Seq({a.row}) /\ Len(s) = 1 /\ Len(r) = 1 /\ s[1] = a /\ r[1] = a.row
  BY <1>1
<1>3. \A i \in 1..Len(r) : s[i].row = r[i]
  BY <1>2
<1>4. QED
  BY <1>1, <1>2, <1>3, LocksEach

LEMMA LocksTwo ==
  ASSUME NEW a, NEW b
  PROVE Locks(<<a, b>>, <<a.row, b.row>>)
<1>1. <<a, b>> = <<a>> \o <<b>> /\ <<a.row, b.row>> = <<a.row>> \o <<b.row>>
  BY SplitTwo, Zenon
<1>2. QED
  BY <1>1, LocksOne, LocksConcat

LEMMA LocksThree ==
  ASSUME NEW a, NEW b, NEW c
  PROVE Locks(<<a, b, c>>, <<a.row, b.row, c.row>>)
<1>1. PICK d, e, f : d = a.row /\ e = b.row /\ f = c.row
  OBVIOUS
<1>2. <<a, b, c>> = <<a>> \o <<b>> \o <<c>>
  BY SplitThrice
<1>3. <<d, e, f>> = <<d>> \o <<e>> \o <<f>>
  BY SplitThrice
<1>4. Locks(<<a>>, <<d>>) /\ Locks(<<b>>, <<e>>) /\ Locks(<<c>>, <<f>>)
  BY <1>1, LocksOne
<1>5. Locks(<<a>> \o <<b>> \o <<c>>, <<d>> \o <<e>> \o <<f>>)
  BY <1>4, LocksConcat
<1>6. QED
  BY <1>1, <1>2, <1>3, <1>5

LEMMA LocksPadded ==
  ASSUME NEW s, NEW r, Locks(s, r)
  PROVE Locks(s, <<>> \o r) /\ Locks(s, r \o <<>>)
<1>1. PICK R : r \in Seq(R)
  BY DEF Locks
<1>2. <<>> \o r = r /\ r \o <<>> = r
  BY <1>1, ConcatEmptySeq
<1>3. QED
  BY <1>2

LEMMA LocksRegrouped ==
  ASSUME NEW s, NEW t, NEW u, NEW a, NEW b, NEW c, Locks(s, a), Locks(t, b), Locks(u, c)
  PROVE Locks(s \o t \o u, a \o (b \o c))
<1>1. Locks(s \o t \o u, a \o b \o c)
  BY LocksConcat
<1>2. PICK R1, R2, R3 : a \in Seq(R1) /\ b \in Seq(R2) /\ c \in Seq(R3)
  BY DEF Locks
<1>3. PICK R : R = R1 \cup R2 \cup R3
  OBVIOUS
<1>4. a \in Seq(R) /\ b \in Seq(R) /\ c \in Seq(R)
  BY <1>2, <1>3
<1>5. a \o b \o c = a \o (b \o c)
  BY <1>4, ConcatAssociative
<1>6. QED
  BY <1>1, <1>5

LEMMA AscendingLocks ==
  ASSUME NEW t, NEW a \in Traders, NEW b
  PROVE /\ Locks(Ascending(t, {a, b} \cap Traders), Sorted(t, a, b))
        /\ b \in Traders => Locks(Ascending(t, {a, b}), Sorted(t, a, b))
<1>1. CASE b \notin Traders \/ a = b
  <2>1. {a, b} \cap Traders = {a} /\ (b \in Traders => {a, b} = {a})
    BY <1>1
  <2>2. Ascending(t, {a}) = <<Take(<<t, a>>)>> /\ Sorted(t, a, b) = <<<<t, a>>>>
    BY <1>1, AscendingOne DEF Sorted
  <2>3. PICK e : e = Take(<<t, a>>)
    OBVIOUS
  <2>4. Locks(<<e>>, <<e.row>>) /\ e.row = <<t, a>>
    BY <2>3, LocksOne DEF Take
  <2>5. QED
    BY <2>1, <2>2, <2>3, <2>4
<1>2. CASE b \in Traders /\ a # b
  <2>1. {a, b} \cap Traders = {a, b}
    BY <1>2
  <2>2. PICK l, h : l = Lower(a, b) /\ h = Higher(a, b)
    OBVIOUS
  <2>3. /\ Ascending(t, {a, b}) = <<Take(<<t, l>>), Take(<<t, h>>)>>
        /\ Sorted(t, a, b) = <<<<t, l>>, <<t, h>>>>
    BY <1>2, <2>2, AscendingTwo DEF Sorted
  <2>4. PICK e, f : e = Take(<<t, l>>) /\ f = Take(<<t, h>>)
    OBVIOUS
  <2>5. e.row = <<t, l>> /\ f.row = <<t, h>>
    BY <2>4 DEF Take
  <2>6. Locks(<<e, f>>, <<e.row, f.row>>)
    BY LocksTwo
  <2>7. QED
    BY <2>1, <2>3, <2>4, <2>5, <2>6
<1>3. QED
  BY <1>1, <1>2

\* A transaction with the characters and the row that its operation is about.
DealOK(x) ==
    /\ x.op \in Working \cup {"draw", "none"}
    /\ x.op = "none" => x = NoDeal
    /\ x.op \in Working => x.me \in Traders
    /\ x.op \in Transfers => x.you \in Traders /\ x.me # x.you
    /\ x.op \in OnListings => x.id \in Listings
    /\ x.op \in OnSales => x.id \in Sales
    /\ x.at \in Nat

\* Each operation locks the rows of its plan.
LEMMA TransferLocks ==
  ASSUME NEW x, NEW s, DealOK(x), x.op \in Transfers
  PROVE Locks(Plan(x), RowPlan(x, s))
<1>1. x.me \in Traders /\ x.you \in Traders /\ x.op \in Working
  BY DEF DealOK, Working
<1>2. Other(x, s) = x.you /\ Shared(x) = <<>>
  BY DEF Other, Shared, Transfers, OnListings, OnSales
<1>3. Locks(Gifts(x), Characters(x, s))
  BY <1>1, <1>2, AscendingLocks DEF Gifts, Characters
<1>4. Locks(Gifts(x), Shared(x) \o Characters(x, s))
  BY <1>2, <1>3, LocksPadded
<1> DEFINE pre == Shared(x) \o Characters(x, s)
<1> HIDE DEF pre
<1>5. RowPlan(x, s) = pre \o Rest(x, s) /\ Locks(Gifts(x), pre)
  BY <1>4 DEF RowPlan, pre
<1>6. CASE x.op = "gold"
  <2>1. Plan(x) = Gifts(x) /\ Rest(x, s) = <<>>
    BY <1>6 DEF Plan, Rest
  <2>2. QED
    BY <1>5, <2>1, LocksPadded
<1>7. CASE x.op = "money"
  <2>1. PICK e : e = Take(Depot(x.me))
    OBVIOUS
  <2>2. Plan(x) = Gifts(x) \o <<e>> /\ Rest(x, s) = <<Depot(x.me)>> /\ e.row = Depot(x.me)
    BY <1>7, <2>1 DEF Plan, Rest, Take
  <2>3. QED
    BY <1>5, <2>2, LocksConcat, LocksOne
<1>8. CASE x.op = "send"
  <2>1. PICK e, f, g : e = Take(<<"bag", x.me>>) /\ f = Take(Depot(x.you)) /\ g = Take(Depot(x.me))
    OBVIOUS
  <2>2. e.row = <<"bag", x.me>> /\ f.row = Depot(x.you) /\ g.row = Depot(x.me)
    BY <2>1 DEF Take
  <2>3. Plan(x) = Gifts(x) \o <<e, f, g>> /\ Rest(x, s) = <<e.row, f.row, g.row>>
    BY <1>8, <2>1, <2>2 DEF Plan, Rest
  <2>4. QED
    BY <1>5, <2>3, LocksConcat, LocksThree
<1>9. CASE x.op = "auction"
  <2>1. PICK e, f : e = Take(<<"bag", x.me>>) /\ f = Take(Depot(x.you))
    OBVIOUS
  <2>2. e.row = <<"bag", x.me>> /\ f.row = Depot(x.you)
    BY <2>1 DEF Take
  <2>3. Plan(x) = Gifts(x) \o <<e, f>> /\ Rest(x, s) = <<e.row, f.row>>
    BY <1>9, <2>1, <2>2 DEF Plan, Rest
  <2>4. QED
    BY <1>5, <2>3, LocksConcat, LocksTwo
<1>10. CASE x.op = "gem"
  <2>1. Plan(x) = Gifts(x) \o Ascending("box", {x.me, x.you}) /\ Rest(x, s) = Sorted("box", x.me, x.you)
    BY <1>10 DEF Plan, Rest
  <2>2. Locks(Ascending("box", {x.me, x.you}), Rest(x, s))
    BY <1>1, <2>1, AscendingLocks
  <2>3. QED
    BY <1>5, <2>1, <2>2, LocksConcat
<1>11. QED
  BY <1>6, <1>7, <1>8, <1>9, <1>10 DEF Transfers

LEMMA SolitaryLocks ==
  ASSUME NEW x, NEW s, DealOK(x), x.op \in Solitary
  PROVE Locks(Plan(x), RowPlan(x, s))
<1>1. x.me \in Traders
  BY DEF DealOK, Working
<1>2. Other(x, s) = Nobody
  BY DEF Other, Solitary, Transfers
<1>3. Characters(x, s) = <<Character(x.me)>>
  BY <1>2, MarketAssumption DEF Characters, Sorted, Character
<1>4. PICK c : c = Take(Character(x.me))
  OBVIOUS
<1>5. c.row = Character(x.me)
  BY <1>4 DEF Take
<1>6. Locks(<<c>>, Characters(x, s))
  BY <1>3, <1>5, LocksOne
<1>7. ASSUME NEW a, NEW b, Locks(a, Shared(x)), Locks(b, Rest(x, s))
      PROVE Locks(a \o <<c>> \o b, RowPlan(x, s))
  BY <1>6, <1>7, LocksConcat DEF RowPlan
<1>8. CASE x.op \in {"save", "spend"}
  <2>1. Plan(x) = <<c>> /\ Shared(x) = <<>> /\ Rest(x, s) = <<>>
    BY <1>4, <1>8 DEF Plan, Shared, Rest, OnListings, OnSales
  <2>2. <<c>> = <<>> \o <<c>> \o <<>>
    BY SplitTwo, Zenon
  <2>3. QED
    BY <1>7, <2>1, <2>2, LocksNothing
<1>9. CASE x.op \in {"stow", "fetch"}
  <2>1. PICK e, f : e = Take(<<"bag", x.me>>) /\ f = Take(Depot(x.me))
    OBVIOUS
  <2>2. e.row = <<"bag", x.me>> /\ f.row = Depot(x.me)
    BY <2>1 DEF Take
  <2>3. Plan(x) = <<c, e, f>> /\ Shared(x) = <<>> /\ Rest(x, s) = <<e.row, f.row>>
    BY <1>4, <1>9, <2>1, <2>2 DEF Plan, Shared, Rest, OnListings, OnSales
  <2>4. <<c, e, f>> = <<>> \o <<c>> \o <<e, f>>
    BY SplitThree
  <2>5. QED
    BY <1>7, <2>3, <2>4, LocksNothing, LocksTwo
<1>10. CASE x.op = "list"
  <2>1. PICK m, n, d, k : /\ m = Take(<<"market">>)
                          /\ n = Look(Cardinality(ActiveListings) < ServerMaxListings)
                          /\ d = Take(Depot(x.me))
                          /\ k = TakeIf(Character(x.me), Cardinality(ListingsOf(x.me)) < MaxListingsPerCharacter)
    OBVIOUS
  <2>2. m.row = <<"market">> /\ n.row = NoRow /\ d.row = Depot(x.me) /\ k.row = Character(x.me)
    BY <2>1 DEF Take, Look, TakeIf
  <2>3. Plan(x) = <<m, n, k, d>>
    BY <1>10, <2>1 DEF Plan, ListPlan
  <2>4. Shared(x) = <<m.row, n.row>> /\ Rest(x, s) = <<d.row>> /\ Characters(x, s) = <<k.row>>
    BY <1>3, <1>10, <2>2 DEF Shared, Rest, OnListings, OnSales
  <2>5. Locks(<<m, n>> \o <<k>> \o <<d>>, RowPlan(x, s))
    BY <2>4, LocksConcat, LocksOne, LocksTwo DEF RowPlan
  <2>6. <<m, n, k, d>> = <<m, n>> \o <<k>> \o <<d>>
    BY SplitFour
  <2>7. QED
    BY <2>3, <2>5, <2>6
<1>11. CASE x.op \in {"offer", "barter"}
  <2>1. PICK d, n : /\ d = Take(Depot(x.me))
                    /\ n = Look(store[x.me] = "open" /\ Cardinality(SalesOf(x.me)) < MaxSales)
    OBVIOUS
  <2>2. d.row = Depot(x.me) /\ n.row = NoRow
    BY <2>1 DEF Take, Look
  <2>3. Plan(x) = <<c, d, n>>
    BY <1>4, <1>11, <2>1 DEF Plan, OfferPlan
  <2>4. Shared(x) = <<>> /\ Rest(x, s) = <<d.row, n.row>>
    BY <1>11, <2>2 DEF Shared, Rest, OnListings, OnSales
  <2>5. <<c, d, n>> = <<>> \o <<c>> \o <<d, n>>
    BY SplitThree
  <2>6. QED
    BY <1>7, <2>3, <2>4, <2>5, LocksNothing, LocksTwo
<1>12. CASE x.op = "build"
  <2>1. PICK k, n : /\ k = TakeIf(Character(x.me), gold[x.me] >= StorePrice /\ store[x.me] # "open")
                    /\ n = Look(Cardinality({t \in Traders : store[t] = "open"}) < MaxTownStores)
    OBVIOUS
  <2>2. k.row = Character(x.me) /\ n.row = NoRow
    BY <2>1 DEF TakeIf, Look
  <2>3. Plan(x) = <<k, n>>
    BY <1>12, <2>1 DEF Plan, BuildPlan
  <2>4. Shared(x) = <<>> /\ Rest(x, s) = <<n.row>> /\ Characters(x, s) = <<k.row>>
    BY <1>3, <1>12, <2>2 DEF Shared, Rest, OnListings, OnSales
  <2>5. Locks(<<>> \o <<k>> \o <<n>>, RowPlan(x, s))
    BY <2>4, LocksConcat, LocksOne, LocksNothing DEF RowPlan
  <2>6. <<k, n>> = <<>> \o <<k>> \o <<n>>
    BY SplitTwo, Zenon
  <2>7. QED
    BY <2>3, <2>5, <2>6
<1>13. CASE x.op = "ticket"
  <2>1. PICK m, n : /\ m = TakeIf(<<"round">>, won = {})
                    /\ n = Look(Cardinality(tickets) < MaxTickets /\ x.me \notin tickets)
    OBVIOUS
  <2>2. m.row = <<"round">> /\ n.row = NoRow
    BY <2>1 DEF TakeIf, Look
  <2>3. Plan(x) = <<m, n, c>>
    BY <1>4, <1>13, <2>1 DEF Plan, TicketPlan
  <2>4. Shared(x) = <<m.row, n.row>> /\ Rest(x, s) = <<>>
    BY <1>13, <2>2 DEF Shared, Rest, OnListings, OnSales
  <2>5. <<m, n, c>> = <<m, n>> \o <<c>> \o <<>>
    BY SplitThree
  <2>6. QED
    BY <1>7, <2>3, <2>4, <2>5, LocksNothing, LocksTwo
<1>14. QED
  BY <1>8, <1>9, <1>10, <1>11, <1>12, <1>13 DEF Solitary

LEMMA OfferLocks ==
  ASSUME NEW x, DealOK(x), x.op \in OnListings \cup OnSales
  PROVE Locks(Plan(x), RowPlan(x, Seller(x)))
<1> DEFINE s == Seller(x)
<1>1. x.me \in Traders
  BY DEF DealOK, Working
<1>2. CASE x.op \in {"cancel", "withdraw"}
  <2>1. Other(x, s) = Nobody
    BY <1>2 DEF Other, Transfers
  <2>2. Characters(x, s) = <<Character(x.me)>>
    BY <2>1, MarketAssumption DEF Characters, Sorted, Character
  <2>3. PICK c, d : c = Take(Character(x.me)) /\ d = Take(Depot(x.me))
    OBVIOUS
  <2>4. c.row = Character(x.me) /\ d.row = Depot(x.me)
    BY <2>3 DEF Take
  <2>5. Characters(x, s) = <<c.row>> /\ Rest(x, s) = <<d.row>>
    BY <1>2, <2>2, <2>4 DEF Rest
  <2>6. ASSUME NEW m, Plan(x) = <<m, c, d>>, Shared(x) = <<m.row>>
        PROVE Locks(Plan(x), RowPlan(x, s))
    <3>1. Locks(<<m>> \o <<c>> \o <<d>>, RowPlan(x, s))
      BY <2>5, <2>6, LocksConcat, LocksOne DEF RowPlan
    <3>2. <<m, c, d>> = <<m>> \o <<c>> \o <<d>>
      BY SplitThrice
    <3>3. QED
      BY <2>6, <3>1, <3>2
  <2>7. CASE x.op = "cancel"
    <3>1. PICK m : m = TakeIf(<<"listing", x.id>>, x.id \in ListingsOf(x.me))
      OBVIOUS
    <3>2. Plan(x) = <<m, c, d>>
      BY <2>3, <2>7, <3>1 DEF Plan, CancelPlan
    <3>3. Shared(x) = <<m.row>>
      BY <2>7, <3>1 DEF Shared, OnListings, OnSales, TakeIf
    <3>4. QED
      BY <2>6, <3>2, <3>3
  <2>8. CASE x.op = "withdraw"
    <3>1. PICK m : m = TakeIf(<<"sale", x.id>>, x.id \in SalesOf(x.me))
      OBVIOUS
    <3>2. Plan(x) = <<m, c, d>>
      BY <2>3, <2>8, <3>1 DEF Plan, WithdrawPlan
    <3>3. Shared(x) = <<m.row>>
      BY <2>8, <3>1 DEF Shared, OnListings, OnSales, TakeIf
    <3>4. QED
      BY <2>6, <3>2, <3>3
  <2>9. QED
    BY <1>2, <2>7, <2>8
<1>3. CASE x.op = "buy"
  <2>1. PICK A : A = Ascending("character", {x.me, s} \cap Traders)
    OBVIOUS
  <2>2. Locks(A, Characters(x, s))
    BY <1>1, <1>3, <2>1, AscendingLocks DEF Characters, Other, Transfers
  <2>3. PICK m, n, d : /\ m = TakeIf(<<"listing", x.id>>, x.id \in ActiveListings /\ s # x.me)
                       /\ n = Look(gold[x.me] >= Price) /\ d = Take(Depot(x.me))
    OBVIOUS
  <2>4. Plan(x) = <<m>> \o A \o <<n, d>>
    BY <1>3, <2>1, <2>3 DEF Plan, BuyPlan, Seller, OnListings
  <2>5. Shared(x) = <<m.row>> /\ Rest(x, s) = <<n.row, d.row>>
    BY <1>3, <2>3 DEF Shared, Rest, OnListings, OnSales, Take, TakeIf, Look
  <2>6. QED
    BY <2>2, <2>4, <2>5, LocksConcat, LocksOne, LocksTwo DEF RowPlan
<1>4. CASE x.op \in {"purchase", "trade"}
  <2>1. PICK kind, funds : Plan(x) = DealPlan(x, kind, funds)
    BY <1>4 DEF Plan
  <2>2. PICK A, D : /\ A = Ascending("character", {x.me, s} \cap Traders)
                    /\ D = Ascending("depot", {x.me, s} \cap Traders)
    OBVIOUS
  <2>3. Locks(A, Characters(x, s)) /\ Locks(D, Sorted("depot", x.me, s))
    BY <1>1, <1>4, <2>2, AscendingLocks DEF Characters, Other, Transfers
  <2>4. PICK m, n : /\ m = TakeIf(<<"sale", x.id>>, sale[x.id].state = kind /\ s # x.me)
                    /\ n = Look(gold[x.me] >= funds)
    OBVIOUS
  <2>5. s = sale[x.id].seller
    BY <1>4 DEF Seller, OnListings
  <2>6. Plan(x) = <<m>> \o A \o <<n>> \o D
    BY <2>1, <2>2, <2>4, <2>5 DEF DealPlan
  <2>7. Shared(x) = <<m.row>> /\ Rest(x, s) = <<n.row>> \o Sorted("depot", x.me, s)
    BY <1>4, <2>4 DEF Shared, Rest, OnListings, OnSales, TakeIf, Look
  <2>8. Locks(<<m>> \o A, Shared(x) \o Characters(x, s)) /\ Locks(<<n>>, <<n.row>>)
    BY <2>3, <2>7, LocksConcat, LocksOne
  <2>9. QED
    BY <2>3, <2>6, <2>7, <2>8, LocksRegrouped DEF RowPlan
<1>5. QED
  BY <1>2, <1>3, <1>4 DEF OnListings, OnSales

LEMMA PlanLocks ==
  ASSUME NEW x, DealOK(x), x.op \in Working
  PROVE Locks(Plan(x), RowPlan(x, Seller(x)))
BY TransferLocks, SolitaryLocks, OfferLocks DEF Working

-----------------------------------------------------------------------------
(* The order of the rows in a plan                                         *)
SharedRows == ({"listing"} \X Listings) \cup ({"sale"} \X Sales) \cup {<<"market">>, <<"round">>}
OwnedRows == {"bag", "depot", "box"} \X Traders

\* Rows of one table, those of the characters C, in ascending order.
OfTable(q, t, C) ==
    /\ q \in Seq({t} \X Traders)
    /\ \A i \in 1..Len(q) : \E c \in C : q[i] = <<t, c>>
    /\ \A c \in C : \E i \in 1..Len(q) : q[i] = <<t, c>>
    /\ \A i, j \in 1..Len(q), c, d \in Traders :
          i < j /\ q[i] = <<t, c>> /\ q[j] = <<t, d>> => IdOrder[c] < IdOrder[d]

LEMMA SortedRows ==
  ASSUME NEW t, NEW a \in Traders, NEW b
  PROVE OfTable(Sorted(t, a, b), t, {a, b} \cap Traders)
<1>1. CASE b \notin Traders \/ a = b
  <2>1. Sorted(t, a, b) = <<<<t, a>>>> /\ {a, b} \cap Traders = {a}
    BY <1>1 DEF Sorted
  <2>2. PICK q : q = <<<<t, a>>>>
    OBVIOUS
  <2>3. q \in Seq({t} \X Traders) /\ Len(q) = 1 /\ q[1] = <<t, a>>
    BY <2>2
  <2>4. OfTable(q, t, {a})
    BY <2>3 DEF OfTable
  <2>5. QED
    BY <2>1, <2>2, <2>4
<1>2. CASE b \in Traders /\ a # b
  <2>1. PICK l \in Traders, h \in Traders :
           l = Lower(a, b) /\ h = Higher(a, b) /\ {l, h} = {a, b} /\ IdOrder[l] < IdOrder[h]
    BY <1>2, IdsDiffer
  <2>2. Sorted(t, a, b) = <<<<t, l>>, <<t, h>>>> /\ {a, b} \cap Traders = {l, h}
    BY <1>2, <2>1 DEF Sorted
  <2>3. PICK q : q = <<<<t, l>>, <<t, h>>>>
    OBVIOUS
  <2>4. q \in Seq({t} \X Traders) /\ Len(q) = 2 /\ q[1] = <<t, l>> /\ q[2] = <<t, h>>
    BY <2>3
  <2>5. \A i \in 1..2 : i = 1 \/ i = 2
    OBVIOUS
  <2>6. /\ \A i \in 1..2 : \E c \in {l, h} : q[i] = <<t, c>>
        /\ \A c \in {l, h} : \E i \in 1..2 : q[i] = <<t, c>>
    BY <2>4, <2>5
  <2>7. ASSUME NEW i \in 1..2, NEW j \in 1..2, NEW c, NEW d,
               i < j, q[i] = <<t, c>>, q[j] = <<t, d>>
        PROVE IdOrder[c] < IdOrder[d]
    <3>1. i = 1 /\ j = 2
      BY <2>7
    <3>2. c = l /\ d = h
      BY <2>4, <2>7, <3>1
    <3>3. QED
      BY <2>1, <3>2
  <2>8. OfTable(q, t, {l, h})
    BY <2>4, <2>6, <2>7 DEF OfTable
  <2>9. QED
    BY <2>2, <2>3, <2>8
<1>3. QED
  BY <1>1, <1>2

LEMMA SharedFirst ==
  ASSUME NEW x, DealOK(x)
  PROVE /\ Shared(x) \in Seq(SharedRows \cup {NoRow})
        /\ \A i \in 1..Len(Shared(x)) : Shared(x)[i] \in SharedRows => i = 1
<1>1. NoRow \notin SharedRows
  BY RowsAssumption DEF Rows, SharedRows
<1>2. \/ Shared(x) = <<>>
      \/ \E r \in SharedRows : Shared(x) = <<r>> \/ Shared(x) = <<r, NoRow>>
  <2>1. /\ <<"market">> \in SharedRows /\ <<"round">> \in SharedRows
        /\ x.op \in OnListings => <<"listing", x.id>> \in SharedRows
        /\ x.op \in OnSales => <<"sale", x.id>> \in SharedRows
    BY DEF SharedRows, DealOK
  <2>2. QED
    BY <2>1 DEF Shared
<1> DEFINE Fine(q) == /\ q \in Seq(SharedRows \cup {NoRow})
                      /\ \A i \in 1..Len(q) : q[i] \in SharedRows => i = 1
<1>3. Fine(<<>>)
  OBVIOUS
<1>4. ASSUME NEW r \in SharedRows PROVE Fine(<<r>>) /\ Fine(<<r, NoRow>>)
  BY <1>1
<1> HIDE DEF Fine
<1>5. Fine(Shared(x))
  BY <1>2, <1>3, <1>4
<1>6. QED
  BY <1>5 DEF Fine

\* A row that belongs to one of C, or a count; and a sequence of such.
Owned(r, C) == r = NoRow \/ \E t \in {"bag", "depot", "box"}, c \in C : r = <<t, c>>
OwnedBy(q, C) == q \in Seq(OwnedRows \cup {NoRow}) /\ \A i \in 1..Len(q) : Owned(q[i], C)

LEMMA OwnedNone == ASSUME NEW C PROVE OwnedBy(<<>>, C)
<1>1. <<>> \in Seq(OwnedRows \cup {NoRow}) /\ \A i \in 1..Len(<<>>) : FALSE
  OBVIOUS
<1>2. QED
  BY <1>1 DEF OwnedBy

LEMMA OwnedTuples ==
  ASSUME NEW C, C \subseteq Traders, NEW a, NEW b, NEW d, Owned(a, C), Owned(b, C), Owned(d, C)
  PROVE OwnedBy(<<a>>, C) /\ OwnedBy(<<a, b>>, C) /\ OwnedBy(<<a, b, d>>, C)
<1>1. PICK e, f, g : e = <<a>> /\ f = <<a, b>> /\ g = <<a, b, d>>
  OBVIOUS
<1>2. \A r : Owned(r, C) => r \in OwnedRows \cup {NoRow}
  BY DEF Owned, OwnedRows
<1>3. /\ e \in Seq(OwnedRows \cup {NoRow}) /\ \A i \in 1..Len(e) : e[i] = a
      /\ f \in Seq(OwnedRows \cup {NoRow}) /\ \A i \in 1..Len(f) : f[i] = a \/ f[i] = b
      /\ g \in Seq(OwnedRows \cup {NoRow}) /\ \A i \in 1..Len(g) : g[i] = a \/ g[i] = b \/ g[i] = d
  BY <1>1, <1>2
<1>4. QED
  BY <1>1, <1>3 DEF OwnedBy

LEMMA RestOwned ==
  ASSUME NEW x, DealOK(x), x.op \in Working, NEW s
  PROVE OwnedBy(Rest(x, s), {x.me, Other(x, s)} \cap Traders)
<1> DEFINE C == {x.me, Other(x, s)} \cap Traders
<1>1. x.me \in C /\ C \subseteq Traders
  BY DEF DealOK
<1>2. \A c \in C : Owned(<<"bag", c>>, C) /\ Owned(Depot(c), C) /\ Owned(NoRow, C)
  BY DEF Owned, Depot
<1>3. ASSUME NEW c \in C, NEW d \in C
      PROVE /\ OwnedBy(<<>>, C) /\ OwnedBy(<<NoRow>>, C) /\ OwnedBy(<<Depot(c)>>, C)
            /\ OwnedBy(<<<<"bag", c>>, Depot(d)>>, C) /\ OwnedBy(<<<<"bag", c>>, Depot(d), Depot(c)>>, C)
            /\ OwnedBy(<<NoRow, Depot(c)>>, C) /\ OwnedBy(<<Depot(c), NoRow>>, C)
  <2>1. PICK e, f, g : e = <<"bag", c>> /\ f = Depot(d) /\ g = Depot(c)
    OBVIOUS
  <2>2. Owned(e, C) /\ Owned(f, C) /\ Owned(g, C) /\ Owned(NoRow, C)
    BY <1>2, <2>1
  <2> HIDE DEF C
  <2>3. OwnedBy(<<>>, C)
    BY OwnedNone
  <2>4. OwnedBy(<<e, f>>, C) /\ OwnedBy(<<e, f, g>>, C)
    BY <1>1, <2>2, OwnedTuples
  <2>5. OwnedBy(<<NoRow>>, C) /\ OwnedBy(<<NoRow, g>>, C)
    BY <1>1, <2>2, OwnedTuples
  <2>6. OwnedBy(<<g>>, C) /\ OwnedBy(<<g, NoRow>>, C)
    BY <1>1, <2>2, OwnedTuples
  <2>7. QED
    BY <2>1, <2>3, <2>4, <2>5, <2>6
<1>4. ASSUME NEW t \in {"bag", "depot", "box"}, NEW o, {x.me, o} \cap Traders \subseteq C
      PROVE OwnedBy(Sorted(t, x.me, o), C) /\ OwnedBy(<<NoRow>> \o Sorted(t, x.me, o), C)
  <2>1. PICK q : q = Sorted(t, x.me, o)
    OBVIOUS
  <2>2. OfTable(q, t, {x.me, o} \cap Traders)
    BY <1>1, <2>1, SortedRows
  <2>3. q \in Seq(OwnedRows \cup {NoRow}) /\ <<NoRow>> \in Seq(OwnedRows \cup {NoRow})
    <3>1. {t} \X Traders \subseteq OwnedRows \cup {NoRow}
      BY DEF OwnedRows
    <3>2. QED
      BY <2>2, <3>1 DEF OfTable
  <2>4. PICK S : S = OwnedRows \cup {NoRow}
    OBVIOUS
  <2>5. /\ <<NoRow>> \o q \in Seq(S) /\ Len(<<NoRow>> \o q) = 1 + Len(q)
        /\ \A i \in 1..(1 + Len(q)) : (<<NoRow>> \o q)[i] = IF i <= 1 THEN NoRow ELSE q[i - 1]
    BY <2>3, <2>4
  <2>6. Len(q) \in Nat
    BY <2>3
  <2>7. \A i \in 1..Len(q) : \E c \in C : q[i] = <<t, c>>
    BY <1>4, <2>2 DEF OfTable
  <2> HIDE DEF C
  <2>8. OwnedBy(q, C)
    BY <2>3, <2>7 DEF OwnedBy, Owned
  <2>9. OwnedBy(<<NoRow>> \o q, C)
    BY <2>4, <2>5, <2>6, <2>7 DEF OwnedBy, Owned
  <2>10. QED
    BY <2>1, <2>8, <2>9
<1>5. CASE x.op \in {"money", "list", "cancel", "withdraw", "stow", "fetch", "buy", "offer", "barter", "build"}
  <2>1. Rest(x, s) \in {<<Depot(x.me)>>, <<<<"bag", x.me>>, Depot(x.me)>>, <<NoRow, Depot(x.me)>>,
                        <<Depot(x.me), NoRow>>, <<NoRow>>}
    BY <1>5 DEF Rest
  <2>2. QED
    BY <1>1, <1>3, <2>1
<1>6. CASE x.op \in {"send", "auction"}
  <2>1. x.you \in C
    BY <1>6 DEF Other, Transfers, DealOK
  <2>2. Rest(x, s) \in {<<<<"bag", x.me>>, Depot(x.you), Depot(x.me)>>, <<<<"bag", x.me>>, Depot(x.you)>>}
    BY <1>6 DEF Rest
  <2>3. QED
    BY <1>1, <1>3, <2>1, <2>2
<1>7. CASE x.op = "gem"
  <2>1. Other(x, s) = x.you
    BY <1>7 DEF Other, Transfers
  <2>2. Rest(x, s) = Sorted("box", x.me, x.you)
    BY <1>7 DEF Rest
  <2>3. QED
    BY <1>4, <2>1, <2>2
<1>8. CASE x.op \in {"purchase", "trade"}
  <2>1. Other(x, s) = s
    BY <1>8 DEF Other, Transfers
  <2>2. Rest(x, s) = <<NoRow>> \o Sorted("depot", x.me, s)
    BY <1>8 DEF Rest
  <2>3. QED
    BY <1>4, <2>1, <2>2
<1>9. CASE x.op \in {"gold", "save", "spend", "ticket"}
  <2>1. Rest(x, s) = <<>>
    BY <1>9 DEF Rest
  <2>2. QED
    BY <1>1, <1>3, <2>1
<1>10. QED
  BY <1>5, <1>6, <1>7, <1>8, <1>9 DEF Working, Transfers, OnListings, OnSales, Solitary

\* Shared rows first, then characters in ascending order, then what they own.
Hierarchical(r) ==
    /\ r \in Seq(Rows \cup {NoRow})
    /\ \A i \in 1..Len(r) : r[i] \in SharedRows => i = 1
    /\ \A i, j \in 1..Len(r), c, d \in Traders :
          i < j /\ r[i] = Character(c) /\ r[j] = Character(d) => IdOrder[c] < IdOrder[d]
    /\ \A i \in 1..Len(r), t \in {"bag", "depot", "box"}, c \in Traders :
          r[i] = <<t, c>> => \E j \in 1..Len(r) : j < i /\ r[j] = Character(c)

LEMMA PlanHierarchical ==
  ASSUME NEW x, DealOK(x), x.op \in Working, NEW s
  PROVE Hierarchical(RowPlan(x, s))
<1> DEFINE C == {x.me, Other(x, s)} \cap Traders
<1>1. PICK a, b, o : a = Shared(x) /\ b = Characters(x, s) /\ o = Rest(x, s)
  OBVIOUS
<1>2. PICK r : r = a \o b \o o
  OBVIOUS
<1>3. r = RowPlan(x, s) /\ x.me \in Traders
  BY <1>1, <1>2 DEF RowPlan, DealOK
<1>4. a \in Seq(SharedRows \cup {NoRow}) /\ \A i \in 1..Len(a) : a[i] \in SharedRows => i = 1
  BY <1>1, SharedFirst
<1>5. OfTable(b, "character", C)
  BY <1>1, <1>3, SortedRows DEF Characters
<1>6. OwnedBy(o, C) /\ C \subseteq Traders
  BY <1>1, RestOwned
<1> HIDE DEF C
<1>7. PICK R : R = Rows \cup {NoRow}
  OBVIOUS
<1>8. a \in Seq(R) /\ b \in Seq(R) /\ o \in Seq(R)
  <2>1. /\ SharedRows \cup {NoRow} \subseteq R /\ {"character"} \X Traders \subseteq R
        /\ OwnedRows \cup {NoRow} \subseteq R
    BY <1>7 DEF OwnedRows, SharedRows, Rows
  <2>2. QED
    BY <1>4, <1>5, <1>6, <2>1 DEF OwnedBy, OfTable
<1>9. PICK k \in Nat, m \in Nat, n \in Nat : k = Len(a) /\ m = Len(b) /\ n = Len(o)
  BY <1>8
<1>10. /\ r \in Seq(R) /\ Len(r) = k + m + n
       /\ \A i \in 1..k : r[i] = a[i]
       /\ \A i \in 1..m : r[k + i] = b[i]
       /\ \A i \in 1..n : r[k + m + i] = o[i]
  <2> DEFINE q == a \o b
  <2>1. /\ q \in Seq(R) /\ Len(q) = k + m
        /\ \A i \in 1..k : q[i] = a[i]
        /\ \A i \in 1..m : q[k + i] = b[i]
    BY <1>8, <1>9, ConcatRanges
  <2>2. /\ r \in Seq(R) /\ Len(r) = (k + m) + n
        /\ \A i \in 1..(k + m) : r[i] = q[i]
        /\ \A i \in 1..n : r[(k + m) + i] = o[i]
    BY <1>2, <1>8, <1>9, <2>1, ConcatRanges
  <2>3. /\ \A i \in 1..k : i \in 1..(k + m)
        /\ \A i \in 1..m : k + i \in 1..(k + m)
    BY <1>9
  <2>4. QED
    BY <2>1, <2>2, <2>3
<1> DEFINE Chr == {"character"} \X Traders
<1>11. Chr \cap SharedRows = {} /\ Chr \cap (OwnedRows \cup {NoRow}) = {}
       /\ SharedRows \cap (OwnedRows \cup {NoRow}) = {}
  <2>1. NoRow \notin Chr /\ NoRow \notin SharedRows
    BY RowsAssumption DEF Rows, SharedRows
  <2>2. Chr \cap SharedRows = {}
    BY DEF SharedRows
  <2>3. Chr \cap OwnedRows = {}
    BY DEF OwnedRows
  <2>4. SharedRows \cap OwnedRows = {}
    BY DEF SharedRows, OwnedRows
  <2>5. QED
    BY <2>1, <2>2, <2>3, <2>4
<1>12. /\ \A i \in 1..k : r[i] \in SharedRows \cup {NoRow} /\ (r[i] \in SharedRows => i = 1)
       /\ \A i \in 1..m : r[k + i] \in Chr
       /\ \A i \in 1..n : r[k + m + i] \in OwnedRows \cup {NoRow}
  BY <1>4, <1>5, <1>6, <1>9, <1>10 DEF OfTable, OwnedBy
<1>13. \A i \in 1..(k + m + n) : i \in 1..k \/ i - k \in 1..m \/ i - (k + m) \in 1..n
  BY <1>9
<1>14. /\ \A i \in 1..(k + m + n) : i - k \in 1..m => r[i] = r[k + (i - k)]
       /\ \A i \in 1..(k + m + n) : i - (k + m) \in 1..n => r[i] = r[k + m + (i - (k + m))]
  BY <1>9
<1>15. ASSUME NEW i \in 1..Len(r)
       PROVE \/ i \in 1..k
             \/ i - k \in 1..m /\ r[i] = b[i - k] /\ r[i] \in Chr
             \/ i - (k + m) \in 1..n /\ r[i] = o[i - (k + m)] /\ r[i] \in OwnedRows \cup {NoRow}
  <2>1. i \in 1..(k + m + n)
    BY <1>10
  <2>2. CASE i \in 1..k
    BY <2>2
  <2>3. CASE i - k \in 1..m
    <3>1. r[k + (i - k)] = b[i - k] /\ r[k + (i - k)] \in Chr
      BY <1>10, <1>12, <2>3
    <3>2. QED
      BY <1>14, <2>1, <2>3, <3>1
  <2>4. CASE i - (k + m) \in 1..n
    <3>1. /\ r[k + m + (i - (k + m))] = o[i - (k + m)]
          /\ r[k + m + (i - (k + m))] \in OwnedRows \cup {NoRow}
      BY <1>10, <1>12, <2>4
    <3>2. QED
      BY <1>14, <2>1, <2>4, <3>1
  <2>5. QED
    BY <1>13, <2>1, <2>2, <2>3, <2>4
<1>16. ASSUME NEW i \in 1..Len(r)
       PROVE /\ r[i] \in SharedRows => i = 1
             /\ r[i] \in Chr => i - k \in 1..m /\ r[i] = b[i - k]
             /\ r[i] \in OwnedRows => i - (k + m) \in 1..n /\ r[i] = o[i - (k + m)]
  <2>1. i \in 1..k => r[i] \in SharedRows \cup {NoRow} /\ (r[i] \in SharedRows => i = 1)
    BY <1>12
  <2>2. NoRow \notin Chr /\ NoRow \notin OwnedRows /\ NoRow \notin SharedRows
    BY RowsAssumption DEF Rows, OwnedRows, SharedRows
  <2>3. QED
    BY <1>11, <1>15, <2>1, <2>2
<1>18. ASSUME NEW i \in 1..Len(r), NEW j \in 1..Len(r), NEW c \in Traders, NEW d \in Traders,
              i < j, r[i] = Character(c), r[j] = Character(d)
       PROVE IdOrder[c] < IdOrder[d]
  <2>1. r[i] \in Chr /\ r[j] \in Chr
    BY <1>18 DEF Character
  <2>2. /\ i - k \in 1..m /\ j - k \in 1..m /\ i - k < j - k
        /\ b[i - k] = <<"character", c>> /\ b[j - k] = <<"character", d>>
    <3>1. /\ i - k \in 1..m /\ r[i] = b[i - k]
          /\ j - k \in 1..m /\ r[j] = b[j - k]
      BY <1>16, <2>1
    <3>2. i \in Nat /\ j \in Nat /\ i - k < j - k
      BY <1>9, <1>10, <1>18
    <3>3. QED
      BY <1>18, <3>1, <3>2 DEF Character
  <2>3. QED
    BY <1>5, <1>9, <2>2 DEF OfTable
<1>19. ASSUME NEW i \in 1..Len(r), NEW t \in {"bag", "depot", "box"}, NEW c \in Traders, r[i] = <<t, c>>
       PROVE \E j \in 1..Len(r) : j < i /\ r[j] = Character(c)
  <2>1. r[i] \in OwnedRows /\ r[i] # NoRow
    <3>1. <<t, c>> \in OwnedRows /\ <<t, c>> \in Rows
      BY <1>19 DEF OwnedRows, Rows
    <3>2. QED
      BY <1>19, <3>1, RowsAssumption
  <2>2. i - (k + m) \in 1..n /\ r[i] = o[i - (k + m)]
    BY <1>16, <2>1
  <2>3. Owned(r[i], C)
    BY <1>6, <1>9, <2>2 DEF OwnedBy
  <2>4. c \in C
    BY <1>19, <2>1, <2>3 DEF Owned
  <2>5. PICK j \in 1..m : b[j] = Character(c)
    BY <1>5, <1>9, <2>4 DEF OfTable, Character
  <2>6. k + j \in 1..Len(r) /\ k + j < i /\ r[k + j] = Character(c)
    BY <1>9, <1>10, <2>2, <2>5
  <2>7. QED
    BY <2>6
<1>20. QED
  BY <1>3, <1>7, <1>10, <1>16, <1>18, <1>19 DEF Hierarchical

-----------------------------------------------------------------------------
(* What a transaction holds                                                *)
Deals == [op : Working \cup {"draw", "none"}, me : Traders \cup {Nobody},
          you : Traders \cup {Nobody}, id : Listings \cup Sales \cup {NoRow}, item : Goods,
          winners : SUBSET Traders, at : Nat]

Path(x) == RowPlan(x, Seller(x))

\* p holds the rows of x that it has passed, and no other.
HoldsPath(p, x) ==
    /\ x.op = "none" => \A r \in Rows : held[r] # p
    /\ x.op \in Working =>
          /\ x.at <= Len(Path(x))
          /\ \A i \in 1..x.at : Path(x)[i] # NoRow => held[Path(x)[i]] = p
          /\ \A r \in Rows : held[r] = p => \E i \in 1..x.at : Path(x)[i] = r

\* The listing or sale that x is about is there, once x has locked it, and
\* who buys does so from another.
StillOffered(x) ==
    /\ x.op \in OnListings /\ x.at >= 1 => listing[x.id].state = "active"
    /\ x.op \in OnSales /\ x.at >= 1 => sale[x.id].state # "none"
    /\ x.op = "buy" /\ x.at >= 1 => listing[x.id].seller # x.me
    /\ x.op \in {"purchase", "trade"} /\ x.at >= 1 => sale[x.id].seller # x.me

CallerOK(p) == DealOK(deal[p]) /\ HoldsPath(p, deal[p]) /\ StillOffered(deal[p])

TablesOK ==
    /\ deal \in [Callers -> Deals]
    /\ listing \in [Listings -> Listed] /\ sale \in [Sales -> Offered]
    /\ held \in [Rows -> Callers \cup {Nobody}]

MarketIInv == TablesOK /\ \A p \in Callers : CallerOK(p)

-----------------------------------------------------------------------------
(* Paths stay as they are                                                  *)

\* A path depends on the request, and on the seller of what it is about.
LEMMA SamePath ==
  ASSUME NEW x, NEW y, NEW s, y.op = x.op, y.me = x.me, y.you = x.you, y.id = x.id
  PROVE RowPlan(y, s) = RowPlan(x, s)
<1>1. Shared(y) = Shared(x)
  BY DEF Shared
<1>2. Other(y, s) = Other(x, s)
  BY DEF Other
<1>3. Rest(y, s) = Rest(x, s)
  BY DEF Rest
<1>4. QED
  BY <1>1, <1>2, <1>3 DEF RowPlan, Characters

LEMMA NoSeller ==
  ASSUME NEW x, NEW s, NEW t, x.op \in Transfers \cup Solitary
  PROVE RowPlan(x, s) = RowPlan(x, t)
<1>1. Other(x, s) = Other(x, t)
  BY DEF Other, Transfers, Solitary
<1>2. Rest(x, s) = Rest(x, t)
  BY DEF Rest, Transfers, Solitary
<1>3. QED
  BY <1>1, <1>2 DEF RowPlan, Characters

LEMMA PathOK ==
  ASSUME NEW x, DealOK(x), x.op \in Working
  PROVE /\ Hierarchical(Path(x)) /\ Len(Path(x)) \in Nat
        /\ Len(Plan(x)) = Len(Path(x))
        /\ \A i \in 1..Len(Path(x)) :
              Plan(x)[i].row = Path(x)[i] /\ Path(x)[i] \in Rows \cup {NoRow}
<1>1. PICK r : r = Path(x)
  OBVIOUS
<1>2. Hierarchical(r) /\ Locks(Plan(x), r)
  BY <1>1, PlanHierarchical, PlanLocks DEF Path
<1>3. Len(r) \in Nat /\ Len(Plan(x)) = Len(r) /\ \A i \in 1..Len(r) : Plan(x)[i].row = r[i]
  BY <1>2 DEF Locks
<1>4. \A i \in 1..Len(r) : r[i] \in Rows \cup {NoRow}
  BY <1>2 DEF Hierarchical
<1>5. QED
  BY <1>1, <1>2, <1>3, <1>4

\* A listing or sale is the first that its operations lock.
LEMMA FirstRow ==
  ASSUME NEW x, DealOK(x), x.op \in OnListings \cup OnSales
  PROVE /\ 1 \in 1..Len(Path(x))
        /\ Path(x)[1] = IF x.op \in OnListings THEN <<"listing", x.id>> ELSE <<"sale", x.id>>
<1>1. PICK f : f = IF x.op \in OnListings THEN <<"listing", x.id>> ELSE <<"sale", x.id>>
  OBVIOUS
<1>2. Shared(x) = <<f>>
  BY <1>1 DEF Shared, OnListings, OnSales
<1>3. PICK s : s = Seller(x)
  OBVIOUS
<1>4. PICK b, o : b = Characters(x, s) /\ o = Rest(x, s)
  OBVIOUS
<1>5. x.me \in Traders /\ x.op \in Working
  BY DEF DealOK, Working
<1>6. b \in Seq({"character"} \X Traders)
  BY <1>4, <1>5, SortedRows DEF Characters, OfTable
<1>7. o \in Seq(OwnedRows \cup {NoRow})
  BY <1>4, <1>5, RestOwned DEF OwnedBy
<1>8. PICK S : S = {f} \cup ({"character"} \X Traders) \cup OwnedRows \cup {NoRow}
  OBVIOUS
<1>9. <<f>> \in Seq(S) /\ b \in Seq(S) /\ o \in Seq(S) /\ Len(<<f>>) = 1 /\ <<f>>[1] = f
  BY <1>6, <1>7, <1>8
<1>10. PICK m \in Nat, n \in Nat : m = Len(b) /\ n = Len(o)
  BY <1>9
<1>11. PICK q : q = <<f>> \o b
  OBVIOUS
<1>12. q \in Seq(S) /\ Len(q) = 1 + m /\ q[1] = f
  <2>1. /\ <<f>> \o b \in Seq(S) /\ Len(<<f>> \o b) = 1 + m
        /\ \A i \in 1..1 : (<<f>> \o b)[i] = <<f>>[i]
    BY <1>9, <1>10, ConcatRanges
  <2>2. QED
    BY <1>9, <1>11, <2>1
<1>13. Len(q \o o) = (1 + m) + n /\ (q \o o)[1] = f
  <2>1. Len(q \o o) = (1 + m) + n /\ \A i \in 1..(1 + m) : (q \o o)[i] = q[i]
    BY <1>9, <1>10, <1>12, ConcatRanges
  <2>2. 1 \in 1..(1 + m)
    BY <1>10
  <2>3. QED
    BY <1>12, <2>1, <2>2
<1>14. Path(x) = q \o o
  BY <1>2, <1>3, <1>4, <1>11 DEF Path, RowPlan
<1>15. QED
  BY <1>1, <1>10, <1>13, <1>14

LEMMA FirstCheck ==
  ASSUME NEW x, DealOK(x), TablesOK, x.op \in OnListings \cup OnSales, Plan(x)[1].ok
  PROVE /\ x.op \in OnListings => listing[x.id].state = "active"
        /\ x.op \in OnSales => sale[x.id].state # "none"
        /\ x.op = "buy" => listing[x.id].seller # x.me
        /\ x.op \in {"purchase", "trade"} => sale[x.id].seller # x.me
<1>1. CASE x.op = "cancel"
  <2>1. PICK ok : ok = (x.id \in ListingsOf(x.me))
    OBVIOUS
  <2>2. Plan(x) = <<TakeIf(<<"listing", x.id>>, ok), Take(Character(x.me)), Take(Depot(x.me))>>
    BY <1>1, <2>1 DEF Plan, CancelPlan
  <2>3. Plan(x)[1] = TakeIf(<<"listing", x.id>>, ok)
    BY <2>2
  <2>4. ok
    BY <2>3 DEF TakeIf
  <2>5. QED
    BY <1>1, <2>1, <2>4 DEF ListingsOf, ListedIn, ActiveIn, OnSales
<1>2. CASE x.op = "withdraw"
  <2>1. PICK ok : ok = (x.id \in SalesOf(x.me))
    OBVIOUS
  <2>2. Plan(x) = <<TakeIf(<<"sale", x.id>>, ok), Take(Character(x.me)), Take(Depot(x.me))>>
    BY <1>2, <2>1 DEF Plan, WithdrawPlan
  <2>3. Plan(x)[1] = TakeIf(<<"sale", x.id>>, ok)
    BY <2>2
  <2>4. ok
    BY <2>3 DEF TakeIf
  <2>5. QED
    BY <1>2, <2>1, <2>4 DEF SalesOf, ForSaleIn, OnListings
<1>3. CASE x.op \in {"buy", "purchase", "trade"}
  <2>1. ASSUME NEW m, NEW A, NEW B, NEW s, Plan(x) = <<m>> \o A \o B,
               A = Ascending("character", {x.me, s} \cap Traders), \E S : B \in Seq(S)
        PROVE Plan(x)[1] = m
    <3>1. Locks(A, Sorted("character", x.me, s))
      BY <2>1, AscendingLocks DEF DealOK, Working, OnListings, OnSales
    <3>2. PICK S1, S2 : A \in Seq(S1) /\ B \in Seq(S2)
      BY <2>1, <3>1 DEF Locks
    <3>3. PICK S : S = {m} \cup S1 \cup S2
      OBVIOUS
    <3>4. <<m>> \in Seq(S) /\ A \in Seq(S) /\ B \in Seq(S) /\ Len(<<m>>) = 1 /\ <<m>>[1] = m
      BY <3>2, <3>3
    <3>5. PICK q : q = <<m>> \o A
      OBVIOUS
    <3>6. /\ <<m>> \o A \in Seq(S) /\ Len(<<m>> \o A) = 1 + Len(A)
          /\ \A i \in 1..1 : (<<m>> \o A)[i] = <<m>>[i]
      BY <3>4, ConcatRanges
    <3>7. q \in Seq(S) /\ Len(q) = 1 + Len(A) /\ q[1] = m /\ Len(A) \in Nat
      BY <3>4, <3>5, <3>6
    <3>8. \A i \in 1..Len(q) : (q \o B)[i] = q[i]
      BY <3>4, <3>7, ConcatRanges
    <3>9. QED
      BY <2>1, <3>5, <3>7, <3>8
  <2>2. CASE x.op = "buy"
    <3>1. PICK s : s = listing[x.id].seller
      OBVIOUS
    <3>2. PICK ok, n, d : /\ ok = (x.id \in ActiveListings /\ s # x.me)
                          /\ n = Look(gold[x.me] >= Price) /\ d = Take(Depot(x.me))
      OBVIOUS
    <3>3. PICK m : m = TakeIf(<<"listing", x.id>>, ok)
      OBVIOUS
    <3>4. Plan(x) = <<m>> \o Ascending("character", {x.me, s} \cap Traders) \o <<n, d>>
      BY <2>2, <3>1, <3>2, <3>3 DEF Plan, BuyPlan
    <3>5. <<n, d>> \in Seq({n, d})
      OBVIOUS
    <3>6. Plan(x)[1] = m
      BY <2>1, <3>4, <3>5
    <3>7. ok
      BY <3>3, <3>6 DEF TakeIf
    <3>8. QED
      BY <2>2, <3>1, <3>2, <3>7 DEF ActiveListings, ActiveIn, OnSales
  <2>3. CASE x.op \in {"purchase", "trade"}
    <3>1. PICK kind, funds : Plan(x) = DealPlan(x, kind, funds) /\ kind # "none"
      <4>1. CASE x.op = "purchase"
        <5>1. Plan(x) = DealPlan(x, "gold", Price)
          BY <4>1 DEF Plan
        <5>2. QED
          BY <5>1
      <4>2. CASE x.op = "trade"
        <5>1. Plan(x) = DealPlan(x, "barter", 0)
          BY <4>2 DEF Plan
        <5>2. QED
          BY <5>1
      <4>3. QED
        BY <2>3, <4>1, <4>2
    <3>2. PICK s : s = sale[x.id].seller
      OBVIOUS
    <3>3. PICK ok, n : /\ ok = (sale[x.id].state = kind /\ s # x.me)
                       /\ n = Look(gold[x.me] >= funds)
      OBVIOUS
    <3>4. PICK m : m = TakeIf(<<"sale", x.id>>, ok)
      OBVIOUS
    <3>5. PICK A, D : /\ A = Ascending("character", {x.me, s} \cap Traders)
                      /\ D = Ascending("depot", {x.me, s} \cap Traders)
      OBVIOUS
    <3>6. Plan(x) = <<m>> \o A \o <<n>> \o D
      BY <3>1, <3>2, <3>3, <3>4, <3>5 DEF DealPlan
    <3>7. Locks(A, Sorted("character", x.me, s)) /\ Locks(D, Sorted("depot", x.me, s))
      BY <3>5, AscendingLocks DEF DealOK, Working, OnListings, OnSales
    <3>8. PICK S1, S2 : A \in Seq(S1) /\ D \in Seq(S2)
      BY <3>7 DEF Locks
    <3>9. PICK S : S = {m, n} \cup S1 \cup S2
      OBVIOUS
    <3>10. <<m>> \in Seq(S) /\ A \in Seq(S) /\ <<n>> \in Seq(S) /\ D \in Seq(S) /\ <<m>> \o A \in Seq(S)
      BY <3>8, <3>9
    <3>11. (<<m>> \o A) \o <<n>> \o D = (<<m>> \o A) \o (<<n>> \o D) /\ <<n>> \o D \in Seq(S)
      BY <3>10, ConcatAssociative
    <3>12. Plan(x)[1] = m
      BY <2>1, <3>5, <3>6, <3>11
    <3>13. ok
      BY <3>4, <3>12 DEF TakeIf
    <3>14. QED
      BY <2>3, <3>1, <3>2, <3>3, <3>13 DEF OnListings
  <2>4. QED
    BY <1>3, <2>2, <2>3
<1>4. QED
  BY <1>1, <1>2, <1>3 DEF OnListings, OnSales

\* A path that has begun stays, if what it is about does.
LEMMA PathStays ==
  ASSUME NEW x, x.op \in Working, x.at >= 1,
         x.op \in OnListings => listing'[x.id] = listing[x.id],
         x.op \in OnSales => sale'[x.id] = sale[x.id]
  PROVE Path(x)' = Path(x)
<1>1. CASE x.op \in OnListings \cup OnSales
  <2>1. Seller(x)' = Seller(x)
    BY <1>1 DEF Seller, OnListings, OnSales
  <2>2. QED
    BY <2>1 DEF Path
<1>2. CASE x.op \in Transfers \cup Solitary
  <2>1. PICK s, t : s = Seller(x) /\ t = Seller(x)'
    OBVIOUS
  <2>2. Path(x) = RowPlan(x, s) /\ Path(x)' = RowPlan(x, t)
    BY <2>1 DEF Path
  <2>3. QED
    BY <1>2, <2>2, NoSeller
<1>3. QED
  BY <1>1, <1>2 DEF Working

\* A step of another transaction that leaves what x is about.
LEMMA OtherKeeps ==
  ASSUME MarketIInv, NEW q \in Callers, deal'[q] = deal[q],
         \A r \in Rows : held'[r] = q <=> held[r] = q,
         deal[q].op \in OnListings /\ deal[q].at >= 1 => listing'[deal[q].id] = listing[deal[q].id],
         deal[q].op \in OnSales /\ deal[q].at >= 1 => sale'[deal[q].id] = sale[deal[q].id]
  PROVE CallerOK(q)'
<1>1. PICK x : x = deal[q] /\ x = deal'[q]
  OBVIOUS
<1>2. DealOK(x) /\ HoldsPath(q, x) /\ StillOffered(x)
  BY <1>1 DEF MarketIInv, CallerOK
<1>3. StillOffered(x)'
  BY <1>1, <1>2 DEF StillOffered, OnListings, OnSales
<1>4. x.op \in Working => Len(Path(x)') \in Nat
  <2>1. PICK t : t = Seller(x)'
    OBVIOUS
  <2>2. Path(x)' = RowPlan(x, t)
    BY <2>1 DEF Path
  <2>3. x.op \in Working => RowPlan(x, t) \in Seq(Rows \cup {NoRow})
    BY <1>2, PlanHierarchical DEF Hierarchical
  <2>4. QED
    BY <2>2, <2>3
<1>5. x.op \in Working /\ x.at >= 1 => Path(x)' = Path(x)
  BY <1>1, PathStays
<1>6. HoldsPath(q, x)'
  <2>1. x.at \in Nat
    BY <1>2 DEF DealOK
  <2>2. CASE x.op \in Working /\ x.at >= 1
    <3>1. PICK r : r = Path(x) /\ r = Path(x)'
      BY <1>5, <2>2
    <3>2. \A i \in 1..Len(r) : r[i] \in Rows \cup {NoRow}
      BY <1>2, <2>2, <3>1, PathOK
    <3>3. /\ x.at <= Len(r) /\ \A i \in 1..x.at : r[i] # NoRow => held[r[i]] = q
          /\ \A s \in Rows : held[s] = q => \E i \in 1..x.at : r[i] = s
      BY <1>2, <2>2, <3>1 DEF HoldsPath
    <3>4. Len(r) \in Nat
      BY <1>2, <2>2, <3>1, PathOK
    <3>5. \A i \in 1..x.at : r[i] # NoRow => held'[r[i]] = q
      BY <2>1, <3>2, <3>3, <3>4
    <3>6. \A s \in Rows : held'[s] = q => \E i \in 1..x.at : r[i] = s
      BY <3>3
    <3>7. x.op # "none"
      BY <2>2 DEF Working, Transfers, OnListings, OnSales, Solitary
    <3>8. QED
      BY <3>1, <3>3, <3>5, <3>6, <3>7 DEF HoldsPath
  <2>3. CASE x.op \in Working /\ x.at = 0
    BY <1>1, <1>2, <1>4, <2>3 DEF HoldsPath
  <2>4. CASE x.op \notin Working
    BY <1>1, <1>2, <2>4 DEF HoldsPath
  <2>5. QED
    BY <2>1, <2>2, <2>3, <2>4
<1>7. QED
  BY <1>1, <1>2, <1>3, <1>6 DEF CallerOK

-----------------------------------------------------------------------------
(* What a step does                                                        *)

\* Whatever the tables hold, the path of x is a finite sequence.
LEMMA PathAfter ==
  ASSUME NEW x, DealOK(x), x.op \in Working
  PROVE Len(Path(x)') \in Nat
<1>1. PICK t : t = Seller(x)'
  OBVIOUS
<1>2. Path(x)' = RowPlan(x, t)
  BY <1>1 DEF Path
<1>3. RowPlan(x, t) \in Seq(Rows \cup {NoRow})
  BY PlanHierarchical DEF Hierarchical
<1>4. QED
  BY <1>2, <1>3

LEMMA OwnsItsFirst ==
  ASSUME MarketIInv, NEW q \in Callers, deal[q].at >= 1
  PROVE /\ deal[q].op \in OnListings => held[<<"listing", deal[q].id>>] = q
        /\ deal[q].op \in OnSales => held[<<"sale", deal[q].id>>] = q
<1>1. PICK x : x = deal[q]
  OBVIOUS
<1>2. DealOK(x) /\ HoldsPath(q, x)
  BY <1>1 DEF MarketIInv, CallerOK
<1>3. SUFFICES ASSUME x.op \in OnListings \cup OnSales
               PROVE held[IF x.op \in OnListings THEN <<"listing", x.id>> ELSE <<"sale", x.id>>] = q
  BY <1>1 DEF OnListings, OnSales
<1>4. PICK f : f = IF x.op \in OnListings THEN <<"listing", x.id>> ELSE <<"sale", x.id>>
  OBVIOUS
<1>5. Path(x)[1] = f
  BY <1>2, <1>3, <1>4, FirstRow
<1>6. f \in Rows
  <2>1. x.op \in OnListings => x.id \in Listings
    BY <1>2 DEF DealOK
  <2>2. x.op \in OnSales => x.id \in Sales
    BY <1>2 DEF DealOK
  <2>3. QED
    BY <1>3, <1>4, <2>1, <2>2 DEF Rows
<1>7. 1 \in 1..x.at /\ x.op \in Working
  BY <1>1, <1>2, <1>3 DEF DealOK, Working
<1>8. f # NoRow
  BY <1>6, RowsAssumption
<1>9. QED
  BY <1>2, <1>4, <1>5, <1>7, <1>8 DEF HoldsPath

\* Only a listing or sale that p has locked is written, or a new one.
OffersGuarded(p) ==
    /\ listing' \in [Listings -> Listed] /\ sale' \in [Sales -> Offered]
    /\ \A l \in Listings : listing'[l] = listing[l] \/ listing[l].state = "none"
           \/ (deal[p].op \in OnListings /\ deal[p].at >= 1 /\ l = deal[p].id)
    /\ \A s \in Sales : sale'[s] = sale[s] \/ sale[s].state = "none"
           \/ (deal[p].op \in OnSales /\ deal[p].at >= 1 /\ s = deal[p].id)

\* What another transaction is about stays.
LEMMA OffersStay ==
  ASSUME MarketIInv, NEW p \in Callers, NEW q \in Callers, q # p, OffersGuarded(p)
  PROVE /\ deal[q].op \in OnListings /\ deal[q].at >= 1 => listing'[deal[q].id] = listing[deal[q].id]
        /\ deal[q].op \in OnSales /\ deal[q].at >= 1 => sale'[deal[q].id] = sale[deal[q].id]
<1>1. DealOK(deal[q]) /\ StillOffered(deal[q])
  BY DEF MarketIInv, CallerOK
<1>2. deal[q].op \in OnListings /\ deal[q].at >= 1 => listing'[deal[q].id] = listing[deal[q].id]
  <2>1. SUFFICES ASSUME deal[q].op \in OnListings, deal[q].at >= 1
                 PROVE listing'[deal[q].id] = listing[deal[q].id]
    OBVIOUS
  <2>2. deal[q].id \in Listings /\ listing[deal[q].id].state = "active"
    BY <1>1, <2>1 DEF DealOK, StillOffered
  <2>3. held[<<"listing", deal[q].id>>] = q
    BY <2>1, OwnsItsFirst
  <2>4. ~(deal[p].op \in OnListings /\ deal[p].at >= 1 /\ deal[q].id = deal[p].id)
    BY <2>3, OwnsItsFirst
  <2>5. QED
    BY <2>2, <2>4 DEF OffersGuarded
<1>3. deal[q].op \in OnSales /\ deal[q].at >= 1 => sale'[deal[q].id] = sale[deal[q].id]
  <2>1. SUFFICES ASSUME deal[q].op \in OnSales, deal[q].at >= 1
                 PROVE sale'[deal[q].id] = sale[deal[q].id]
    OBVIOUS
  <2>2. deal[q].id \in Sales /\ sale[deal[q].id].state # "none"
    BY <1>1, <2>1 DEF DealOK, StillOffered
  <2>3. held[<<"sale", deal[q].id>>] = q
    BY <2>1, OwnsItsFirst
  <2>4. ~(deal[p].op \in OnSales /\ deal[p].at >= 1 /\ deal[q].id = deal[p].id)
    BY <2>3, OwnsItsFirst
  <2>5. QED
    BY <2>2, <2>4 DEF OffersGuarded
<1>4. QED
  BY <1>2, <1>3

LEMMA EndKeeps ==
  ASSUME MarketIInv, NEW p \in Callers, End(p), OffersGuarded(p)
  PROVE MarketIInv'
<1>1. p # Nobody
  BY ActorsAssumption
<1>2. NoDeal \in Deals
  BY MarketAssumption DEF NoDeal, Deals
<1>3. /\ deal' \in [Callers -> Deals] /\ deal'[p] = NoDeal
      /\ \A q \in Callers : q # p => deal'[q] = deal[q]
  BY <1>2 DEF End, MarketIInv, TablesOK
<1>4. /\ held' \in [Rows -> Callers \cup {Nobody}]
      /\ \A r \in Rows : held'[r] = IF held[r] = p THEN Nobody ELSE held[r]
  BY DEF End, MarketIInv, TablesOK
<1>5. TablesOK'
  BY <1>3, <1>4 DEF TablesOK, OffersGuarded
<1>6. CallerOK(p)'
  <2>1. NoDeal.op = "none" /\ NoDeal.at = 0
    BY DEF NoDeal
  <2>2. \A r \in Rows : held'[r] # p
    BY <1>1, <1>4
  <2>3. "none" \notin Working /\ "none" \notin OnListings \cup OnSales \cup Transfers
    BY DEF Working, Transfers, OnListings, OnSales, Solitary
  <2>4. DealOK(NoDeal)
    BY <2>1, <2>3 DEF DealOK
  <2>5. HoldsPath(p, NoDeal)'
    BY <2>1, <2>2, <2>3 DEF HoldsPath
  <2>6. StillOffered(NoDeal)'
    BY <2>1, <2>3 DEF StillOffered
  <2>7. DealOK(deal[p])' /\ HoldsPath(p, deal[p])' /\ StillOffered(deal[p])'
    BY <1>3, <2>4, <2>5, <2>6
  <2>8. QED
    BY <2>7 DEF CallerOK
<1>7. ASSUME NEW q \in Callers, q # p
      PROVE CallerOK(q)'
  <2>1. \A r \in Rows : held'[r] = q <=> held[r] = q
    <3>1. q # Nobody
      BY ActorsAssumption
    <3>2. QED
      BY <1>4, <1>7, <3>1
  <2>2. /\ deal[q].op \in OnListings /\ deal[q].at >= 1 => listing'[deal[q].id] = listing[deal[q].id]
        /\ deal[q].op \in OnSales /\ deal[q].at >= 1 => sale'[deal[q].id] = sale[deal[q].id]
    BY <1>7, OffersStay
  <2>3. deal'[q] = deal[q]
    BY <1>3, <1>7
  <2>4. QED
    BY <2>1, <2>2, <2>3, OtherKeeps
<1>8. QED
  BY <1>5, <1>6, <1>7 DEF MarketIInv

LEMMA OffersUnchanged ==
  ASSUME MarketIInv, NEW p \in Callers, listing' = listing, sale' = sale
  PROVE OffersGuarded(p)
BY DEF MarketIInv, TablesOK, OffersGuarded

\* A transaction that commits has locked what it is about.
LEMMA CommitsLocked ==
  ASSUME MarketIInv, NEW p \in Callers, NEW ops, Commits(p, ops)
  PROVE /\ deal[p].op \in ops /\ End(p)
        /\ deal[p].op \in OnListings => deal[p].at >= 1 /\ deal[p].id \in Listings
        /\ deal[p].op \in OnSales => deal[p].at >= 1 /\ deal[p].id \in Sales
        /\ deal[p].op \in Working => deal[p].me \in Traders
        /\ deal[p].item \in Goods
<1>1. PICK x : x = deal[p]
  OBVIOUS
<1>2. DealOK(x) /\ x \in Deals
  BY <1>1 DEF MarketIInv, CallerOK, TablesOK
<1>3. x.op \in OnListings \cup OnSales => x.at >= 1
  <2>1. SUFFICES ASSUME x.op \in OnListings \cup OnSales
                 PROVE x.at >= 1
    OBVIOUS
  <2>2. 1 \in 1..Len(Path(x))
    BY <1>2, <2>1, FirstRow
  <2>3. x.op \in Working
    BY <2>1 DEF Working
  <2>4. Len(Plan(x)) = Len(Path(x)) /\ Len(Path(x)) \in Nat
    BY <1>2, <2>3, PathOK
  <2>5. x.at = Len(Plan(x))
    BY <1>1 DEF Commits
  <2>6. QED
    BY <2>2, <2>4, <2>5
<1>4. x.item \in Goods
  BY <1>2 DEF Deals
<1>5. QED
  BY <1>1, <1>2, <1>3, <1>4 DEF Commits, DealOK

\* A request becomes a transaction that has executed nothing.
LEMMA RequestOK ==
  ASSUME NEW x \in Requests, x.op \in Transfers => x.me # x.you, NEW y,
         y = [f \in DOMAIN NoDeal |-> IF f \in DOMAIN x THEN x[f] ELSE NoDeal[f]]
  PROVE y \in Deals /\ DealOK(y) /\ y.at = 0 /\ y.op # "none"
<1>1. DOMAIN NoDeal = {"op", "me", "you", "id", "item", "winners", "at"}
  BY DEF NoDeal
<1>2. /\ NoDeal["op"] = "none" /\ NoDeal["me"] = Nobody /\ NoDeal["you"] = Nobody
      /\ NoDeal["id"] = NoRow /\ NoDeal["item"] = Prize /\ NoDeal["winners"] = {}
      /\ NoDeal["at"] = 0 /\ Prize \in Goods
  BY MarketAssumption DEF NoDeal
<1> HIDE DEF NoDeal
<1>3. ASSUME x["op"] \in Working \cup {"draw"},
             y["op"] = x["op"], y["me"] \in Traders \cup {Nobody}, y["you"] \in Traders \cup {Nobody},
             y["id"] \in Listings \cup Sales \cup {NoRow}, y["item"] \in Goods,
             y["winners"] \in SUBSET Traders, y["at"] = 0,
             x["op"] \in Working => y["me"] \in Traders,
             x["op"] \in Transfers => y["you"] \in Traders /\ y["me"] # y["you"],
             x["op"] \in OnListings => y["id"] \in Listings,
             x["op"] \in OnSales => y["id"] \in Sales
      PROVE y \in Deals /\ DealOK(y) /\ y.at = 0 /\ y.op # "none"
  <2>1. y = [op |-> y["op"], me |-> y["me"], you |-> y["you"], id |-> y["id"], item |-> y["item"],
             winners |-> y["winners"], at |-> y["at"]]
    BY <1>1
  <2>2. y["op"] # "none"
    BY <1>3 DEF Working, Transfers, OnListings, OnSales, Solitary
  <2>3. y \in Deals
    BY <1>3, <2>1 DEF Deals
  <2>4. DealOK(y)
    BY <1>3, <2>2 DEF DealOK
  <2>5. QED
    BY <1>3, <2>2, <2>3, <2>4
<1>4. CASE x \in Gives
  <2>1. DOMAIN x = {"op", "me", "you"} /\ x["op"] \in {"gold", "money", "gem"}
          /\ x["me"] \in Traders /\ x["you"] \in Traders
    BY <1>4 DEF Gives
  <2>2. x["me"] # x["you"]
    BY <2>1 DEF Transfers
  <2>3. x["op"] \in Working /\ x["op"] \notin OnListings \cup OnSales
    BY <2>1 DEF Working, Transfers, OnListings, OnSales
  <2>4. QED
    BY <1>1, <1>2, <1>3, <2>1, <2>2, <2>3
<1>5. CASE x \in Sends
  <2>1. DOMAIN x = {"op", "me", "you", "item"} /\ x["op"] \in {"send", "auction"}
          /\ x["me"] \in Traders /\ x["you"] \in Traders /\ x["item"] \in Goods
    BY <1>5 DEF Sends
  <2>2. x["me"] # x["you"]
    BY <2>1 DEF Transfers
  <2>3. x["op"] \in Working /\ x["op"] \notin OnListings \cup OnSales
    BY <2>1 DEF Working, Transfers, OnListings, OnSales
  <2>4. QED
    BY <1>1, <1>2, <1>3, <2>1, <2>2, <2>3
<1>6. CASE x \in Moves
  <2>1. DOMAIN x = {"op", "me", "item"} /\ x["op"] \in {"stow", "fetch", "list", "offer", "barter"}
          /\ x["me"] \in Traders /\ x["item"] \in Goods
    BY <1>6 DEF Moves
  <2>2. x["op"] \in Working /\ x["op"] \notin OnListings \cup OnSales \cup Transfers
    BY <2>1 DEF Working, Transfers, OnListings, OnSales, Solitary
  <2>3. QED
    BY <1>1, <1>2, <1>3, <2>1, <2>2
<1>7. CASE x \in Alone
  <2>1. DOMAIN x = {"op", "me"} /\ x["op"] \in {"save", "spend", "build", "ticket"}
          /\ x["me"] \in Traders
    BY <1>7 DEF Alone
  <2>2. x["op"] \in Working /\ x["op"] \notin OnListings \cup OnSales \cup Transfers
    BY <2>1 DEF Working, Transfers, OnListings, OnSales, Solitary
  <2>3. QED
    BY <1>1, <1>2, <1>3, <2>1, <2>2
<1>8. CASE x \in Takes
  <2>1. CASE x \in [op : {"buy", "cancel"}, me : Traders, id : Listings]
    <3>1. DOMAIN x = {"op", "me", "id"} /\ x["op"] \in {"buy", "cancel"}
            /\ x["me"] \in Traders /\ x["id"] \in Listings
      BY <2>1
    <3>2. x["op"] \in Working /\ x["op"] \notin OnSales \cup Transfers
      BY <3>1 DEF Working, Transfers, OnListings, OnSales
    <3>3. QED
      BY <1>1, <1>2, <1>3, <3>1, <3>2
  <2>2. CASE x \in [op : {"withdraw", "purchase"}, me : Traders, id : Sales]
    <3>1. DOMAIN x = {"op", "me", "id"} /\ x["op"] \in {"withdraw", "purchase"}
            /\ x["me"] \in Traders /\ x["id"] \in Sales
      BY <2>2
    <3>2. x["op"] \in Working /\ x["op"] \notin OnListings \cup Transfers
      BY <3>1 DEF Working, Transfers, OnListings, OnSales
    <3>3. QED
      BY <1>1, <1>2, <1>3, <3>1, <3>2
  <2>3. QED
    BY <1>8, <2>1, <2>2 DEF Takes
<1>9. CASE x \in Trades
  <2>1. DOMAIN x = {"op", "me", "id", "item"} /\ x["op"] = "trade"
          /\ x["me"] \in Traders /\ x["id"] \in Sales /\ x["item"] \in Goods
    BY <1>9 DEF Trades
  <2>2. x["op"] \in Working /\ x["op"] \notin OnListings \cup Transfers
    BY <2>1 DEF Working, Transfers, OnListings, OnSales
  <2>3. QED
    BY <1>1, <1>2, <1>3, <2>1, <2>2
<1>10. CASE x \in Draws
  <2>1. DOMAIN x = {"op", "winners"} /\ x["op"] = "draw" /\ x["winners"] \in SUBSET Traders
    BY <1>10 DEF Draws
  <2>2. x["op"] \notin Working \cup OnListings \cup OnSales \cup Transfers
    BY <2>1 DEF Working, Transfers, OnListings, OnSales, Solitary
  <2>3. QED
    BY <1>1, <1>2, <1>3, <2>1, <2>2
<1>11. QED
  BY <1>4, <1>5, <1>6, <1>7, <1>8, <1>9, <1>10 DEF Requests

LEMMA BeginKeeps ==
  ASSUME MarketIInv, NEW p \in Callers, BeginDeal(p)
  PROVE MarketIInv'
<1>1. PICK x \in Requests :
         /\ deal[p] = NoDeal
         /\ x.op \in {"gold", "money", "gem", "send", "auction"} => x.me # x.you
         /\ deal' = [deal EXCEPT ![p] =
                [f \in DOMAIN NoDeal |-> IF f \in DOMAIN x THEN x[f] ELSE NoDeal[f]]]
         /\ UNCHANGED <<purses, items, offers, lottery, held>>
  BY DEF BeginDeal
<1>2. PICK y : y = [f \in DOMAIN NoDeal |-> IF f \in DOMAIN x THEN x[f] ELSE NoDeal[f]]
  OBVIOUS
<1>3. y \in Deals /\ DealOK(y) /\ y.at = 0 /\ y.op # "none"
  <2>1. x.op \in Transfers => x.me # x.you
    BY <1>1 DEF Transfers
  <2>2. QED
    BY <1>2, <2>1, RequestOK
<1>4. /\ deal' \in [Callers -> Deals] /\ deal'[p] = y
      /\ \A q \in Callers : q # p => deal'[q] = deal[q]
  BY <1>1, <1>2, <1>3 DEF MarketIInv, TablesOK
<1>5. held' = held /\ listing' = listing /\ sale' = sale
  BY <1>1 DEF offers
<1>6. TablesOK'
  BY <1>4, <1>5 DEF MarketIInv, TablesOK
<1>7. CallerOK(p)'
  <2>1. NoDeal.op = "none" /\ HoldsPath(p, NoDeal)
    BY <1>1 DEF MarketIInv, CallerOK, NoDeal
  <2>2. \A r \in Rows : held'[r] # p
    BY <1>5, <2>1 DEF HoldsPath
  <2>3. y.op \in Working => Len(Path(y)') \in Nat
    BY <1>3, PathAfter
  <2>4. HoldsPath(p, y)'
    BY <1>3, <2>2, <2>3 DEF HoldsPath
  <2>5. StillOffered(y)'
    BY <1>3 DEF StillOffered
  <2>6. DealOK(deal[p])' /\ HoldsPath(p, deal[p])' /\ StillOffered(deal[p])'
    BY <1>3, <1>4, <2>4, <2>5
  <2>7. QED
    BY <2>6 DEF CallerOK
<1>8. ASSUME NEW q \in Callers, q # p
      PROVE CallerOK(q)'
  BY <1>4, <1>5, <1>8, OtherKeeps
<1>9. QED
  BY <1>6, <1>7, <1>8 DEF MarketIInv

LEMMA ExecuteKeeps ==
  ASSUME MarketIInv, NEW p \in Callers, Execute(p)
  PROVE MarketIInv'
<1>1. PICK x : x = deal[p]
  OBVIOUS
<1>2. x \in Deals /\ DealOK(x) /\ HoldsPath(p, x) /\ StillOffered(x)
  BY <1>1 DEF MarketIInv, TablesOK, CallerOK
<1>3. x # NoDeal /\ x.at < Len(Plan(x)) /\ x.at \in Nat
  BY <1>1, <1>2 DEF Execute, DealOK
<1>4. PICK s : s = Plan(x)[x.at + 1]
  OBVIOUS
<1>5. /\ s.ok
      /\ s.row # NoRow => held[s.row] \in {Nobody, p}
      /\ held' = IF s.row = NoRow THEN held ELSE [held EXCEPT ![s.row] = p]
      /\ listing' = listing /\ sale' = sale
  BY <1>1, <1>4 DEF Execute, NextStatement, offers
<1>6. PICK y : y = [x EXCEPT !.at = @ + 1]
  OBVIOUS
<1>7. deal' = [deal EXCEPT ![p] = y]
  BY <1>1, <1>6 DEF Execute
<1>8. /\ y \in Deals /\ y.op = x.op /\ y.me = x.me /\ y.you = x.you /\ y.id = x.id
      /\ y.at = x.at + 1
  BY <1>2, <1>3, <1>6 DEF Deals
<1>9. /\ deal' \in [Callers -> Deals] /\ deal'[p] = y
      /\ \A q \in Callers : q # p => deal'[q] = deal[q]
  BY <1>7, <1>8 DEF MarketIInv, TablesOK
<1>10. /\ held' \in [Rows -> Callers \cup {Nobody}]
       /\ \A r \in Rows : held'[r] = IF r = s.row THEN p ELSE held[r]
  BY <1>5, RowsAssumption DEF MarketIInv, TablesOK
<1>11. TablesOK'
  BY <1>5, <1>9, <1>10 DEF MarketIInv, TablesOK
<1>12. x.op # "none"
  BY <1>2, <1>3 DEF DealOK
<1>13. DealOK(y)
  BY <1>2, <1>3, <1>8, <1>12 DEF DealOK
<1>14. ASSUME x.op \in Working
       PROVE HoldsPath(p, y)'
  <2>1. PICK r : r = Path(x)
    OBVIOUS
  <2>2. /\ Len(r) \in Nat /\ Len(Plan(x)) = Len(r)
        /\ \A i \in 1..Len(r) : Plan(x)[i].row = r[i] /\ r[i] \in Rows \cup {NoRow}
    BY <1>2, <1>14, <2>1, PathOK
  <2>3. x.at + 1 \in 1..Len(r) /\ s.row = r[x.at + 1]
    BY <1>3, <1>4, <2>2
  <2>4. Path(y)' = r
    <3>1. PICK t, u : t = Seller(x) /\ u = Seller(y)'
      OBVIOUS
    <3>2. t = u
      BY <1>5, <1>8, <3>1 DEF Seller
    <3>3. RowPlan(y, t) = RowPlan(x, t)
      BY <1>8, SamePath
    <3>4. Path(y)' = RowPlan(y, u) /\ r = RowPlan(x, t)
      BY <2>1, <3>1 DEF Path
    <3>5. QED
      BY <3>2, <3>3, <3>4
  <2>5. /\ \A i \in 1..x.at : r[i] # NoRow => held[r[i]] = p
        /\ \A q \in Rows : held[q] = p => \E i \in 1..x.at : r[i] = q
    BY <1>2, <1>14, <2>1 DEF HoldsPath
  <2>6. \A i \in 1..y.at : r[i] # NoRow => held'[r[i]] = p
    <3>1. TAKE i \in 1..y.at
    <3>2. HAVE r[i] # NoRow
    <3>3. r[i] \in Rows
      BY <1>3, <1>8, <2>2, <2>3, <3>2
    <3>4. i = x.at + 1 \/ i \in 1..x.at
      BY <1>3, <1>8
    <3>5. QED
      BY <1>10, <2>3, <2>5, <3>2, <3>3, <3>4
  <2>7. \A q \in Rows : held'[q] = p => \E i \in 1..y.at : r[i] = q
    <3>1. TAKE q \in Rows
    <3>2. HAVE held'[q] = p
    <3>3. CASE q = s.row
      BY <1>3, <1>8, <2>3, <3>3
    <3>4. CASE q # s.row
      <4>1. PICK i \in 1..x.at : r[i] = q
        BY <1>10, <2>5, <3>2, <3>4
      <4>2. i \in 1..y.at
        BY <1>3, <1>8, <4>1
      <4>3. QED
        BY <4>1, <4>2
    <3>5. QED
      BY <3>3, <3>4
  <2>8. y.at <= Len(r) /\ y.op # "none"
    BY <1>3, <1>8, <1>12, <2>2
  <2>9. QED
    BY <2>4, <2>6, <2>7, <2>8 DEF HoldsPath
<1>15. HoldsPath(p, y)'
  BY <1>8, <1>12, <1>14 DEF HoldsPath
<1>16. StillOffered(y)'
  <2>1. ASSUME x.op \in OnListings \cup OnSales, x.at = 0
        PROVE StillOffered(x)' /\ StillOffered(y)'
    <3>1. Plan(x)[1].ok
      BY <1>4, <1>5, <2>1
    <3>2. /\ x.op \in OnListings => listing[x.id].state = "active"
          /\ x.op \in OnSales => sale[x.id].state # "none"
          /\ x.op = "buy" => listing[x.id].seller # x.me
          /\ x.op \in {"purchase", "trade"} => sale[x.id].seller # x.me
      BY <1>2, <2>1, <3>1, FirstCheck DEF MarketIInv
    <3>3. QED
      BY <1>5, <1>8, <3>2 DEF StillOffered
  <2>2. CASE x.at >= 1
    BY <1>2, <1>5, <1>8, <2>2 DEF StillOffered, OnListings, OnSales
  <2>3. CASE x.op \notin OnListings \cup OnSales
    BY <1>8, <2>3 DEF StillOffered, OnListings, OnSales
  <2>4. QED
    BY <1>3, <2>1, <2>2, <2>3
<1>17. CallerOK(p)'
  <2>1. DealOK(deal[p])' /\ HoldsPath(p, deal[p])' /\ StillOffered(deal[p])'
    BY <1>9, <1>13, <1>15, <1>16
  <2>2. QED
    BY <2>1 DEF CallerOK
<1>18. ASSUME NEW q \in Callers, q # p
       PROVE CallerOK(q)'
  <2>1. \A r \in Rows : held'[r] = q <=> held[r] = q
    <3>1. q # Nobody
      BY ActorsAssumption
    <3>2. \A r \in Rows : r = s.row => held[r] \in {Nobody, p}
      BY <1>5, RowsAssumption
    <3>3. QED
      BY <1>10, <1>18, <3>1, <3>2
  <2>2. QED
    BY <1>5, <1>9, <1>18, <2>1, OtherKeeps
<1>19. QED
  BY <1>11, <1>17, <1>18 DEF MarketIInv

\* An operation that puts up, sells or takes back a listing.
LEMMA ListingGuarded ==
  ASSUME MarketIInv, NEW p \in Callers,
         CreateListing(p) \/ PurchaseListing(p) \/ CancelListing(p)
  PROVE End(p) /\ OffersGuarded(p)
<1>1. sale' = sale /\ sale' \in [Sales -> Offered]
  BY DEF CreateListing, PurchaseListing, CancelListing, MarketIInv, TablesOK
<1>2. ASSUME NEW l \in Listings, NEW y \in Listed, listing' = [listing EXCEPT ![l] = y], End(p),
             listing[l].state = "none"
                 \/ (deal[p].op \in OnListings /\ deal[p].at >= 1 /\ l = deal[p].id)
      PROVE End(p) /\ OffersGuarded(p)
  <2>1. /\ listing' \in [Listings -> Listed]
        /\ \A k \in Listings : listing'[k] = IF k = l THEN y ELSE listing[k]
    BY <1>2 DEF MarketIInv, TablesOK
  <2>2. \A k \in Listings : listing'[k] = listing[k] \/ listing[k].state = "none"
            \/ (deal[p].op \in OnListings /\ deal[p].at >= 1 /\ k = deal[p].id)
    BY <1>2, <2>1
  <2>3. QED
    BY <1>1, <1>2, <2>1, <2>2 DEF OffersGuarded
<1>3. CASE CreateListing(p)
  <2>1. Commits(p, {"list"})
    BY <1>3 DEF CreateListing
  <2>2. deal[p].op = "list"
    BY <2>1 DEF Commits
  <2>3. End(p) /\ deal[p].me \in Traders /\ deal[p].item \in Goods
    BY <2>1, <2>2, CommitsLocked DEF Working, Solitary
  <2>4. PICK l \in Listings :
           /\ listing[l].state = "none"
           /\ listing' = [listing EXCEPT ![l] =
                  [state |-> "active", seller |-> deal[p].me, item |-> deal[p].item]]
    BY <1>3 DEF CreateListing
  <2>5. [state |-> "active", seller |-> deal[p].me, item |-> deal[p].item] \in Listed
    BY <2>3 DEF Listed
  <2>6. QED
    BY <1>2, <2>3, <2>4, <2>5
<1>4. ASSUME NEW ops, Commits(p, ops), ops \subseteq OnListings, NEW s \in {"sold", "cancelled"},
             CloseListing(deal[p].id, s)
      PROVE End(p) /\ OffersGuarded(p)
  <2>1. /\ End(p) /\ deal[p].op \in OnListings /\ deal[p].at >= 1 /\ deal[p].id \in Listings
    <3>1. deal[p].op \in OnListings
      BY <1>4 DEF Commits
    <3>2. QED
      BY <1>4, <3>1, CommitsLocked
  <2>2. PICK x : x = listing[deal[p].id]
    OBVIOUS
  <2>3. PICK y : y = [x EXCEPT !.state = s]
    OBVIOUS
  <2>4. x \in Listed
    BY <2>1, <2>2 DEF MarketIInv, TablesOK
  <2>5. y \in Listed
    BY <1>4, <2>3, <2>4 DEF Listed
  <2>6. listing' = [listing EXCEPT ![deal[p].id] = y]
    BY <1>4, <2>2, <2>3 DEF CloseListing
  <2>7. QED
    BY <1>2, <2>1, <2>5, <2>6
<1>5. CASE PurchaseListing(p)
  <2>1. Commits(p, {"buy"}) /\ CloseListing(deal[p].id, "sold")
    BY <1>5 DEF PurchaseListing
  <2>2. {"buy"} \subseteq OnListings
    BY DEF OnListings
  <2>3. QED
    BY <1>4, <2>1, <2>2
<1>6. CASE CancelListing(p)
  <2>1. Commits(p, {"cancel"}) /\ CloseListing(deal[p].id, "cancelled")
    BY <1>6 DEF CancelListing
  <2>2. {"cancel"} \subseteq OnListings
    BY DEF OnListings
  <2>3. QED
    BY <1>4, <2>1, <2>2
<1>7. QED
  BY <1>3, <1>5, <1>6

\* An operation that puts up, sells, trades or takes back a sale.
LEMMA SaleGuarded ==
  ASSUME MarketIInv, NEW p \in Callers,
         ListSale(p) \/ WithdrawListing(p) \/ BuyItem(p) \/ TradeItem(p)
  PROVE End(p) /\ OffersGuarded(p)
<1>1. listing' = listing /\ listing' \in [Listings -> Listed]
  BY DEF ListSale, WithdrawListing, BuyItem, TradeItem, MarketIInv, TablesOK
<1>2. ASSUME NEW s \in Sales, NEW y \in Offered, sale' = [sale EXCEPT ![s] = y], End(p),
             sale[s].state = "none"
                 \/ (deal[p].op \in OnSales /\ deal[p].at >= 1 /\ s = deal[p].id)
      PROVE End(p) /\ OffersGuarded(p)
  <2>1. /\ sale' \in [Sales -> Offered]
        /\ \A k \in Sales : sale'[k] = IF k = s THEN y ELSE sale[k]
    BY <1>2 DEF MarketIInv, TablesOK
  <2>2. \A k \in Sales : sale'[k] = sale[k] \/ sale[k].state = "none"
            \/ (deal[p].op \in OnSales /\ deal[p].at >= 1 /\ k = deal[p].id)
    BY <1>2, <2>1
  <2>3. QED
    BY <1>1, <1>2, <2>1, <2>2 DEF OffersGuarded
<1>3. CASE ListSale(p)
  <2>1. Commits(p, {"offer", "barter"})
    BY <1>3 DEF ListSale
  <2>2. deal[p].op \in {"offer", "barter"}
    BY <2>1 DEF Commits
  <2>3. End(p) /\ deal[p].me \in Traders /\ deal[p].item \in Goods
    BY <2>1, <2>2, CommitsLocked DEF Working, Solitary
  <2>4. PICK s \in Sales, wish \in Goods :
           /\ sale[s].state = "none"
           /\ sale' = [sale EXCEPT ![s] =
                  [state |-> IF deal[p].op = "offer" THEN "gold" ELSE "barter",
                   seller |-> deal[p].me, item |-> deal[p].item, wish |-> wish]]
    BY <1>3 DEF ListSale
  <2>5. [state |-> IF deal[p].op = "offer" THEN "gold" ELSE "barter",
         seller |-> deal[p].me, item |-> deal[p].item, wish |-> wish] \in Offered
    BY <2>3 DEF Offered
  <2>6. QED
    BY <1>2, <2>3, <2>4, <2>5
<1>4. ASSUME NEW ops, Commits(p, ops), ops \subseteq OnSales, DeleteSale(deal[p].id)
      PROVE End(p) /\ OffersGuarded(p)
  <2>1. /\ End(p) /\ deal[p].op \in OnSales /\ deal[p].at >= 1 /\ deal[p].id \in Sales
    <3>1. deal[p].op \in OnSales
      BY <1>4 DEF Commits
    <3>2. QED
      BY <1>4, <3>1, CommitsLocked
  <2>2. NoSale \in Offered
    BY MarketAssumption DEF NoSale, Offered
  <2>3. sale' = [sale EXCEPT ![deal[p].id] = NoSale]
    BY <1>4 DEF DeleteSale
  <2>4. QED
    BY <1>2, <2>1, <2>2, <2>3
<1>5. CASE WithdrawListing(p)
  <2>1. Commits(p, {"withdraw"}) /\ DeleteSale(deal[p].id)
    BY <1>5 DEF WithdrawListing
  <2>2. {"withdraw"} \subseteq OnSales
    BY DEF OnSales
  <2>3. QED
    BY <1>4, <2>1, <2>2
<1>6. CASE BuyItem(p)
  <2>1. Commits(p, {"purchase"}) /\ DeleteSale(deal[p].id)
    BY <1>6 DEF BuyItem
  <2>2. {"purchase"} \subseteq OnSales
    BY DEF OnSales
  <2>3. QED
    BY <1>4, <2>1, <2>2
<1>7. CASE TradeItem(p)
  <2>1. Commits(p, {"trade"}) /\ DeleteSale(deal[p].id)
    BY <1>7 DEF TradeItem
  <2>2. {"trade"} \subseteq OnSales
    BY DEF OnSales
  <2>3. QED
    BY <1>4, <2>1, <2>2
<1>8. QED
  BY <1>3, <1>5, <1>6, <1>7

LEMMA NextKeeps ==
  ASSUME MarketIInv, [MarketNext]_marketVars
  PROVE MarketIInv'
<1>1. ASSUME UNCHANGED marketVars
      PROVE MarketIInv'
  <2>1. held' = held /\ deal' = deal /\ listing' = listing /\ sale' = sale
    BY <1>1 DEF marketVars, offers
  <2>2. TablesOK'
    BY <2>1 DEF MarketIInv, TablesOK
  <2>3. \A q \in Callers : CallerOK(q)'
    BY <2>1, OtherKeeps
  <2>4. QED
    BY <2>2, <2>3 DEF MarketIInv
<1>2. ASSUME NEW p \in Callers,
             \/ Fail(p) \/ TransferGold(p) \/ CalculateDeposit(p) \/ CalculateWithdrawal(p)
             \/ FromInventory(p) \/ WithdrawItem(p) \/ SendAuctionItem(p) \/ SendGem(p)
             \/ BuildStore(p) \/ PurchaseTakarakujiTicket(p) \/ DrawTakarakuji(p)
      PROVE MarketIInv'
  <2>1. End(p) /\ listing' = listing /\ sale' = sale
    BY <1>2 DEF Fail, TransferGold, CalculateDeposit, CalculateWithdrawal, FromInventory,
         WithdrawItem, SendAuctionItem, SendGem, BuildStore, PurchaseTakarakujiTicket,
         DrawTakarakuji, Commits, offers
  <2>2. QED
    BY <2>1, OffersUnchanged, EndKeeps
<1>3. QED
  BY <1>1, <1>2, BeginKeeps, ExecuteKeeps, ListingGuarded, SaleGuarded, EndKeeps DEF MarketNext

LEMMA InitHolds == MarketInit => MarketIInv
<1>1. SUFFICES ASSUME MarketInit
               PROVE MarketIInv
  OBVIOUS
<1>2. NoDeal \in Deals
  BY MarketAssumption DEF NoDeal, Deals
<1>3. deal \in [Callers -> Deals] /\ held \in [Rows -> Callers \cup {Nobody}]
  BY <1>1, <1>2 DEF MarketInit
<1>4. listing \in [Listings -> Listed] /\ sale \in [Sales -> Offered]
  BY <1>1, StartsAssumption DEF MarketInit
<1>5. ASSUME NEW p \in Callers
      PROVE CallerOK(p)
  <2>1. NoDeal.op = "none" /\ NoDeal.at = 0
    BY DEF NoDeal
  <2>2. "none" \notin Working \cup OnListings \cup OnSales \cup Transfers
    BY DEF Working, Transfers, OnListings, OnSales, Solitary
  <2>3. DealOK(NoDeal)
    BY <2>1, <2>2 DEF DealOK
  <2>4. p # Nobody
    BY ActorsAssumption
  <2>5. HoldsPath(p, NoDeal)
    BY <1>1, <2>1, <2>2, <2>4 DEF HoldsPath, MarketInit
  <2>6. StillOffered(NoDeal)
    BY <2>1, <2>2 DEF StillOffered
  <2>7. deal[p] = NoDeal
    BY <1>1 DEF MarketInit
  <2>8. QED
    BY <2>3, <2>5, <2>6, <2>7 DEF CallerOK
<1>6. QED
  BY <1>3, <1>4, <1>5 DEF MarketIInv, TablesOK

-----------------------------------------------------------------------------
(* Who waits for whom                                                      *)

\* A transfer that waits has passed the rows before the one it waits for.
LEMMA Waiting ==
  ASSUME MarketIInv, NEW p \in Callers, deal[p].op # "draw", NEW b \in Blockers(p),
         NEW x, x = deal[p], NEW r, r = NextStatement(p).row
  PROVE /\ r \in Rows /\ held[r] = b /\ b # p
        /\ x.op \in Working /\ x.at \in Nat /\ Len(Path(x)) \in Nat
        /\ x.at + 1 \in 1..Len(Path(x)) /\ Path(x)[x.at + 1] = r
<1>1. DealOK(x) /\ x # NoDeal /\ x.at < Len(Plan(x)) /\ r # NoRow /\ held[r] = b /\ b # p
  BY DEF MarketIInv, CallerOK, Blockers
<1>2. x.op \in Working /\ x.at \in Nat
  BY <1>1 DEF DealOK
<1>3. /\ Len(Path(x)) \in Nat /\ Len(Plan(x)) = Len(Path(x))
      /\ \A i \in 1..Len(Path(x)) :
            Plan(x)[i].row = Path(x)[i] /\ Path(x)[i] \in Rows \cup {NoRow}
  BY <1>1, <1>2, PathOK
<1>4. x.at + 1 \in 1..Len(Path(x))
  BY <1>1, <1>2, <1>3
<1>5. Path(x)[x.at + 1] = r
  BY <1>3, <1>4 DEF NextStatement
<1>6. QED
  BY <1>1, <1>2, <1>3, <1>4, <1>5

\* What a transfer holds is a row of its path that it has passed.
LEMMA Passed ==
  ASSUME MarketIInv, NEW p \in Callers, deal[p].op # "draw", NEW r \in Rows, held[r] = p,
         NEW x, x = deal[p]
  PROVE /\ Hierarchical(Path(x)) /\ Len(Path(x)) \in Nat /\ x.at \in Nat /\ x.at <= Len(Path(x))
        /\ \E i \in 1..x.at : Path(x)[i] = r
        /\ \A i \in 1..x.at : Path(x)[i] # NoRow => held[Path(x)[i]] = p
<1>1. DealOK(x) /\ HoldsPath(p, x)
  BY DEF MarketIInv, CallerOK
<1>2. x.op \in Working
  BY <1>1 DEF DealOK, HoldsPath
<1>3. QED
  BY <1>1, <1>2, PathOK DEF HoldsPath, DealOK

\* A transfer that holds a row and waits for another waits for a character: a
\* shared row is the first, and the owner of what it waits for is locked.
LEMMA WaitsForCharacter ==
  ASSUME MarketIInv, NEW p \in Callers, deal[p].op # "draw",
         NEW b \in Callers, deal[b].op # "draw", b \in Blockers(p), NEW q \in Rows, held[q] = p
  PROVE \E c \in Traders : NextStatement(p).row = Character(c)
<1>1. PICK x, y : x = deal[p] /\ y = deal[b]
  OBVIOUS
<1>2. PICK r : r = NextStatement(p).row
  OBVIOUS
<1>3. /\ r \in Rows /\ held[r] = b /\ b # p
      /\ x.at + 1 \in 1..Len(Path(x)) /\ Path(x)[x.at + 1] = r
  BY <1>1, <1>2, Waiting
<1>4. /\ Hierarchical(Path(x)) /\ x.at \in Nat /\ Len(Path(x)) \in Nat
      /\ \E i \in 1..x.at : Path(x)[i] = q
      /\ \A i \in 1..x.at : Path(x)[i] # NoRow => held[Path(x)[i]] = p
  BY <1>1, Passed
<1>5. /\ Hierarchical(Path(y)) /\ y.at \in Nat /\ Len(Path(y)) \in Nat /\ y.at <= Len(Path(y))
      /\ \E i \in 1..y.at : Path(y)[i] = r
      /\ \A i \in 1..y.at : Path(y)[i] # NoRow => held[Path(y)[i]] = b
  BY <1>1, <1>3, Passed
<1>6. r \notin SharedRows
  BY <1>3, <1>4 DEF Hierarchical
<1>7. ASSUME NEW t \in {"bag", "depot", "box"}, NEW c \in Traders, r = <<t, c>>
      PROVE FALSE
  <2>1. Character(c) # NoRow
    BY RowsAssumption DEF Rows, Character
  <2>2. held[Character(c)] = p
    <3>1. PICK j \in 1..Len(Path(x)) : j < x.at + 1 /\ Path(x)[j] = Character(c)
      BY <1>3, <1>4, <1>7 DEF Hierarchical
    <3>2. j \in 1..x.at
      BY <1>4, <3>1
    <3>3. QED
      BY <1>4, <2>1, <3>1, <3>2
  <2>3. held[Character(c)] = b
    <3>1. PICK i \in 1..y.at : Path(y)[i] = r
      BY <1>5
    <3>2. i \in 1..Len(Path(y))
      BY <1>5, <3>1
    <3>3. PICK j \in 1..Len(Path(y)) : j < i /\ Path(y)[j] = Character(c)
      BY <1>5, <1>7, <3>1, <3>2 DEF Hierarchical
    <3>4. j \in 1..y.at
      BY <1>5, <3>1, <3>3
    <3>5. QED
      BY <1>5, <2>1, <3>3, <3>4
  <2>4. QED
    BY <1>3, <2>2, <2>3
<1>8. QED
  BY <1>2, <1>3, <1>6, <1>7 DEF Rows, SharedRows, Character

\* Whoever holds a character waits for a higher one only.
LEMMA WaitsForHigher ==
  ASSUME MarketIInv, NEW p \in Callers, deal[p].op # "draw", NEW b \in Blockers(p),
         NEW c \in Traders, NEW d \in Traders,
         held[Character(c)] = p, NextStatement(p).row = Character(d)
  PROVE IdOrder[c] < IdOrder[d]
<1>1. PICK x : x = deal[p]
  OBVIOUS
<1>2. Character(c) \in Rows
  BY DEF Rows, Character
<1>3. /\ Hierarchical(Path(x)) /\ x.at \in Nat /\ Len(Path(x)) \in Nat /\ x.at <= Len(Path(x))
      /\ \E i \in 1..x.at : Path(x)[i] = Character(c)
  BY <1>1, <1>2, Passed
<1>4. x.at + 1 \in 1..Len(Path(x)) /\ Path(x)[x.at + 1] = Character(d)
  BY <1>1, Waiting
<1>5. PICK i \in 1..x.at : Path(x)[i] = Character(c)
  BY <1>3
<1>6. i \in 1..Len(Path(x)) /\ i < x.at + 1
  BY <1>3, <1>5
<1>7. QED
  BY <1>3, <1>4, <1>5, <1>6 DEF Hierarchical

LEMMA NoCircle == MarketIInv => NoLockCycle
<1>1. SUFFICES ASSUME MarketIInv, NEW S \in SUBSET {p \in Callers : deal[p].op # "draw"}, S # {},
                      \A p \in S : Blockers(p) \cap S # {}
               PROVE FALSE
  BY DEF NoLockCycle, LockCycleIn
<1> DEFINE B == {b \in S : \E p \in S : b \in Blockers(p)}
<1> DEFINE C == {c \in Traders : \E b \in B : NextStatement(b).row = Character(c)}
<1>2. \A p \in S : \E b \in B : b \in Blockers(p)
  BY <1>1
<1>3. ASSUME NEW b \in B
      PROVE \E c \in C : NextStatement(b).row = Character(c)
  <2>1. PICK p \in S : b \in Blockers(p)
    OBVIOUS
  <2>2. PICK a \in B : a \in Blockers(b)
    BY <1>2
  <2>3. PICK q, x : q = NextStatement(p).row /\ x = deal[p]
    OBVIOUS
  <2>4. q \in Rows /\ held[q] = b
    BY <1>1, <2>1, <2>3, Waiting
  <2>5. \E c \in Traders : NextStatement(b).row = Character(c)
    BY <1>1, <2>2, <2>4, WaitsForCharacter
  <2>6. QED
    BY <2>5
<1>4. C # {} /\ C \in SUBSET Traders
  BY <1>1, <1>2, <1>3
<1>5. PICK c \in C : \A d \in C : ~(IdOrder[c] < IdOrder[d])
  BY <1>4, HighestTrader
<1>6. PICK b \in B : NextStatement(b).row = Character(c)
  OBVIOUS
<1>7. PICK a \in B : a \in Blockers(b)
  BY <1>2
<1>8. held[Character(c)] = a
  <2>1. PICK r, x : r = NextStatement(b).row /\ x = deal[b]
    OBVIOUS
  <2>2. held[r] = a
    BY <1>1, <1>7, <2>1, Waiting
  <2>3. QED
    BY <1>6, <2>1, <2>2
<1>9. PICK d \in C : NextStatement(a).row = Character(d)
  BY <1>3
<1>10. PICK e \in B : e \in Blockers(a)
  BY <1>2
<1>11. IdOrder[c] < IdOrder[d]
  BY <1>1, <1>8, <1>9, <1>10, WaitsForHigher
<1>12. QED
  BY <1>5, <1>11

-----------------------------------------------------------------------------
\* Transfers never wait for each other in a circle, however many characters,
\* requests, listings and sales there are: what a request locks, it locks in one
\* order.  The draw of the lottery, which does not, is excepted.  (The lock hierarchy)
THEOREM NoCircularWait == MarketSpec => []NoLockCycle
<1>1. MarketIInv /\ [MarketNext]_marketVars => MarketIInv'
  BY NextKeeps
<1>2. QED
  BY <1>1, InitHolds, NoCircle, PTL DEF MarketSpec

-----------------------------------------------------------------------------
(* What has been counted and checked                                       *)

\* A count or a check that x has passed is true still: the rows that it holds
\* keep those away who could change that.
Checked(x) ==
    /\ x.op = "list" /\ x.at >= 2 => Cardinality(ActiveListings) < ServerMaxListings
    /\ x.op = "list" /\ x.at >= 3 => Cardinality(ListingsOf(x.me)) < MaxListingsPerCharacter
    /\ x.op \in {"offer", "barter"} /\ x.at >= 3 => Cardinality(SalesOf(x.me)) < MaxSales
    /\ x.op \in {"buy", "purchase"} /\ (\E i \in 1..x.at : Path(x)[i] = NoRow) =>
          gold[x.me] >= Price
    /\ x.op = "build" /\ x.at >= 1 => gold[x.me] >= StorePrice
    /\ x.op = "ticket" /\ x.at >= 2 => Cardinality(tickets) < MaxTickets /\ x.me \notin tickets
    /\ x.op = "draw" /\ x.at >= 1 => x.winners \subseteq tickets

LimitsIInv == MarketTypeOK /\ PlacesHold /\ \A p \in Callers : Checked(deal[p])

\* The paths of those who count, and lock nobody but themselves.
LEMMA CountingPaths ==
  ASSUME NEW x, x.me \in Traders, NEW s, NEW c, NEW d, c = Character(x.me), d = Depot(x.me)
  PROVE /\ x.op = "list" => RowPlan(x, s) = <<<<"market">>, NoRow, c, d>>
        /\ x.op = "ticket" => RowPlan(x, s) = <<<<"round">>, NoRow, c>>
        /\ x.op \in {"offer", "barter"} => RowPlan(x, s) = <<c, d, NoRow>>
        /\ x.op = "build" => RowPlan(x, s) = <<c, NoRow>>
<1>1. x.op \in {"list", "ticket", "offer", "barter", "build"} => Characters(x, s) = <<c>>
  <2>1. x.op \in {"list", "ticket", "offer", "barter", "build"} => Other(x, s) = Nobody
    BY DEF Other, Transfers
  <2>2. QED
    BY <2>1, MarketAssumption DEF Characters, Sorted, Character
<1>2. CASE x.op = "list"
  <2>1. PICK m, n : m = <<"market">> /\ n = NoRow
    OBVIOUS
  <2>2. Shared(x) = <<m, n>> /\ Rest(x, s) = <<d>>
    BY <1>2, <2>1 DEF Shared, Rest, OnListings, OnSales
  <2>3. <<m, n, c, d>> = <<m, n>> \o <<c>> \o <<d>>
    BY SplitFour
  <2>4. QED
    BY <1>1, <1>2, <2>1, <2>2, <2>3 DEF RowPlan
<1>3. CASE x.op = "ticket"
  <2>1. PICK m, n : m = <<"round">> /\ n = NoRow
    OBVIOUS
  <2>2. Shared(x) = <<m, n>> /\ Rest(x, s) = <<>>
    BY <1>3, <2>1 DEF Shared, Rest, OnListings, OnSales
  <2>3. <<m, n, c>> = <<m, n>> \o <<c>> \o <<>>
    BY SplitThree
  <2>4. QED
    BY <1>1, <1>3, <2>1, <2>2, <2>3 DEF RowPlan
<1>4. CASE x.op \in {"offer", "barter"}
  <2>1. Shared(x) = <<>> /\ Rest(x, s) = <<d, NoRow>>
    BY <1>4 DEF Shared, Rest, OnListings, OnSales
  <2>2. <<c, d, NoRow>> = <<>> \o <<c>> \o <<d, NoRow>>
    BY SplitThree
  <2>3. QED
    BY <1>1, <1>4, <2>1, <2>2 DEF RowPlan
<1>5. CASE x.op = "build"
  <2>1. Shared(x) = <<>> /\ Rest(x, s) = <<NoRow>>
    BY <1>5 DEF Shared, Rest, OnListings, OnSales
  <2>2. <<c, NoRow>> = <<>> \o <<c>> \o <<NoRow>>
    BY SplitTwo
  <2>3. QED
    BY <1>1, <1>5, <2>1, <2>2 DEF RowPlan
<1>6. QED
  BY <1>2, <1>3, <1>4, <1>5

\* Everybody locks themselves, and a buyer does so before looking at the wallet.
LEMMA LocksItself ==
  ASSUME NEW x, DealOK(x), x.op \in Working, NEW s, NEW r, r = RowPlan(x, s), NEW c, c = Character(x.me)
  PROVE /\ \E i \in 1..Len(r) : r[i] = c
        /\ x.op \in {"buy", "purchase"} =>
              \A i \in 1..Len(r) : r[i] = NoRow => \E j \in 1..Len(r) : j < i /\ r[j] = c
<1>1. PICK a, b, o : a = Shared(x) /\ b = Characters(x, s) /\ o = Rest(x, s)
  OBVIOUS
<1>2. x.me \in Traders
  BY DEF DealOK
<1>3. OfTable(b, "character", {x.me, Other(x, s)} \cap Traders)
  BY <1>1, <1>2, SortedRows DEF Characters
<1>4. a \in Seq(SharedRows \cup {NoRow})
  BY <1>1, SharedFirst
<1>5. o \in Seq(OwnedRows \cup {NoRow})
  BY <1>1, RestOwned DEF OwnedBy
<1>6. b \in Seq({"character"} \X Traders) /\ \E k \in 1..Len(b) : b[k] = c
  BY <1>2, <1>3 DEF OfTable, Character
<1>7. PICK R : R = SharedRows \cup OwnedRows \cup ({"character"} \X Traders) \cup {NoRow}
  OBVIOUS
<1>8. a \in Seq(R) /\ b \in Seq(R) /\ o \in Seq(R)
  BY <1>4, <1>5, <1>6, <1>7
<1>9. PICK l \in Nat, m \in Nat, n \in Nat : l = Len(a) /\ m = Len(b) /\ n = Len(o)
  BY <1>8
<1>10. PICK q : q = a \o b
  OBVIOUS
<1>11. q \in Seq(R) /\ Len(q) = l + m /\ \A i \in 1..m : q[l + i] = b[i]
  BY <1>8, <1>9, <1>10, ConcatRanges
<1>12. \A i \in 1..l : q[i] = a[i]
  BY <1>8, <1>9, <1>10, ConcatRanges
<1>13. Len(q \o o) = (l + m) + n /\ \A i \in 1..(l + m) : (q \o o)[i] = q[i]
  <2>1. PICK g : g = Len(q) /\ g = l + m
    BY <1>11
  <2>2. q \in Seq(R) /\ o \in Seq(R) /\ n = Len(o) /\ g = Len(q)
    BY <1>8, <1>9, <1>11, <2>1
  <2>3. Len(q \o o) = g + n /\ \A i \in 1..g : (q \o o)[i] = q[i]
    BY <2>2, ConcatRanges
  <2>4. QED
    BY <2>1, <2>3
<1>14. r = q \o o
  BY <1>1, <1>10 DEF RowPlan
<1>15. Len(r) = l + m + n /\ \A i \in 1..(l + m) : r[i] = q[i]
  BY <1>9, <1>13, <1>14
<1>16. PICK k \in 1..m : b[k] = c
  BY <1>6, <1>9
<1>17. l + k \in 1..Len(r) /\ l + k \in 1..(l + m) /\ r[l + k] = c
  BY <1>9, <1>11, <1>15, <1>16
<1>18. ASSUME x.op \in {"buy", "purchase"}, NEW i \in 1..Len(r), r[i] = NoRow
       PROVE \E j \in 1..Len(r) : j < i /\ r[j] = c
  <2>1. PICK f \in SharedRows : a = <<f>>
    <3>1. x.op \in OnListings => x.id \in Listings
      BY DEF DealOK
    <3>2. x.op \in OnSales => x.id \in Sales
      BY DEF DealOK
    <3>3. QED
      BY <1>1, <1>18, <3>1, <3>2 DEF Shared, OnListings, OnSales, SharedRows
  <2>2. l = 1 /\ a[1] = f
    BY <1>9, <2>1
  <2>3. f # NoRow
    BY <2>1, RowsAssumption DEF SharedRows, Rows
  <2>4. i # 1
    BY <1>9, <1>12, <1>15, <1>18, <2>2, <2>3
  <2>5. ASSUME i <= l + m
        PROVE FALSE
    <3>1. i - 1 \in 1..m /\ i = l + (i - 1)
      BY <1>9, <2>2, <2>4, <2>5
    <3>2. r[i] = b[i - 1]
      BY <1>11, <1>15, <2>5, <3>1
    <3>3. b[i - 1] \in {"character"} \X Traders
      BY <1>6, <1>9, <3>1
    <3>4. QED
      BY <1>18, <3>2, <3>3, RowsAssumption DEF Rows
  <2>6. l + k < i
    BY <1>9, <1>17, <2>5
  <2>7. QED
    BY <1>17, <2>6
<1>19. QED
  BY <1>17, <1>18

\* What a transaction holds when it has counted or checked, and when it commits.
LEMMA HoldsForChecks ==
  ASSUME MarketIInv, NEW p \in Callers, NEW x, x = deal[p], NEW c, c = Character(x.me)
  PROVE /\ x.op = "list" /\ x.at >= 1 => held[<<"market">>] = p
        /\ x.op = "ticket" /\ x.at >= 1 => held[<<"round">>] = p
        /\ x.op = "list" /\ x.at >= 3 => held[c] = p
        /\ x.op \in {"offer", "barter", "build"} /\ x.at >= 1 => held[c] = p
        /\ x.op \in {"buy", "purchase"} /\ (\E i \in 1..x.at : Path(x)[i] = NoRow) => held[c] = p
        /\ x.op \in Working /\ x.at = Len(Plan(x)) => held[c] = p
<1>1. DealOK(x) /\ HoldsPath(p, x)
  BY DEF MarketIInv, CallerOK
<1>2. SUFFICES ASSUME x.op \in Working
               PROVE /\ x.op = "list" /\ x.at >= 1 => held[<<"market">>] = p
                     /\ x.op = "ticket" /\ x.at >= 1 => held[<<"round">>] = p
                     /\ x.op = "list" /\ x.at >= 3 => held[c] = p
                     /\ x.op \in {"offer", "barter", "build"} /\ x.at >= 1 => held[c] = p
                     /\ x.op \in {"buy", "purchase"} /\ (\E i \in 1..x.at : Path(x)[i] = NoRow) =>
                           held[c] = p
                     /\ x.at = Len(Plan(x)) => held[c] = p
  BY DEF Working, Solitary, OnListings, OnSales
<1>3. PICK s : s = Seller(x)
  OBVIOUS
<1>4. PICK r : r = Path(x) /\ r = RowPlan(x, s)
  BY <1>3 DEF Path
<1>5. x.me \in Traders /\ x.at \in Nat
  BY <1>1, <1>2 DEF DealOK
<1>6. Len(r) \in Nat /\ Len(Plan(x)) = Len(r)
  BY <1>1, <1>2, <1>4, PathOK
<1>7. x.at <= Len(r) /\ \A i \in 1..x.at : r[i] # NoRow => held[r[i]] = p
  BY <1>1, <1>2, <1>4 DEF HoldsPath
<1>8. c # NoRow /\ <<"market">> # NoRow /\ <<"round">> # NoRow
  BY <1>5, RowsAssumption DEF Rows, Character
<1>9. ASSUME NEW row, row # NoRow, NEW i \in 1..x.at, r[i] = row
      PROVE held[row] = p
  BY <1>7, <1>9
<1>10. PICK d, n : d = Depot(x.me) /\ n = NoRow
  OBVIOUS
<1>11. CASE x.op = "list"
  <2>1. r = <<<<"market">>, n, c, d>>
    BY <1>4, <1>5, <1>10, <1>11, CountingPaths
  <2>2. r[1] = <<"market">> /\ r[3] = c /\ Len(r) = 4
    BY <2>1
  <2>3. (x.at >= 1 => 1 \in 1..x.at) /\ (x.at >= 3 => 3 \in 1..x.at)
    BY <1>5
  <2>4. QED
    BY <1>6, <1>8, <1>9, <1>11, <2>2, <2>3
<1>12. CASE x.op = "ticket"
  <2>1. r = <<<<"round">>, n, c>>
    BY <1>4, <1>5, <1>10, <1>12, CountingPaths
  <2>2. r[1] = <<"round">> /\ r[3] = c /\ Len(r) = 3
    BY <2>1
  <2>3. (x.at >= 1 => 1 \in 1..x.at) /\ (x.at >= 3 => 3 \in 1..x.at)
    BY <1>5
  <2>4. QED
    BY <1>6, <1>8, <1>9, <1>12, <2>2, <2>3
<1>13. CASE x.op \in {"offer", "barter", "build"}
  <2>1. CASE x.op \in {"offer", "barter"}
    <3>1. r = <<c, d, n>>
      BY <1>4, <1>5, <1>10, <2>1, CountingPaths
    <3>2. r[1] = c /\ Len(r) = 3
      BY <3>1
    <3>3. x.at >= 1 => 1 \in 1..x.at
      BY <1>5
    <3>4. QED
      BY <1>6, <1>8, <1>9, <2>1, <3>2, <3>3
  <2>2. CASE x.op = "build"
    <3>1. r = <<c, n>>
      BY <1>4, <1>5, <1>10, <2>2, CountingPaths
    <3>2. r[1] = c /\ Len(r) = 2
      BY <3>1
    <3>3. x.at >= 1 => 1 \in 1..x.at
      BY <1>5
    <3>4. QED
      BY <1>6, <1>8, <1>9, <2>2, <3>2, <3>3
  <2>3. QED
    BY <1>13, <2>1, <2>2
<1>14. CASE x.op \notin {"list", "ticket", "offer", "barter", "build"}
  <2>1. x.at = Len(r) => held[c] = p
    <3>1. PICK i \in 1..Len(r) : r[i] = c
      BY <1>1, <1>2, <1>4, LocksItself
    <3>2. QED
      BY <1>8, <1>9, <3>1
  <2>2. ASSUME x.op \in {"buy", "purchase"}, NEW i \in 1..x.at, r[i] = NoRow
        PROVE held[c] = p
    <3>1. i \in 1..Len(r)
      BY <1>5, <1>6, <1>7
    <3>2. PICK j \in 1..Len(r) : j < i /\ r[j] = c
      BY <1>1, <1>2, <1>4, <2>2, <3>1, LocksItself
    <3>3. j \in 1..x.at
      BY <1>5, <1>6, <3>2
    <3>4. QED
      BY <1>8, <1>9, <3>2, <3>3
  <2>3. QED
    BY <1>4, <1>6, <1>14, <2>1, <2>2
<1>15. QED
  BY <1>11, <1>12, <1>13, <1>14

\* What a statement counts or checks.
LEMMA CheckPassed ==
  ASSUME NEW x, DealOK(x), x \in Deals, x.at < Len(Plan(x)),
         NEW s, s = Plan(x)[x.at + 1], s.ok
  PROVE /\ x.op = "list" /\ x.at = 1 => Cardinality(ActiveListings) < ServerMaxListings
        /\ x.op = "list" /\ x.at = 2 => Cardinality(ListingsOf(x.me)) < MaxListingsPerCharacter
        /\ x.op \in {"offer", "barter"} /\ x.at = 2 => Cardinality(SalesOf(x.me)) < MaxSales
        /\ x.op = "build" /\ x.at = 0 => gold[x.me] >= StorePrice
        /\ x.op = "ticket" /\ x.at = 1 => Cardinality(tickets) < MaxTickets /\ x.me \notin tickets
        /\ x.op = "draw" /\ x.at = 0 => x.winners \subseteq tickets
        /\ x.op \in {"buy", "purchase"} /\ s.row = NoRow => gold[x.me] >= Price
<1>1. CASE x.op = "list"
  <2>1. PICK a, b : /\ a = (Cardinality(ActiveListings) < ServerMaxListings)
                    /\ b = (Cardinality(ListingsOf(x.me)) < MaxListingsPerCharacter)
    OBVIOUS
  <2>2. PICK k, l, m, n : /\ k = Take(<<"market">>) /\ l = Look(a)
                          /\ m = TakeIf(Character(x.me), b) /\ n = Take(Depot(x.me))
    OBVIOUS
  <2>3. Plan(x) = <<k, l, m, n>>
    BY <1>1, <2>1, <2>2 DEF Plan, ListPlan
  <2>4. Plan(x)[2] = l /\ Plan(x)[3] = m
    BY <2>3
  <2>5. x.at = 1 => a
    BY <2>2, <2>4 DEF Look
  <2>6. x.at = 2 => b
    BY <2>2, <2>4 DEF TakeIf
  <2>7. QED
    BY <1>1, <2>1, <2>5, <2>6
<1>2. CASE x.op \in {"offer", "barter"}
  <2>1. PICK a : a = (store[x.me] = "open" /\ Cardinality(SalesOf(x.me)) < MaxSales)
    OBVIOUS
  <2>2. PICK k, l, m : k = Take(Character(x.me)) /\ l = Take(Depot(x.me)) /\ m = Look(a)
    OBVIOUS
  <2>3. Plan(x) = <<k, l, m>>
    BY <1>2, <2>1, <2>2 DEF Plan, OfferPlan
  <2>4. Plan(x)[3] = m
    BY <2>3
  <2>5. x.at = 2 => a
    BY <2>2, <2>4 DEF Look
  <2>6. QED
    BY <1>2, <2>1, <2>5
<1>3. CASE x.op = "build"
  <2>1. PICK a, b : /\ a = (gold[x.me] >= StorePrice /\ store[x.me] # "open")
                    /\ b = (Cardinality({c \in Traders : store[c] = "open"}) < MaxTownStores)
    OBVIOUS
  <2>2. PICK k, l : k = TakeIf(Character(x.me), a) /\ l = Look(b)
    OBVIOUS
  <2>3. Plan(x) = <<k, l>>
    BY <1>3, <2>1, <2>2 DEF Plan, BuildPlan
  <2>4. Plan(x)[1] = k
    BY <2>3
  <2>5. x.at = 0 => a
    BY <2>2, <2>4 DEF TakeIf
  <2>6. QED
    BY <1>3, <2>1, <2>5
<1>4. CASE x.op = "ticket"
  <2>1. PICK a : a = (Cardinality(tickets) < MaxTickets /\ x.me \notin tickets)
    OBVIOUS
  <2>2. PICK k, l, m : k = TakeIf(<<"round">>, won = {}) /\ l = Look(a) /\ m = Take(Character(x.me))
    OBVIOUS
  <2>3. Plan(x) = <<k, l, m>>
    BY <1>4, <2>1, <2>2 DEF Plan, TicketPlan
  <2>4. Plan(x)[2] = l
    BY <2>3
  <2>5. x.at = 1 => a
    BY <2>2, <2>4 DEF Look
  <2>6. QED
    BY <1>4, <2>1, <2>5
<1>5. CASE x.op = "draw"
  <2>1. PICK a : a = (won = {} /\ x.winners \subseteq tickets)
    OBVIOUS
  <2>2. PICK k : k = TakeIf(<<"round">>, a)
    OBVIOUS
  <2>3. PICK n \in Nat : n = 2 * Cardinality(x.winners)
    <3>1. IsFiniteSet(x.winners)
      BY MarketAssumption, FS_Subset DEF Deals
    <3>2. Cardinality(x.winners) \in Nat
      BY <3>1, FS_CardinalityType
    <3>3. QED
      BY <3>2
  <2>4. \E D : Plan(x) = <<k>> \o [i \in 1..n |-> D[i]]
    <3>1. PICK D : D = [i \in 1..n |->
                Take(IF i % 2 = 1 THEN Depot(Nth(x.winners, (i + 1) \div 2))
                     ELSE Character(Nth(x.winners, i \div 2)))]
      OBVIOUS
    <3>2. Plan(x) = <<k>> \o D
      BY <1>5, <2>1, <2>2, <2>3, <3>1 DEF Plan, DrawPlan
    <3>3. D = [i \in 1..n |-> D[i]]
      BY <3>1
    <3>4. QED
      BY <3>2, <3>3
  <2>5. PICK D : Plan(x) = <<k>> \o [i \in 1..n |-> D[i]]
    BY <2>4
  <2>6. PICK E, S : E = [i \in 1..n |-> D[i]] /\ S = {k} \cup {D[i] : i \in 1..n}
    OBVIOUS
  <2>7. E \in Seq(S) /\ <<k>> \in Seq(S) /\ Len(<<k>>) = 1 /\ <<k>>[1] = k
    BY <2>3, <2>6
  <2>8. \A i \in 1..1 : (<<k>> \o E)[i] = <<k>>[i]
    BY <2>7, ConcatRanges
  <2>9. Plan(x)[1] = k
    BY <2>5, <2>6, <2>7, <2>8
  <2>10. x.at = 0 => a
    BY <2>2, <2>9 DEF TakeIf
  <2>11. QED
    BY <1>5, <2>1, <2>10
<1>6. CASE x.op \in {"buy", "purchase"}
  <2>1. PICK g : g = (gold[x.me] >= Price)
    OBVIOUS
  <2>2. PICK n : n = Look(g)
    OBVIOUS
  <2> DEFINE Only(q) == /\ \E S : q \in Seq(S)
                        /\ \A i \in 1..Len(q) : q[i].row = NoRow => q[i] = n
  <2>3. ASSUME NEW q, NEW r, Only(q), Only(r)
        PROVE Only(q \o r)
    <3>1. PICK S1, S2 : q \in Seq(S1) /\ r \in Seq(S2)
      BY <2>3
    <3>2. PICK S : S = S1 \cup S2
      OBVIOUS
    <3>3. q \in Seq(S) /\ r \in Seq(S)
      BY <3>1, <3>2
    <3>4. PICK k \in Nat, l \in Nat : k = Len(q) /\ l = Len(r)
      BY <3>3
    <3>5. /\ q \o r \in Seq(S) /\ Len(q \o r) = k + l
          /\ \A i \in 1..(k + l) : (q \o r)[i] = IF i <= k THEN q[i] ELSE r[i - k]
      BY <3>3, <3>4, ConcatRanges
    <3>6. PICK u : u = q \o r
      OBVIOUS
    <3>7. \A i \in 1..Len(u) : u[i].row = NoRow => u[i] = n
      <4>1. TAKE i \in 1..Len(u)
      <4>2. CASE i <= k
        BY <2>3, <3>4, <3>5, <3>6, <4>2
      <4>3. CASE i > k
        <5>1. i - k \in 1..l /\ u[i] = r[i - k]
          BY <3>4, <3>5, <3>6, <4>3
        <5>2. QED
          BY <2>3, <3>4, <5>1
      <4>4. QED
        BY <3>4, <4>2, <4>3
    <3>8. QED
      BY <3>5, <3>6, <3>7
  <2>4. ASSUME NEW e, e.row = NoRow => e = n
        PROVE Only(<<e>>)
    <3>1. PICK u : u = <<e>>
      OBVIOUS
    <3>2. u \in Seq({e}) /\ Len(u) = 1 /\ u[1] = e
      BY <3>1
    <3>3. \E S : u \in Seq(S)
      BY <3>2
    <3>4. \A i \in 1..Len(u) : u[i].row = NoRow => u[i] = n
      BY <2>4, <3>2
    <3>5. QED
      BY <3>1, <3>3, <3>4
  <2>5. ASSUME NEW t \in {"character", "depot"}, NEW b
        PROVE Only(Ascending(t, {x.me, b} \cap Traders))
    <3>1. x.me \in Traders
      BY <1>6 DEF DealOK, Working, OnListings, OnSales
    <3>2. PICK A, r : A = Ascending(t, {x.me, b} \cap Traders) /\ r = Sorted(t, x.me, b)
      OBVIOUS
    <3>3. Locks(A, r)
      BY <3>1, <3>2, AscendingLocks
    <3>4. r \in Seq({t} \X Traders)
      BY <3>1, <3>2, SortedRows DEF OfTable
    <3>5. \A i \in 1..Len(A) : A[i].row \in {t} \X Traders
      BY <3>3, <3>4 DEF Locks
    <3>6. NoRow \notin {t} \X Traders
      BY RowsAssumption DEF Rows
    <3>7. \E S : A \in Seq(S)
      BY <3>3 DEF Locks
    <3>8. Only(A)
      BY <3>5, <3>6, <3>7
    <3>9. QED
      BY <3>2, <3>8
  <2> HIDE DEF Only
  <2>6. Only(<<n>>)
    BY <2>4
  <2>7. Only(Plan(x))
    <3>1. CASE x.op = "buy"
      <4>1. PICK c : c = listing[x.id].seller
        OBVIOUS
      <4>2. PICK a : a = (x.id \in ActiveListings /\ c # x.me)
        OBVIOUS
      <4>3. PICK m, d : m = TakeIf(<<"listing", x.id>>, a) /\ d = Take(Depot(x.me))
        OBVIOUS
      <4>4. PICK A : A = Ascending("character", {x.me, c} \cap Traders)
        OBVIOUS
      <4>5. Plan(x) = <<m>> \o A \o <<n, d>>
        BY <2>1, <2>2, <3>1, <4>1, <4>2, <4>3, <4>4 DEF Plan, BuyPlan
      <4>6. m.row # NoRow /\ d.row # NoRow
        <5>1. x.id \in Listings /\ x.me \in Traders
          BY <3>1 DEF DealOK, Working, OnListings
        <5>2. QED
          BY <4>3, <5>1, RowsAssumption DEF TakeIf, Take, Depot, Rows
      <4>7. Only(<<m>>) /\ Only(<<d>>)
        BY <2>4, <4>6
      <4>8. Only(<<n, d>>)
        <5>1. <<n, d>> = <<n>> \o <<d>>
          BY SplitTwo
        <5>2. QED
          BY <2>3, <2>6, <4>7, <5>1
      <4>9. Only(A)
        BY <2>5, <4>4
      <4>10. QED
        BY <2>3, <4>5, <4>7, <4>8, <4>9
    <3>2. CASE x.op = "purchase"
      <4>1. PICK c : c = sale[x.id].seller
        OBVIOUS
      <4>2. PICK a : a = (sale[x.id].state = "gold" /\ c # x.me)
        OBVIOUS
      <4>3. PICK m : m = TakeIf(<<"sale", x.id>>, a)
        OBVIOUS
      <4>4. PICK A, D : /\ A = Ascending("character", {x.me, c} \cap Traders)
                        /\ D = Ascending("depot", {x.me, c} \cap Traders)
        OBVIOUS
      <4>5. Plan(x) = <<m>> \o A \o <<n>> \o D
        BY <2>1, <2>2, <3>2, <4>1, <4>2, <4>3, <4>4 DEF Plan, DealPlan
      <4>6. m.row # NoRow
        <5>1. x.id \in Sales
          BY <3>2 DEF DealOK, OnSales
        <5>2. QED
          BY <4>3, <5>1, RowsAssumption DEF TakeIf, Rows
      <4>7. Only(<<m>>)
        BY <2>4, <4>6
      <4>8. Only(A) /\ Only(D)
        BY <2>5, <4>4
      <4>9. QED
        BY <2>3, <2>6, <4>5, <4>7, <4>8
    <3>3. QED
      BY <1>6, <3>1, <3>2
  <2>8. s.row = NoRow => s = n
    <3>1. Len(Plan(x)) \in Nat
      <4>1. PICK q : q = Plan(x)
        OBVIOUS
      <4>2. \E S : q \in Seq(S)
        BY <2>7, <4>1 DEF Only
      <4>3. QED
        BY <4>1, <4>2
    <3>2. x.at + 1 \in 1..Len(Plan(x))
      BY <3>1 DEF DealOK
    <3>3. QED
      BY <2>7, <3>2 DEF Only
  <2>9. s.row = NoRow => g
    BY <2>2, <2>8 DEF Look
  <2>10. QED
    BY <1>6, <2>1, <2>9
<1>7. QED
  BY <1>1, <1>2, <1>3, <1>4, <1>5, <1>6

-----------------------------------------------------------------------------
(* What a step does to what others have counted                            *)

\* Only whoever has locked a row makes what is counted or checked under it less.
ValuesGuarded(p) ==
    /\ \A c \in Traders : gold'[c] >= gold[c] \/ held[Character(c)] = p
    /\ ActiveListings' \subseteq ActiveListings \/ held[<<"market">>] = p
    /\ \A c \in Traders : ListingsOf(c)' \subseteq ListingsOf(c) \/ held[Character(c)] = p
    /\ \A c \in Traders : SalesOf(c)' \subseteq SalesOf(c) \/ held[Character(c)] = p
    /\ tickets \subseteq tickets' /\ (tickets' = tickets \/ held[<<"round">>] = p)

LEMMA FiniteCounts ==
  ASSUME NEW L, NEW S, NEW c
  PROVE /\ IsFiniteSet(ActiveIn(L)) /\ Cardinality(ActiveIn(L)) \in Nat
        /\ IsFiniteSet(ListedIn(L, c)) /\ Cardinality(ListedIn(L, c)) \in Nat
        /\ IsFiniteSet(ForSaleIn(S, c)) /\ Cardinality(ForSaleIn(S, c)) \in Nat
<1>1. ActiveIn(L) \in SUBSET Listings /\ ListedIn(L, c) \in SUBSET Listings
      /\ ForSaleIn(S, c) \in SUBSET Sales
  BY DEF ActiveIn, ListedIn, ForSaleIn
<1>2. IsFiniteSet(ActiveIn(L)) /\ IsFiniteSet(ListedIn(L, c)) /\ IsFiniteSet(ForSaleIn(S, c))
  BY <1>1, MarketAssumption, FS_Subset
<1>3. QED
  BY <1>2, FS_CardinalityType

\* Fewer are no more.
LEMMA FewerCount ==
  ASSUME NEW A, NEW B, B \subseteq A, IsFiniteSet(A), NEW n \in Nat
  PROVE /\ Cardinality(A) < n => Cardinality(B) < n
        /\ Cardinality(A) <= n => Cardinality(B) <= n
<1>1. Cardinality(B) <= Cardinality(A) /\ IsFiniteSet(B)
  BY FS_Subset
<1>2. Cardinality(A) \in Nat /\ Cardinality(B) \in Nat
  BY <1>1, FS_CardinalityType
<1>3. QED
  BY <1>1, <1>2

LEMMA StaysChecked ==
  ASSUME MarketIInv, MarketTypeOK, MarketTypeOK', NEW p \in Callers, NEW q \in Callers, q # p,
         OffersGuarded(p), ValuesGuarded(p), deal'[q] = deal[q], Checked(deal[q])
  PROVE Checked(deal[q])'
<1>1. PICK x : x = deal[q] /\ x = deal'[q]
  OBVIOUS
<1>2. DealOK(x) /\ Checked(x)
  BY <1>1 DEF MarketIInv, CallerOK
<1>3. PICK c : c = Character(x.me)
  OBVIOUS
<1>4. /\ x.op = "list" /\ x.at >= 1 => held[<<"market">>] = q
      /\ x.op = "ticket" /\ x.at >= 1 => held[<<"round">>] = q
      /\ x.op = "list" /\ x.at >= 3 => held[c] = q
      /\ x.op \in {"offer", "barter", "build"} /\ x.at >= 1 => held[c] = q
      /\ x.op \in {"buy", "purchase"} /\ (\E i \in 1..x.at : Path(x)[i] = NoRow) => held[c] = q
  BY <1>1, <1>3, HoldsForChecks
<1>5. x.op \in Working => x.me \in Traders
  BY <1>2 DEF DealOK
<1>6. x.at \in Nat
  BY <1>2 DEF DealOK
<1>7. x.op \in Working /\ x.at >= 1 => Path(x)' = Path(x)
  <2>1. /\ x.op \in OnListings /\ x.at >= 1 => listing'[x.id] = listing[x.id]
        /\ x.op \in OnSales /\ x.at >= 1 => sale'[x.id] = sale[x.id]
    BY <1>1, OffersStay
  <2>2. QED
    BY <2>1, PathStays
<1>8. \A b \in Traders : gold'[b] \in Nat /\ gold[b] \in Nat
  BY MarketAssumption DEF MarketTypeOK
<1>9. Price \in Nat /\ StorePrice \in Nat /\ ServerMaxListings \in Nat
      /\ MaxListingsPerCharacter \in Nat /\ MaxSales \in Nat /\ MaxTickets \in Nat
  BY MarketAssumption
<1>10. x.op = "list" /\ x.at >= 2 => Cardinality(ActiveListings)' < ServerMaxListings
  <2>1. SUFFICES ASSUME x.op = "list", x.at >= 2
                 PROVE Cardinality(ActiveListings)' < ServerMaxListings
    OBVIOUS
  <2>2. held[<<"market">>] = q
    BY <1>4, <1>6, <2>1
  <2>3. ActiveListings' \subseteq ActiveListings
    BY <2>2 DEF ValuesGuarded
  <2>4. IsFiniteSet(ActiveListings) /\ Cardinality(ActiveListings) < ServerMaxListings
    BY <1>2, <2>1, FiniteCounts DEF Checked, ActiveListings
  <2>5. QED
    BY <1>9, <2>3, <2>4, FewerCount
<1>11. x.op = "list" /\ x.at >= 3 => Cardinality(ListingsOf(x.me))' < MaxListingsPerCharacter
  <2>1. SUFFICES ASSUME x.op = "list", x.at >= 3
                 PROVE Cardinality(ListingsOf(x.me))' < MaxListingsPerCharacter
    OBVIOUS
  <2>2. held[c] = q /\ x.me \in Traders
    BY <1>4, <1>5, <2>1 DEF Working, Solitary
  <2>3. ListingsOf(x.me)' \subseteq ListingsOf(x.me)
    BY <1>3, <2>2 DEF ValuesGuarded
  <2>4. IsFiniteSet(ListingsOf(x.me)) /\ Cardinality(ListingsOf(x.me)) < MaxListingsPerCharacter
    BY <1>2, <2>1, FiniteCounts DEF Checked, ListingsOf
  <2>5. QED
    BY <1>9, <2>3, <2>4, FewerCount
<1>12. x.op \in {"offer", "barter"} /\ x.at >= 3 => Cardinality(SalesOf(x.me))' < MaxSales
  <2>1. SUFFICES ASSUME x.op \in {"offer", "barter"}, x.at >= 3
                 PROVE Cardinality(SalesOf(x.me))' < MaxSales
    OBVIOUS
  <2>2. held[c] = q /\ x.me \in Traders
    BY <1>4, <1>5, <1>6, <2>1 DEF Working, Solitary
  <2>3. SalesOf(x.me)' \subseteq SalesOf(x.me)
    BY <1>3, <2>2 DEF ValuesGuarded
  <2>4. IsFiniteSet(SalesOf(x.me)) /\ Cardinality(SalesOf(x.me)) < MaxSales
    BY <1>2, <2>1, FiniteCounts DEF Checked, SalesOf
  <2>5. QED
    BY <1>9, <2>3, <2>4, FewerCount
<1>13. x.op \in {"buy", "purchase"} /\ (\E i \in 1..x.at : Path(x)'[i] = NoRow) =>
          gold'[x.me] >= Price
  <2>1. SUFFICES ASSUME x.op \in {"buy", "purchase"}, NEW i \in 1..x.at, Path(x)'[i] = NoRow
                 PROVE gold'[x.me] >= Price
    OBVIOUS
  <2>2. x.op \in Working /\ x.at >= 1
    BY <1>6, <2>1 DEF Working, OnListings, OnSales
  <2>3. Path(x)[i] = NoRow
    BY <1>7, <2>1, <2>2
  <2>4. held[c] = q /\ gold[x.me] >= Price /\ x.me \in Traders
    BY <1>2, <1>4, <1>5, <2>1, <2>2, <2>3 DEF Checked
  <2>5. gold'[x.me] >= gold[x.me]
    BY <1>3, <2>4 DEF ValuesGuarded
  <2>6. QED
    BY <1>8, <1>9, <2>4, <2>5
<1>14. x.op = "build" /\ x.at >= 1 => gold'[x.me] >= StorePrice
  <2>1. SUFFICES ASSUME x.op = "build", x.at >= 1
                 PROVE gold'[x.me] >= StorePrice
    OBVIOUS
  <2>2. held[c] = q /\ gold[x.me] >= StorePrice /\ x.me \in Traders
    BY <1>2, <1>4, <1>5, <2>1 DEF Checked, Working, Solitary
  <2>3. gold'[x.me] >= gold[x.me]
    BY <1>3, <2>2 DEF ValuesGuarded
  <2>4. QED
    BY <1>8, <1>9, <2>2, <2>3
<1>15. x.op = "ticket" /\ x.at >= 2 => Cardinality(tickets)' < MaxTickets /\ x.me \notin tickets'
  <2>1. SUFFICES ASSUME x.op = "ticket", x.at >= 2
                 PROVE Cardinality(tickets)' < MaxTickets /\ x.me \notin tickets'
    OBVIOUS
  <2>2. held[<<"round">>] = q
    BY <1>4, <1>6, <2>1
  <2>3. tickets' = tickets
    BY <2>2 DEF ValuesGuarded
  <2>4. Cardinality(tickets) < MaxTickets /\ x.me \notin tickets
    BY <1>2, <2>1 DEF Checked
  <2>5. QED
    BY <2>3, <2>4
<1>16. x.op = "draw" /\ x.at >= 1 => x.winners \subseteq tickets'
  BY <1>2 DEF Checked, ValuesGuarded
<1>17. Checked(x)'
  BY <1>10, <1>11, <1>12, <1>13, <1>14, <1>15, <1>16 DEF Checked
<1>18. QED
  BY <1>1, <1>17

-----------------------------------------------------------------------------
(* The slots of a depot                                                    *)
SlotSet(d) == UNION {{k} \X (1..SlotsOf(d, k)) : k \in Goods}

LEMMA SlotMembers ==
  ASSUME NEW d, NEW s
  PROVE s \in SlotSet(d) <=> \E k \in Goods : s \in {k} \X (1..SlotsOf(d, k))
BY DEF SlotSet

LEMMA SlotsType ==
  ASSUME NEW d \in [Goods -> Nat], NEW k \in Goods
  PROVE /\ SlotsOf(d, k) \in Nat
        /\ SlotsOf(d, k) = IF k \in Stackable /\ d[k] > 0 THEN 1 ELSE d[k]
BY DEF SlotsOf

LEMMA SlotsFinite ==
  ASSUME NEW d \in [Goods -> Nat]
  PROVE IsFiniteSet(SlotSet(d)) /\ Slots(d) = Cardinality(SlotSet(d)) /\ Slots(d) \in Nat
<1>1. PICK T : T = {{k} \X (1..SlotsOf(d, k)) : k \in Goods}
  OBVIOUS
<1>2. IsFiniteSet(T)
  <2>1. PICK f : f = [k \in Goods |-> {k} \X (1..SlotsOf(d, k))]
    OBVIOUS
  <2>2. f \in [Goods -> T] /\ \A t \in T : \E k \in Goods : f[k] = t
    BY <1>1, <2>1
  <2>3. f \in Surjection(Goods, T)
    BY <2>2 DEF Surjection
  <2>4. QED
    BY <2>3, MarketAssumption, FS_Surjection
<1>3. \A t \in T : IsFiniteSet(t)
  <2>1. TAKE t \in T
  <2>2. PICK k \in Goods : t = {k} \X (1..SlotsOf(d, k))
    BY <1>1
  <2>3. PICK n \in Nat : n = SlotsOf(d, k)
    BY SlotsType
  <2>4. IsFiniteSet({k})
    BY FS_Singleton
  <2>5. IsFiniteSet(1..n)
    <3>1. 1 \in Int /\ n \in Int
      OBVIOUS
    <3>2. QED
      BY <3>1, FS_Interval
  <2>6. QED
    BY <2>2, <2>3, <2>4, <2>5, FS_Product
<1>4. IsFiniteSet(UNION T)
  BY <1>2, <1>3, FS_UNION
<1>5. SlotSet(d) = UNION T
  BY <1>1 DEF SlotSet
<1>6. Slots(d) = Cardinality(SlotSet(d))
  BY DEF Slots, SlotSet
<1>7. QED
  BY <1>4, <1>5, <1>6, FS_CardinalityType

\* A depot that has room for an instance holds it.
LEMMA SlotsPut ==
  ASSUME NEW d \in [Goods -> Nat], NEW k \in Goods, NEW n \in Nat, n = 1 \/ k \in Stackable,
         Fits(d, k), Slots(d) <= DepotCapacity, NEW e, e = [d EXCEPT ![k] = @ + n]
  PROVE e \in [Goods -> Nat] /\ Slots(e) <= DepotCapacity
<1>1. /\ e \in [Goods -> Nat] /\ e[k] = d[k] + n /\ d[k] \in Nat
      /\ \A j \in Goods : j # k => e[j] = d[j]
  OBVIOUS
<1>2. IsFiniteSet(SlotSet(d)) /\ Slots(d) = Cardinality(SlotSet(d)) /\ Slots(d) \in Nat
  BY SlotsFinite
<1>3. IsFiniteSet(SlotSet(e)) /\ Slots(e) = Cardinality(SlotSet(e)) /\ Slots(e) \in Nat
  BY <1>1, SlotsFinite
<1>4. \A j \in Goods : j # k => SlotsOf(e, j) = SlotsOf(d, j)
  BY <1>1 DEF SlotsOf
<1>5. DepotCapacity \in Nat
  BY MarketAssumption
<1>6. CASE k \in Stackable /\ d[k] > 0
  <2>1. SlotsOf(e, k) = SlotsOf(d, k)
    BY <1>1, <1>6 DEF SlotsOf
  <2>2. \A j \in Goods : SlotsOf(e, j) = SlotsOf(d, j)
    BY <1>4, <2>1
  <2>3. \A s \in SlotSet(e) : s \in SlotSet(d)
    BY <2>2, SlotMembers
  <2>4. SlotSet(e) \in SUBSET SlotSet(d)
    BY <2>3
  <2>5. Cardinality(SlotSet(e)) <= Cardinality(SlotSet(d))
    BY <1>2, <2>4, FS_Subset
  <2>6. QED
    BY <1>1, <1>2, <1>3, <1>5, <2>5
<1>7. CASE ~(k \in Stackable /\ d[k] > 0)
  <2>1. Slots(d) < DepotCapacity
    BY <1>7 DEF Fits
  <2>2. PICK m \in Nat : m = SlotsOf(d, k) /\ SlotsOf(e, k) <= m + 1 /\ SlotsOf(e, k) \in Nat
    <3>1. /\ SlotsOf(d, k) = d[k]
          /\ SlotsOf(e, k) = IF k \in Stackable /\ e[k] > 0 THEN 1 ELSE e[k]
      BY <1>7 DEF SlotsOf
    <3>2. QED
      BY <1>1, <3>1
  <2>3. \A s \in SlotSet(e) : s \in SlotSet(d) \cup {<<k, m + 1>>}
    <3>1. TAKE s \in SlotSet(e)
    <3>2. PICK j \in Goods : s \in {j} \X (1..SlotsOf(e, j))
      BY SlotMembers
    <3>3. PICK i \in 1..SlotsOf(e, j) : s = <<j, i>>
      BY <3>2
    <3>4. CASE j # k
      BY <1>4, <3>2, <3>4, SlotMembers
    <3>5. CASE j = k
      <4>1. i \in 1..m \/ i = m + 1
        BY <2>2, <3>3, <3>5
      <4>2. i \in 1..m => s \in SlotSet(d)
        BY <2>2, <3>3, <3>5, SlotMembers
      <4>3. QED
        BY <3>3, <3>5, <4>1, <4>2
    <3>6. QED
      BY <3>4, <3>5
  <2>4. PICK U : U = SlotSet(d) \cup {<<k, m + 1>>}
    OBVIOUS
  <2>5. IsFiniteSet(U) /\ Cardinality(U) <= Slots(d) + 1 /\ Cardinality(U) \in Nat
    <3>1. IsFiniteSet(U) /\ (Cardinality(U) = Slots(d) \/ Cardinality(U) = Slots(d) + 1)
      BY <1>2, <2>4, FS_AddElement
    <3>2. QED
      BY <1>2, <3>1
  <2>6. SlotSet(e) \in SUBSET U
    BY <2>3, <2>4
  <2>7. Cardinality(SlotSet(e)) <= Cardinality(U)
    BY <2>5, <2>6, FS_Subset
  <2>8. QED
    BY <1>1, <1>2, <1>3, <1>5, <2>1, <2>5, <2>7
<1>8. QED
  BY <1>6, <1>7

\* Taking units out needs no room.
LEMMA SlotsDrop ==
  ASSUME NEW d \in [Goods -> Nat], NEW k \in Goods, NEW n \in Nat, n <= d[k],
         Slots(d) <= DepotCapacity, NEW e, e = [d EXCEPT ![k] = @ - n]
  PROVE e \in [Goods -> Nat] /\ Slots(e) <= DepotCapacity
<1>1. d[k] \in Nat /\ d[k] - n \in Nat /\ d[k] - n <= d[k]
  OBVIOUS
<1>2. /\ e \in [Goods -> Nat] /\ e[k] = d[k] - n
      /\ \A j \in Goods : j # k => e[j] = d[j]
  BY <1>1
<1>3. \A j \in Goods : SlotsOf(e, j) \in Nat /\ SlotsOf(d, j) \in Nat /\ SlotsOf(e, j) <= SlotsOf(d, j)
  <2>1. TAKE j \in Goods
  <2>2. e[j] \in Nat /\ d[j] \in Nat /\ e[j] <= d[j]
    BY <1>1, <1>2
  <2>3. QED
    BY <2>2 DEF SlotsOf
<1>4. \A s \in SlotSet(e) : s \in SlotSet(d)
  <2>1. TAKE s \in SlotSet(e)
  <2>2. PICK j \in Goods : s \in {j} \X (1..SlotsOf(e, j))
    BY SlotMembers
  <2>3. PICK i \in 1..SlotsOf(e, j) : s = <<j, i>>
    BY <2>2
  <2>4. i \in 1..SlotsOf(d, j)
    <3>1. PICK m \in Nat, l \in Nat : m = SlotsOf(e, j) /\ l = SlotsOf(d, j) /\ m <= l
      BY <1>3
    <3>2. QED
      BY <2>3, <3>1
  <2>5. QED
    BY <2>3, <2>4, SlotMembers
<1>5. SlotSet(e) \in SUBSET SlotSet(d)
  BY <1>4
<1>6. /\ IsFiniteSet(SlotSet(d)) /\ Slots(d) = Cardinality(SlotSet(d)) /\ Slots(d) \in Nat
      /\ Slots(e) = Cardinality(SlotSet(e)) /\ Slots(e) \in Nat
  BY <1>2, SlotsFinite
<1>7. Slots(e) <= Slots(d)
  BY <1>5, <1>6, FS_Subset
<1>8. DepotCapacity \in Nat
  BY MarketAssumption
<1>9. QED
  BY <1>2, <1>6, <1>7, <1>8

-----------------------------------------------------------------------------
(* What a commit writes                                                    *)
PursesOK(p) ==
    /\ gold' \in [Traders -> 0..MaxWallet] /\ saved' \in [Traders -> 0..MaxDeposit]
    /\ \A c \in Traders : gold'[c] >= gold[c] \/ held[Character(c)] = p

DepotsOK(d) ==
    /\ d \in [Traders -> [Goods -> Nat]]
    /\ \A c \in Traders : Slots(d[c]) <= DepotCapacity

BoxesOK(b) == b \in [Traders -> Nat] /\ \A c \in Traders : b[c] <= BoxCapacity

ItemsOK == DepotsOK(depot') /\ BoxesOK(box') /\ bag' \in [Traders -> [Goods -> Nat]]

OffersOK(p) ==
    /\ listing' \in [Listings -> Listed] /\ sale' \in [Sales -> Offered]
    /\ store' \in [Traders -> {"none", "open"}]
    /\ Cardinality(ActiveListings)' <= ServerMaxListings
    /\ \A c \in Traders : /\ Cardinality(ListingsOf(c))' <= MaxListingsPerCharacter
                          /\ Cardinality(SalesOf(c))' <= MaxSales
    /\ ActiveListings' \subseteq ActiveListings \/ held[<<"market">>] = p
    /\ \A c \in Traders : ListingsOf(c)' \subseteq ListingsOf(c) \/ held[Character(c)] = p
    /\ \A c \in Traders : SalesOf(c)' \subseteq SalesOf(c) \/ held[Character(c)] = p

LotteryOK(p) ==
    /\ tickets' \subseteq Traders /\ won' \subseteq tickets' /\ Cardinality(tickets') <= MaxTickets
    /\ tickets \subseteq tickets' /\ (tickets' = tickets \/ held[<<"round">>] = p)

Writes(p) == PursesOK(p) /\ ItemsOK /\ OffersOK(p) /\ LotteryOK(p)

LEMMA Unwritten ==
  ASSUME MarketTypeOK, PlacesHold, NEW p
  PROVE /\ UNCHANGED purses => PursesOK(p)
        /\ DepotsOK(depot) /\ BoxesOK(box)
        /\ UNCHANGED items => ItemsOK
        /\ UNCHANGED offers => OffersOK(p)
        /\ UNCHANGED lottery => LotteryOK(p)
<1>1. UNCHANGED purses => PursesOK(p)
  <2>1. SUFFICES ASSUME gold' = gold, saved' = saved
                 PROVE PursesOK(p)
    BY DEF purses
  <2>2. \A c \in Traders : gold[c] \in Int
    BY MarketAssumption DEF MarketTypeOK
  <2>3. QED
    BY <2>1, <2>2 DEF MarketTypeOK, PursesOK
<1>2. DepotsOK(depot) /\ BoxesOK(box)
  BY DEF MarketTypeOK, PlacesHold, DepotsOK, BoxesOK
<1>3. UNCHANGED items => ItemsOK
  BY <1>2 DEF items, ItemsOK, MarketTypeOK
<1>4. UNCHANGED offers => OffersOK(p)
  <2>1. SUFFICES ASSUME listing' = listing, sale' = sale, store' = store
                 PROVE OffersOK(p)
    BY DEF offers
  <2>2. ActiveListings' = ActiveListings
    BY <2>1 DEF ActiveListings
  <2>3. \A c \in Traders : ListingsOf(c)' = ListingsOf(c) /\ SalesOf(c)' = SalesOf(c)
    BY <2>1 DEF ListingsOf, SalesOf
  <2>4. /\ Cardinality(ActiveListings) <= ServerMaxListings
        /\ \A c \in Traders : /\ Cardinality(ListingsOf(c)) <= MaxListingsPerCharacter
                              /\ Cardinality(SalesOf(c)) <= MaxSales
    BY DEF PlacesHold, WithinLimits, ActiveListings, ListingsOf, SalesOf
  <2>5. QED
    BY <2>1, <2>2, <2>3, <2>4 DEF MarketTypeOK, OffersOK
<1>5. UNCHANGED lottery => LotteryOK(p)
  BY DEF lottery, LotteryOK, MarketTypeOK, PlacesHold, WithinLimits
<1>6. QED
  BY <1>1, <1>2, <1>3, <1>4, <1>5

\* A transaction that ends with such writes keeps what the others have counted.
LEMMA WritesKeep ==
  ASSUME MarketIInv, LimitsIInv, NEW p \in Callers, End(p), OffersGuarded(p), Writes(p)
  PROVE LimitsIInv'
<1>1. MarketTypeOK /\ PlacesHold /\ \A q \in Callers : Checked(deal[q])
  BY DEF LimitsIInv
<1>2. held' \in [Rows -> Callers \cup {Nobody}] /\ deals' = deals
  BY <1>1 DEF End, MarketTypeOK
<1>3. DOMAIN deal' = Callers /\ deal'[p] = NoDeal /\ \A q \in Callers : q # p => deal'[q] = deal[q]
  BY <1>1 DEF End, MarketTypeOK
<1>4. MarketTypeOK'
  BY <1>1, <1>2, <1>3 DEF MarketTypeOK, Writes, PursesOK, ItemsOK, DepotsOK, BoxesOK, OffersOK, LotteryOK
<1>5. PlacesHold'
  <2>1. WithinLimits(listing, sale, tickets)'
    BY DEF Writes, OffersOK, LotteryOK, WithinLimits, ActiveListings, ListingsOf, SalesOf
  <2>2. \A c \in Traders : Slots(depot'[c]) <= DepotCapacity /\ box'[c] <= BoxCapacity
    BY DEF Writes, ItemsOK, DepotsOK, BoxesOK
  <2>3. QED
    BY <2>1, <2>2 DEF PlacesHold
<1>6. ValuesGuarded(p)
  BY DEF ValuesGuarded, Writes, PursesOK, OffersOK, LotteryOK
<1>7. ASSUME NEW q \in Callers
      PROVE Checked(deal[q])'
  <2>1. CASE q = p
    <3>1. NoDeal.op = "none"
      BY DEF NoDeal
    <3>2. Checked(NoDeal)'
      BY <3>1 DEF Checked
    <3>3. QED
      BY <1>3, <2>1, <3>2
  <2>2. CASE q # p
    BY <1>1, <1>3, <1>4, <1>6, <2>2, StaysChecked
  <2>3. QED
    BY <2>1, <2>2
<1>8. QED
  BY <1>4, <1>5, <1>7 DEF LimitsIInv

\* The path of a buyer has a look at the wallet.
LEMMA LooksAtWallet ==
  ASSUME NEW x, DealOK(x), x.op \in {"buy", "purchase"}, NEW s, NEW r, r = RowPlan(x, s)
  PROVE \E i \in 1..Len(r) : r[i] = NoRow
<1>1. x.op \in Working /\ x.me \in Traders
  BY DEF DealOK, Working, OnListings, OnSales
<1>2. PICK q, o : q = Shared(x) \o Characters(x, s) /\ o = Rest(x, s)
  OBVIOUS
<1>3. PICK R : R = SharedRows \cup OwnedRows \cup ({"character"} \X Traders) \cup {NoRow}
  OBVIOUS
<1>4. q \in Seq(R)
  <2>1. Shared(x) \in Seq(SharedRows \cup {NoRow})
    BY SharedFirst
  <2>2. Characters(x, s) \in Seq({"character"} \X Traders)
    BY <1>1, SortedRows DEF Characters, OfTable
  <2>3. Shared(x) \in Seq(R) /\ Characters(x, s) \in Seq(R)
    BY <1>3, <2>1, <2>2
  <2>4. QED
    BY <1>2, <2>3
<1>5. o \in Seq(R)
  <2>1. OwnedBy(o, {x.me, Other(x, s)} \cap Traders)
    BY <1>1, <1>2, RestOwned
  <2>2. o \in Seq(OwnedRows \cup {NoRow})
    BY <2>1 DEF OwnedBy
  <2>3. QED
    BY <1>3, <2>2
<1>6. 1 \in 1..Len(o) /\ o[1] = NoRow
  <2>1. CASE x.op = "buy"
    <3>1. PICK n, d : n = NoRow /\ d = Depot(x.me)
      OBVIOUS
    <3>2. o = <<n, d>>
      BY <1>2, <2>1, <3>1 DEF Rest
    <3>3. QED
      BY <3>1, <3>2
  <2>2. CASE x.op = "purchase"
    <3>1. PICK e, u : e = Sorted("depot", x.me, s) /\ u = <<NoRow>>
      OBVIOUS
    <3>2. o = u \o e
      BY <1>2, <2>2, <3>1 DEF Rest
    <3>3. e \in Seq({"depot"} \X Traders)
      BY <1>1, <3>1, SortedRows DEF OfTable
    <3>4. PICK S : S = {NoRow} \cup ({"depot"} \X Traders)
      OBVIOUS
    <3>5. e \in Seq(S) /\ u \in Seq(S) /\ Len(u) = 1 /\ u[1] = NoRow
      BY <3>1, <3>3, <3>4
    <3>6. PICK g, h : g = Len(u) /\ g = 1 /\ h = Len(e)
      BY <3>5
    <3>7. Len(u \o e) = g + h /\ \A i \in 1..g : (u \o e)[i] = u[i]
      <4>1. u \in Seq(S) /\ e \in Seq(S) /\ g = Len(u) /\ h = Len(e)
        BY <3>5, <3>6
      <4>2. QED
        BY <4>1, ConcatRanges
    <3>8. h \in Nat
      BY <3>5, <3>6
    <3>9. QED
      BY <3>2, <3>5, <3>6, <3>7, <3>8
  <2>3. QED
    BY <2>1, <2>2
<1>7. PICK g \in Nat, n \in Nat : g = Len(q) /\ n = Len(o)
  BY <1>4, <1>5
<1>8. Len(q \o o) = g + n /\ \A i \in 1..n : (q \o o)[g + i] = o[i]
  BY <1>4, <1>5, <1>7, ConcatRanges
<1>9. r = q \o o
  BY <1>2 DEF RowPlan
<1>10. g + 1 \in 1..Len(r) /\ r[g + 1] = NoRow
  BY <1>6, <1>7, <1>8, <1>9
<1>11. QED
  BY <1>10

\* The plan of a draw begins with the round.
LEMMA DrawsRound ==
  ASSUME NEW x \in Deals, x.op = "draw"
  PROVE Len(Plan(x)) >= 1 /\ Len(Plan(x)) \in Nat
<1>1. PICK a : a = (won = {} /\ x.winners \subseteq tickets)
  OBVIOUS
<1>2. PICK k : k = TakeIf(<<"round">>, a)
  OBVIOUS
<1>3. PICK n \in Nat : n = 2 * Cardinality(x.winners)
  <2>1. IsFiniteSet(x.winners)
    BY MarketAssumption, FS_Subset DEF Deals
  <2>2. Cardinality(x.winners) \in Nat
    BY <2>1, FS_CardinalityType
  <2>3. QED
    BY <2>2
<1>4. PICK D : D = [i \in 1..n |->
                Take(IF i % 2 = 1 THEN Depot(Nth(x.winners, (i + 1) \div 2))
                     ELSE Character(Nth(x.winners, i \div 2)))]
  OBVIOUS
<1>5. Plan(x) = <<k>> \o D
  BY <1>1, <1>2, <1>3, <1>4 DEF Plan, DrawPlan
<1>6. PICK E : E = [i \in 1..n |-> D[i]] /\ E = D
  BY <1>4
<1>7. PICK S : S = {k} \cup {D[i] : i \in 1..n}
  OBVIOUS
<1>8. E \in Seq(S) /\ <<k>> \in Seq(S) /\ Len(<<k>>) = 1 /\ Len(E) = n
  BY <1>3, <1>6, <1>7
<1>9. Len(<<k>> \o E) = 1 + n
  BY <1>8, ConcatRanges
<1>10. QED
  BY <1>3, <1>5, <1>6, <1>9

\* What is true of a transaction that has executed its plan.
LEMMA Committed ==
  ASSUME MarketIInv, LimitsIInv, NEW p \in Callers, NEW ops, Commits(p, ops), NEW x, x = deal[p]
  PROVE /\ x.op \in ops /\ End(p) /\ x.item \in Goods /\ x.winners \subseteq Traders
        /\ x.op \in Working => x.me \in Traders /\ held[Character(x.me)] = p
        /\ x.op \in Transfers => x.you \in Traders /\ x.me # x.you
        /\ x.op \in OnListings => x.id \in Listings
        /\ x.op \in OnSales => x.id \in Sales
        /\ x.op = "list" =>
              /\ held[<<"market">>] = p /\ Cardinality(ActiveListings) < ServerMaxListings
              /\ Cardinality(ListingsOf(x.me)) < MaxListingsPerCharacter
        /\ x.op \in {"offer", "barter"} => Cardinality(SalesOf(x.me)) < MaxSales
        /\ x.op \in {"buy", "purchase"} => gold[x.me] >= Price
        /\ x.op = "build" => gold[x.me] >= StorePrice
        /\ x.op = "ticket" =>
              held[<<"round">>] = p /\ Cardinality(tickets) < MaxTickets /\ x.me \notin tickets
        /\ x.op = "draw" => x.winners \subseteq tickets
        /\ x.op = "buy" => listing[x.id].seller # x.me
        /\ x.op \in {"purchase", "trade"} => sale[x.id].seller # x.me
<1>1. x \in Deals /\ DealOK(x) /\ HoldsPath(p, x) /\ StillOffered(x) /\ Checked(x)
  BY DEF MarketIInv, TablesOK, CallerOK, LimitsIInv
<1>2. x.op \in ops /\ x.at = Len(Plan(x)) /\ End(p) /\ x.at \in Nat
  BY <1>1 DEF Commits, DealOK
<1>3. PICK c, d, n : c = Character(x.me) /\ d = Depot(x.me) /\ n = NoRow
  OBVIOUS
<1>4. /\ x.op = "list" /\ x.at >= 1 => held[<<"market">>] = p
      /\ x.op = "ticket" /\ x.at >= 1 => held[<<"round">>] = p
      /\ x.op \in Working /\ x.at = Len(Plan(x)) => held[c] = p
  BY <1>3, HoldsForChecks
<1>5. x.item \in Goods /\ x.winners \subseteq Traders
  BY <1>1 DEF Deals
<1>6. x.op \in Working => x.me \in Traders /\ held[Character(x.me)] = p
  BY <1>1, <1>2, <1>3, <1>4 DEF DealOK
<1>7. PICK s : s = Seller(x)
  OBVIOUS
<1>8. x.op \in Working => x.at = Len(RowPlan(x, s)) /\ Path(x) = RowPlan(x, s)
  BY <1>1, <1>2, <1>7, PathOK DEF Path
<1>9. CASE x.op = "list"
  <2>1. x.me \in Traders /\ x.op \in Working
    BY <1>6, <1>9 DEF Working, Solitary
  <2>2. PICK m : m = <<"market">>
    OBVIOUS
  <2>3. RowPlan(x, s) = <<m, n, c, d>>
    BY <1>3, <1>9, <2>1, <2>2, CountingPaths
  <2>4. x.at = 4
    BY <1>8, <2>1, <2>3
  <2>5. QED
    BY <1>1, <1>2, <1>4, <1>5, <1>6, <1>9, <2>4 DEF Checked, Transfers, OnListings, OnSales
<1>10. CASE x.op = "ticket"
  <2>1. x.me \in Traders /\ x.op \in Working
    BY <1>6, <1>10 DEF Working, Solitary
  <2>2. PICK m : m = <<"round">>
    OBVIOUS
  <2>3. RowPlan(x, s) = <<m, n, c>>
    BY <1>3, <1>10, <2>1, <2>2, CountingPaths
  <2>4. x.at = 3
    BY <1>8, <2>1, <2>3
  <2>5. QED
    BY <1>1, <1>2, <1>4, <1>5, <1>6, <1>10, <2>4 DEF Checked, Transfers, OnListings, OnSales
<1>11. CASE x.op \in {"offer", "barter"}
  <2>1. x.me \in Traders /\ x.op \in Working
    BY <1>6, <1>11 DEF Working, Solitary
  <2>2. RowPlan(x, s) = <<c, d, n>>
    BY <1>3, <1>11, <2>1, CountingPaths
  <2>3. x.at = 3
    BY <1>8, <2>1, <2>2
  <2>4. QED
    BY <1>1, <1>2, <1>5, <1>6, <1>11, <2>3 DEF Checked, Transfers, OnListings, OnSales
<1>12. CASE x.op = "build"
  <2>1. x.me \in Traders /\ x.op \in Working
    BY <1>6, <1>12 DEF Working, Solitary
  <2>2. RowPlan(x, s) = <<c, n>>
    BY <1>3, <1>12, <2>1, CountingPaths
  <2>3. x.at = 2
    BY <1>8, <2>1, <2>2
  <2>4. QED
    BY <1>1, <1>2, <1>5, <1>6, <1>12, <2>3 DEF Checked, Transfers, OnListings, OnSales
<1>13. CASE x.op \in {"buy", "purchase"}
  <2>1. x.op \in Working
    BY <1>13 DEF Working, OnListings, OnSales
  <2>2. PICK i \in 1..Len(RowPlan(x, s)) : RowPlan(x, s)[i] = NoRow
    BY <1>1, <1>13, LooksAtWallet
  <2>3. \E j \in 1..x.at : Path(x)[j] = NoRow
    BY <1>8, <2>1, <2>2
  <2>4. gold[x.me] >= Price
    BY <1>1, <1>13, <2>3 DEF Checked
  <2>5. x.at >= 1
    <3>1. 1 \in 1..Len(Path(x))
      BY <1>1, <1>13, FirstRow DEF OnListings, OnSales
    <3>2. QED
      BY <1>2, <1>8, <2>1, <3>1
  <2>6. /\ x.op = "buy" => listing[x.id].seller # x.me
        /\ x.op = "purchase" => sale[x.id].seller # x.me
    BY <1>1, <1>13, <2>5 DEF StillOffered
  <2>7. QED
    BY <1>1, <1>2, <1>5, <1>6, <1>13, <2>4, <2>6 DEF DealOK, Transfers
<1>14. CASE x.op = "draw"
  <2>1. x.at >= 1
    BY <1>1, <1>2, <1>14, DrawsRound
  <2>2. QED
    BY <1>1, <1>2, <1>5, <1>14, <2>1 DEF Checked, Working, Transfers, OnListings, OnSales, Solitary
<1>15. CASE x.op = "trade"
  <2>1. x.op \in OnSales /\ x.op \in Working
    BY <1>15 DEF Working, OnSales
  <2>2. x.at >= 1
    <3>1. 1 \in 1..Len(Path(x))
      BY <1>1, <2>1, FirstRow
    <3>2. QED
      BY <1>2, <1>8, <2>1, <3>1
  <2>3. sale[x.id].seller # x.me
    BY <1>1, <1>15, <2>2 DEF StillOffered
  <2>4. QED
    BY <1>1, <1>2, <1>5, <1>6, <1>15, <2>3 DEF DealOK, Transfers, OnListings
<1>16. CASE x.op \notin {"list", "ticket", "offer", "barter", "build", "buy", "purchase", "draw", "trade"}
  BY <1>1, <1>2, <1>5, <1>6, <1>16 DEF DealOK
<1>17. QED
  BY <1>9, <1>10, <1>11, <1>12, <1>13, <1>14, <1>15, <1>16

-----------------------------------------------------------------------------
(* Gold                                                                    *)
LEMMA Paid ==
  ASSUME MarketTypeOK, NEW f \in Traders, NEW t, t # f, NEW n \in Nat, gold[f] >= n, NEW g, g = Pay(f, t, n)
  PROVE g \in [Traders -> 0..MaxWallet] /\ \A c \in Traders : c # f => g[c] >= gold[c]
<1>1. gold \in [Traders -> 0..MaxWallet] /\ MaxWallet \in Nat
  BY MarketAssumption DEF MarketTypeOK
<1>2. PICK h : h = [gold EXCEPT ![f] = @ - n]
  OBVIOUS
<1>3. /\ h \in [Traders -> 0..MaxWallet]
      /\ \A c \in Traders : c # f => h[c] = gold[c]
  BY <1>1, <1>2
<1>4. g = [gold EXCEPT ![f] = @ - n, ![t] = IF @ > MaxWallet - n THEN MaxWallet ELSE @ + n]
  BY DEF Pay
<1>5. g = [c \in Traders |-> IF c = t THEN IF h[t] > MaxWallet - n THEN MaxWallet ELSE h[t] + n ELSE h[c]]
  BY <1>1, <1>2, <1>4
<1>6. ASSUME NEW c \in Traders
      PROVE g[c] \in 0..MaxWallet /\ g[c] >= h[c]
  <2>1. h[c] \in 0..MaxWallet
    BY <1>3
  <2>2. CASE c = t
    <3>1. g[c] = IF h[c] > MaxWallet - n THEN MaxWallet ELSE h[c] + n
      BY <1>5, <2>2
    <3>2. QED
      BY <1>1, <2>1, <3>1
  <2>3. CASE c # t
    BY <1>5, <2>1, <2>3
  <2>4. QED
    BY <2>2, <2>3
<1>7. QED
  BY <1>3, <1>5, <1>6

LEMMA MinOfTwo ==
  ASSUME NEW a \in Int, NEW b \in Int
  PROVE Min({a, b}) = IF a <= b THEN a ELSE b
<1>1. PICK m \in {a, b} : m = IF a <= b THEN a ELSE b
  OBVIOUS
<1>2. \A z \in {a, b} : m <= z
  BY <1>1
<1>3. \A w \in {a, b} : (\A z \in {a, b} : w <= z) => w = m
  BY <1>1
<1>4. QED
  BY <1>1, <1>2, <1>3 DEF Min

\* Less in the wallet of one whose row is locked.
LEMMA Spent ==
  ASSUME MarketTypeOK, NEW p, NEW c \in Traders, held[Character(c)] = p, NEW v \in 0..MaxWallet,
         gold' = [gold EXCEPT ![c] = v], saved' \in [Traders -> 0..MaxDeposit]
  PROVE PursesOK(p)
<1>1. gold \in [Traders -> 0..MaxWallet] /\ gold' \in [Traders -> 0..MaxWallet]
      /\ \A d \in Traders : d # c => gold'[d] = gold[d]
  BY DEF MarketTypeOK
<1>2. \A d \in Traders : gold[d] \in Int
  BY <1>1, MarketAssumption
<1>3. \A d \in Traders : gold'[d] >= gold[d] \/ held[Character(d)] = p
  BY <1>1, <1>2
<1>4. QED
  BY <1>1, <1>3 DEF PursesOK

LEMMA PaidOK ==
  ASSUME MarketTypeOK, NEW p, NEW c \in Traders, held[Character(c)] = p, NEW t, t # c, NEW n \in Nat,
         gold[c] >= n, gold' = Pay(c, t, n), saved' = saved
  PROVE PursesOK(p)
<1>1. gold' \in [Traders -> 0..MaxWallet] /\ \A d \in Traders : d # c => gold'[d] >= gold[d]
  BY Paid
<1>2. QED
  BY <1>1 DEF PursesOK, MarketTypeOK

LEMMA GoldWrites ==
  ASSUME MarketIInv, LimitsIInv, NEW p \in Callers,
         TransferGold(p) \/ CalculateDeposit(p) \/ CalculateWithdrawal(p)
  PROVE Writes(p)
<1>1. MarketTypeOK /\ PlacesHold
  BY DEF LimitsIInv
<1>2. PICK x : x = deal[p]
  OBVIOUS
<1>3. ItemsOK /\ OffersOK(p) /\ LotteryOK(p)
  <2>1. UNCHANGED items /\ UNCHANGED offers /\ UNCHANGED lottery
    BY DEF TransferGold, CalculateDeposit, CalculateWithdrawal
  <2>2. QED
    BY <1>1, <2>1, Unwritten
<1>4. CASE TransferGold(p)
  <2>1. Commits(p, {"gold", "money"})
    BY <1>4 DEF TransferGold
  <2>2. x.op \in {"gold", "money"}
    BY <1>2, <2>1, Committed
  <2>3. x.me \in Traders /\ x.you # x.me /\ held[Character(x.me)] = p
    BY <1>2, <2>1, <2>2, Committed DEF Working, Transfers
  <2>4. gold[x.me] >= Gift /\ gold' = Pay(x.me, x.you, Gift) /\ saved' = saved
    BY <1>2, <1>4 DEF TransferGold
  <2>5. PursesOK(p)
    BY <1>1, <2>3, <2>4, PaidOK, MarketAssumption
  <2>6. QED
    BY <1>3, <2>5 DEF Writes
<1>5. CASE CalculateDeposit(p)
  <2>1. PICK c : c = x.me
    OBVIOUS
  <2>2. Commits(p, {"save"})
    BY <1>5 DEF CalculateDeposit
  <2>3. x.op = "save"
    BY <1>2, <2>2, Committed
  <2>4. c \in Traders /\ held[Character(c)] = p
    BY <1>2, <2>1, <2>2, <2>3, Committed DEF Working, Solitary
  <2>5. PICK amount \in 1..gold[c] :
           /\ saved[c] <= MaxDeposit - amount
           /\ gold' = [gold EXCEPT ![c] = gold[c] - amount]
           /\ saved' = [saved EXCEPT ![c] = saved[c] + amount]
    BY <1>2, <1>5, <2>1 DEF CalculateDeposit
  <2>6. gold[c] \in 0..MaxWallet /\ saved[c] \in 0..MaxDeposit /\ MaxDeposit \in Nat /\ MaxWallet \in Nat
    BY <1>1, <2>4, MarketAssumption DEF MarketTypeOK
  <2>7. gold[c] - amount \in 0..MaxWallet /\ saved[c] + amount \in 0..MaxDeposit
    BY <2>5, <2>6
  <2>8. saved' \in [Traders -> 0..MaxDeposit]
    BY <1>1, <2>5, <2>7 DEF MarketTypeOK
  <2>9. PursesOK(p)
    BY <1>1, <2>4, <2>5, <2>7, <2>8, Spent
  <2>10. QED
    BY <1>3, <2>9 DEF Writes
<1>6. CASE CalculateWithdrawal(p)
  <2>1. PICK c : c = x.me
    OBVIOUS
  <2>2. Commits(p, {"spend"})
    BY <1>6 DEF CalculateWithdrawal
  <2>3. x.op = "spend"
    BY <1>2, <2>2, Committed
  <2>4. c \in Traders /\ held[Character(c)] = p
    BY <1>2, <2>1, <2>2, <2>3, Committed DEF Working, Solitary
  <2>5. PICK amount \in 1..saved[c] : \E n :
           /\ n = Min({amount, MaxWallet - gold[c]})
           /\ gold' = [gold EXCEPT ![c] = gold[c] + n]
           /\ saved' = [saved EXCEPT ![c] = saved[c] - n]
    BY <1>2, <1>6, <2>1 DEF CalculateWithdrawal
  <2>6. PICK n : /\ n = Min({amount, MaxWallet - gold[c]})
                 /\ gold' = [gold EXCEPT ![c] = gold[c] + n]
                 /\ saved' = [saved EXCEPT ![c] = saved[c] - n]
    BY <2>5
  <2>7. gold[c] \in 0..MaxWallet /\ saved[c] \in 0..MaxDeposit /\ MaxDeposit \in Nat /\ MaxWallet \in Nat
    BY <1>1, <2>4, MarketAssumption DEF MarketTypeOK
  <2>8. PICK g \in Nat, s \in Nat, room \in Nat : g = gold[c] /\ s = saved[c] /\ room = MaxWallet - g
    BY <2>7
  <2>9. n = IF amount <= room THEN amount ELSE room
    BY <2>5, <2>6, <2>8, MinOfTwo
  <2>10. gold[c] + n \in 0..MaxWallet /\ saved[c] - n \in 0..MaxDeposit
    <3>1. n \in Nat /\ n <= room /\ n <= s
      BY <2>5, <2>8, <2>9
    <3>2. g + n \in 0..MaxWallet /\ s - n \in 0..MaxDeposit
      BY <2>7, <2>8, <3>1
    <3>3. QED
      BY <2>8, <3>2
  <2>11. saved' \in [Traders -> 0..MaxDeposit]
    BY <1>1, <2>6, <2>10 DEF MarketTypeOK
  <2>12. PursesOK(p)
    BY <1>1, <2>4, <2>6, <2>10, <2>11, Spent
  <2>13. QED
    BY <1>3, <2>12 DEF Writes
<1>7. QED
  BY <1>4, <1>5, <1>6

-----------------------------------------------------------------------------
(* Items                                                                   *)
LEMMA PutDepot ==
  ASSUME NEW D, DepotsOK(D), NEW c, NEW k \in Goods, NEW n \in Nat, n = 1 \/ k \in Stackable,
         c \in Traders => Fits(D[c], k), NEW E, E = Put(D, c, k, n)
  PROVE DepotsOK(E) /\ \A b \in Traders : b # c => E[b] = D[b]
<1>1. PICK e : e = [D[c] EXCEPT ![k] = @ + n]
  OBVIOUS
<1>2. E = [D EXCEPT ![c] = e]
  BY <1>1 DEF Put
<1>3. D \in [Traders -> [Goods -> Nat]] /\ \A b \in Traders : Slots(D[b]) <= DepotCapacity
  BY DEF DepotsOK
<1>4. c \in Traders => e \in [Goods -> Nat] /\ Slots(e) <= DepotCapacity
  BY <1>1, <1>3, SlotsPut
<1>5. E = [b \in Traders |-> IF b = c THEN e ELSE D[b]]
  BY <1>2, <1>3
<1>6. \A b \in Traders : E[b] = IF b = c THEN e ELSE D[b]
  BY <1>5
<1>7. E \in [Traders -> [Goods -> Nat]]
  BY <1>3, <1>4, <1>5
<1>8. QED
  BY <1>3, <1>4, <1>6, <1>7 DEF DepotsOK

LEMMA DropDepot ==
  ASSUME NEW D, DepotsOK(D), NEW c \in Traders, NEW k \in Goods, NEW n \in Nat, n <= D[c][k],
         NEW E, E = Drop(D, c, k, n)
  PROVE DepotsOK(E) /\ \A b \in Traders : b # c => E[b] = D[b]
<1>1. PICK e : e = [D[c] EXCEPT ![k] = @ - n]
  OBVIOUS
<1>2. E = [D EXCEPT ![c] = e]
  BY <1>1 DEF Drop
<1>3. D \in [Traders -> [Goods -> Nat]] /\ \A b \in Traders : Slots(D[b]) <= DepotCapacity
  BY DEF DepotsOK
<1>4. e \in [Goods -> Nat] /\ Slots(e) <= DepotCapacity
  BY <1>1, <1>3, SlotsDrop
<1>5. E \in [Traders -> [Goods -> Nat]] /\ \A b \in Traders : E[b] = IF b = c THEN e ELSE D[b]
  BY <1>2, <1>3, <1>4
<1>6. QED
  BY <1>3, <1>4, <1>5 DEF DepotsOK

LEMMA BagTypes ==
  ASSUME NEW B \in [Traders -> [Goods -> Nat]], NEW c \in Traders, NEW k \in Goods, NEW n \in Nat
  PROVE /\ Put(B, c, k, n) \in [Traders -> [Goods -> Nat]]
        /\ n <= B[c][k] => Drop(B, c, k, n) \in [Traders -> [Goods -> Nat]]
<1>1. B[c] \in [Goods -> Nat] /\ B[c][k] \in Nat /\ B[c][k] + n \in Nat
  OBVIOUS
<1>2. PICK e : e = [B[c] EXCEPT ![k] = @ + n]
  OBVIOUS
<1>3. e \in [Goods -> Nat] /\ Put(B, c, k, n) = [B EXCEPT ![c] = e]
  BY <1>1, <1>2 DEF Put
<1>4. Put(B, c, k, n) \in [Traders -> [Goods -> Nat]]
  BY <1>3
<1>5. ASSUME n <= B[c][k]
      PROVE Drop(B, c, k, n) \in [Traders -> [Goods -> Nat]]
  <2>1. B[c][k] - n \in Nat
    BY <1>1, <1>5
  <2>2. PICK f : f = [B[c] EXCEPT ![k] = @ - n]
    OBVIOUS
  <2>3. f \in [Goods -> Nat] /\ Drop(B, c, k, n) = [B EXCEPT ![c] = f]
    BY <1>1, <2>1, <2>2 DEF Drop
  <2>4. QED
    BY <2>3
<1>6. QED
  BY <1>4, <1>5

LEMMA ItemWrites ==
  ASSUME MarketIInv, LimitsIInv, NEW p \in Callers,
         FromInventory(p) \/ WithdrawItem(p) \/ SendAuctionItem(p) \/ SendGem(p)
  PROVE Writes(p)
<1>1. /\ MarketTypeOK /\ PlacesHold /\ DepotsOK(depot) /\ BoxesOK(box)
      /\ bag \in [Traders -> [Goods -> Nat]] /\ depot \in [Traders -> [Goods -> Nat]]
  BY Unwritten DEF LimitsIInv, MarketTypeOK
<1>2. PICK x : x = deal[p]
  OBVIOUS
<1>3. PursesOK(p) /\ OffersOK(p) /\ LotteryOK(p)
  <2>1. UNCHANGED purses /\ UNCHANGED offers /\ UNCHANGED lottery
    BY DEF FromInventory, WithdrawItem, SendAuctionItem, SendGem
  <2>2. QED
    BY <1>1, <2>1, Unwritten
<1>4. CASE FromInventory(p)
  <2>1. Commits(p, {"stow", "send"})
    BY <1>4 DEF FromInventory
  <2>2. x.op \in {"stow", "send"} /\ x.item \in Goods
    BY <1>2, <2>1, Committed
  <2>3. x.me \in Traders
    BY <1>2, <2>1, <2>2, Committed DEF Working, Transfers, Solitary
  <2>4. PICK owner : owner = IF x.op = "stow" THEN x.me ELSE x.you
    OBVIOUS
  <2>5. /\ Fits(depot[owner], x.item) /\ box' = box
        /\ \E n \in Units(x.me, x.item) :
              bag' = Drop(bag, x.me, x.item, n) /\ depot' = Put(depot, owner, x.item, n)
    BY <1>2, <1>4, <2>4 DEF FromInventory
  <2>6. PICK n \in Units(x.me, x.item) :
           bag' = Drop(bag, x.me, x.item, n) /\ depot' = Put(depot, owner, x.item, n)
    BY <2>5
  <2>7. n \in Nat /\ (n = 1 \/ x.item \in Stackable) /\ n <= bag[x.me][x.item]
    <3>1. PICK b \in Nat : b = bag[x.me][x.item]
      BY <1>1, <2>2, <2>3
    <3>2. Min({1, b}) = IF 1 <= b THEN 1 ELSE b
      BY MinOfTwo
    <3>3. n \in 1..(IF x.item \in Stackable THEN b ELSE Min({1, b}))
      BY <2>6, <3>1 DEF Units
    <3>4. CASE x.item \in Stackable
      BY <3>1, <3>3, <3>4
    <3>5. CASE x.item \notin Stackable
      BY <3>1, <3>2, <3>3, <3>5
    <3>6. QED
      BY <3>4, <3>5
  <2>8. DepotsOK(depot')
    BY <1>1, <2>2, <2>5, <2>6, <2>7, PutDepot
  <2>9. bag' \in [Traders -> [Goods -> Nat]]
    BY <1>1, <2>2, <2>3, <2>6, <2>7, BagTypes
  <2>10. QED
    BY <1>1, <1>3, <2>5, <2>8, <2>9 DEF Writes, ItemsOK
<1>5. CASE WithdrawItem(p)
  <2>1. Commits(p, {"fetch"})
    BY <1>5 DEF WithdrawItem
  <2>2. x.op = "fetch" /\ x.item \in Goods
    BY <1>2, <2>1, Committed
  <2>3. x.me \in Traders
    BY <1>2, <2>1, <2>2, Committed DEF Working, Solitary
  <2>4. PICK n : /\ n = Instance(depot[x.me], x.item)
                 /\ depot[x.me][x.item] > 0 /\ box' = box
                 /\ depot' = Drop(depot, x.me, x.item, n) /\ bag' = Put(bag, x.me, x.item, n)
    BY <1>2, <1>5 DEF WithdrawItem
  <2>5. n \in Nat /\ n <= depot[x.me][x.item]
    <3>1. depot[x.me][x.item] \in Nat
      BY <1>1, <2>2, <2>3
    <3>2. QED
      BY <2>4, <3>1 DEF Instance
  <2>6. DepotsOK(depot')
    BY <1>1, <2>2, <2>3, <2>4, <2>5, DropDepot
  <2>7. bag' \in [Traders -> [Goods -> Nat]]
    BY <1>1, <2>2, <2>3, <2>4, <2>5, BagTypes
  <2>8. QED
    BY <1>1, <1>3, <2>4, <2>6, <2>7 DEF Writes, ItemsOK
<1>6. CASE SendAuctionItem(p)
  <2>1. Commits(p, {"auction"})
    BY <1>6 DEF SendAuctionItem
  <2>2. x.op = "auction" /\ x.item \in Goods
    BY <1>2, <2>1, Committed
  <2>3. x.me \in Traders
    BY <1>2, <2>1, <2>2, Committed DEF Working, Transfers
  <2>4. /\ bag[x.me][x.item] > 0 /\ Fits(depot[x.you], x.item) /\ box' = box
        /\ bag' = Drop(bag, x.me, x.item, 1) /\ depot' = Put(depot, x.you, x.item, 1)
    BY <1>2, <1>6 DEF SendAuctionItem
  <2>5. 1 <= bag[x.me][x.item]
    <3>1. bag[x.me][x.item] \in Nat
      BY <1>1, <2>2, <2>3
    <3>2. QED
      BY <2>4, <3>1
  <2>6. DepotsOK(depot')
    BY <1>1, <2>2, <2>4, PutDepot
  <2>7. bag' \in [Traders -> [Goods -> Nat]]
    BY <1>1, <2>2, <2>3, <2>4, <2>5, BagTypes
  <2>8. QED
    BY <1>1, <1>3, <2>4, <2>6, <2>7 DEF Writes, ItemsOK
<1>7. CASE SendGem(p)
  <2>1. Commits(p, {"gem"})
    BY <1>7 DEF SendGem
  <2>2. x.op = "gem"
    BY <1>2, <2>1, Committed
  <2>3. x.me \in Traders /\ x.you \in Traders /\ x.me # x.you
    BY <1>2, <2>1, <2>2, Committed DEF Working, Transfers
  <2>4. /\ box[x.you] < BoxCapacity /\ box[x.me] > 0
        /\ box' = [box EXCEPT ![x.me] = @ - 1, ![x.you] = @ + 1]
        /\ depot' = depot /\ bag' = bag
    BY <1>2, <1>7 DEF SendGem
  <2>5. box \in [Traders -> Nat] /\ \A c \in Traders : box[c] <= BoxCapacity /\ box[c] \in Nat
    BY <1>1 DEF BoxesOK
  <2>6. \A c \in Traders : box'[c] = IF c = x.me THEN box[c] - 1
                                     ELSE IF c = x.you THEN box[c] + 1 ELSE box[c]
    BY <2>3, <2>4, <2>5
  <2>7. \A c \in Traders : box'[c] \in Nat /\ box'[c] <= BoxCapacity
    <3>1. BoxCapacity \in Nat
      BY MarketAssumption
    <3>2. QED
      BY <2>3, <2>4, <2>5, <2>6, <3>1
  <2>8. box' \in [Traders -> Nat]
    <3>1. box' = [c \in Traders |-> box'[c]]
      BY <2>4, <2>5
    <3>2. QED
      BY <2>7, <3>1
  <2>9. BoxesOK(box')
    BY <2>7, <2>8 DEF BoxesOK
  <2>10. QED
    BY <1>1, <1>3, <2>4, <2>9 DEF Writes, ItemsOK
<1>8. QED
  BY <1>4, <1>5, <1>6, <1>7

-----------------------------------------------------------------------------
(* Offers                                                                  *)
LEMMA Shrink ==
  ASSUME MarketTypeOK, PlacesHold, NEW p,
         listing' \in [Listings -> Listed], sale' \in [Sales -> Offered],
         store' \in [Traders -> {"none", "open"}],
         \A l \in Listings : listing'[l].state = "active" =>
             listing[l].state = "active" /\ listing'[l].seller = listing[l].seller,
         \A s \in Sales : sale'[s].state # "none" =>
             sale[s].state # "none" /\ sale'[s].seller = sale[s].seller
  PROVE OffersOK(p)
<1>1. ActiveListings' \subseteq ActiveListings
  BY DEF ActiveListings, ActiveIn
<1>2. \A c : ListingsOf(c)' \subseteq ListingsOf(c) /\ SalesOf(c)' \subseteq SalesOf(c)
  BY DEF ListingsOf, SalesOf, ListedIn, ForSaleIn, ActiveIn
<1>3. /\ Cardinality(ActiveListings) <= ServerMaxListings
      /\ \A c \in Traders : /\ Cardinality(ListingsOf(c)) <= MaxListingsPerCharacter
                            /\ Cardinality(SalesOf(c)) <= MaxSales
  BY DEF PlacesHold, WithinLimits, ActiveListings, ListingsOf, SalesOf
<1>4. IsFiniteSet(ActiveListings) /\ \A c : IsFiniteSet(ListingsOf(c)) /\ IsFiniteSet(SalesOf(c))
  BY FiniteCounts DEF ActiveListings, ListingsOf, SalesOf
<1>5. ServerMaxListings \in Nat /\ MaxListingsPerCharacter \in Nat /\ MaxSales \in Nat
  BY MarketAssumption
<1>6. Cardinality(ActiveListings)' <= ServerMaxListings
  BY <1>1, <1>3, <1>4, <1>5, FewerCount
<1>7. ASSUME NEW c \in Traders
      PROVE /\ Cardinality(ListingsOf(c))' <= MaxListingsPerCharacter
            /\ Cardinality(SalesOf(c))' <= MaxSales
  <2>1. PICK A, B, C, D : /\ A = ListingsOf(c) /\ B = ListingsOf(c)'
                          /\ C = SalesOf(c) /\ D = SalesOf(c)'
    OBVIOUS
  <2>2. /\ B \subseteq A /\ IsFiniteSet(A) /\ Cardinality(A) <= MaxListingsPerCharacter
        /\ D \subseteq C /\ IsFiniteSet(C) /\ Cardinality(C) <= MaxSales
    BY <1>2, <1>3, <1>4, <2>1
  <2>3. Cardinality(B) <= MaxListingsPerCharacter
    BY <1>5, <2>2, FewerCount
  <2>4. Cardinality(D) <= MaxSales
    BY <1>5, <2>2, FewerCount
  <2>5. QED
    BY <2>1, <2>3, <2>4
<1>8. QED
  BY <1>1, <1>2, <1>6, <1>7 DEF OffersOK

\* One more is one more.
LEMMA OneMore ==
  ASSUME NEW A, NEW B, NEW e, IsFiniteSet(A), B \subseteq A \cup {e}, NEW n \in Nat, Cardinality(A) < n
  PROVE Cardinality(B) <= n
<1>1. PICK U : U = A \cup {e}
  OBVIOUS
<1>2. Cardinality(A) \in Nat
  BY FS_CardinalityType
<1>3. IsFiniteSet(U) /\ (Cardinality(U) = Cardinality(A) \/ Cardinality(U) = Cardinality(A) + 1)
  BY <1>1, FS_AddElement
<1>4. Cardinality(U) \in Nat /\ Cardinality(U) <= n
  BY <1>2, <1>3
<1>5. B \in SUBSET U
  BY <1>1
<1>6. Cardinality(B) <= Cardinality(U) /\ IsFiniteSet(B)
  BY <1>3, <1>5, FS_Subset
<1>7. Cardinality(B) \in Nat
  BY <1>6, FS_CardinalityType
<1>8. QED
  BY <1>4, <1>6, <1>7

LEMMA CloseShrinks ==
  ASSUME MarketTypeOK, PlacesHold, NEW p, NEW l \in Listings, NEW s \in {"sold", "cancelled"},
         CloseListing(l, s), sale' = sale, store' = store
  PROVE OffersOK(p)
<1>1. listing \in [Listings -> Listed] /\ sale \in [Sales -> Offered]
      /\ store \in [Traders -> {"none", "open"}]
  BY DEF MarketTypeOK
<1>2. PICK x, y : x = listing[l] /\ y = [x EXCEPT !.state = s]
  OBVIOUS
<1>3. x \in Listed
  BY <1>1, <1>2
<1>4. y \in Listed /\ y.state = s
  BY <1>2, <1>3 DEF Listed
<1>5. listing' = [listing EXCEPT ![l] = y]
  BY <1>2 DEF CloseListing
<1>6. listing' \in [Listings -> Listed] /\ \A k \in Listings : listing'[k] = IF k = l THEN y ELSE listing[k]
  BY <1>1, <1>4, <1>5
<1>7. \A k \in Listings : listing'[k].state = "active" =>
          listing[k].state = "active" /\ listing'[k].seller = listing[k].seller
  BY <1>4, <1>6
<1>8. QED
  BY <1>1, <1>6, <1>7, Shrink

LEMMA DeleteShrinks ==
  ASSUME MarketTypeOK, PlacesHold, NEW p, NEW s \in Sales, DeleteSale(s),
         listing' = listing, store' = store
  PROVE OffersOK(p)
<1>1. listing \in [Listings -> Listed] /\ sale \in [Sales -> Offered]
      /\ store \in [Traders -> {"none", "open"}]
  BY DEF MarketTypeOK
<1>2. NoSale \in Offered /\ NoSale.state = "none"
  BY MarketAssumption DEF NoSale, Offered
<1>3. sale' = [sale EXCEPT ![s] = NoSale]
  BY DEF DeleteSale
<1>4. sale' \in [Sales -> Offered] /\ \A k \in Sales : sale'[k] = IF k = s THEN NoSale ELSE sale[k]
  BY <1>1, <1>2, <1>3
<1>5. \A k \in Sales : sale'[k].state # "none" =>
          sale[k].state # "none" /\ sale'[k].seller = sale[k].seller
  BY <1>2, <1>4
<1>6. QED
  BY <1>1, <1>4, <1>5, Shrink

LEMMA ListingAdded ==
  ASSUME MarketTypeOK, PlacesHold, NEW p, NEW c \in Traders, NEW k \in Goods, NEW l \in Listings,
         held[<<"market">>] = p, held[Character(c)] = p,
         Cardinality(ActiveListings) < ServerMaxListings,
         Cardinality(ListingsOf(c)) < MaxListingsPerCharacter,
         listing' = [listing EXCEPT ![l] = [state |-> "active", seller |-> c, item |-> k]],
         listing[l].state = "none", sale' = sale, store' = store
  PROVE OffersOK(p)
<1>1. listing \in [Listings -> Listed] /\ sale \in [Sales -> Offered]
      /\ store \in [Traders -> {"none", "open"}]
  BY DEF MarketTypeOK
<1>2. PICK y : y = [state |-> "active", seller |-> c, item |-> k]
  OBVIOUS
<1>3. y \in Listed /\ y.seller = c
  BY <1>2 DEF Listed
<1>4. listing' = [listing EXCEPT ![l] = y]
  BY <1>2
<1>5. listing' \in [Listings -> Listed] /\ \A j \in Listings : listing'[j] = IF j = l THEN y ELSE listing[j]
  BY <1>1, <1>3, <1>4
<1>6. ActiveListings' \subseteq ActiveListings \cup {l}
  BY <1>5 DEF ActiveListings, ActiveIn
<1>7. \A b \in Traders : ListingsOf(b)' \subseteq ListingsOf(b) \cup (IF b = c THEN {l} ELSE {})
  BY <1>3, <1>5 DEF ListingsOf, ListedIn, ActiveIn
<1>8. \A b : SalesOf(b)' = SalesOf(b)
  BY DEF SalesOf
<1>9. /\ \A b \in Traders : /\ Cardinality(ListingsOf(b)) <= MaxListingsPerCharacter
                            /\ Cardinality(SalesOf(b)) <= MaxSales
  BY DEF PlacesHold, WithinLimits, ListingsOf, SalesOf
<1>10. IsFiniteSet(ActiveListings) /\ \A b : IsFiniteSet(ListingsOf(b))
  BY FiniteCounts DEF ActiveListings, ListingsOf
<1>11. ServerMaxListings \in Nat /\ MaxListingsPerCharacter \in Nat
  BY MarketAssumption
<1>12. Cardinality(ActiveListings)' <= ServerMaxListings
  <2>1. PICK A, B : A = ActiveListings /\ B = ActiveListings'
    OBVIOUS
  <2>2. IsFiniteSet(A) /\ B \subseteq A \cup {l} /\ Cardinality(A) < ServerMaxListings
    BY <1>6, <1>10, <2>1
  <2>3. Cardinality(B) <= ServerMaxListings
    BY <1>11, <2>2, OneMore
  <2>4. QED
    BY <2>1, <2>3
<1>13. ASSUME NEW b \in Traders
       PROVE /\ Cardinality(ListingsOf(b))' <= MaxListingsPerCharacter
             /\ ListingsOf(b)' \subseteq ListingsOf(b) \/ held[Character(b)] = p
  <2>1. PICK A, B : A = ListingsOf(b) /\ B = ListingsOf(b)'
    OBVIOUS
  <2>2. CASE b = c
    <3>1. IsFiniteSet(A) /\ B \subseteq A \cup {l} /\ Cardinality(A) < MaxListingsPerCharacter
      BY <1>7, <1>10, <2>1, <2>2
    <3>2. Cardinality(B) <= MaxListingsPerCharacter
      BY <1>11, <3>1, OneMore
    <3>3. QED
      BY <2>1, <2>2, <3>2
  <2>3. CASE b # c
    <3>1. IsFiniteSet(A) /\ B \subseteq A /\ Cardinality(A) <= MaxListingsPerCharacter
      BY <1>7, <1>9, <1>10, <2>1, <2>3
    <3>2. Cardinality(B) <= MaxListingsPerCharacter
      BY <1>11, <3>1, FewerCount
    <3>3. QED
      BY <2>1, <3>1, <3>2
  <2>4. QED
    BY <2>2, <2>3
<1>14. QED
  BY <1>1, <1>5, <1>8, <1>9, <1>12, <1>13 DEF OffersOK

LEMMA SaleAdded ==
  ASSUME MarketTypeOK, PlacesHold, NEW p, NEW c \in Traders, NEW s \in Sales, NEW y \in Offered,
         y.seller = c, held[Character(c)] = p, Cardinality(SalesOf(c)) < MaxSales,
         sale' = [sale EXCEPT ![s] = y], listing' = listing, store' = store
  PROVE OffersOK(p)
<1>1. listing \in [Listings -> Listed] /\ sale \in [Sales -> Offered]
      /\ store \in [Traders -> {"none", "open"}]
  BY DEF MarketTypeOK
<1>2. sale' \in [Sales -> Offered] /\ \A j \in Sales : sale'[j] = IF j = s THEN y ELSE sale[j]
  BY <1>1
<1>3. ActiveListings' = ActiveListings /\ \A b : ListingsOf(b)' = ListingsOf(b)
  BY DEF ActiveListings, ListingsOf
<1>4. \A b \in Traders : SalesOf(b)' \subseteq SalesOf(b) \cup (IF b = c THEN {s} ELSE {})
  BY <1>2 DEF SalesOf, ForSaleIn
<1>5. /\ Cardinality(ActiveListings) <= ServerMaxListings
      /\ \A b \in Traders : /\ Cardinality(ListingsOf(b)) <= MaxListingsPerCharacter
                            /\ Cardinality(SalesOf(b)) <= MaxSales
  BY DEF PlacesHold, WithinLimits, ActiveListings, ListingsOf, SalesOf
<1>6. \A b : IsFiniteSet(SalesOf(b))
  BY FiniteCounts DEF SalesOf
<1>7. MaxSales \in Nat
  BY MarketAssumption
<1>8. ASSUME NEW b \in Traders
      PROVE /\ Cardinality(SalesOf(b))' <= MaxSales
            /\ SalesOf(b)' \subseteq SalesOf(b) \/ held[Character(b)] = p
  <2>1. PICK A, B : A = SalesOf(b) /\ B = SalesOf(b)'
    OBVIOUS
  <2>2. CASE b = c
    <3>1. IsFiniteSet(A) /\ B \subseteq A \cup {s} /\ Cardinality(A) < MaxSales
      BY <1>4, <1>6, <2>1, <2>2
    <3>2. Cardinality(B) <= MaxSales
      BY <1>7, <3>1, OneMore
    <3>3. QED
      BY <2>1, <2>2, <3>2
  <2>3. CASE b # c
    <3>1. IsFiniteSet(A) /\ B \subseteq A /\ Cardinality(A) <= MaxSales
      BY <1>4, <1>5, <1>6, <2>1, <2>3
    <3>2. Cardinality(B) <= MaxSales
      BY <1>7, <3>1, FewerCount
    <3>3. QED
      BY <2>1, <3>1, <3>2
  <2>4. QED
    BY <2>2, <2>3
<1>9. QED
  BY <1>1, <1>2, <1>3, <1>5, <1>8 DEF OffersOK

LEMMA ListingWrites ==
  ASSUME MarketIInv, LimitsIInv, NEW p \in Callers,
         CreateListing(p) \/ PurchaseListing(p) \/ CancelListing(p)
  PROVE Writes(p)
<1>1. /\ MarketTypeOK /\ PlacesHold /\ DepotsOK(depot) /\ BoxesOK(box)
      /\ bag \in [Traders -> [Goods -> Nat]] /\ depot \in [Traders -> [Goods -> Nat]]
      /\ listing \in [Listings -> Listed]
  BY Unwritten DEF LimitsIInv, MarketTypeOK
<1>2. PICK x : x = deal[p]
  OBVIOUS
<1>3. LotteryOK(p) /\ bag' = bag /\ box' = box /\ sale' = sale /\ store' = store
  <2>1. UNCHANGED lottery /\ bag' = bag /\ box' = box /\ sale' = sale /\ store' = store
    BY DEF CreateListing, PurchaseListing, CancelListing
  <2>2. QED
    BY <1>1, <2>1, Unwritten
<1>4. ASSUME DepotsOK(depot')
      PROVE ItemsOK
  BY <1>1, <1>3, <1>4 DEF ItemsOK
<1>5. CASE CreateListing(p)
  <2>1. Commits(p, {"list"})
    BY <1>5 DEF CreateListing
  <2>2. x.op = "list" /\ x.item \in Goods
    BY <1>2, <2>1, Committed
  <2>3. /\ x.me \in Traders /\ held[Character(x.me)] = p /\ held[<<"market">>] = p
        /\ Cardinality(ActiveListings) < ServerMaxListings
        /\ Cardinality(ListingsOf(x.me)) < MaxListingsPerCharacter
    BY <1>2, <2>1, <2>2, Committed DEF Working, Solitary
  <2>4. /\ depot[x.me][x.item] > 0 /\ depot' = Drop(depot, x.me, x.item, 1) /\ UNCHANGED purses
        /\ \E l \in Listings :
             /\ listing[l].state = "none"
             /\ listing' = [listing EXCEPT
                    ![l] = [state |-> "active", seller |-> x.me, item |-> x.item]]
    BY <1>2, <1>5 DEF CreateListing
  <2>5. DepotsOK(depot')
    <3>1. depot[x.me][x.item] \in Nat
      BY <1>1, <2>2, <2>3
    <3>2. 1 <= depot[x.me][x.item]
      BY <2>4, <3>1
    <3>3. QED
      BY <1>1, <2>2, <2>3, <2>4, <3>2, DropDepot
  <2>6. PursesOK(p)
    BY <1>1, <2>4, Unwritten
  <2>7. OffersOK(p)
    BY <1>1, <1>3, <2>2, <2>3, <2>4, ListingAdded
  <2>8. QED
    BY <1>3, <1>4, <2>5, <2>6, <2>7 DEF Writes
<1>6. CASE PurchaseListing(p)
  <2>1. Commits(p, {"buy"})
    BY <1>6 DEF PurchaseListing
  <2>2. x.op = "buy"
    BY <1>2, <2>1, Committed
  <2>3. x.me \in Traders /\ held[Character(x.me)] = p /\ x.id \in Listings /\ gold[x.me] >= Price
        /\ listing[x.id].seller # x.me
    BY <1>2, <2>1, <2>2, Committed DEF Working, OnListings
  <2>4. PICK sold : sold = listing[x.id] /\ sold.item \in Goods /\ sold.seller # x.me
    BY <1>1, <2>3 DEF Listed
  <2>5. /\ gold' = Pay(x.me, sold.seller, Price) /\ saved' = saved
        /\ Fits(depot[x.me], sold.item) /\ depot' = Put(depot, x.me, sold.item, 1)
        /\ CloseListing(x.id, "sold")
    BY <1>2, <1>6, <2>4 DEF PurchaseListing
  <2>6. DepotsOK(depot')
    BY <1>1, <2>4, <2>5, PutDepot
  <2>7. PursesOK(p)
    BY <1>1, <2>3, <2>4, <2>5, PaidOK, MarketAssumption
  <2>8. OffersOK(p)
    BY <1>1, <1>3, <2>3, <2>5, CloseShrinks
  <2>9. QED
    BY <1>3, <1>4, <2>6, <2>7, <2>8 DEF Writes
<1>7. CASE CancelListing(p)
  <2>1. Commits(p, {"cancel"})
    BY <1>7 DEF CancelListing
  <2>2. x.op = "cancel"
    BY <1>2, <2>1, Committed
  <2>3. x.id \in Listings
    BY <1>2, <2>1, <2>2, Committed DEF OnListings
  <2>4. PICK k \in Goods : k = listing[x.id].item
    BY <1>1, <2>3 DEF Listed
  <2>5. /\ Fits(depot[x.me], k) /\ depot' = Put(depot, x.me, k, 1)
        /\ CloseListing(x.id, "cancelled") /\ UNCHANGED purses
    BY <1>2, <1>7, <2>4 DEF CancelListing
  <2>6. DepotsOK(depot')
    BY <1>1, <2>4, <2>5, PutDepot
  <2>7. PursesOK(p)
    BY <1>1, <2>5, Unwritten
  <2>8. OffersOK(p)
    BY <1>1, <1>3, <2>3, <2>5, CloseShrinks
  <2>9. QED
    BY <1>3, <1>4, <2>6, <2>7, <2>8 DEF Writes
<1>8. QED
  BY <1>5, <1>6, <1>7

LEMMA SaleWrites ==
  ASSUME MarketIInv, LimitsIInv, NEW p \in Callers,
         ListSale(p) \/ WithdrawListing(p) \/ BuyItem(p) \/ TradeItem(p)
  PROVE Writes(p)
<1>1. /\ MarketTypeOK /\ PlacesHold /\ DepotsOK(depot) /\ BoxesOK(box)
      /\ bag \in [Traders -> [Goods -> Nat]] /\ depot \in [Traders -> [Goods -> Nat]]
      /\ sale \in [Sales -> Offered]
  BY Unwritten DEF LimitsIInv, MarketTypeOK
<1>2. PICK x : x = deal[p]
  OBVIOUS
<1>3. LotteryOK(p) /\ bag' = bag /\ box' = box /\ listing' = listing /\ store' = store
  <2>1. UNCHANGED lottery /\ bag' = bag /\ box' = box /\ listing' = listing /\ store' = store
    BY DEF ListSale, WithdrawListing, BuyItem, TradeItem
  <2>2. QED
    BY <1>1, <2>1, Unwritten
<1>4. ASSUME DepotsOK(depot')
      PROVE ItemsOK
  BY <1>1, <1>3, <1>4 DEF ItemsOK
<1>5. CASE ListSale(p)
  <2>1. Commits(p, {"offer", "barter"})
    BY <1>5 DEF ListSale
  <2>2. x.op \in {"offer", "barter"} /\ x.item \in Goods
    BY <1>2, <2>1, Committed
  <2>3. /\ x.me \in Traders /\ held[Character(x.me)] = p /\ Cardinality(SalesOf(x.me)) < MaxSales
    BY <1>2, <2>1, <2>2, Committed DEF Working, Solitary
  <2>4. /\ depot[x.me][x.item] > 0 /\ depot' = Drop(depot, x.me, x.item, 1) /\ UNCHANGED purses
    BY <1>2, <1>5 DEF ListSale
  <2>5. PICK s \in Sales, wish \in Goods :
           sale' = [sale EXCEPT ![s] = [state |-> IF x.op = "offer" THEN "gold" ELSE "barter",
                                        seller |-> x.me, item |-> x.item, wish |-> wish]]
    BY <1>2, <1>5 DEF ListSale
  <2>6. PICK y : y = [state |-> IF x.op = "offer" THEN "gold" ELSE "barter",
                      seller |-> x.me, item |-> x.item, wish |-> wish]
    OBVIOUS
  <2>7. y \in Offered /\ y.seller = x.me
    BY <2>2, <2>3, <2>6 DEF Offered
  <2>8. DepotsOK(depot')
    <3>1. depot[x.me][x.item] \in Nat
      BY <1>1, <2>2, <2>3
    <3>2. 1 <= depot[x.me][x.item]
      BY <2>4, <3>1
    <3>3. QED
      BY <1>1, <2>2, <2>3, <2>4, <3>2, DropDepot
  <2>9. PursesOK(p)
    BY <1>1, <2>4, Unwritten
  <2>10. OffersOK(p)
    BY <1>1, <1>3, <2>3, <2>5, <2>6, <2>7, SaleAdded
  <2>11. QED
    BY <1>3, <1>4, <2>8, <2>9, <2>10 DEF Writes
<1>6. CASE WithdrawListing(p)
  <2>1. Commits(p, {"withdraw"})
    BY <1>6 DEF WithdrawListing
  <2>2. x.op = "withdraw"
    BY <1>2, <2>1, Committed
  <2>3. x.id \in Sales
    BY <1>2, <2>1, <2>2, Committed DEF OnSales
  <2>4. PICK k \in Goods : k = sale[x.id].item
    BY <1>1, <2>3 DEF Offered
  <2>5. /\ Fits(depot[x.me], k) /\ depot' = Put(depot, x.me, k, 1)
        /\ DeleteSale(x.id) /\ UNCHANGED purses
    BY <1>2, <1>6, <2>4 DEF WithdrawListing
  <2>6. DepotsOK(depot')
    BY <1>1, <2>4, <2>5, PutDepot
  <2>7. PursesOK(p)
    BY <1>1, <2>5, Unwritten
  <2>8. OffersOK(p)
    BY <1>1, <1>3, <2>3, <2>5, DeleteShrinks
  <2>9. QED
    BY <1>3, <1>4, <2>6, <2>7, <2>8 DEF Writes
<1>7. CASE BuyItem(p)
  <2>1. Commits(p, {"purchase"})
    BY <1>7 DEF BuyItem
  <2>2. x.op = "purchase"
    BY <1>2, <2>1, Committed
  <2>3. x.me \in Traders /\ held[Character(x.me)] = p /\ x.id \in Sales /\ gold[x.me] >= Price
        /\ sale[x.id].seller # x.me
    BY <1>2, <2>1, <2>2, Committed DEF Working, OnSales
  <2>4. PICK sold : sold = sale[x.id] /\ sold.item \in Goods /\ sold.seller # x.me
    BY <1>1, <2>3 DEF Offered
  <2>5. /\ gold' = Pay(x.me, sold.seller, Price) /\ saved' = saved
        /\ Fits(depot[x.me], sold.item) /\ depot' = Put(depot, x.me, sold.item, 1)
        /\ DeleteSale(x.id)
    BY <1>2, <1>7, <2>4 DEF BuyItem
  <2>6. DepotsOK(depot')
    BY <1>1, <2>4, <2>5, PutDepot
  <2>7. PursesOK(p)
    BY <1>1, <2>3, <2>4, <2>5, PaidOK, MarketAssumption
  <2>8. OffersOK(p)
    BY <1>1, <1>3, <2>3, <2>5, DeleteShrinks
  <2>9. QED
    BY <1>3, <1>4, <2>6, <2>7, <2>8 DEF Writes
<1>8. CASE TradeItem(p)
  <2>1. Commits(p, {"trade"})
    BY <1>8 DEF TradeItem
  <2>2. x.op = "trade" /\ x.item \in Goods
    BY <1>2, <2>1, Committed
  <2>3. x.me \in Traders /\ x.id \in Sales /\ sale[x.id].seller # x.me
    BY <1>2, <2>1, <2>2, Committed DEF Working, OnSales
  <2>4. PICK sold : sold = sale[x.id] /\ sold.item \in Goods /\ sold.seller # x.me
    BY <1>1, <2>3 DEF Offered
  <2>5. PICK paid : paid = Drop(depot, x.me, x.item, 1)
    OBVIOUS
  <2>6. /\ depot[x.me][x.item] > 0
        /\ Fits(depot[sold.seller], x.item) /\ Fits(paid[x.me], sold.item)
        /\ depot' = Put(Put(paid, sold.seller, x.item, 1), x.me, sold.item, 1)
        /\ DeleteSale(x.id) /\ UNCHANGED purses
    BY <1>2, <1>8, <2>4, <2>5 DEF TradeItem
  <2>7. DepotsOK(paid) /\ \A b \in Traders : b # x.me => paid[b] = depot[b]
    <3>1. depot[x.me][x.item] \in Nat
      BY <1>1, <2>2, <2>3
    <3>2. 1 <= depot[x.me][x.item]
      BY <2>6, <3>1
    <3>3. DepotsOK(paid)
      BY <1>1, <2>2, <2>3, <2>5, <3>2, DropDepot
    <3>4. \A b \in Traders : b # x.me => paid[b] = depot[b]
      BY <1>1, <2>2, <2>3, <2>5, <3>2, DropDepot
    <3>5. QED
      BY <3>3, <3>4
  <2>8. PICK given : given = Put(paid, sold.seller, x.item, 1)
    OBVIOUS
  <2>9. DepotsOK(given) /\ \A b \in Traders : b # sold.seller => given[b] = paid[b]
    <3>1. sold.seller \in Traders => Fits(paid[sold.seller], x.item)
      BY <2>4, <2>6, <2>7
    <3>2. QED
      BY <2>2, <2>7, <2>8, <3>1, PutDepot
  <2>10. DepotsOK(depot')
    <3>1. Fits(given[x.me], sold.item) /\ depot' = Put(given, x.me, sold.item, 1)
      BY <2>3, <2>4, <2>6, <2>8, <2>9
    <3>2. QED
      BY <2>4, <2>9, <3>1, PutDepot
  <2>11. PursesOK(p)
    BY <1>1, <2>6, Unwritten
  <2>12. OffersOK(p)
    BY <1>1, <1>3, <2>3, <2>6, DeleteShrinks
  <2>13. QED
    BY <1>3, <1>4, <2>10, <2>11, <2>12 DEF Writes
<1>9. QED
  BY <1>5, <1>6, <1>7, <1>8

-----------------------------------------------------------------------------
(* Stores and the lottery                                                  *)
LEMMA OtherWrites ==
  ASSUME MarketIInv, LimitsIInv, NEW p \in Callers,
         BuildStore(p) \/ PurchaseTakarakujiTicket(p) \/ DrawTakarakuji(p)
  PROVE Writes(p)
<1>1. /\ MarketTypeOK /\ PlacesHold /\ DepotsOK(depot) /\ BoxesOK(box)
      /\ gold \in [Traders -> 0..MaxWallet] /\ saved \in [Traders -> 0..MaxDeposit]
      /\ bag \in [Traders -> [Goods -> Nat]] /\ depot \in [Traders -> [Goods -> Nat]]
      /\ tickets \subseteq Traders /\ won \subseteq tickets
  BY Unwritten DEF LimitsIInv, MarketTypeOK
<1>2. PICK x : x = deal[p]
  OBVIOUS
<1>3. ASSUME NEW c \in Traders, held[Character(c)] = p, NEW n \in Nat, gold[c] >= n,
             gold' = [gold EXCEPT ![c] = @ - n], saved' = saved
      PROVE PursesOK(p)
  <2>1. gold[c] \in 0..MaxWallet /\ MaxWallet \in Nat
    BY <1>1, <1>3, MarketAssumption
  <2>2. gold[c] - n \in 0..MaxWallet
    BY <1>3, <2>1
  <2>3. gold' = [gold EXCEPT ![c] = gold[c] - n] /\ saved' \in [Traders -> 0..MaxDeposit]
    BY <1>1, <1>3
  <2>4. QED
    BY <1>1, <1>3, <2>2, <2>3, Spent
<1>4. CASE BuildStore(p)
  <2>1. Commits(p, {"build"})
    BY <1>4 DEF BuildStore
  <2>2. x.op = "build"
    BY <1>2, <2>1, Committed
  <2>3. x.me \in Traders /\ held[Character(x.me)] = p /\ gold[x.me] >= StorePrice
    BY <1>2, <2>1, <2>2, Committed DEF Working, Solitary
  <2>4. /\ gold' = [gold EXCEPT ![x.me] = @ - StorePrice] /\ saved' = saved
        /\ store' = [store EXCEPT ![x.me] = "open"] /\ listing' = listing /\ sale' = sale
        /\ UNCHANGED items /\ UNCHANGED lottery
    BY <1>2, <1>4 DEF BuildStore
  <2>5. PursesOK(p)
    BY <1>3, <2>3, <2>4, MarketAssumption
  <2>6. ItemsOK /\ LotteryOK(p)
    BY <1>1, <2>4, Unwritten
  <2>7. listing' \in [Listings -> Listed] /\ sale' \in [Sales -> Offered]
    BY <1>1, <2>4 DEF MarketTypeOK
  <2>8. store' \in [Traders -> {"none", "open"}]
    BY <1>1, <2>4 DEF MarketTypeOK
  <2>9. OffersOK(p)
    BY <1>1, <2>4, <2>7, <2>8, Shrink
  <2>10. QED
    BY <2>5, <2>6, <2>9 DEF Writes
<1>5. CASE PurchaseTakarakujiTicket(p)
  <2>1. Commits(p, {"ticket"})
    BY <1>5 DEF PurchaseTakarakujiTicket
  <2>2. x.op = "ticket"
    BY <1>2, <2>1, Committed
  <2>3. /\ x.me \in Traders /\ held[Character(x.me)] = p /\ held[<<"round">>] = p
        /\ Cardinality(tickets) < MaxTickets
    BY <1>2, <2>1, <2>2, Committed DEF Working, Solitary
  <2>4. /\ gold[x.me] >= TicketPrice /\ gold' = [gold EXCEPT ![x.me] = @ - TicketPrice]
        /\ saved' = saved /\ tickets' = tickets \cup {x.me} /\ won' = won
        /\ UNCHANGED items /\ UNCHANGED offers
    BY <1>2, <1>5 DEF PurchaseTakarakujiTicket
  <2>5. PursesOK(p)
    BY <1>3, <2>3, <2>4, MarketAssumption
  <2>6. ItemsOK /\ OffersOK(p)
    BY <1>1, <2>4, Unwritten
  <2>7. Cardinality(tickets') <= MaxTickets
    <3>1. tickets \in SUBSET Traders /\ IsFiniteSet(Traders) /\ MaxTickets \in Nat
      BY <1>1, MarketAssumption
    <3>2. IsFiniteSet(tickets)
      BY <3>1, FS_Subset
    <3>3. tickets' \subseteq tickets \cup {x.me}
      BY <2>4
    <3>4. QED
      BY <2>3, <3>1, <3>2, <3>3, OneMore
  <2>8. LotteryOK(p)
    BY <1>1, <2>3, <2>4, <2>7 DEF LotteryOK
  <2>9. QED
    BY <2>5, <2>6, <2>8 DEF Writes
<1>6. CASE DrawTakarakuji(p)
  <2>1. Commits(p, {"draw"})
    BY <1>6 DEF DrawTakarakuji
  <2>2. x.op = "draw"
    BY <1>2, <2>1, Committed
  <2>3. x.winners \subseteq tickets
    BY <1>2, <2>1, <2>2, Committed
  <2>4. /\ \A c \in x.winners : Fits(depot[c], Prize)
        /\ depot' = [c \in Traders |->
               IF c \in x.winners THEN [depot[c] EXCEPT ![Prize] = @ + 1] ELSE depot[c]]
        /\ won' = x.winners /\ tickets' = tickets /\ bag' = bag /\ box' = box
        /\ UNCHANGED purses /\ UNCHANGED offers
    BY <1>2, <1>6 DEF DrawTakarakuji
  <2>5. PursesOK(p) /\ OffersOK(p)
    BY <1>1, <2>4, Unwritten
  <2>6. ASSUME NEW c \in Traders
        PROVE depot'[c] \in [Goods -> Nat] /\ Slots(depot'[c]) <= DepotCapacity
    <3>1. depot[c] \in [Goods -> Nat] /\ Slots(depot[c]) <= DepotCapacity
      BY <1>1 DEF DepotsOK
    <3>2. CASE c \in x.winners
      <4>1. PICK e : e = [depot[c] EXCEPT ![Prize] = @ + 1]
        OBVIOUS
      <4>2. depot'[c] = e
        BY <2>4, <3>2, <4>1
      <4>3. Fits(depot[c], Prize) /\ Prize \in Goods
        BY <2>4, <3>2, MarketAssumption
      <4>4. e \in [Goods -> Nat] /\ Slots(e) <= DepotCapacity
        BY <3>1, <4>1, <4>3, SlotsPut
      <4>5. QED
        BY <4>2, <4>4
    <3>3. CASE c \notin x.winners
      BY <2>4, <3>1, <3>3
    <3>4. QED
      BY <3>2, <3>3
  <2>7. DepotsOK(depot')
    <3>1. depot' = [c \in Traders |-> depot'[c]]
      BY <2>4
    <3>2. depot' \in [Traders -> [Goods -> Nat]]
      BY <2>6, <3>1
    <3>3. QED
      BY <2>6, <3>2 DEF DepotsOK
  <2>8. ItemsOK
    BY <1>1, <2>4, <2>7 DEF ItemsOK
  <2>9. LotteryOK(p)
    BY <1>1, <2>3, <2>4 DEF LotteryOK, PlacesHold, WithinLimits
  <2>10. QED
    BY <2>5, <2>8, <2>9 DEF Writes
<1>7. QED
  BY <1>4, <1>5, <1>6

LEMMA NothingWritten ==
  ASSUME LimitsIInv, NEW p, UNCHANGED <<purses, items, offers, lottery>>
  PROVE Writes(p)
BY Unwritten DEF LimitsIInv, Writes

-----------------------------------------------------------------------------
(* The limits                                                              *)

\* A step that writes nothing but the transaction of p and its locks.
LEMMA OneStatement ==
  ASSUME MarketIInv, LimitsIInv, NEW p \in Callers, UNCHANGED <<purses, items, offers, lottery>>,
         held' \in [Rows -> Callers \cup {Nobody}], DOMAIN deal' = Callers, deals' \in 0..MaxDeals,
         \A q \in Callers : q # p => deal'[q] = deal[q], Checked(deal'[p])
  PROVE LimitsIInv'
<1>1. MarketTypeOK /\ PlacesHold /\ \A q \in Callers : Checked(deal[q])
  BY DEF LimitsIInv
<1>2. /\ gold' = gold /\ saved' = saved /\ depot' = depot /\ bag' = bag /\ box' = box
      /\ listing' = listing /\ sale' = sale /\ store' = store /\ tickets' = tickets /\ won' = won
  BY DEF purses, items, offers, lottery
<1>3. MarketTypeOK'
  BY <1>1, <1>2 DEF MarketTypeOK
<1>4. PlacesHold'
  BY <1>1, <1>2 DEF PlacesHold
<1>5. \A x : Checked(x) => Checked(x)'
  <2>1. TAKE x
  <2>2. /\ ActiveListings' = ActiveListings /\ ListingsOf(x.me)' = ListingsOf(x.me)
        /\ SalesOf(x.me)' = SalesOf(x.me) /\ Path(x)' = Path(x)
    BY <1>2 DEF ActiveListings, ListingsOf, SalesOf, Path, Seller
  <2>3. QED
    BY <1>2, <2>2 DEF Checked
<1>6. ASSUME NEW q \in Callers
      PROVE Checked(deal[q])'
  <2>1. PICK y : y = deal'[q]
    OBVIOUS
  <2>2. Checked(y)
    BY <1>1, <1>6, <2>1
  <2>3. Checked(y)'
    BY <1>5, <2>2
  <2>4. QED
    BY <2>1, <2>3
<1>7. QED
  BY <1>3, <1>4, <1>6 DEF LimitsIInv

LEMMA BeginLimits ==
  ASSUME MarketIInv, LimitsIInv, NEW p \in Callers, BeginDeal(p)
  PROVE LimitsIInv'
<1>1. PICK x \in Requests :
         /\ deals < MaxDeals
         /\ x.op \in {"gold", "money", "gem", "send", "auction"} => x.me # x.you
         /\ deal' = [deal EXCEPT ![p] =
                [f \in DOMAIN NoDeal |-> IF f \in DOMAIN x THEN x[f] ELSE NoDeal[f]]]
         /\ deals' = deals + 1
         /\ UNCHANGED <<purses, items, offers, lottery, held>>
  BY DEF BeginDeal
<1>2. PICK y : y = [f \in DOMAIN NoDeal |-> IF f \in DOMAIN x THEN x[f] ELSE NoDeal[f]]
  OBVIOUS
<1>3. y \in Deals /\ DealOK(y) /\ y.at = 0
  <2>1. x.op \in Transfers => x.me # x.you
    BY <1>1 DEF Transfers
  <2>2. QED
    BY <1>2, <2>1, RequestOK
<1>4. deal \in [Callers -> Deals] /\ held \in [Rows -> Callers \cup {Nobody}] /\ deals \in 0..MaxDeals
  BY DEF MarketIInv, TablesOK, LimitsIInv, MarketTypeOK
<1>5. deal' = [deal EXCEPT ![p] = y]
  BY <1>1, <1>2
<1>6. DOMAIN deal' = Callers /\ deal'[p] = y /\ \A q \in Callers : q # p => deal'[q] = deal[q]
  BY <1>4, <1>5
<1>7. deals' \in 0..MaxDeals
  BY <1>1, <1>4, MarketAssumption
<1>8. Checked(y)
  <2>1. \A i \in 1..y.at : FALSE
    BY <1>3
  <2>2. QED
    BY <1>3, <2>1 DEF Checked
<1>9. held' = held /\ UNCHANGED <<purses, items, offers, lottery>>
  BY <1>1
<1>10. QED
  BY <1>4, <1>6, <1>7, <1>8, <1>9, OneStatement

LEMMA ExecuteLimits ==
  ASSUME MarketIInv, LimitsIInv, NEW p \in Callers, Execute(p)
  PROVE LimitsIInv'
<1>1. PICK x : x = deal[p]
  OBVIOUS
<1>2. x \in Deals /\ DealOK(x) /\ Checked(x) /\ deal \in [Callers -> Deals]
      /\ held \in [Rows -> Callers \cup {Nobody}] /\ deals \in 0..MaxDeals
  BY <1>1 DEF MarketIInv, TablesOK, CallerOK, LimitsIInv, MarketTypeOK
<1>3. PICK s : s = Plan(x)[x.at + 1]
  OBVIOUS
<1>4. /\ s.ok /\ x.at < Len(Plan(x)) /\ x # NoDeal
      /\ held' = IF s.row = NoRow THEN held ELSE [held EXCEPT ![s.row] = p]
      /\ deals' = deals /\ UNCHANGED <<purses, items, offers, lottery>>
  BY <1>1, <1>3 DEF Execute, NextStatement
<1>5. PICK y : y = [x EXCEPT !.at = @ + 1]
  OBVIOUS
<1>6. deal' = [deal EXCEPT ![p] = y]
  BY <1>1, <1>5 DEF Execute
<1>7. x.at \in Nat
  BY <1>2 DEF DealOK
<1>8. /\ y.op = x.op /\ y.me = x.me /\ y.you = x.you /\ y.id = x.id /\ y.winners = x.winners
      /\ y.at = x.at + 1
  BY <1>2, <1>5, <1>7 DEF Deals
<1>9. DOMAIN deal' = Callers /\ deal'[p] = y /\ \A q \in Callers : q # p => deal'[q] = deal[q]
  BY <1>2, <1>6
<1>10. held' \in [Rows -> Callers \cup {Nobody}]
  BY <1>2, <1>4
<1>11. /\ x.op = "list" /\ x.at = 1 => Cardinality(ActiveListings) < ServerMaxListings
       /\ x.op = "list" /\ x.at = 2 => Cardinality(ListingsOf(x.me)) < MaxListingsPerCharacter
       /\ x.op \in {"offer", "barter"} /\ x.at = 2 => Cardinality(SalesOf(x.me)) < MaxSales
       /\ x.op = "build" /\ x.at = 0 => gold[x.me] >= StorePrice
       /\ x.op = "ticket" /\ x.at = 1 => Cardinality(tickets) < MaxTickets /\ x.me \notin tickets
       /\ x.op = "draw" /\ x.at = 0 => x.winners \subseteq tickets
       /\ x.op \in {"buy", "purchase"} /\ s.row = NoRow => gold[x.me] >= Price
  BY <1>2, <1>3, <1>4, CheckPassed
<1>12. x.op \in {"buy", "purchase"} /\ (\E i \in 1..y.at : Path(y)[i] = NoRow) => gold[x.me] >= Price
  <2>1. SUFFICES ASSUME x.op \in {"buy", "purchase"}, NEW i \in 1..y.at, Path(y)[i] = NoRow
                 PROVE gold[x.me] >= Price
    OBVIOUS
  <2>2. Path(y) = Path(x)
    <3>1. Seller(y) = Seller(x)
      BY <1>8 DEF Seller
    <3>2. PICK t : t = Seller(x)
      OBVIOUS
    <3>3. RowPlan(y, t) = RowPlan(x, t)
      BY <1>8, SamePath
    <3>4. QED
      BY <3>1, <3>2, <3>3 DEF Path
  <2>3. CASE i \in 1..x.at
    BY <1>2, <2>1, <2>2, <2>3 DEF Checked
  <2>4. CASE i = x.at + 1
    <3>1. x.op \in Working
      BY <2>1 DEF Working, OnListings, OnSales
    <3>2. /\ Len(Path(x)) \in Nat /\ Len(Plan(x)) = Len(Path(x))
          /\ \A j \in 1..Len(Path(x)) : Plan(x)[j].row = Path(x)[j]
      BY <1>2, <3>1, PathOK
    <3>3. x.at + 1 \in 1..Len(Path(x))
      BY <1>4, <1>7, <3>2
    <3>4. s.row = NoRow
      BY <1>3, <2>1, <2>2, <2>4, <3>2, <3>3
    <3>5. QED
      BY <1>11, <2>1, <3>4
  <2>5. QED
    BY <1>7, <1>8, <2>3, <2>4
<1>13. Checked(y)
  <2>1. \A n \in 1..4 : y.at >= n <=> x.at >= n \/ x.at = n - 1
    BY <1>7, <1>8
  <2>2. QED
    BY <1>2, <1>8, <1>11, <1>12, <2>1 DEF Checked
<1>14. deals' \in 0..MaxDeals
  BY <1>2, <1>4
<1>15. QED
  BY <1>4, <1>9, <1>10, <1>13, <1>14, OneStatement

LEMMA NextLimits ==
  ASSUME MarketIInv, LimitsIInv, [MarketNext]_marketVars
  PROVE LimitsIInv'
<1>1. CASE UNCHANGED marketVars
  <2>1. /\ gold' = gold /\ saved' = saved /\ depot' = depot /\ bag' = bag /\ box' = box
        /\ listing' = listing /\ sale' = sale /\ store' = store /\ tickets' = tickets /\ won' = won
        /\ held' = held /\ deal' = deal /\ deals' = deals
    BY <1>1 DEF marketVars, purses, items, offers, lottery
  <2>2. MarketTypeOK'
    BY <2>1 DEF LimitsIInv, MarketTypeOK
  <2>3. PlacesHold'
    BY <2>1 DEF LimitsIInv, PlacesHold
  <2>4. ASSUME NEW q \in Callers
        PROVE Checked(deal[q])'
    <3>1. PICK x : x = deal[q] /\ x = deal'[q]
      BY <2>1
    <3>2. /\ ActiveListings' = ActiveListings /\ ListingsOf(x.me)' = ListingsOf(x.me)
          /\ SalesOf(x.me)' = SalesOf(x.me) /\ Path(x)' = Path(x)
      BY <2>1 DEF ActiveListings, ListingsOf, SalesOf, Path, Seller
    <3>3. Checked(x)
      BY <3>1 DEF LimitsIInv
    <3>4. Checked(x)'
      BY <2>1, <3>2, <3>3 DEF Checked
    <3>5. QED
      BY <3>1, <3>4
  <2>5. QED
    BY <2>2, <2>3, <2>4 DEF LimitsIInv
<1>2. ASSUME NEW p \in Callers,
             \/ Fail(p)
             \/ TransferGold(p) \/ CalculateDeposit(p) \/ CalculateWithdrawal(p)
             \/ FromInventory(p) \/ WithdrawItem(p) \/ SendAuctionItem(p) \/ SendGem(p)
             \/ BuildStore(p) \/ PurchaseTakarakujiTicket(p) \/ DrawTakarakuji(p)
      PROVE LimitsIInv'
  <2>1. End(p) /\ listing' = listing /\ sale' = sale
    BY <1>2 DEF Fail, TransferGold, CalculateDeposit, CalculateWithdrawal, FromInventory,
         WithdrawItem, SendAuctionItem, SendGem, BuildStore, PurchaseTakarakujiTicket,
         DrawTakarakuji, Commits, offers
  <2>2. OffersGuarded(p)
    BY <2>1, OffersUnchanged
  <2>3. Fail(p) => UNCHANGED <<purses, items, offers, lottery>>
    BY DEF Fail
  <2>4. Writes(p)
    BY <1>2, <2>3, NothingWritten, GoldWrites, ItemWrites, OtherWrites
  <2>5. QED
    BY <2>1, <2>2, <2>4, WritesKeep
<1>3. ASSUME NEW p \in Callers, CreateListing(p) \/ PurchaseListing(p) \/ CancelListing(p)
      PROVE LimitsIInv'
  BY <1>3, ListingGuarded, ListingWrites, WritesKeep
<1>4. ASSUME NEW p \in Callers, ListSale(p) \/ WithdrawListing(p) \/ BuyItem(p) \/ TradeItem(p)
      PROVE LimitsIInv'
  BY <1>4, SaleGuarded, SaleWrites, WritesKeep
<1>5. QED
  BY <1>1, <1>2, <1>3, <1>4, BeginLimits, ExecuteLimits DEF MarketNext

LEMMA InitLimits == MarketInit => LimitsIInv
<1>1. SUFFICES ASSUME MarketInit
               PROVE LimitsIInv
  OBVIOUS
<1>2. PICK s \in Starts : listing = s.listing /\ sale = s.sale /\ store = s.store /\ tickets = s.tickets
  BY <1>1 DEF MarketInit
<1>3. /\ gold = [c \in Traders |-> StartGold] /\ saved = [c \in Traders |-> 0]
      /\ depot = StartDepot /\ bag = StartBag /\ box = [c \in Traders |-> 1] /\ won = {}
      /\ held = [r \in Rows |-> Nobody] /\ deal = [p \in Callers |-> NoDeal] /\ deals = 0
  BY <1>1 DEF MarketInit
<1>4. MarketTypeOK
  <2>1. 0 \in 0..MaxDeposit /\ StartGold \in 0..MaxWallet /\ 0 \in 0..MaxDeals /\ 1 \in Nat
    BY MarketAssumption
  <2>2. gold \in [Traders -> 0..MaxWallet] /\ saved \in [Traders -> 0..MaxDeposit]
        /\ box \in [Traders -> Nat] /\ held \in [Rows -> Callers \cup {Nobody}]
    BY <1>3, <2>1
  <2>3. /\ depot \in [Traders -> [Goods -> Nat]] /\ bag \in [Traders -> [Goods -> Nat]]
        /\ listing \in [Listings -> Listed] /\ sale \in [Sales -> Offered]
        /\ store \in [Traders -> {"none", "open"}] /\ tickets \subseteq Traders
    BY <1>2, <1>3, StartsAssumption
  <2>4. won \subseteq tickets /\ DOMAIN deal = Callers /\ deals \in 0..MaxDeals
    BY <1>3, <2>1
  <2>5. QED
    BY <2>2, <2>3, <2>4 DEF MarketTypeOK
<1>5. PlacesHold
  <2>1. WithinLimits(listing, sale, tickets)
    BY <1>2, StartsAssumption
  <2>2. \A c \in Traders : Slots(depot[c]) <= DepotCapacity
    BY <1>3, StartsAssumption
  <2>3. \A c \in Traders : box[c] <= BoxCapacity
    BY <1>3, MarketAssumption
  <2>4. QED
    BY <2>1, <2>2, <2>3 DEF PlacesHold
<1>6. ASSUME NEW p \in Callers
      PROVE Checked(deal[p])
  <2>1. NoDeal.op = "none" /\ deal[p] = NoDeal
    BY <1>3 DEF NoDeal
  <2>2. Checked(NoDeal)
    BY <2>1 DEF Checked
  <2>3. QED
    BY <2>1, <2>2
<1>7. QED
  BY <1>4, <1>5, <1>6 DEF LimitsIInv

LEMMA LimitsHold == MarketSpec => [](MarketIInv /\ LimitsIInv)
<1>1. MarketInit => MarketIInv /\ LimitsIInv
  BY InitHolds, InitLimits
<1>2. MarketIInv /\ LimitsIInv /\ [MarketNext]_marketVars => (MarketIInv /\ LimitsIInv)'
  BY NextKeeps, NextLimits
<1>3. QED
  BY <1>1, <1>2, PTL DEF MarketSpec

\* Purses, depots, offers and locks keep their types: nobody has less than
\* nothing, or more than a wallet or the bank takes.
THEOREM TypeCorrect == MarketSpec => []MarketTypeOK
<1>1. MarketIInv /\ LimitsIInv => MarketTypeOK
  BY DEF LimitsIInv
<1>2. QED
  BY <1>1, LimitsHold, PTL

\* Listings, sales, tickets, gem boxes and depots keep within their limits,
\* however many transactions count at the same time.
THEOREM PlacesAlwaysHold == MarketSpec => []PlacesHold
<1>1. MarketIInv /\ LimitsIInv => PlacesHold
  BY DEF LimitsIInv
<1>2. QED
  BY <1>1, LimitsHold, PTL

-----------------------------------------------------------------------------
(* What is conserved                                                       *)

\* The units of k that are listed, for sale and in hands.
OnMarket(k) == Cardinality({l \in ActiveListings : listing[l].item = k})
InStores(k) == Cardinality({s \in Sales : sale[s].state # "none" /\ sale[s].item = k})
InHands(k) == SumFunction([c \in Traders |-> depot[c][k] + bag[c][k]])

ItemsKept ==
    \A k \in Goods :
        Existing(k)' = Existing(k) + (IF k = Prize THEN Cardinality(won' \ won) ELSE 0)
GemsKept == SumFunction(box') = SumFunction(box)
GoldKept ==
    /\ Wealth' <= Wealth
    /\ Wealth' < Wealth =>
          \/ store' # store \/ tickets' # tickets
          \/ \E c \in Traders : gold'[c] = MaxWallet /\ \E d \in Traders : gold'[d] < gold[d]

LEMMA PurseTypes ==
  ASSUME MarketTypeOK
  PROVE /\ gold \in [Traders -> 0..MaxWallet] /\ saved \in [Traders -> 0..MaxDeposit]
        /\ \A c \in Traders : gold[c] \in Nat /\ saved[c] \in Nat /\ gold[c] <= MaxWallet
        /\ [c \in Traders |-> gold[c] + saved[c]] \in [Traders -> Int]
<1>1. gold \in [Traders -> 0..MaxWallet] /\ saved \in [Traders -> 0..MaxDeposit]
  BY DEF MarketTypeOK
<1>2. \A c \in Traders : gold[c] \in Nat /\ saved[c] \in Nat /\ gold[c] <= MaxWallet
  BY <1>1, MarketAssumption
<1>3. QED
  BY <1>1, <1>2

LEMMA WealthType == MarketTypeOK => Wealth \in Int
BY PurseTypes, SumTyped, MarketAssumption DEF Wealth

\* Nobody's purses change, in sum.
LEMMA SamePurses ==
  ASSUME MarketTypeOK, \A c \in Traders : gold'[c] + saved'[c] = gold[c] + saved[c]
  PROVE GoldKept
<1>1. PICK f, g : /\ f = [c \in Traders |-> gold[c] + saved[c]]
                  /\ g = [c \in Traders |-> gold'[c] + saved'[c]]
  OBVIOUS
<1>2. f = g
  BY <1>1
<1>3. Wealth = SumFunction(f) /\ Wealth' = SumFunction(g)
  BY <1>1 DEF Wealth
<1>4. Wealth \in Int
  BY WealthType
<1>5. QED
  BY <1>2, <1>3, <1>4 DEF GoldKept

\* Somebody pays for a store or a ticket.
LEMMA Bought ==
  ASSUME MarketTypeOK, MarketTypeOK', NEW c \in Traders, NEW n \in Nat,
         gold' = [gold EXCEPT ![c] = @ - n], saved' = saved, store' # store \/ tickets' # tickets
  PROVE GoldKept
<1>1. PICK f, g : /\ f = [d \in Traders |-> gold[d] + saved[d]]
                  /\ g = [d \in Traders |-> gold'[d] + saved'[d]]
  OBVIOUS
<1>2. Wealth = SumFunction(f) /\ Wealth' = SumFunction(g) /\ Wealth \in Int
  BY <1>1, WealthType DEF Wealth
<1>3. f \in [Traders -> Int] /\ gold[c] \in Nat /\ saved[c] \in Nat
      /\ DOMAIN gold = Traders
  BY <1>1, PurseTypes
<1>4. gold'[c] = gold[c] - n /\ \A d \in Traders : d # c => gold'[d] = gold[d]
  BY <1>3
<1>5. \A d \in Traders : gold'[d] \in Nat /\ saved'[d] \in Nat
  BY MarketAssumption DEF MarketTypeOK
<1>6. g \in [Traders -> Int]
  BY <1>1, <1>5
<1>7. f[c] = gold[c] + saved[c] /\ g[c] = gold'[c] + saved[c] /\ \A d \in Traders \ {c} : g[d] = f[d]
  BY <1>1, <1>4
<1>8. SumFunction(g) = SumFunction(f) + (g[c] - f[c])
  BY <1>3, <1>6, <1>7, SumChange, MarketAssumption
<1>9. g[c] - f[c] <= 0 /\ g[c] - f[c] \in Int
  BY <1>3, <1>4, <1>7
<1>10. QED
  BY <1>2, <1>8, <1>9 DEF GoldKept

\* What one pays another receives, unless the other's wallet is full.
LEMMA PayKeeps ==
  ASSUME MarketTypeOK, MarketTypeOK', NEW f \in Traders, NEW t \in Traders, f # t, NEW n \in Nat,
         gold' = Pay(f, t, n), saved' = saved
  PROVE GoldKept
<1>1. PICK w, v : /\ w = [d \in Traders |-> gold[d] + saved[d]]
                  /\ v = [d \in Traders |-> gold'[d] + saved'[d]]
  OBVIOUS
<1>2. Wealth = SumFunction(w) /\ Wealth' = SumFunction(v) /\ Wealth \in Int
  BY <1>1, WealthType DEF Wealth
<1>3. /\ w \in [Traders -> Int] /\ gold \in [Traders -> 0..MaxWallet] /\ MaxWallet \in Nat
      /\ \A d \in Traders : gold[d] \in Nat /\ saved[d] \in Nat /\ gold[d] <= MaxWallet
  BY <1>1, PurseTypes, MarketAssumption
<1>4. \A d \in Traders : gold'[d] \in Nat /\ saved'[d] \in Nat
  BY MarketAssumption DEF MarketTypeOK
<1>5. v \in [Traders -> Int]
  BY <1>1, <1>4
<1>6. PICK h : h = [gold EXCEPT ![f] = @ - n]
  OBVIOUS
<1>7. h[f] = gold[f] - n /\ DOMAIN h = Traders /\ \A d \in Traders : d # f => h[d] = gold[d]
  BY <1>3, <1>6
<1>8. gold' = [h EXCEPT ![t] = IF h[t] > MaxWallet - n THEN MaxWallet ELSE h[t] + n]
  BY <1>6 DEF Pay
<1>9. /\ gold'[f] = gold[f] - n
      /\ gold'[t] = IF gold[t] > MaxWallet - n THEN MaxWallet ELSE gold[t] + n
      /\ \A d \in Traders : d # f /\ d # t => gold'[d] = gold[d]
  BY <1>7, <1>8
<1>10. SumFunction(v) = SumFunction(w) + (v[f] - w[f]) + (v[t] - w[t])
  <2>1. \A d \in Traders \ {f, t} : v[d] = w[d]
    BY <1>1, <1>9
  <2>2. QED
    BY <1>3, <1>5, <2>1, SumChangeTwo, MarketAssumption
<1>11. v[f] - w[f] = 0 - n /\ v[t] - w[t] = gold'[t] - gold[t]
  <2>1. v[f] = gold'[f] + saved[f] /\ w[f] = gold[f] + saved[f]
    BY <1>1
  <2>2. v[t] = gold'[t] + saved[t] /\ w[t] = gold[t] + saved[t]
    BY <1>1
  <2>3. gold'[t] \in Nat /\ gold'[f] \in Nat
    BY <1>4
  <2>4. QED
    BY <1>3, <1>9, <2>1, <2>2, <2>3
<1>12. Wealth' = Wealth + ((gold'[t] - gold[t]) - n)
  <2>1. gold'[t] - gold[t] \in Int
    BY <1>3, <1>4
  <2>2. QED
    BY <1>2, <1>10, <1>11, <2>1
<1>13. CASE gold[t] > MaxWallet - n
  <2>1. gold'[t] = MaxWallet /\ n > 0
    BY <1>3, <1>9, <1>13
  <2>2. gold'[f] < gold[f]
    BY <1>3, <1>9, <2>1
  <2>3. MaxWallet - gold[t] < n
    BY <1>3, <1>13
  <2>4. Wealth' <= Wealth
    BY <1>2, <1>3, <1>12, <2>1, <2>3
  <2>5. QED
    BY <2>1, <2>2, <2>4 DEF GoldKept
<1>14. CASE ~(gold[t] > MaxWallet - n)
  <2>1. gold'[t] - gold[t] = n
    BY <1>3, <1>9, <1>14
  <2>2. Wealth' = Wealth
    BY <1>2, <1>12, <2>1
  <2>3. QED
    BY <1>2, <2>2 DEF GoldKept
<1>15. QED
  BY <1>13, <1>14

-----------------------------------------------------------------------------
(* Items in hands                                                          *)
LEMMA ExistingParts ==
  ASSUME MarketTypeOK, NEW k \in Goods
  PROVE /\ Existing(k) = OnMarket(k) + InStores(k) + InHands(k)
        /\ OnMarket(k) \in Nat /\ InStores(k) \in Nat /\ InHands(k) \in Int
<1>1. Existing(k) = OnMarket(k) + InStores(k) + InHands(k)
  BY DEF Existing, OnMarket, InStores, InHands
<1>2. OnMarket(k) \in Nat
  <2>1. {l \in ActiveListings : listing[l].item = k} \in SUBSET Listings
    BY DEF ActiveListings, ActiveIn
  <2>2. QED
    BY <2>1, MarketAssumption, FS_Subset, FS_CardinalityType DEF OnMarket
<1>3. InStores(k) \in Nat
  <2>1. {s \in Sales : sale[s].state # "none" /\ sale[s].item = k} \in SUBSET Sales
    OBVIOUS
  <2>2. QED
    BY <2>1, MarketAssumption, FS_Subset, FS_CardinalityType DEF InStores
<1>4. InHands(k) \in Int
  <2>1. \A c \in Traders : depot[c][k] \in Nat /\ bag[c][k] \in Nat
    BY DEF MarketTypeOK
  <2>2. [c \in Traders |-> depot[c][k] + bag[c][k]] \in [Traders -> Int]
    BY <2>1
  <2>3. QED
    BY <2>2, MarketAssumption, SumTyped DEF InHands
<1>5. QED
  BY <1>1, <1>2, <1>3, <1>4

LEMMA ExistingAfter ==
  ASSUME NEW k
  PROVE /\ Existing(k)' = OnMarket(k)' + InStores(k)' + InHands(k)'
        /\ OnMarket(k)' = Cardinality({l \in ActiveListings' : listing'[l].item = k})
        /\ InStores(k)' = Cardinality({s \in Sales : sale'[s].state # "none" /\ sale'[s].item = k})
        /\ InHands(k)' = SumFunction([c \in Traders |-> depot'[c][k] + bag'[c][k]])
BY DEF Existing, OnMarket, InStores, InHands

\* D is a table of counts.
Counts(D) == D \in [Traders -> [Goods -> Int]]

LEMMA CountsType == MarketTypeOK => Counts(depot) /\ Counts(bag)
BY DEF MarketTypeOK, Counts

\* What is put into one place, or taken from it.
LEMMA PutAt ==
  ASSUME NEW D, Counts(D), NEW c \in Traders, NEW k \in Goods, NEW n, n \in Nat,
         NEW E, E = Put(D, c, k, n)
  PROVE /\ Counts(E)
        /\ \A d \in Traders, j \in Goods : E[d][j] = D[d][j] + (IF d = c /\ j = k THEN n ELSE 0)
<1>1. D \in [Traders -> [Goods -> Int]] /\ \A d \in Traders, j \in Goods : D[d][j] \in Int
  BY DEF Counts
<1>2. PICK a : a = [D[c] EXCEPT ![k] = @ + n]
  OBVIOUS
<1>3. E = [D EXCEPT ![c] = a]
  BY <1>2 DEF Put
<1>4. a \in [Goods -> Int] /\ \A j \in Goods : a[j] = D[c][j] + (IF j = k THEN n ELSE 0)
  BY <1>1, <1>2
<1>5. \A d \in Traders, j \in Goods : E[d][j] = D[d][j] + (IF d = c /\ j = k THEN n ELSE 0)
  <2>1. TAKE d \in Traders, j \in Goods
  <2>2. CASE d = c
    BY <1>1, <1>3, <1>4, <2>2
  <2>3. CASE d # c
    BY <1>1, <1>3, <2>3
  <2>4. QED
    BY <2>2, <2>3
<1>6. QED
  BY <1>1, <1>3, <1>4, <1>5 DEF Counts

LEMMA DropAt ==
  ASSUME NEW D, Counts(D), NEW c \in Traders, NEW k \in Goods, NEW n, n \in Nat,
         NEW E, E = Drop(D, c, k, n)
  PROVE /\ Counts(E)
        /\ \A d \in Traders, j \in Goods : E[d][j] = D[d][j] - (IF d = c /\ j = k THEN n ELSE 0)
<1>1. D \in [Traders -> [Goods -> Int]] /\ \A d \in Traders, j \in Goods : D[d][j] \in Int
  BY DEF Counts
<1>2. PICK a : a = [D[c] EXCEPT ![k] = @ - n]
  OBVIOUS
<1>3. E = [D EXCEPT ![c] = a]
  BY <1>2 DEF Drop
<1>4. a \in [Goods -> Int] /\ \A j \in Goods : a[j] = D[c][j] - (IF j = k THEN n ELSE 0)
  BY <1>1, <1>2
<1>5. \A d \in Traders, j \in Goods : E[d][j] = D[d][j] - (IF d = c /\ j = k THEN n ELSE 0)
  <2>1. TAKE d \in Traders, j \in Goods
  <2>2. CASE d = c
    BY <1>1, <1>3, <1>4, <2>2
  <2>3. CASE d # c
    BY <1>1, <1>3, <2>3
  <2>4. QED
    BY <2>2, <2>3
<1>6. QED
  BY <1>1, <1>3, <1>4, <1>5 DEF Counts

\* What c and d have more of k, nobody else having more or less.
LEMMA HandsChange ==
  ASSUME MarketTypeOK, MarketTypeOK', NEW k \in Goods, NEW c \in Traders, NEW d \in Traders,
         NEW m \in Int, NEW n \in Int,
         depot'[c][k] + bag'[c][k] = depot[c][k] + bag[c][k] + m,
         c # d => depot'[d][k] + bag'[d][k] = depot[d][k] + bag[d][k] + n,
         \A e \in Traders \ {c, d} : depot'[e][k] + bag'[e][k] = depot[e][k] + bag[e][k]
  PROVE InHands(k)' = InHands(k) + m + (IF c # d THEN n ELSE 0)
<1>1. PICK w, v : /\ w = [e \in Traders |-> depot[e][k] + bag[e][k]]
                  /\ v = [e \in Traders |-> depot'[e][k] + bag'[e][k]]
  OBVIOUS
<1>2. InHands(k) = SumFunction(w) /\ InHands(k)' = SumFunction(v)
  BY <1>1, ExistingAfter DEF InHands
<1>3. \A e \in Traders : /\ depot[e][k] \in Int /\ bag[e][k] \in Int
                         /\ depot'[e][k] \in Int /\ bag'[e][k] \in Int
  BY DEF MarketTypeOK
<1>4. w \in [Traders -> Int] /\ v \in [Traders -> Int]
  BY <1>1, <1>3
<1>5. SumFunction(w) \in Int
  BY <1>4, SumTyped, MarketAssumption
<1>6. \A e \in Traders : /\ w[e] \in Int /\ v[e] \in Int /\ w[e] = depot[e][k] + bag[e][k]
                         /\ v[e] = depot'[e][k] + bag'[e][k]
  BY <1>1, <1>3
<1>7. v[c] - w[c] = m
  BY <1>6
<1>8. CASE c = d
  <2>1. \A e \in Traders \ {c} : v[e] = w[e]
    BY <1>6, <1>8
  <2>2. SumFunction(v) = SumFunction(w) + (v[c] - w[c])
    BY <1>4, <2>1, SumChange, MarketAssumption
  <2>3. QED
    BY <1>2, <1>5, <1>7, <1>8, <2>2
<1>9. CASE c # d
  <2>1. \A e \in Traders \ {c, d} : v[e] = w[e]
    BY <1>6
  <2>2. SumFunction(v) = SumFunction(w) + (v[c] - w[c]) + (v[d] - w[d])
    BY <1>4, <1>9, <2>1, SumChangeTwo, MarketAssumption
  <2>3. v[d] - w[d] = n
    BY <1>6, <1>9
  <2>4. QED
    BY <1>2, <1>5, <1>7, <1>9, <2>2, <2>3
<1>10. QED
  BY <1>8, <1>9

\* Nobody has more or less.
LEMMA HandsSame ==
  ASSUME MarketTypeOK,
         \A c \in Traders, k \in Goods : depot'[c][k] + bag'[c][k] = depot[c][k] + bag[c][k]
  PROVE \A k \in Goods : InHands(k)' = InHands(k)
<1>1. TAKE k \in Goods
<1>2. [c \in Traders |-> depot'[c][k] + bag'[c][k]] = [c \in Traders |-> depot[c][k] + bag[c][k]]
  OBVIOUS
<1>3. QED
  BY <1>2, ExistingAfter DEF InHands

\* Units leave an inventory for a depot.
LEMMA HandsMoved ==
  ASSUME MarketTypeOK, MarketTypeOK', NEW f \in Traders, NEW o \in Traders, NEW i \in Goods,
         NEW n, n \in Nat, bag' = Drop(bag, f, i, n), depot' = Put(depot, o, i, n)
  PROVE \A k \in Goods : InHands(k)' = InHands(k)
<1>1. TAKE k \in Goods
<1>2. Counts(bag) /\ Counts(depot)
  BY CountsType
<1>3. \A d \in Traders : /\ bag'[d][k] = bag[d][k] - (IF d = f /\ k = i THEN n ELSE 0)
                         /\ depot'[d][k] = depot[d][k] + (IF d = o /\ k = i THEN n ELSE 0)
  <2>1. n \in Nat
    OBVIOUS
  <2>2. PICK B, D : B = bag /\ D = depot
    OBVIOUS
  <2>3. Counts(B) /\ Counts(D) /\ bag' = Drop(B, f, i, n) /\ depot' = Put(D, o, i, n)
    BY <1>2, <2>2
  <2>4. \A d \in Traders, j \in Goods : bag'[d][j] = B[d][j] - (IF d = f /\ j = i THEN n ELSE 0)
    BY <2>1, <2>3, DropAt
  <2>5. \A d \in Traders, j \in Goods : depot'[d][j] = D[d][j] + (IF d = o /\ j = i THEN n ELSE 0)
    BY <2>1, <2>3, PutAt
  <2>6. QED
    BY <2>2, <2>4, <2>5
<1>4. \A d \in Traders : bag[d][k] \in Int /\ depot[d][k] \in Int
  BY <1>2 DEF Counts
<1>5. PICK x \in Int : x = IF k = i THEN n ELSE 0
  OBVIOUS
<1>6. CASE f = o
  <2>1. \A d \in Traders : depot'[d][k] + bag'[d][k] = depot[d][k] + bag[d][k]
    BY <1>3, <1>4, <1>6
  <2>2. PICK z : z = 0 /\ z \in Int
    OBVIOUS
  <2>3. InHands(k)' = InHands(k) + z + (IF f # f THEN z ELSE 0)
    <3>1. depot'[f][k] + bag'[f][k] = depot[f][k] + bag[f][k] + z
      BY <1>4, <2>1, <2>2
    <3>2. QED
      BY <2>1, <2>2, <3>1, HandsChange
  <2>4. QED
    BY <2>2, <2>3, ExistingParts
<1>7. CASE f # o
  <2>1. depot'[f][k] + bag'[f][k] = depot[f][k] + bag[f][k] + (0 - x)
    BY <1>3, <1>4, <1>5, <1>7
  <2>2. depot'[o][k] + bag'[o][k] = depot[o][k] + bag[o][k] + x
    BY <1>3, <1>4, <1>5, <1>7
  <2>3. \A d \in Traders \ {f, o} : depot'[d][k] + bag'[d][k] = depot[d][k] + bag[d][k]
    BY <1>3, <1>4
  <2>4. 0 - x \in Int
    BY <1>5
  <2>5. InHands(k)' = InHands(k) + (0 - x) + (IF f # o THEN x ELSE 0)
    BY <1>5, <2>1, <2>2, <2>3, <2>4, HandsChange
  <2>6. QED
    BY <1>5, <1>7, <2>5, ExistingParts
<1>8. QED
  BY <1>6, <1>7

\* A unit is put into one depot, or taken from it.
LEMMA HandsOne ==
  ASSUME MarketTypeOK, MarketTypeOK', NEW c \in Traders, NEW i \in Goods, bag' = bag
  PROVE /\ depot' = Put(depot, c, i, 1) =>
              \A k \in Goods : InHands(k)' = InHands(k) + (IF k = i THEN 1 ELSE 0)
        /\ depot' = Drop(depot, c, i, 1) =>
              \A k \in Goods : InHands(k)' = InHands(k) - (IF k = i THEN 1 ELSE 0)
<1>1. Counts(bag) /\ Counts(depot)
  BY CountsType
<1>2. ASSUME NEW k \in Goods, NEW m \in Int,
             \A d \in Traders : depot'[d][k] = depot[d][k] + (IF d = c THEN m ELSE 0)
      PROVE InHands(k)' = InHands(k) + m
  <2>1. \A d \in Traders : bag[d][k] \in Int /\ depot[d][k] \in Int
    BY <1>1 DEF Counts
  <2>2. depot'[c][k] + bag'[c][k] = depot[c][k] + bag[c][k] + m
    BY <1>2, <2>1
  <2>3. \A d \in Traders \ {c} : depot'[d][k] + bag'[d][k] = depot[d][k] + bag[d][k]
    BY <1>2, <2>1
  <2>4. InHands(k)' = InHands(k) + m + (IF c # c THEN m ELSE 0)
    BY <2>2, <2>3, HandsChange
  <2>5. QED
    BY <2>4, ExistingParts
<1>3. ASSUME depot' = Put(depot, c, i, 1), NEW k \in Goods
      PROVE InHands(k)' = InHands(k) + (IF k = i THEN 1 ELSE 0)
  <2>1. PICK m \in Int : m = IF k = i THEN 1 ELSE 0
    OBVIOUS
  <2>2. \A d \in Traders : depot'[d][k] = depot[d][k] + (IF d = c /\ k = i THEN 1 ELSE 0)
    BY <1>1, <1>3, PutAt
  <2>3. \A d \in Traders : depot'[d][k] = depot[d][k] + (IF d = c THEN m ELSE 0)
    BY <2>1, <2>2
  <2>4. QED
    BY <1>2, <2>1, <2>3
<1>4. ASSUME depot' = Drop(depot, c, i, 1), NEW k \in Goods
      PROVE InHands(k)' = InHands(k) - (IF k = i THEN 1 ELSE 0)
  <2>1. PICK m \in Int : m = IF k = i THEN 0 - 1 ELSE 0
    OBVIOUS
  <2>2. \A d \in Traders : depot'[d][k] = depot[d][k] - (IF d = c /\ k = i THEN 1 ELSE 0)
    BY <1>1, <1>4, DropAt
  <2>3. \A d \in Traders : depot[d][k] \in Int
    BY <1>1 DEF Counts
  <2>4. \A d \in Traders : depot'[d][k] = depot[d][k] + (IF d = c THEN m ELSE 0)
    BY <2>1, <2>2, <2>3
  <2>5. InHands(k)' = InHands(k) + m
    BY <1>2, <2>1, <2>4
  <2>6. QED
    BY <2>1, <2>5, ExistingParts
<1>5. QED
  BY <1>3, <1>4

-----------------------------------------------------------------------------
(* Items that are listed or for sale                                       *)
LEMMA OneLess ==
  ASSUME NEW A, IsFiniteSet(A), NEW e, NEW B, B = A \ {e}
  PROVE Cardinality(B) = Cardinality(A) - (IF e \in A THEN 1 ELSE 0) /\ Cardinality(A) \in Nat
<1>1. Cardinality(A) \in Nat
  BY FS_CardinalityType
<1>2. Cardinality(A \ {e}) = IF e \in A THEN Cardinality(A) - 1 ELSE Cardinality(A)
  BY FS_RemoveElement
<1>3. QED
  BY <1>1, <1>2

LEMMA OneAdded ==
  ASSUME NEW A, IsFiniteSet(A), NEW e, e \notin A, NEW W, W \in {{}, {e}}, NEW B, B = A \cup W
  PROVE Cardinality(B) = Cardinality(A) + (IF W = {} THEN 0 ELSE 1) /\ Cardinality(A) \in Nat
<1>1. Cardinality(A) \in Nat
  BY FS_CardinalityType
<1>2. CASE W = {e}
  <2>1. B = A \cup {e} /\ W # {}
    BY <1>2
  <2>2. Cardinality(B) = Cardinality(A) + 1
    BY <2>1, FS_AddElement
  <2>3. QED
    BY <1>1, <2>1, <2>2
<1>3. CASE W = {}
  <2>1. B = A
    BY <1>3
  <2>2. QED
    BY <1>1, <1>3, <2>1
<1>4. QED
  BY <1>2, <1>3

\* The finite sets whose sizes are summed.
ListedNow(k) == {l \in Listings : listing[l].state = "active" /\ listing[l].item = k}
ForSale(k) == {s \in Sales : sale[s].state # "none" /\ sale[s].item = k}

LEMMA CountedSets ==
  ASSUME NEW k
  PROVE /\ OnMarket(k) = Cardinality(ListedNow(k)) /\ OnMarket(k)' = Cardinality(ListedNow(k)')
        /\ InStores(k) = Cardinality(ForSale(k)) /\ InStores(k)' = Cardinality(ForSale(k)')
        /\ IsFiniteSet(ListedNow(k)) /\ IsFiniteSet(ForSale(k))
<1>1. {l \in ActiveListings : listing[l].item = k} = ListedNow(k)
  BY DEF ActiveListings, ActiveIn, ListedNow
<1>2. {l \in ActiveListings' : listing'[l].item = k} = ListedNow(k)'
  BY DEF ActiveListings, ActiveIn, ListedNow
<1>3. OnMarket(k) = Cardinality(ListedNow(k)) /\ OnMarket(k)' = Cardinality(ListedNow(k)')
  BY <1>1, <1>2, ExistingAfter DEF OnMarket
<1>4. InStores(k) = Cardinality(ForSale(k)) /\ InStores(k)' = Cardinality(ForSale(k)')
  BY DEF InStores, ForSale
<1>5. ListedNow(k) \in SUBSET Listings /\ ForSale(k) \in SUBSET Sales
  BY DEF ListedNow, ForSale
<1>6. QED
  BY <1>3, <1>4, <1>5, MarketAssumption, FS_Subset

LEMMA CloseCounts ==
  ASSUME MarketTypeOK, NEW l \in Listings, NEW s \in {"sold", "cancelled"}, CloseListing(l, s)
  PROVE \A k \in Goods : OnMarket(k)' = OnMarket(k) - (IF k = listing[l].item THEN 1 ELSE 0)
<1>1. TAKE k \in Goods
<1>2. PICK y : y = [listing[l] EXCEPT !.state = s]
  OBVIOUS
<1>3. listing \in [Listings -> Listed] /\ listing[l] \in Listed
  BY DEF MarketTypeOK
<1>4. y.state = s /\ listing[l].state = "active" /\ listing' = [listing EXCEPT ![l] = y]
  BY <1>2, <1>3 DEF CloseListing, Listed
<1>5. listing'[l].state # "active" /\ \A j \in Listings : j # l => listing'[j] = listing[j]
  BY <1>3, <1>4
<1>6. ListedNow(k)' = ListedNow(k) \ {l}
  BY <1>5 DEF ListedNow
<1>7. l \in ListedNow(k) <=> k = listing[l].item
  BY <1>4 DEF ListedNow
<1>8. PICK A, B : A = ListedNow(k) /\ B = ListedNow(k)'
  OBVIOUS
<1>9. IsFiniteSet(A) /\ B = A \ {l}
  BY <1>6, <1>8, CountedSets
<1>10. Cardinality(B) = Cardinality(A) - (IF l \in A THEN 1 ELSE 0)
  BY <1>9, OneLess
<1>11. OnMarket(k) = Cardinality(A) /\ OnMarket(k)' = Cardinality(B)
  BY <1>8, CountedSets
<1>12. QED
  BY <1>7, <1>8, <1>10, <1>11

LEMMA ListingCounts ==
  ASSUME MarketTypeOK, NEW c \in Traders, NEW i \in Goods, NEW l \in Listings,
         listing[l].state = "none",
         listing' = [listing EXCEPT ![l] = [state |-> "active", seller |-> c, item |-> i]]
  PROVE \A k \in Goods : OnMarket(k)' = OnMarket(k) + (IF k = i THEN 1 ELSE 0)
<1>1. TAKE k \in Goods
<1>2. listing \in [Listings -> Listed]
  BY DEF MarketTypeOK
<1>3. /\ listing'[l].state = "active" /\ listing'[l].item = i
      /\ \A j \in Listings : j # l => listing'[j] = listing[j]
  BY <1>2
<1>4. ListedNow(k)' = ListedNow(k) \cup (IF k = i THEN {l} ELSE {})
  BY <1>3 DEF ListedNow
<1>5. l \notin ListedNow(k)
  BY DEF ListedNow
<1>6. PICK A, B : A = ListedNow(k) /\ B = ListedNow(k)'
  OBVIOUS
<1>7. PICK W \in {{}, {l}} : W = IF k = i THEN {l} ELSE {}
  OBVIOUS
<1>8. IsFiniteSet(A) /\ l \notin A /\ B = A \cup W
  BY <1>4, <1>5, <1>6, <1>7, CountedSets
<1>9. Cardinality(B) = Cardinality(A) + (IF W = {} THEN 0 ELSE 1)
  BY <1>7, <1>8, OneAdded
<1>10. OnMarket(k) = Cardinality(A) /\ OnMarket(k)' = Cardinality(B)
  BY <1>6, CountedSets
<1>11. QED
  BY <1>7, <1>9, <1>10

LEMMA DeleteCounts ==
  ASSUME MarketTypeOK, NEW s \in Sales, sale[s].state # "none", DeleteSale(s)
  PROVE \A k \in Goods : InStores(k)' = InStores(k) - (IF k = sale[s].item THEN 1 ELSE 0)
<1>1. TAKE k \in Goods
<1>2. sale \in [Sales -> Offered]
  BY DEF MarketTypeOK
<1>3. NoSale.state = "none" /\ sale' = [sale EXCEPT ![s] = NoSale]
  BY DEF NoSale, DeleteSale
<1>4. sale'[s].state = "none" /\ \A j \in Sales : j # s => sale'[j] = sale[j]
  BY <1>2, <1>3
<1>5. ForSale(k)' = ForSale(k) \ {s}
  BY <1>4 DEF ForSale
<1>6. s \in ForSale(k) <=> k = sale[s].item
  BY DEF ForSale
<1>7. PICK A, B : A = ForSale(k) /\ B = ForSale(k)'
  OBVIOUS
<1>8. IsFiniteSet(A) /\ B = A \ {s}
  BY <1>5, <1>7, CountedSets
<1>9. Cardinality(B) = Cardinality(A) - (IF s \in A THEN 1 ELSE 0)
  BY <1>8, OneLess
<1>10. InStores(k) = Cardinality(A) /\ InStores(k)' = Cardinality(B)
  BY <1>7, CountedSets
<1>11. QED
  BY <1>6, <1>7, <1>9, <1>10

LEMMA OfferCounts ==
  ASSUME MarketTypeOK, NEW i \in Goods, NEW s \in Sales, sale[s].state = "none",
         NEW r, r.state # "none", r.item = i, sale' = [sale EXCEPT ![s] = r]
  PROVE \A k \in Goods : InStores(k)' = InStores(k) + (IF k = i THEN 1 ELSE 0)
<1>1. TAKE k \in Goods
<1>2. sale \in [Sales -> Offered]
  BY DEF MarketTypeOK
<1>3. /\ sale'[s] = r /\ \A j \in Sales : j # s => sale'[j] = sale[j]
  BY <1>2
<1>4. ForSale(k)' = ForSale(k) \cup (IF k = i THEN {s} ELSE {})
  BY <1>3 DEF ForSale
<1>5. s \notin ForSale(k)
  BY DEF ForSale
<1>6. PICK A, B : A = ForSale(k) /\ B = ForSale(k)'
  OBVIOUS
<1>7. PICK W \in {{}, {s}} : W = IF k = i THEN {s} ELSE {}
  OBVIOUS
<1>8. IsFiniteSet(A) /\ s \notin A /\ B = A \cup W
  BY <1>4, <1>5, <1>6, <1>7, CountedSets
<1>9. Cardinality(B) = Cardinality(A) + (IF W = {} THEN 0 ELSE 1)
  BY <1>7, <1>8, OneAdded
<1>10. InStores(k) = Cardinality(A) /\ InStores(k)' = Cardinality(B)
  BY <1>6, CountedSets
<1>11. QED
  BY <1>7, <1>9, <1>10

-----------------------------------------------------------------------------
(* What is offered and seen once                                           *)

\* Whoever has listed an item or put it up for sale is a trader.
SellersOK ==
    /\ \A l \in Listings : listing[l].state = "active" => listing[l].seller \in Traders
    /\ \A s \in Sales : sale[s].state # "none" => sale[s].seller \in Traders

\* A builder who has looked has no store still, and a draw has locked a round
\* that is not drawn.
Once(p, x) ==
    /\ x.op = "build" /\ x.at >= 1 => store[x.me] # "open"
    /\ x.op = "draw" /\ x.at >= 1 => held[<<"round">>] = p /\ won = {}

OnceIInv == SellersOK /\ \A p \in Callers : Once(p, deal[p])

LEMMA SeenOnce ==
  ASSUME NEW x \in Deals, NEW s, s = Plan(x)[x.at + 1], s.ok, x.at = 0
  PROVE /\ x.op = "build" => store[x.me] # "open"
        /\ x.op = "draw" => s.row = <<"round">> /\ won = {}
<1>1. CASE x.op = "build"
  <2>1. PICK a, b : /\ a = (gold[x.me] >= StorePrice /\ store[x.me] # "open")
                    /\ b = (Cardinality({c \in Traders : store[c] = "open"}) < MaxTownStores)
    OBVIOUS
  <2>2. PICK k, l : k = TakeIf(Character(x.me), a) /\ l = Look(b)
    OBVIOUS
  <2>3. Plan(x) = <<k, l>>
    BY <1>1, <2>1, <2>2 DEF Plan, BuildPlan
  <2>4. Plan(x)[1] = k
    BY <2>3
  <2>5. a
    BY <2>2, <2>4 DEF TakeIf
  <2>6. QED
    BY <1>1, <2>1, <2>5
<1>2. CASE x.op = "draw"
  <2>1. PICK a : a = (won = {} /\ x.winners \subseteq tickets)
    OBVIOUS
  <2>2. PICK k : k = TakeIf(<<"round">>, a)
    OBVIOUS
  <2>3. PICK n \in Nat : n = 2 * Cardinality(x.winners)
    <3>1. IsFiniteSet(x.winners)
      BY MarketAssumption, FS_Subset DEF Deals
    <3>2. Cardinality(x.winners) \in Nat
      BY <3>1, FS_CardinalityType
    <3>3. QED
      BY <3>2
  <2>4. PICK D : D = [i \in 1..n |->
                Take(IF i % 2 = 1 THEN Depot(Nth(x.winners, (i + 1) \div 2))
                     ELSE Character(Nth(x.winners, i \div 2)))]
    OBVIOUS
  <2>5. Plan(x) = <<k>> \o D
    BY <1>2, <2>1, <2>2, <2>3, <2>4 DEF Plan, DrawPlan
  <2>6. PICK E, S : E = [i \in 1..n |-> D[i]] /\ E = D /\ S = {k} \cup {D[i] : i \in 1..n}
    BY <2>4
  <2>7. E \in Seq(S) /\ <<k>> \in Seq(S) /\ Len(<<k>>) = 1 /\ <<k>>[1] = k
    BY <2>3, <2>6
  <2>8. \A i \in 1..1 : (<<k>> \o E)[i] = <<k>>[i]
    BY <2>7, ConcatRanges
  <2>9. Plan(x)[1] = k
    BY <2>5, <2>6, <2>7, <2>8
  <2>10. a /\ s.row = <<"round">>
    BY <2>2, <2>9 DEF TakeIf
  <2>11. QED
    BY <1>2, <2>1, <2>10
<1>3. QED
  BY <1>1, <1>2

\* What p writes of stores and rounds, if anything, it has locked.
OnceGuarded(p) ==
    /\ \A c \in Traders : store'[c] = store[c] \/ held[Character(c)] = p
    /\ won' = won \/ held[<<"round">>] = p

LEMMA OthersOnce ==
  ASSUME MarketIInv, OnceIInv, NEW p \in Callers, NEW q \in Callers, q # p, deal'[q] = deal[q],
         held[<<"round">>] = q => held'[<<"round">>] = q, OnceGuarded(p)
  PROVE Once(q, deal[q])'
<1>1. PICK x : x = deal[q] /\ x = deal'[q]
  OBVIOUS
<1>2. DealOK(x) /\ Once(q, x)
  BY <1>1 DEF MarketIInv, CallerOK, OnceIInv
<1>3. CASE x.op = "build" /\ x.at >= 1
  <2>1. held[Character(x.me)] = q /\ x.me \in Traders
    BY <1>1, <1>2, <1>3, HoldsForChecks DEF DealOK, Working, Solitary
  <2>2. store'[x.me] = store[x.me]
    BY <2>1 DEF OnceGuarded
  <2>3. QED
    BY <1>1, <1>2, <1>3, <2>2 DEF Once
<1>4. CASE x.op = "draw" /\ x.at >= 1
  <2>1. held[<<"round">>] = q /\ won = {}
    BY <1>2, <1>4 DEF Once
  <2>2. won' = won /\ held'[<<"round">>] = q
    BY <2>1 DEF OnceGuarded
  <2>3. QED
    BY <1>1, <1>4, <2>1, <2>2 DEF Once
<1>5. CASE ~(x.op = "build" /\ x.at >= 1) /\ ~(x.op = "draw" /\ x.at >= 1)
  BY <1>1, <1>5 DEF Once
<1>6. QED
  BY <1>3, <1>4, <1>5

\* A transaction that ends with such writes.
LEMMA EndOnce ==
  ASSUME MarketIInv, OnceIInv, NEW p \in Callers, End(p), OnceGuarded(p), SellersOK'
  PROVE OnceIInv'
<1>1. deal \in [Callers -> Deals] /\ held \in [Rows -> Callers \cup {Nobody}] /\ p # Nobody
  BY ActorsAssumption DEF MarketIInv, TablesOK
<1>2. deal'[p] = NoDeal /\ \A q \in Callers : q # p => deal'[q] = deal[q]
  BY <1>1 DEF End
<1>3. <<"round">> \in Rows
  BY DEF Rows
<1>4. \A q \in Callers : q # p => (held[<<"round">>] = q => held'[<<"round">>] = q)
  BY <1>1, <1>3 DEF End
<1>5. Once(p, deal[p])'
  <2>1. NoDeal.op = "none"
    BY DEF NoDeal
  <2>2. QED
    BY <1>2, <2>1 DEF Once
<1>6. ASSUME NEW q \in Callers, q # p
      PROVE Once(q, deal[q])'
  BY <1>2, <1>4, <1>6, OthersOnce
<1>7. QED
  BY <1>5, <1>6 DEF OnceIInv

LEMMA BeginOnce ==
  ASSUME MarketIInv, OnceIInv, NEW p \in Callers, BeginDeal(p)
  PROVE OnceIInv'
<1>1. PICK x \in Requests :
         /\ x.op \in {"gold", "money", "gem", "send", "auction"} => x.me # x.you
         /\ deal' = [deal EXCEPT ![p] =
                [f \in DOMAIN NoDeal |-> IF f \in DOMAIN x THEN x[f] ELSE NoDeal[f]]]
         /\ UNCHANGED <<purses, items, offers, lottery, held>>
  BY DEF BeginDeal
<1>2. PICK y : y = [f \in DOMAIN NoDeal |-> IF f \in DOMAIN x THEN x[f] ELSE NoDeal[f]]
  OBVIOUS
<1>3. y.at = 0
  <2>1. x.op \in Transfers => x.me # x.you
    BY <1>1 DEF Transfers
  <2>2. QED
    BY <1>2, <2>1, RequestOK
<1>4. deal' = [deal EXCEPT ![p] = y] /\ deal \in [Callers -> Deals]
  BY <1>1, <1>2 DEF MarketIInv, TablesOK
<1>5. deal'[p] = y /\ \A q \in Callers : q # p => deal'[q] = deal[q]
  BY <1>4
<1>6. listing' = listing /\ sale' = sale /\ store' = store /\ won' = won /\ held' = held
  BY <1>1 DEF offers, lottery
<1>7. SellersOK'
  BY <1>6 DEF OnceIInv, SellersOK
<1>8. OnceGuarded(p)
  BY <1>6 DEF OnceGuarded
<1>9. Once(p, deal[p])'
  BY <1>3, <1>5 DEF Once
<1>10. ASSUME NEW q \in Callers, q # p
       PROVE Once(q, deal[q])'
  BY <1>5, <1>6, <1>8, <1>10, OthersOnce
<1>11. QED
  BY <1>7, <1>9, <1>10 DEF OnceIInv

LEMMA ExecuteOnce ==
  ASSUME MarketIInv, OnceIInv, NEW p \in Callers, Execute(p)
  PROVE OnceIInv'
<1>1. PICK x : x = deal[p]
  OBVIOUS
<1>2. x \in Deals /\ Once(p, x) /\ deal \in [Callers -> Deals]
      /\ held \in [Rows -> Callers \cup {Nobody}] /\ x.at \in Nat
  BY <1>1 DEF MarketIInv, TablesOK, OnceIInv, Deals
<1>3. PICK s : s = Plan(x)[x.at + 1]
  OBVIOUS
<1>4. /\ s.ok /\ (s.row # NoRow => held[s.row] \in {Nobody, p})
      /\ held' = IF s.row = NoRow THEN held ELSE [held EXCEPT ![s.row] = p]
      /\ UNCHANGED <<purses, items, offers, lottery>>
  BY <1>1, <1>3 DEF Execute, NextStatement
<1>5. PICK y : y = [x EXCEPT !.at = @ + 1]
  OBVIOUS
<1>6. deal' = [deal EXCEPT ![p] = y]
  BY <1>1, <1>5 DEF Execute
<1>7. y.op = x.op /\ y.me = x.me /\ y.at = x.at + 1
  BY <1>2, <1>5 DEF Deals
<1>8. deal'[p] = y /\ \A q \in Callers : q # p => deal'[q] = deal[q]
  BY <1>2, <1>6
<1>9. listing' = listing /\ sale' = sale /\ store' = store /\ won' = won
  BY <1>4 DEF offers, lottery
<1>10. <<"round">> \in Rows /\ <<"round">> # NoRow
  BY RowsAssumption DEF Rows
<1>11. ASSUME NEW q \in Callers, held[<<"round">>] = q
       PROVE held'[<<"round">>] = q
  <2>1. q # Nobody
    BY ActorsAssumption
  <2>2. CASE s.row = <<"round">>
    BY <1>2, <1>4, <1>10, <1>11, <2>1, <2>2
  <2>3. CASE s.row # <<"round">>
    BY <1>2, <1>4, <1>10, <1>11, <2>3
  <2>4. QED
    BY <2>2, <2>3
<1>12. Once(p, y)'
  <2>1. CASE x.at = 0
    <3>1. /\ x.op = "build" => store[x.me] # "open"
          /\ x.op = "draw" => s.row = <<"round">> /\ won = {}
      BY <1>2, <1>3, <1>4, <2>1, SeenOnce
    <3>2. x.op = "draw" => held'[<<"round">>] = p
      BY <1>2, <1>4, <1>10, <3>1
    <3>3. QED
      BY <1>7, <1>9, <3>1, <3>2 DEF Once
  <2>2. CASE x.at >= 1
    <3>1. /\ x.op = "build" => store[x.me] # "open"
          /\ x.op = "draw" => held[<<"round">>] = p /\ won = {}
      BY <1>2, <2>2 DEF Once
    <3>2. x.op = "draw" => held'[<<"round">>] = p
      BY <1>11, <3>1
    <3>3. QED
      BY <1>7, <1>9, <3>1, <3>2 DEF Once
  <2>3. QED
    BY <1>2, <2>1, <2>2
<1>13. SellersOK'
  BY <1>9 DEF OnceIInv, SellersOK
<1>14. OnceGuarded(p)
  BY <1>9 DEF OnceGuarded
<1>15. Once(p, deal[p])'
  BY <1>8, <1>12 DEF Once
<1>16. ASSUME NEW q \in Callers, q # p
       PROVE Once(q, deal[q])'
  BY <1>8, <1>11, <1>14, <1>16, OthersOnce
<1>17. QED
  BY <1>13, <1>15, <1>16 DEF OnceIInv

LEMMA OffersStaySold ==
  ASSUME MarketTypeOK, SellersOK
  PROVE /\ \A l \in Listings, s \in {"sold", "cancelled"} :
              CloseListing(l, s) /\ sale' = sale => SellersOK'
        /\ \A s \in Sales : DeleteSale(s) /\ listing' = listing => SellersOK'
        /\ listing' = listing /\ sale' = sale => SellersOK'
<1>1. listing \in [Listings -> Listed] /\ sale \in [Sales -> Offered]
  BY DEF MarketTypeOK
<1>2. ASSUME NEW l \in Listings, NEW s \in {"sold", "cancelled"}, CloseListing(l, s), sale' = sale
      PROVE SellersOK'
  <2>1. PICK y : y = [listing[l] EXCEPT !.state = s]
    OBVIOUS
  <2>2. y.state = s /\ listing' = [listing EXCEPT ![l] = y]
    BY <1>1, <1>2, <2>1 DEF CloseListing, Listed
  <2>3. listing'[l].state # "active" /\ \A j \in Listings : j # l => listing'[j] = listing[j]
    BY <1>1, <2>2
  <2>4. QED
    BY <1>2, <2>3 DEF SellersOK
<1>3. ASSUME NEW s \in Sales, DeleteSale(s), listing' = listing
      PROVE SellersOK'
  <2>1. NoSale.state = "none" /\ sale' = [sale EXCEPT ![s] = NoSale]
    BY <1>3 DEF NoSale, DeleteSale
  <2>2. sale'[s].state = "none" /\ \A j \in Sales : j # s => sale'[j] = sale[j]
    BY <1>1, <2>1
  <2>3. QED
    BY <1>3, <2>2 DEF SellersOK
<1>4. QED
  BY <1>2, <1>3 DEF SellersOK

\* A draw that commits has locked a round that is not drawn.
LEMMA DrawSeen ==
  ASSUME MarketIInv, OnceIInv, NEW p \in Callers, Commits(p, {"draw"})
  PROVE held[<<"round">>] = p /\ won = {}
<1>1. PICK x \in Deals : x = deal[p]
  BY DEF MarketIInv, TablesOK
<1>2. x.op = "draw" /\ x.at = Len(Plan(x)) /\ Once(p, x)
  BY <1>1 DEF Commits, OnceIInv
<1>3. x.at >= 1
  BY <1>2, DrawsRound
<1>4. QED
  BY <1>2, <1>3 DEF Once

LEMMA BuilderSeen ==
  ASSUME MarketIInv, OnceIInv, NEW p \in Callers, Commits(p, {"build"})
  PROVE store[deal[p].me] # "open"
<1>1. PICK x \in Deals : x = deal[p]
  BY DEF MarketIInv, TablesOK
<1>2. x.op = "build" /\ x.at = Len(Plan(x)) /\ Once(p, x)
  BY <1>1 DEF Commits, OnceIInv
<1>3. Len(Plan(x)) = 2
  <2>1. PICK k, l : Plan(x) = <<k, l>>
    BY <1>2 DEF Plan, BuildPlan
  <2>2. QED
    BY <2>1
<1>4. QED
  BY <1>1, <1>2, <1>3 DEF Once

LEMMA ListedOnce ==
  ASSUME MarketIInv, LimitsIInv, OnceIInv, NEW p \in Callers,
         CreateListing(p) \/ PurchaseListing(p) \/ CancelListing(p)
  PROVE OnceIInv'
<1>1. MarketTypeOK /\ SellersOK
  BY DEF LimitsIInv, OnceIInv
<1>2. PICK x : x = deal[p]
  OBVIOUS
<1>3. store' = store /\ won' = won /\ sale' = sale
  BY DEF CreateListing, PurchaseListing, CancelListing, lottery
<1>4. OnceGuarded(p)
  BY <1>3 DEF OnceGuarded
<1>5. CASE CreateListing(p)
  <2>1. Commits(p, {"list"})
    BY <1>5 DEF CreateListing
  <2>2. x.op = "list" /\ x.item \in Goods /\ End(p)
    BY <1>2, <2>1, Committed
  <2>3. x.me \in Traders
    BY <1>2, <2>1, <2>2, Committed DEF Working, Solitary
  <2>4. PICK l \in Listings :
           listing' = [listing EXCEPT ![l] = [state |-> "active", seller |-> x.me, item |-> x.item]]
    BY <1>2, <1>5 DEF CreateListing
  <2>5. listing \in [Listings -> Listed]
    BY <1>1 DEF MarketTypeOK
  <2>6. listing'[l].seller = x.me /\ \A j \in Listings : j # l => listing'[j] = listing[j]
    BY <2>4, <2>5
  <2>7. SellersOK'
    BY <1>1, <1>3, <2>3, <2>6 DEF SellersOK
  <2>8. QED
    BY <1>4, <2>2, <2>7, EndOnce
<1>6. CASE PurchaseListing(p) \/ CancelListing(p)
  <2>1. Commits(p, {"buy", "cancel"})
    BY <1>6 DEF PurchaseListing, CancelListing, Commits
  <2>2. x.op \in {"buy", "cancel"} /\ End(p)
    BY <1>2, <2>1, Committed
  <2>3. x.id \in Listings
    BY <1>2, <2>1, <2>2, Committed DEF OnListings
  <2>4. PICK s \in {"sold", "cancelled"} : CloseListing(x.id, s)
    BY <1>2, <1>6 DEF PurchaseListing, CancelListing
  <2>5. SellersOK'
    BY <1>1, <1>3, <2>3, <2>4, OffersStaySold
  <2>6. QED
    BY <1>4, <2>2, <2>5, EndOnce
<1>7. QED
  BY <1>5, <1>6

LEMMA SoldOnce ==
  ASSUME MarketIInv, LimitsIInv, OnceIInv, NEW p \in Callers,
         ListSale(p) \/ WithdrawListing(p) \/ BuyItem(p) \/ TradeItem(p)
  PROVE OnceIInv'
<1>1. MarketTypeOK /\ SellersOK
  BY DEF LimitsIInv, OnceIInv
<1>2. PICK x : x = deal[p]
  OBVIOUS
<1>3. store' = store /\ won' = won /\ listing' = listing
  BY DEF ListSale, WithdrawListing, BuyItem, TradeItem, lottery
<1>4. OnceGuarded(p)
  BY <1>3 DEF OnceGuarded
<1>5. CASE ListSale(p)
  <2>1. Commits(p, {"offer", "barter"})
    BY <1>5 DEF ListSale
  <2>2. x.op \in {"offer", "barter"} /\ End(p)
    BY <1>2, <2>1, Committed
  <2>3. x.me \in Traders
    BY <1>2, <2>1, <2>2, Committed DEF Working, Solitary
  <2>4. PICK s \in Sales, wish \in Goods :
           sale' = [sale EXCEPT ![s] = [state |-> IF x.op = "offer" THEN "gold" ELSE "barter",
                                        seller |-> x.me, item |-> x.item, wish |-> wish]]
    BY <1>2, <1>5 DEF ListSale
  <2>5. sale \in [Sales -> Offered]
    BY <1>1 DEF MarketTypeOK
  <2>6. sale'[s].seller = x.me /\ \A j \in Sales : j # s => sale'[j] = sale[j]
    BY <2>4, <2>5
  <2>7. SellersOK'
    BY <1>1, <1>3, <2>3, <2>6 DEF SellersOK
  <2>8. QED
    BY <1>4, <2>2, <2>7, EndOnce
<1>6. CASE WithdrawListing(p) \/ BuyItem(p) \/ TradeItem(p)
  <2>1. Commits(p, {"withdraw", "purchase", "trade"})
    BY <1>6 DEF WithdrawListing, BuyItem, TradeItem, Commits
  <2>2. x.op \in {"withdraw", "purchase", "trade"} /\ End(p)
    BY <1>2, <2>1, Committed
  <2>3. x.id \in Sales
    BY <1>2, <2>1, <2>2, Committed DEF OnSales
  <2>4. DeleteSale(x.id)
    BY <1>2, <1>6 DEF WithdrawListing, BuyItem, TradeItem
  <2>5. SellersOK'
    BY <1>1, <1>3, <2>3, <2>4, OffersStaySold
  <2>6. QED
    BY <1>4, <2>2, <2>5, EndOnce
<1>7. QED
  BY <1>5, <1>6

LEMMA OtherOnce ==
  ASSUME MarketIInv, LimitsIInv, OnceIInv, NEW p \in Callers,
         \/ Fail(p)
         \/ TransferGold(p) \/ CalculateDeposit(p) \/ CalculateWithdrawal(p)
         \/ FromInventory(p) \/ WithdrawItem(p) \/ SendAuctionItem(p) \/ SendGem(p)
         \/ BuildStore(p) \/ PurchaseTakarakujiTicket(p) \/ DrawTakarakuji(p)
  PROVE OnceIInv'
<1>1. MarketTypeOK /\ SellersOK
  BY DEF LimitsIInv, OnceIInv
<1>2. End(p) /\ listing' = listing /\ sale' = sale
  BY DEF Fail, TransferGold, CalculateDeposit, CalculateWithdrawal, FromInventory,
       WithdrawItem, SendAuctionItem, SendGem, BuildStore, PurchaseTakarakujiTicket,
       DrawTakarakuji, Commits, offers
<1>3. SellersOK'
  BY <1>1, <1>2, OffersStaySold
<1>4. \A c \in Traders : store'[c] = store[c] \/ held[Character(c)] = p
  <2>1. ~BuildStore(p) => store' = store
    BY DEF Fail, TransferGold, CalculateDeposit, CalculateWithdrawal, FromInventory,
         WithdrawItem, SendAuctionItem, SendGem, PurchaseTakarakujiTicket,
         DrawTakarakuji, offers
  <2>2. CASE BuildStore(p)
    <3>1. PICK x : x = deal[p]
      OBVIOUS
    <3>2. Commits(p, {"build"}) /\ store' = [store EXCEPT ![x.me] = "open"]
      BY <2>2, <3>1 DEF BuildStore
    <3>3. x.op = "build"
      BY <3>1, <3>2, Committed
    <3>4. held[Character(x.me)] = p
      BY <3>1, <3>2, <3>3, Committed DEF Working, Solitary
    <3>5. store \in [Traders -> {"none", "open"}]
      BY <1>1 DEF MarketTypeOK
    <3>6. QED
      BY <3>2, <3>4, <3>5
  <2>3. QED
    BY <2>1, <2>2
<1>5. won' = won \/ held[<<"round">>] = p
  <2>1. ~DrawTakarakuji(p) => won' = won
    BY DEF Fail, TransferGold, CalculateDeposit, CalculateWithdrawal, FromInventory,
         WithdrawItem, SendAuctionItem, SendGem, BuildStore, PurchaseTakarakujiTicket, lottery
  <2>2. DrawTakarakuji(p) => held[<<"round">>] = p
    BY DrawSeen DEF DrawTakarakuji
  <2>3. QED
    BY <2>1, <2>2
<1>6. OnceGuarded(p)
  BY <1>4, <1>5 DEF OnceGuarded
<1>7. QED
  BY <1>2, <1>3, <1>6, EndOnce

LEMMA NextOnce ==
  ASSUME MarketIInv, LimitsIInv, OnceIInv, [MarketNext]_marketVars
  PROVE OnceIInv'
<1>1. CASE UNCHANGED marketVars
  <2>1. /\ listing' = listing /\ sale' = sale /\ store' = store /\ won' = won
        /\ held' = held /\ deal' = deal
    BY <1>1 DEF marketVars, offers, lottery
  <2>2. QED
    BY <2>1 DEF OnceIInv, SellersOK, Once
<1>2. QED
  BY <1>1, ListedOnce, SoldOnce, OtherOnce, BeginOnce, ExecuteOnce DEF MarketNext

LEMMA InitOnce == MarketInit => OnceIInv
<1>1. SUFFICES ASSUME MarketInit
               PROVE OnceIInv
  OBVIOUS
<1>2. PICK s \in Starts : listing = s.listing /\ sale = s.sale
  BY <1>1 DEF MarketInit
<1>3. /\ \A l \in Listings : listing[l].state # "none" => listing[l].seller # Nobody
      /\ \A k \in Sales : sale[k].state # "none" => sale[k].seller # Nobody
      /\ listing \in [Listings -> Listed] /\ sale \in [Sales -> Offered]
  BY <1>2, StartsAssumption
<1>4. /\ \A l \in Listings : listing[l].seller \in Traders \cup {Nobody}
      /\ \A k \in Sales : sale[k].seller \in Traders \cup {Nobody}
  BY <1>3 DEF Listed, Offered
<1>5. SellersOK
  BY <1>3, <1>4 DEF SellersOK
<1>6. ASSUME NEW p \in Callers
      PROVE Once(p, deal[p])
  <2>1. deal[p].op = "none"
    BY <1>1 DEF MarketInit, NoDeal
  <2>2. QED
    BY <2>1 DEF Once
<1>7. QED
  BY <1>5, <1>6 DEF OnceIInv

-----------------------------------------------------------------------------
(* What the operations keep                                                *)
Kept == ItemsKept /\ GemsKept /\ GoldKept

LEMMA UnwrittenKept ==
  ASSUME MarketTypeOK
  PROVE /\ UNCHANGED purses => GoldKept
        /\ box' = box => GemsKept
        /\ won' = won /\ (\A k \in Goods : Existing(k)' = Existing(k)) => ItemsKept
        /\ UNCHANGED <<items, offers, lottery>> => ItemsKept /\ GemsKept
<1>1. UNCHANGED purses => GoldKept
  <2>1. UNCHANGED purses => \A c \in Traders : gold'[c] + saved'[c] = gold[c] + saved[c]
    BY DEF purses
  <2>2. QED
    BY <2>1, SamePurses
<1>2. box' = box => GemsKept
  BY DEF GemsKept
<1>3. ASSUME won' = won, \A k \in Goods : Existing(k)' = Existing(k)
      PROVE ItemsKept
  <2>1. won' \ won = {} /\ Cardinality({}) = 0
    BY <1>3, FS_EmptySet
  <2>2. \A k \in Goods : Existing(k) \in Int
    BY ExistingParts
  <2>3. QED
    BY <1>3, <2>1, <2>2 DEF ItemsKept
<1>4. ASSUME UNCHANGED <<items, offers, lottery>>
      PROVE ItemsKept /\ GemsKept
  <2>1. depot' = depot /\ bag' = bag /\ box' = box /\ listing' = listing /\ sale' = sale /\ won' = won
    BY <1>4 DEF items, offers, lottery
  <2>2. \A k \in Goods : Existing(k)' = Existing(k)
    BY <2>1 DEF Existing, ActiveListings
  <2>3. QED
    BY <1>2, <1>3, <2>1, <2>2
<1>5. QED
  BY <1>1, <1>2, <1>3, <1>4

\* Items that stay listed, for sale and in hands, each in sum.
LEMMA PartsKept ==
  ASSUME MarketTypeOK, MarketTypeOK', won' = won, NEW i \in Goods,
         NEW a \in {-1, 0, 1}, NEW b \in {-1, 0, 1},
         \A k \in Goods : OnMarket(k)' = OnMarket(k) + (IF k = i THEN a ELSE 0),
         \A k \in Goods : InStores(k)' = InStores(k) + (IF k = i THEN b ELSE 0),
         \A k \in Goods : InHands(k)' = InHands(k) - (IF k = i THEN a + b ELSE 0)
  PROVE ItemsKept
<1>1. ASSUME NEW k \in Goods
      PROVE Existing(k)' = Existing(k)
  <2>1. PICK l, s, h : l = OnMarket(k) /\ s = InStores(k) /\ h = InHands(k)
    OBVIOUS
  <2>2. l \in Int /\ s \in Int /\ h \in Int /\ Existing(k) = l + s + h
    BY <2>1, ExistingParts
  <2>3. Existing(k)' = OnMarket(k)' + InStores(k)' + InHands(k)'
    BY ExistingAfter
  <2>4. a \in Int /\ b \in Int
    OBVIOUS
  <2>5. CASE k = i
    <3>1. OnMarket(k)' = l + a /\ InStores(k)' = s + b /\ InHands(k)' = h - (a + b)
      BY <2>1, <2>5
    <3>2. QED
      BY <2>2, <2>3, <2>4, <3>1
  <2>6. CASE k # i
    <3>1. OnMarket(k)' = l /\ InStores(k)' = s /\ InHands(k)' = h
      BY <2>1, <2>2, <2>6
    <3>2. QED
      BY <2>2, <2>3, <3>1
  <2>7. QED
    BY <2>5, <2>6
<1>2. QED
  BY <1>1, UnwrittenKept

\* Neither listings nor sales change.
LEMMA OffersKept ==
  /\ listing' = listing => \A k : OnMarket(k)' = OnMarket(k)
  /\ sale' = sale => \A k : InStores(k)' = InStores(k)
BY DEF OnMarket, InStores, ActiveListings

LEMMA HandsKept ==
  ASSUME MarketTypeOK, listing' = listing, sale' = sale, won' = won,
         \A k \in Goods : InHands(k)' = InHands(k)
  PROVE ItemsKept
<1>1. ASSUME NEW k \in Goods
      PROVE Existing(k)' = Existing(k)
  <2>1. Existing(k)' = OnMarket(k)' + InStores(k)' + InHands(k)'
    BY ExistingAfter
  <2>2. OnMarket(k)' = OnMarket(k) /\ InStores(k)' = InStores(k) /\ InHands(k)' = InHands(k)
    BY OffersKept
  <2>3. QED
    BY <2>1, <2>2, ExistingParts
<1>2. QED
  BY <1>1, UnwrittenKept

LEMMA GoldOperations ==
  ASSUME MarketIInv, LimitsIInv, LimitsIInv', NEW p \in Callers,
         TransferGold(p) \/ CalculateDeposit(p) \/ CalculateWithdrawal(p)
  PROVE Kept
<1>1. MarketTypeOK /\ MarketTypeOK'
  BY DEF LimitsIInv
<1>2. PICK x : x = deal[p]
  OBVIOUS
<1>3. ItemsKept /\ GemsKept
  <2>1. UNCHANGED <<items, offers, lottery>>
    BY DEF TransferGold, CalculateDeposit, CalculateWithdrawal
  <2>2. QED
    BY <1>1, <2>1, UnwrittenKept
<1>4. \A c \in Traders : gold[c] \in Int /\ saved[c] \in Int
  BY <1>1, PurseTypes
<1>5. gold \in [Traders -> 0..MaxWallet] /\ saved \in [Traders -> 0..MaxDeposit]
  BY <1>1, PurseTypes
<1>6. CASE TransferGold(p)
  <2>1. Commits(p, {"gold", "money"})
    BY <1>6 DEF TransferGold
  <2>2. x.op \in {"gold", "money"}
    BY <1>2, <2>1, Committed
  <2>3. x.me \in Traders /\ x.you \in Traders /\ x.you # x.me
    BY <1>2, <2>1, <2>2, Committed DEF Working, Transfers
  <2>4. gold' = Pay(x.me, x.you, Gift) /\ saved' = saved
    BY <1>2, <1>6 DEF TransferGold
  <2>5. GoldKept
    BY <1>1, <2>3, <2>4, PayKeeps, MarketAssumption
  <2>6. QED
    BY <1>3, <2>5 DEF Kept
<1>7. CASE CalculateDeposit(p)
  <2>1. PICK c : c = x.me
    OBVIOUS
  <2>2. Commits(p, {"save"})
    BY <1>7 DEF CalculateDeposit
  <2>3. x.op = "save"
    BY <1>2, <2>2, Committed
  <2>4. c \in Traders
    BY <1>2, <2>1, <2>2, <2>3, Committed DEF Working, Solitary
  <2>5. PICK amount \in 1..gold[c] : /\ gold' = [gold EXCEPT ![c] = gold[c] - amount]
                                     /\ saved' = [saved EXCEPT ![c] = saved[c] + amount]
    BY <1>2, <1>7, <2>1 DEF CalculateDeposit
  <2>6. \A d \in Traders : gold'[d] + saved'[d] = gold[d] + saved[d]
    <3>1. TAKE d \in Traders
    <3>2. CASE d = c
      <4>1. gold'[d] = gold[d] - amount /\ saved'[d] = saved[d] + amount
        BY <1>5, <2>4, <2>5, <3>2
      <4>2. QED
        BY <1>4, <4>1
    <3>3. CASE d # c
      BY <1>5, <2>5, <3>3
    <3>4. QED
      BY <3>2, <3>3
  <2>7. GoldKept
    BY <1>1, <2>6, SamePurses
  <2>8. QED
    BY <1>3, <2>7 DEF Kept
<1>8. CASE CalculateWithdrawal(p)
  <2>1. PICK c : c = x.me
    OBVIOUS
  <2>2. Commits(p, {"spend"})
    BY <1>8 DEF CalculateWithdrawal
  <2>3. x.op = "spend"
    BY <1>2, <2>2, Committed
  <2>4. c \in Traders
    BY <1>2, <2>1, <2>2, <2>3, Committed DEF Working, Solitary
  <2>5. PICK amount \in 1..saved[c] : \E n :
           /\ n = Min({amount, MaxWallet - gold[c]})
           /\ gold' = [gold EXCEPT ![c] = gold[c] + n]
           /\ saved' = [saved EXCEPT ![c] = saved[c] - n]
    BY <1>2, <1>8, <2>1 DEF CalculateWithdrawal
  <2>6. PICK n : /\ n = Min({amount, MaxWallet - gold[c]})
                 /\ gold' = [gold EXCEPT ![c] = gold[c] + n]
                 /\ saved' = [saved EXCEPT ![c] = saved[c] - n]
    BY <2>5
  <2>7. n \in Int
    <3>1. MaxWallet - gold[c] \in Int
      BY <1>4, <2>4, MarketAssumption
    <3>2. n = IF amount <= MaxWallet - gold[c] THEN amount ELSE MaxWallet - gold[c]
      BY <2>6, <3>1, MinOfTwo
    <3>3. QED
      BY <3>1, <3>2
  <2>8. \A d \in Traders : gold'[d] + saved'[d] = gold[d] + saved[d]
    <3>1. TAKE d \in Traders
    <3>2. CASE d = c
      <4>1. gold'[d] = gold[d] + n /\ saved'[d] = saved[d] - n
        BY <1>5, <2>4, <2>6, <3>2
      <4>2. QED
        BY <1>4, <2>7, <4>1
    <3>3. CASE d # c
      BY <1>5, <2>6, <3>3
    <3>4. QED
      BY <3>2, <3>3
  <2>9. GoldKept
    BY <1>1, <2>8, SamePurses
  <2>10. QED
    BY <1>3, <2>9 DEF Kept
<1>9. QED
  BY <1>6, <1>7, <1>8

LEMMA ItemOperations ==
  ASSUME MarketIInv, LimitsIInv, LimitsIInv', NEW p \in Callers,
         FromInventory(p) \/ WithdrawItem(p) \/ SendAuctionItem(p) \/ SendGem(p)
  PROVE Kept
<1>1. /\ MarketTypeOK /\ MarketTypeOK' /\ Counts(depot) /\ Counts(bag)
      /\ bag \in [Traders -> [Goods -> Nat]] /\ depot \in [Traders -> [Goods -> Nat]]
  BY CountsType DEF LimitsIInv, MarketTypeOK
<1>2. PICK x : x = deal[p]
  OBVIOUS
<1>3. /\ GoldKept /\ listing' = listing /\ sale' = sale /\ won' = won
      /\ ~SendGem(p) => box' = box
  <2>1. UNCHANGED purses /\ UNCHANGED offers /\ UNCHANGED lottery /\ (~SendGem(p) => box' = box)
    BY DEF FromInventory, WithdrawItem, SendAuctionItem, SendGem
  <2>2. QED
    BY <1>1, <2>1, UnwrittenKept DEF offers, lottery
<1>4. ASSUME \A k \in Goods : InHands(k)' = InHands(k), box' = box
      PROVE Kept
  BY <1>1, <1>3, <1>4, HandsKept, UnwrittenKept DEF Kept
<1>5. CASE FromInventory(p)
  <2>1. Commits(p, {"stow", "send"})
    BY <1>5 DEF FromInventory
  <2>2. x.op \in {"stow", "send"} /\ x.item \in Goods
    BY <1>2, <2>1, Committed
  <2>3. x.me \in Traders /\ (x.op = "send" => x.you \in Traders)
    BY <1>2, <2>1, <2>2, Committed DEF Working, Transfers, Solitary
  <2>4. PICK owner : owner = IF x.op = "stow" THEN x.me ELSE x.you
    OBVIOUS
  <2>5. /\ box' = box
        /\ \E n \in Units(x.me, x.item) :
              bag' = Drop(bag, x.me, x.item, n) /\ depot' = Put(depot, owner, x.item, n)
    BY <1>2, <1>5, <2>4 DEF FromInventory
  <2>6. PICK n \in Units(x.me, x.item) :
           bag' = Drop(bag, x.me, x.item, n) /\ depot' = Put(depot, owner, x.item, n)
    BY <2>5
  <2>7. n \in Nat
    <3>1. PICK b \in Nat : b = bag[x.me][x.item]
      BY <1>1, <2>2, <2>3
    <3>2. Min({1, b}) = IF 1 <= b THEN 1 ELSE b
      BY MinOfTwo
    <3>3. n \in 1..(IF x.item \in Stackable THEN b ELSE Min({1, b}))
      BY <2>6, <3>1 DEF Units
    <3>4. QED
      BY <3>1, <3>2, <3>3
  <2>8. owner \in Traders
    BY <2>2, <2>3, <2>4
  <2>9. \A k \in Goods : InHands(k)' = InHands(k)
    BY <1>1, <2>2, <2>3, <2>6, <2>7, <2>8, HandsMoved
  <2>10. QED
    BY <1>4, <2>5, <2>9
<1>6. CASE WithdrawItem(p)
  <2>1. Commits(p, {"fetch"})
    BY <1>6 DEF WithdrawItem
  <2>2. x.op = "fetch" /\ x.item \in Goods
    BY <1>2, <2>1, Committed
  <2>3. x.me \in Traders
    BY <1>2, <2>1, <2>2, Committed DEF Working, Solitary
  <2>4. PICK n : /\ n = Instance(depot[x.me], x.item) /\ box' = box
                 /\ depot' = Drop(depot, x.me, x.item, n) /\ bag' = Put(bag, x.me, x.item, n)
    BY <1>2, <1>6 DEF WithdrawItem
  <2>5. n \in Nat
    <3>1. depot[x.me][x.item] \in Nat
      BY <1>1, <2>2, <2>3
    <3>2. QED
      BY <2>4, <3>1 DEF Instance
  <2>6. PICK B, D, c, i : B = bag /\ D = depot /\ c = x.me /\ i = x.item
    OBVIOUS
  <2>7. /\ Counts(B) /\ Counts(D) /\ c \in Traders /\ i \in Goods
        /\ depot' = Drop(D, c, i, n) /\ bag' = Put(B, c, i, n)
    BY <1>1, <2>2, <2>3, <2>4, <2>6
  <2>8. \A d \in Traders, k \in Goods : depot'[d][k] = D[d][k] - (IF d = c /\ k = i THEN n ELSE 0)
    BY <2>5, <2>7, DropAt
  <2>9. \A d \in Traders, k \in Goods : bag'[d][k] = B[d][k] + (IF d = c /\ k = i THEN n ELSE 0)
    BY <2>5, <2>7, PutAt
  <2>10. \A d \in Traders, k \in Goods : B[d][k] \in Int /\ D[d][k] \in Int
    BY <2>7 DEF Counts
  <2>11. \A d \in Traders, k \in Goods : depot'[d][k] + bag'[d][k] = depot[d][k] + bag[d][k]
    BY <2>5, <2>6, <2>8, <2>9, <2>10
  <2>12. \A k \in Goods : InHands(k)' = InHands(k)
    BY <1>1, <2>11, HandsSame
  <2>13. QED
    BY <1>4, <2>4, <2>12
<1>7. CASE SendAuctionItem(p)
  <2>1. Commits(p, {"auction"})
    BY <1>7 DEF SendAuctionItem
  <2>2. x.op = "auction" /\ x.item \in Goods
    BY <1>2, <2>1, Committed
  <2>3. x.me \in Traders /\ x.you \in Traders
    BY <1>2, <2>1, <2>2, Committed DEF Working, Transfers
  <2>4. /\ box' = box
        /\ bag' = Drop(bag, x.me, x.item, 1) /\ depot' = Put(depot, x.you, x.item, 1)
    BY <1>2, <1>7 DEF SendAuctionItem
  <2>5. PICK n : n = 1 /\ n \in Nat
    OBVIOUS
  <2>6. \A k \in Goods : InHands(k)' = InHands(k)
    BY <1>1, <2>2, <2>3, <2>4, <2>5, HandsMoved
  <2>7. QED
    BY <1>4, <2>4, <2>6
<1>8. CASE SendGem(p)
  <2>1. Commits(p, {"gem"})
    BY <1>8 DEF SendGem
  <2>2. x.op = "gem"
    BY <1>2, <2>1, Committed
  <2>3. x.me \in Traders /\ x.you \in Traders /\ x.me # x.you
    BY <1>2, <2>1, <2>2, Committed DEF Working, Transfers
  <2>4. /\ box' = [box EXCEPT ![x.me] = @ - 1, ![x.you] = @ + 1]
        /\ depot' = depot /\ bag' = bag
    BY <1>2, <1>8 DEF SendGem
  <2>5. PICK w, v : w = box /\ v = box'
    OBVIOUS
  <2>6. box \in [Traders -> Nat] /\ box' \in [Traders -> Nat]
    BY <1>1 DEF MarketTypeOK
  <2>7. w \in [Traders -> Int] /\ v \in [Traders -> Int]
    BY <2>5, <2>6
  <2>8. /\ v[x.me] = w[x.me] - 1 /\ v[x.you] = w[x.you] + 1
        /\ \A c \in Traders \ {x.me, x.you} : v[c] = w[c]
    BY <2>3, <2>4, <2>5, <2>6
  <2>9. SumFunction(v) = SumFunction(w) + (v[x.me] - w[x.me]) + (v[x.you] - w[x.you])
    BY <2>3, <2>7, <2>8, SumChangeTwo, MarketAssumption
  <2>10. SumFunction(w) \in Int /\ w[x.me] \in Int /\ w[x.you] \in Int
    BY <2>3, <2>7, SumTyped, MarketAssumption
  <2>11. GemsKept
    <3>1. SumFunction(v) = SumFunction(w)
      BY <2>8, <2>9, <2>10
    <3>2. QED
      BY <2>5, <3>1 DEF GemsKept
  <2>12. \A k \in Goods : InHands(k)' = InHands(k)
    BY <1>1, <2>4, HandsSame
  <2>13. QED
    BY <1>1, <1>3, <2>11, <2>12, HandsKept DEF Kept
<1>9. QED
  BY <1>5, <1>6, <1>7, <1>8

LEMMA ListingOperations ==
  ASSUME MarketIInv, LimitsIInv, LimitsIInv', OnceIInv, NEW p \in Callers,
         CreateListing(p) \/ PurchaseListing(p) \/ CancelListing(p)
  PROVE Kept
<1>1. /\ MarketTypeOK /\ MarketTypeOK' /\ SellersOK /\ listing \in [Listings -> Listed]
  BY DEF LimitsIInv, MarketTypeOK, OnceIInv
<1>2. PICK x : x = deal[p]
  OBVIOUS
<1>3. /\ GemsKept /\ bag' = bag /\ won' = won /\ \A k \in Goods : InStores(k)' = InStores(k)
  <2>1. box' = box /\ bag' = bag /\ sale' = sale /\ won' = won
    BY DEF CreateListing, PurchaseListing, CancelListing, lottery
  <2>2. QED
    BY <1>1, <2>1, UnwrittenKept, OffersKept
<1>4. ASSUME NEW i \in Goods, NEW a \in {-1, 0, 1},
             \A k \in Goods : OnMarket(k)' = OnMarket(k) + (IF k = i THEN a ELSE 0),
             \A k \in Goods : InHands(k)' = InHands(k) - (IF k = i THEN a ELSE 0)
      PROVE ItemsKept
  <2>1. PICK b \in {-1, 0, 1} : b = 0 /\ a + b = a
    OBVIOUS
  <2>2. \A k \in Goods : InStores(k)' = InStores(k) + (IF k = i THEN b ELSE 0)
    <3>1. \A k \in Goods : InStores(k) \in Int
      BY <1>1, ExistingParts
    <3>2. QED
      BY <1>3, <2>1, <3>1
  <2>3. \A k \in Goods : InHands(k)' = InHands(k) - (IF k = i THEN a + b ELSE 0)
    BY <1>4, <2>1
  <2>4. QED
    BY <1>1, <1>3, <1>4, <2>2, <2>3, PartsKept
<1>5. ASSUME NEW i \in Goods, NEW c \in Traders, depot' = Put(depot, c, i, 1),
             \A k \in Goods : OnMarket(k)' = OnMarket(k) - (IF k = i THEN 1 ELSE 0)
      PROVE ItemsKept
  <2>1. PICK a \in {-1, 0, 1} : a = -1
    OBVIOUS
  <2>2. \A k \in Goods : InHands(k)' = InHands(k) + (IF k = i THEN 1 ELSE 0)
    BY <1>1, <1>3, <1>5, HandsOne
  <2>3. \A k \in Goods : OnMarket(k) \in Int /\ InHands(k) \in Int
    BY <1>1, ExistingParts
  <2>4. \A k \in Goods : OnMarket(k)' = OnMarket(k) + (IF k = i THEN a ELSE 0)
    BY <1>5, <2>1, <2>3
  <2>5. \A k \in Goods : InHands(k)' = InHands(k) - (IF k = i THEN a ELSE 0)
    BY <2>1, <2>2, <2>3
  <2>6. QED
    BY <1>4, <2>4, <2>5
<1>6. CASE CreateListing(p)
  <2>1. Commits(p, {"list"})
    BY <1>6 DEF CreateListing
  <2>2. x.op = "list" /\ x.item \in Goods
    BY <1>2, <2>1, Committed
  <2>3. x.me \in Traders
    BY <1>2, <2>1, <2>2, Committed DEF Working, Solitary
  <2>4. depot' = Drop(depot, x.me, x.item, 1) /\ UNCHANGED purses
    BY <1>2, <1>6 DEF CreateListing
  <2>5. PICK l \in Listings :
           /\ listing[l].state = "none"
           /\ listing' = [listing EXCEPT
                  ![l] = [state |-> "active", seller |-> x.me, item |-> x.item]]
    BY <1>2, <1>6 DEF CreateListing
  <2>6. PICK c, i : c = x.me /\ i = x.item /\ c \in Traders /\ i \in Goods
    BY <2>2, <2>3
  <2>7. \A k \in Goods : OnMarket(k)' = OnMarket(k) + (IF k = i THEN 1 ELSE 0)
    BY <1>1, <2>5, <2>6, ListingCounts
  <2>8. \A k \in Goods : InHands(k)' = InHands(k) - (IF k = i THEN 1 ELSE 0)
    BY <1>1, <1>3, <2>4, <2>6, HandsOne
  <2>9. PICK a \in {-1, 0, 1} : a = 1
    OBVIOUS
  <2>10. ItemsKept
    BY <1>4, <2>6, <2>7, <2>8, <2>9
  <2>11. QED
    BY <1>1, <1>3, <2>4, <2>10, UnwrittenKept DEF Kept
<1>7. CASE PurchaseListing(p)
  <2>1. Commits(p, {"buy"})
    BY <1>7 DEF PurchaseListing
  <2>2. x.op = "buy"
    BY <1>2, <2>1, Committed
  <2>3. x.me \in Traders /\ x.id \in Listings /\ listing[x.id].seller # x.me
    BY <1>2, <2>1, <2>2, Committed DEF Working, OnListings
  <2>4. PICK sold : sold = listing[x.id] /\ sold.item \in Goods /\ sold.seller # x.me
    BY <1>1, <2>3 DEF Listed
  <2>5. /\ gold' = Pay(x.me, sold.seller, Price) /\ saved' = saved
        /\ depot' = Put(depot, x.me, sold.item, 1) /\ CloseListing(x.id, "sold")
    BY <1>2, <1>7, <2>4 DEF PurchaseListing
  <2>6. sold.seller \in Traders
    BY <1>1, <2>3, <2>4, <2>5 DEF CloseListing, SellersOK
  <2>7. GoldKept
    BY <1>1, <2>3, <2>4, <2>5, <2>6, PayKeeps, MarketAssumption
  <2>8. \A k \in Goods : OnMarket(k)' = OnMarket(k) - (IF k = sold.item THEN 1 ELSE 0)
    BY <1>1, <2>3, <2>4, <2>5, CloseCounts
  <2>9. ItemsKept
    BY <1>5, <2>3, <2>4, <2>5, <2>8
  <2>10. QED
    BY <1>3, <2>7, <2>9 DEF Kept
<1>8. CASE CancelListing(p)
  <2>1. Commits(p, {"cancel"})
    BY <1>8 DEF CancelListing
  <2>2. x.op = "cancel"
    BY <1>2, <2>1, Committed
  <2>3. x.me \in Traders /\ x.id \in Listings
    BY <1>2, <2>1, <2>2, Committed DEF Working, OnListings
  <2>4. PICK k \in Goods : k = listing[x.id].item
    BY <1>1, <2>3 DEF Listed
  <2>5. /\ depot' = Put(depot, x.me, k, 1) /\ CloseListing(x.id, "cancelled") /\ UNCHANGED purses
    BY <1>2, <1>8, <2>4 DEF CancelListing
  <2>6. \A j \in Goods : OnMarket(j)' = OnMarket(j) - (IF j = k THEN 1 ELSE 0)
    BY <1>1, <2>3, <2>4, <2>5, CloseCounts
  <2>7. ItemsKept
    BY <1>5, <2>3, <2>4, <2>5, <2>6
  <2>8. QED
    BY <1>1, <1>3, <2>5, <2>7, UnwrittenKept DEF Kept
<1>9. QED
  BY <1>6, <1>7, <1>8

\* Three changes of depots: who trades gives i to t and receives j.
LEMMA HandsTraded ==
  ASSUME MarketTypeOK, MarketTypeOK', NEW c \in Traders, NEW t \in Traders, c # t,
         NEW i \in Goods, NEW j \in Goods, bag' = bag,
         NEW D, NEW E, D = Drop(depot, c, i, 1), E = Put(D, t, i, 1), depot' = Put(E, c, j, 1)
  PROVE \A k \in Goods : InHands(k)' = InHands(k) + (IF k = j THEN 1 ELSE 0)
<1>1. Counts(depot) /\ Counts(bag)
  BY CountsType
<1>2. PICK n : n = 1 /\ n \in Nat
  OBVIOUS
<1>3. /\ Counts(D)
      /\ \A d \in Traders, k \in Goods : D[d][k] = depot[d][k] - (IF d = c /\ k = i THEN n ELSE 0)
  <2>1. PICK B : B = depot
    OBVIOUS
  <2>2. Counts(B) /\ D = Drop(B, c, i, n)
    BY <1>1, <1>2, <2>1
  <2>3. /\ Counts(D)
        /\ \A d \in Traders, k \in Goods : D[d][k] = B[d][k] - (IF d = c /\ k = i THEN n ELSE 0)
    BY <1>2, <2>2, DropAt
  <2>4. QED
    BY <2>1, <2>3
<1>4. /\ Counts(E)
      /\ \A d \in Traders, k \in Goods : E[d][k] = D[d][k] + (IF d = t /\ k = i THEN n ELSE 0)
  <2>1. E = Put(D, t, i, n)
    BY <1>2
  <2>2. QED
    BY <1>2, <1>3, <2>1, PutAt
<1>5. \A d \in Traders, k \in Goods : depot'[d][k] = E[d][k] + (IF d = c /\ k = j THEN n ELSE 0)
  <2>1. depot' = Put(E, c, j, n)
    BY <1>2
  <2>2. QED
    BY <1>2, <1>4, <2>1, PutAt
<1>6. TAKE k \in Goods
<1>7. PICK a \in Int, b \in Int : /\ a = (IF k = j THEN 1 ELSE 0) - (IF k = i THEN 1 ELSE 0)
                                  /\ b = (IF k = i THEN 1 ELSE 0)
  OBVIOUS
<1>8. \A d \in Traders : depot[d][k] \in Int /\ bag[d][k] \in Int
  BY <1>1 DEF Counts
<1>9. depot'[c][k] = depot[c][k] + a
  <2>1. D[c][k] = depot[c][k] - b
    BY <1>2, <1>3, <1>7
  <2>2. E[c][k] = D[c][k] + 0
    BY <1>4
  <2>3. depot'[c][k] = E[c][k] + (IF k = j THEN 1 ELSE 0)
    BY <1>2, <1>5
  <2>4. QED
    BY <1>7, <1>8, <2>1, <2>2, <2>3
<1>10. depot'[t][k] = depot[t][k] + b
  <2>1. D[t][k] = depot[t][k] - 0
    BY <1>3
  <2>2. E[t][k] = D[t][k] + b
    BY <1>2, <1>4, <1>7
  <2>3. depot'[t][k] = E[t][k] + 0
    BY <1>5
  <2>4. QED
    BY <1>7, <1>8, <2>1, <2>2, <2>3
<1>11. ASSUME NEW d \in Traders \ {c, t}
       PROVE depot'[d][k] = depot[d][k]
  <2>1. D[d][k] = depot[d][k] - 0 /\ E[d][k] = D[d][k] + 0 /\ depot'[d][k] = E[d][k] + 0
    BY <1>3, <1>4, <1>5, <1>11
  <2>2. depot[d][k] \in Int
    BY <1>8, <1>11
  <2>3. QED
    BY <2>1, <2>2
<1>12. depot'[c][k] + bag'[c][k] = depot[c][k] + bag[c][k] + a
  BY <1>7, <1>8, <1>9
<1>13. depot'[t][k] + bag'[t][k] = depot[t][k] + bag[t][k] + b
  BY <1>7, <1>8, <1>10
<1>14. \A d \in Traders \ {c, t} : depot'[d][k] + bag'[d][k] = depot[d][k] + bag[d][k]
  BY <1>11
<1>15. InHands(k)' = InHands(k) + a + (IF c # t THEN b ELSE 0)
  BY <1>7, <1>12, <1>13, <1>14, HandsChange
<1>16. InHands(k) \in Int
  BY ExistingParts
<1>17. QED
  BY <1>7, <1>15, <1>16

LEMMA SaleOperations ==
  ASSUME MarketIInv, LimitsIInv, LimitsIInv', OnceIInv, NEW p \in Callers,
         ListSale(p) \/ WithdrawListing(p) \/ BuyItem(p) \/ TradeItem(p)
  PROVE Kept
<1>1. /\ MarketTypeOK /\ MarketTypeOK' /\ SellersOK /\ sale \in [Sales -> Offered]
  BY DEF LimitsIInv, MarketTypeOK, OnceIInv
<1>2. PICK x : x = deal[p]
  OBVIOUS
<1>3. /\ GemsKept /\ bag' = bag /\ won' = won /\ \A k \in Goods : OnMarket(k)' = OnMarket(k)
  <2>1. box' = box /\ bag' = bag /\ listing' = listing /\ won' = won
    BY DEF ListSale, WithdrawListing, BuyItem, TradeItem, lottery
  <2>2. QED
    BY <1>1, <2>1, UnwrittenKept, OffersKept
<1>4. ASSUME NEW i \in Goods, NEW b \in {-1, 0, 1},
             \A k \in Goods : InStores(k)' = InStores(k) + (IF k = i THEN b ELSE 0),
             \A k \in Goods : InHands(k)' = InHands(k) - (IF k = i THEN b ELSE 0)
      PROVE ItemsKept
  <2>1. PICK a \in {-1, 0, 1} : a = 0 /\ a + b = b
    OBVIOUS
  <2>2. \A k \in Goods : OnMarket(k)' = OnMarket(k) + (IF k = i THEN a ELSE 0)
    <3>1. \A k \in Goods : OnMarket(k) \in Int
      BY <1>1, ExistingParts
    <3>2. QED
      BY <1>3, <2>1, <3>1
  <2>3. \A k \in Goods : InHands(k)' = InHands(k) - (IF k = i THEN a + b ELSE 0)
    BY <1>4, <2>1
  <2>4. QED
    BY <1>1, <1>3, <1>4, <2>2, <2>3, PartsKept
<1>5. ASSUME NEW i \in Goods,
             \A k \in Goods : InHands(k)' = InHands(k) + (IF k = i THEN 1 ELSE 0),
             \A k \in Goods : InStores(k)' = InStores(k) - (IF k = i THEN 1 ELSE 0)
      PROVE ItemsKept
  <2>1. PICK b \in {-1, 0, 1} : b = -1
    OBVIOUS
  <2>2. \A k \in Goods : InStores(k) \in Int /\ InHands(k) \in Int
    BY <1>1, ExistingParts
  <2>3. \A k \in Goods : InStores(k)' = InStores(k) + (IF k = i THEN b ELSE 0)
    BY <1>5, <2>1, <2>2
  <2>4. \A k \in Goods : InHands(k)' = InHands(k) - (IF k = i THEN b ELSE 0)
    BY <1>5, <2>1, <2>2
  <2>5. QED
    BY <1>4, <2>3, <2>4
<1>6. CASE ListSale(p)
  <2>1. Commits(p, {"offer", "barter"})
    BY <1>6 DEF ListSale
  <2>2. x.op \in {"offer", "barter"} /\ x.item \in Goods
    BY <1>2, <2>1, Committed
  <2>3. x.me \in Traders
    BY <1>2, <2>1, <2>2, Committed DEF Working, Solitary
  <2>4. depot' = Drop(depot, x.me, x.item, 1) /\ UNCHANGED purses
    BY <1>2, <1>6 DEF ListSale
  <2>5. PICK c, i : c = x.me /\ i = x.item /\ c \in Traders /\ i \in Goods
    BY <2>2, <2>3
  <2>6. PICK s \in Sales, wish \in Goods :
           /\ sale[s].state = "none"
           /\ sale' = [sale EXCEPT ![s] = [state |-> IF x.op = "offer" THEN "gold" ELSE "barter",
                                           seller |-> x.me, item |-> x.item, wish |-> wish]]
    BY <1>2, <1>6 DEF ListSale
  <2>7. \A k \in Goods : InStores(k)' = InStores(k) + (IF k = i THEN 1 ELSE 0)
    <3>1. PICK r : r = [state |-> IF x.op = "offer" THEN "gold" ELSE "barter",
                        seller |-> x.me, item |-> x.item, wish |-> wish]
      OBVIOUS
    <3>2. r.state # "none" /\ r.item = i /\ sale' = [sale EXCEPT ![s] = r]
      BY <2>5, <2>6, <3>1
    <3>3. sale[s].state = "none"
      BY <2>6
    <3>4. QED
      BY <1>1, <2>5, <3>2, <3>3, OfferCounts
  <2>8. \A k \in Goods : InHands(k)' = InHands(k) - (IF k = i THEN 1 ELSE 0)
    BY <1>1, <1>3, <2>4, <2>5, HandsOne
  <2>9. PICK b \in {-1, 0, 1} : b = 1
    OBVIOUS
  <2>10. ItemsKept
    BY <1>4, <2>5, <2>7, <2>8, <2>9
  <2>11. QED
    BY <1>1, <1>3, <2>4, <2>10, UnwrittenKept DEF Kept
<1>7. CASE WithdrawListing(p) \/ BuyItem(p) \/ TradeItem(p)
  <2>1. Commits(p, {"withdraw", "purchase", "trade"})
    BY <1>7 DEF WithdrawListing, BuyItem, TradeItem, Commits
  <2>2. x.op \in {"withdraw", "purchase", "trade"} /\ x.item \in Goods
    BY <1>2, <2>1, Committed
  <2>3. x.me \in Traders /\ x.id \in Sales
    BY <1>2, <2>1, <2>2, Committed DEF Working, OnSales
  <2>4. x.at >= 1 /\ StillOffered(x)
    <3>1. StillOffered(deal[p])
      BY DEF MarketIInv, CallerOK
    <3>2. QED
      BY <1>2, <2>1, <2>2, <3>1, CommitsLocked DEF OnSales
  <2>5. PICK sold : sold = sale[x.id] /\ sold.item \in Goods
    BY <1>1, <2>3 DEF Offered
  <2>6. sale[x.id].state # "none" /\ sold.seller \in Traders
    BY <1>1, <2>2, <2>3, <2>4, <2>5 DEF StillOffered, OnSales, SellersOK
  <2>7. DeleteSale(x.id)
    BY <1>2, <1>7 DEF WithdrawListing, BuyItem, TradeItem
  <2>8. \A k \in Goods : InStores(k)' = InStores(k) - (IF k = sold.item THEN 1 ELSE 0)
    BY <1>1, <2>3, <2>5, <2>6, <2>7, DeleteCounts
  <2>9. ASSUME depot' = Put(depot, x.me, sold.item, 1)
        PROVE ItemsKept
    <3>1. PICK c, i : c = x.me /\ i = sold.item /\ c \in Traders /\ i \in Goods
      BY <2>3, <2>5
    <3>2. \A k \in Goods : InHands(k)' = InHands(k) + (IF k = i THEN 1 ELSE 0)
      BY <1>1, <1>3, <2>9, <3>1, HandsOne
    <3>3. QED
      BY <1>5, <2>8, <3>1, <3>2
  <2>10. CASE WithdrawListing(p)
    <3>1. depot' = Put(depot, x.me, sold.item, 1) /\ UNCHANGED purses
      BY <1>2, <2>5, <2>10 DEF WithdrawListing
    <3>2. QED
      BY <1>1, <1>3, <2>9, <3>1, UnwrittenKept DEF Kept
  <2>11. CASE BuyItem(p)
    <3>1. /\ Commits(p, {"purchase"}) /\ gold' = Pay(x.me, sold.seller, Price) /\ saved' = saved
          /\ depot' = Put(depot, x.me, sold.item, 1)
      BY <1>2, <2>5, <2>11 DEF BuyItem
    <3>2. x.op = "purchase"
      BY <1>2, <3>1, Committed
    <3>3. sold.seller # x.me
      BY <1>2, <2>5, <3>1, <3>2, Committed
    <3>4. GoldKept
      BY <1>1, <2>3, <2>6, <3>1, <3>3, PayKeeps, MarketAssumption
    <3>5. QED
      BY <1>3, <2>9, <3>1, <3>4 DEF Kept
  <2>12. CASE TradeItem(p)
    <3>1. PICK D : D = Drop(depot, x.me, x.item, 1)
      OBVIOUS
    <3>2. PICK E : E = Put(D, sold.seller, x.item, 1)
      OBVIOUS
    <3>3. Commits(p, {"trade"}) /\ depot' = Put(E, x.me, sold.item, 1) /\ UNCHANGED purses
      BY <1>2, <2>5, <2>12, <3>1, <3>2 DEF TradeItem
    <3>4. x.op = "trade"
      BY <1>2, <3>3, Committed
    <3>5. sold.seller # x.me
      BY <1>2, <2>5, <3>3, <3>4, Committed
    <3>6. PICK c, t, i, j : /\ c = x.me /\ t = sold.seller /\ i = x.item /\ j = sold.item
                            /\ c \in Traders /\ t \in Traders /\ i \in Goods /\ j \in Goods
      BY <2>2, <2>3, <2>5, <2>6
    <3>7. c # t /\ D = Drop(depot, c, i, 1) /\ E = Put(D, t, i, 1) /\ depot' = Put(E, c, j, 1)
      BY <3>1, <3>2, <3>3, <3>5, <3>6
    <3>8. \A k \in Goods : InHands(k)' = InHands(k) + (IF k = j THEN 1 ELSE 0)
      BY <1>1, <1>3, <3>6, <3>7, HandsTraded
    <3>9. ItemsKept
      BY <1>5, <2>8, <3>6, <3>8
    <3>10. QED
      BY <1>1, <1>3, <3>3, <3>9, UnwrittenKept DEF Kept
  <2>13. QED
    BY <1>7, <2>10, <2>11, <2>12
<1>8. QED
  BY <1>6, <1>7

LEMMA OtherOperations ==
  ASSUME MarketIInv, LimitsIInv, LimitsIInv', OnceIInv, NEW p \in Callers,
         BuildStore(p) \/ PurchaseTakarakujiTicket(p) \/ DrawTakarakuji(p)
  PROVE Kept
<1>1. MarketTypeOK /\ MarketTypeOK' /\ depot \in [Traders -> [Goods -> Nat]]
  BY DEF LimitsIInv, MarketTypeOK
<1>2. PICK x : x = deal[p]
  OBVIOUS
<1>3. GemsKept /\ listing' = listing /\ sale' = sale /\ bag' = bag
  <2>1. box' = box /\ listing' = listing /\ sale' = sale /\ bag' = bag
    BY DEF BuildStore, PurchaseTakarakujiTicket, DrawTakarakuji, items, offers
  <2>2. QED
    BY <1>1, <2>1, UnwrittenKept
<1>4. ASSUME depot' = depot, won' = won
      PROVE ItemsKept
  <2>1. \A k \in Goods : InHands(k)' = InHands(k)
    BY <1>1, <1>3, <1>4, HandsSame
  <2>2. QED
    BY <1>1, <1>3, <1>4, <2>1, HandsKept
<1>5. CASE BuildStore(p)
  <2>1. Commits(p, {"build"})
    BY <1>5 DEF BuildStore
  <2>2. x.op = "build"
    BY <1>2, <2>1, Committed
  <2>3. x.me \in Traders /\ store[x.me] # "open"
    BY <1>2, <2>1, <2>2, Committed, BuilderSeen DEF Working, Solitary
  <2>4. /\ gold' = [gold EXCEPT ![x.me] = @ - StorePrice] /\ saved' = saved
        /\ store' = [store EXCEPT ![x.me] = "open"] /\ depot' = depot /\ won' = won
    BY <1>2, <1>5 DEF BuildStore, items, lottery
  <2>5. store' # store
    <3>1. store \in [Traders -> {"none", "open"}]
      BY <1>1 DEF MarketTypeOK
    <3>2. store'[x.me] = "open"
      BY <2>3, <2>4, <3>1
    <3>3. QED
      BY <2>3, <3>2
  <2>6. GoldKept
    BY <1>1, <2>3, <2>4, <2>5, Bought, MarketAssumption
  <2>7. QED
    BY <1>3, <1>4, <2>4, <2>6 DEF Kept
<1>6. CASE PurchaseTakarakujiTicket(p)
  <2>1. Commits(p, {"ticket"})
    BY <1>6 DEF PurchaseTakarakujiTicket
  <2>2. x.op = "ticket"
    BY <1>2, <2>1, Committed
  <2>3. x.me \in Traders /\ x.me \notin tickets
    BY <1>2, <2>1, <2>2, Committed DEF Working, Solitary
  <2>4. /\ gold' = [gold EXCEPT ![x.me] = @ - TicketPrice] /\ saved' = saved
        /\ tickets' = tickets \cup {x.me} /\ depot' = depot /\ won' = won
    BY <1>2, <1>6 DEF PurchaseTakarakujiTicket, items
  <2>5. tickets' # tickets
    BY <2>3, <2>4
  <2>6. GoldKept
    BY <1>1, <2>3, <2>4, <2>5, Bought, MarketAssumption
  <2>7. QED
    BY <1>3, <1>4, <2>4, <2>6 DEF Kept
<1>7. CASE DrawTakarakuji(p)
  <2>1. Commits(p, {"draw"})
    BY <1>7 DEF DrawTakarakuji
  <2>2. x.winners \subseteq Traders /\ won = {}
    BY <1>2, <2>1, Committed, DrawSeen
  <2>3. /\ depot' = [c \in Traders |->
               IF c \in x.winners THEN [depot[c] EXCEPT ![Prize] = @ + 1] ELSE depot[c]]
        /\ won' = x.winners /\ UNCHANGED purses
    BY <1>2, <1>7 DEF DrawTakarakuji
  <2>4. won' \ won = x.winners
    BY <2>2, <2>3
  <2>5. ASSUME NEW c \in Traders, NEW k \in Goods
        PROVE depot'[c][k] = IF c \in x.winners /\ k = Prize THEN depot[c][k] + 1 ELSE depot[c][k]
    BY <1>1, <2>3
  <2>6. ASSUME NEW k \in Goods
        PROVE InHands(k)' = InHands(k) + (IF k = Prize THEN Cardinality(x.winners) ELSE 0)
    <3>1. PICK w, v : /\ w = [c \in Traders |-> depot[c][k] + bag[c][k]]
                      /\ v = [c \in Traders |-> depot'[c][k] + bag'[c][k]]
      OBVIOUS
    <3>2. InHands(k) = SumFunction(w) /\ InHands(k)' = SumFunction(v)
      BY <3>1, ExistingAfter DEF InHands
    <3>3. \A c \in Traders : /\ depot[c][k] \in Int /\ bag[c][k] \in Int
                             /\ depot'[c][k] \in Int /\ bag'[c][k] \in Int
      BY <1>1 DEF MarketTypeOK
    <3>4. w \in [Traders -> Int] /\ v \in [Traders -> Int]
      BY <3>1, <3>3
    <3>5. CASE k = Prize
      <4>1. \A c \in Traders : v[c] = IF c \in x.winners THEN w[c] + 1 ELSE w[c]
        <5>1. TAKE c \in Traders
        <5>2. w[c] = depot[c][k] + bag[c][k] /\ v[c] = depot'[c][k] + bag[c][k]
          BY <1>3, <3>1
        <5>3. depot'[c][k] = IF c \in x.winners THEN depot[c][k] + 1 ELSE depot[c][k]
          BY <2>5, <3>5
        <5>4. QED
          BY <3>3, <5>2, <5>3
      <4>2. SumFunction(v) = SumFunction(w) + Cardinality(x.winners)
        BY <2>2, <3>4, <4>1, SumRaised, MarketAssumption
      <4>3. QED
        BY <3>2, <3>5, <4>2
    <3>6. CASE k # Prize
      <4>1. \A c \in Traders : depot'[c][k] = depot[c][k]
        BY <2>5, <3>6
      <4>2. v = w
        BY <1>3, <3>1, <4>1
      <4>3. SumFunction(w) \in Int
        BY <3>4, SumTyped, MarketAssumption
      <4>4. QED
        BY <3>2, <3>6, <4>2, <4>3
    <3>7. QED
      BY <3>5, <3>6
  <2>7. ASSUME NEW k \in Goods
        PROVE Existing(k)' = Existing(k) + (IF k = Prize THEN Cardinality(won' \ won) ELSE 0)
    <3>1. Existing(k)' = OnMarket(k)' + InStores(k)' + InHands(k)'
      BY ExistingAfter
    <3>2. OnMarket(k)' = OnMarket(k) /\ InStores(k)' = InStores(k)
      BY <1>3, OffersKept
    <3>3. /\ Existing(k) = OnMarket(k) + InStores(k) + InHands(k)
          /\ OnMarket(k) \in Nat /\ InStores(k) \in Nat /\ InHands(k) \in Int
      BY <1>1, ExistingParts
    <3>4. PICK n : n = IF k = Prize THEN Cardinality(x.winners) ELSE 0
      OBVIOUS
    <3>5. n \in Nat
      <4>1. IsFiniteSet(x.winners)
        BY <2>2, MarketAssumption, FS_Subset
      <4>2. Cardinality(x.winners) \in Nat
        BY <4>1, FS_CardinalityType
      <4>3. QED
        BY <3>4, <4>2
    <3>6. InHands(k)' = InHands(k) + n
      BY <2>6, <3>4
    <3>7. Existing(k)' = Existing(k) + n
      BY <3>1, <3>2, <3>3, <3>5, <3>6
    <3>8. QED
      BY <2>4, <3>4, <3>7
  <2>8. ItemsKept
    BY <2>7 DEF ItemsKept
  <2>9. GoldKept
    BY <1>1, <2>3, UnwrittenKept
  <2>10. QED
    BY <1>3, <2>8, <2>9 DEF Kept
<1>8. QED
  BY <1>5, <1>6, <1>7

LEMMA NextIsKept ==
  ASSUME MarketIInv, LimitsIInv, OnceIInv, [MarketNext]_marketVars
  PROVE Kept
<1>1. MarketTypeOK /\ LimitsIInv'
  BY NextLimits DEF LimitsIInv
<1>2. ASSUME UNCHANGED <<purses, items, offers, lottery>>
      PROVE Kept
  <2>1. UNCHANGED purses /\ UNCHANGED <<items, offers, lottery>>
    BY <1>2
  <2>2. QED
    BY <1>1, <2>1, UnwrittenKept DEF Kept
<1>3. UNCHANGED marketVars => UNCHANGED <<purses, items, offers, lottery>>
  BY DEF marketVars
<1>4. ASSUME NEW p \in Callers, BeginDeal(p) \/ Execute(p) \/ Fail(p)
      PROVE UNCHANGED <<purses, items, offers, lottery>>
  BY <1>4 DEF BeginDeal, Execute, Fail
<1>5. QED
  BY <1>1, <1>2, <1>3, <1>4, GoldOperations, ItemOperations, ListingOperations, SaleOperations,
     OtherOperations DEF MarketNext

\* Whatever is given, listed, sold or cancelled at the same time, a unit of an
\* item or a gem is in one place, and one comes into the world only with a
\* prize; gold is lost only to a full wallet, a store or a ticket.
THEOREM NothingAppears == MarketSpec => NothingIsMade
<1>1. MarketInit => MarketIInv /\ LimitsIInv /\ OnceIInv
  BY InitHolds, InitLimits, InitOnce
<1>2. MarketIInv /\ LimitsIInv /\ OnceIInv /\ [MarketNext]_marketVars
        => (MarketIInv /\ LimitsIInv /\ OnceIInv)'
  BY NextKeeps, NextLimits, NextOnce
<1>3. MarketIInv /\ LimitsIInv /\ OnceIInv /\ [MarketNext]_marketVars => Kept
  BY NextIsKept
<1>4. MarketSpec => [][Kept]_marketVars
  BY <1>1, <1>2, <1>3, PTL DEF MarketSpec
<1>5. QED
  BY <1>4, PTL DEF Kept, ItemsKept, GemsKept, GoldKept, NothingIsMade
=============================================================================
