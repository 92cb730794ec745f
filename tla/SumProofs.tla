------------------------------ MODULE SumProofs ------------------------------
(***************************************************************************)
(* Sums of functions with a finite domain: what SumFunction, a fold of the *)
(* community modules that takes the elements in some order, does when a    *)
(* function changes at one or two places, by one on a set of places, or is *)
(* the sum of two.  Induction is by the least counterexample.              *)
(***************************************************************************)
EXTENDS Functions, FiniteSetTheorems, TLAPS

\* The element that a sum over a set takes first.
First(s) == CHOOSE x \in s : TRUE

\* h[s] is the sum of w over s, for every part s of S.
Sums(h, w, S) == h = [s \in SUBSET S |-> IF s = {} THEN 0 ELSE w[First(s)] + h[s \ {First(s)}]]

\* Of natural numbers one is the least.
LEMMA LeastNatural ==
  ASSUME NEW T \in SUBSET Nat, T # {}
  PROVE \E n \in T : \A m \in T : ~(m < n)
<1>1. IsWellFoundedOn(OpToRel(<, Nat), Nat)
  BY NatLessThanWellFounded
<1>2. PICK n \in T : \A m \in T : ~(<<m, n>> \in OpToRel(<, Nat))
  BY <1>1, WFMin
<1>3. QED
  BY <1>2 DEF OpToRel

\* Of parts of a finite set some are least.
LEMMA LeastPart ==
  ASSUME NEW S, IsFiniteSet(S), NEW T \in SUBSET SUBSET S, T # {}
  PROVE \E s \in T : \A t \in T : ~(t \subseteq s /\ t # s)
<1>1. IsWellFoundedOn(StrictSubsetOrdering(S), SUBSET S)
  BY FS_StrictSubsetOrderingWellFounded, FS_FiniteSubsetsOfFinite
<1>2. PICK s \in T : \A t \in T : ~(<<t, s>> \in StrictSubsetOrdering(S))
  BY <1>1, WFMin
<1>3. QED
  BY <1>2 DEF StrictSubsetOrdering

\* There are sums of a function over the parts of a finite set.
LEMMA SumsExist ==
  ASSUME NEW S, IsFiniteSet(S), NEW w
  PROVE \E h : Sums(h, w, S)
<1> DEFINE Small(n) == {s \in SUBSET S : Cardinality(s) <= n}
           Upto(h, n) == h = [s \in Small(n) |-> IF s = {} THEN 0 ELSE w[First(s)] + h[s \ {First(s)}]]
           Bad == {n \in Nat : ~\E h : Upto(h, n)}
<1>1. \A s \in SUBSET S : IsFiniteSet(s) /\ Cardinality(s) \in Nat
  BY FS_Subset, FS_CardinalityType
<1>2. \A s \in SUBSET S : s # {} =>
         /\ First(s) \in s /\ s \ {First(s)} \in SUBSET S
         /\ Cardinality(s \ {First(s)}) = Cardinality(s) - 1
  BY <1>1, FS_RemoveElement DEF First
<1>3. ASSUME Bad # {} PROVE FALSE
  <2>1. PICK n \in Bad : \A m \in Bad : ~(m < n)
    BY <1>3, LeastNatural
  <2>2. n # 0
    <3>1. Small(0) = {{}}
      <4>1. \A s \in SUBSET S : Cardinality(s) <= 0 <=> s = {}
        BY <1>1, FS_EmptySet
      <4>2. QED
        BY <4>1
    <3>2. DEFINE z == [s \in {{}} |-> 0]
    <3>3. z = [s \in {{}} |-> IF s = {} THEN 0 ELSE w[First(s)] + z[s \ {First(s)}]]
      OBVIOUS
    <3> HIDE DEF z
    <3>4. z = [s \in Small(0) |-> IF s = {} THEN 0 ELSE w[First(s)] + z[s \ {First(s)}]]
      BY <3>1, <3>3
    <3>5. QED
      BY <2>1, <3>4
  <2>3. n - 1 \in Nat /\ n - 1 \notin Bad
    <3> HIDE DEF Upto
    <3>1. n \in Nat /\ n - 1 \in Nat /\ n - 1 < n
      BY <2>2
    <3> HIDE DEF Bad
    <3>2. QED
      BY <2>1, <3>1
  <2>4. PICK g : Upto(g, n - 1)
    BY <2>3
  <2>5. DEFINE h == [s \in Small(n) |-> IF s = {} THEN 0 ELSE w[First(s)] + g[s \ {First(s)}]]
  <2>6. ASSUME NEW s \in Small(n), s # {}
        PROVE g[s \ {First(s)}] = h[s \ {First(s)}]
    <3>1. PICK t : t = s \ {First(s)}
      OBVIOUS
    <3>2. t \in Small(n - 1) /\ t \in Small(n)
      BY <1>1, <1>2, <2>6, <3>1, <2>3
    <3>3. g[t] = IF t = {} THEN 0 ELSE w[First(t)] + g[t \ {First(t)}]
      BY <2>4, <3>2
    <3>4. h[t] = IF t = {} THEN 0 ELSE w[First(t)] + g[t \ {First(t)}]
      BY <3>2
    <3>5. QED
      BY <3>1, <3>3, <3>4
  <2>7. \A s \in Small(n) : h[s] = IF s = {} THEN 0 ELSE w[First(s)] + h[s \ {First(s)}]
    BY <2>6
  <2>8. h = [s \in Small(n) |-> IF s = {} THEN 0 ELSE w[First(s)] + h[s \ {First(s)}]]
    BY <2>7
  <2>9. QED
    BY <2>1, <2>8
<1>4. Cardinality(S) \in Nat /\ Cardinality(S) \notin Bad
  BY <1>1, <1>3
<1>5. Small(Cardinality(S)) = SUBSET S
  BY FS_Subset
<1>6. QED
  BY <1>4, <1>5 DEF Sums

\* The order in which a sum takes its elements does not matter.
LEMMA SumsSplit ==
  ASSUME NEW S, IsFiniteSet(S), NEW w, \A x \in S : w[x] \in Int, NEW h, Sums(h, w, S),
         NEW s \in SUBSET S
  PROVE /\ h[s] \in Int /\ h[{}] = 0
        /\ \A x \in s : h[s] = w[x] + h[s \ {x}]
<1> DEFINE Good(t) == h[t] \in Int /\ \A x \in t : h[t] = w[x] + h[t \ {x}]
           Bad == {t \in SUBSET S : ~Good(t)}
<1>1. \A t \in SUBSET S : h[t] = IF t = {} THEN 0 ELSE w[First(t)] + h[t \ {First(t)}]
  BY DEF Sums
<1>2. ASSUME Bad # {} PROVE FALSE
  <2>1. PICK t \in Bad : \A u \in Bad : ~(u \subseteq t /\ u # t)
    <3>1. Bad \in SUBSET SUBSET S
      OBVIOUS
    <3> HIDE DEF Bad
    <3>2. QED
      BY <1>2, <3>1, LeastPart
  <2>2. t # {} /\ t \in SUBSET S /\ ~Good(t)
    <3>1. t = {} => h[t] = 0
      BY <1>1
    <3>2. QED
      BY <3>1
  <2>3. PICK c : c = First(t) /\ c \in t
    BY <2>2 DEF First
  <2> HIDE DEF Good
  <2>8. \A x \in t : Good(t \ {x})
    BY <2>1, <2>2
  <2>4. h[t] = w[c] + h[t \ {c}] /\ Good(t \ {c}) /\ w[c] \in Int
    BY <1>1, <2>2, <2>3, <2>8
  <2>5. ASSUME NEW x \in t
        PROVE h[t] = w[x] + h[t \ {x}]
    <3>1. CASE x = c
      BY <2>4, <3>1
    <3>2. CASE x # c
      <4>1. Good(t \ {x}) /\ w[x] \in Int
        BY <2>2, <2>8
      <4>2. h[t \ {c}] = w[x] + h[(t \ {c}) \ {x}] /\ h[t \ {x}] = w[c] + h[(t \ {x}) \ {c}]
        BY <2>3, <2>4, <2>5, <3>2, <4>1 DEF Good
      <4>3. (t \ {c}) \ {x} = (t \ {x}) \ {c}
        OBVIOUS
      <4>4. h[t \ {x}] \in Int /\ h[t \ {c}] \in Int /\ h[(t \ {x}) \ {c}] \in Int
        <5>1. Good((t \ {x}) \ {c})
          <6>1. (t \ {x}) \ {c} \notin Bad
            BY <2>1, <2>3, <2>5
          <6>2. QED
            BY <2>2, <6>1
        <5>2. QED
          BY <2>4, <4>1, <5>1 DEF Good
      <4>5. PICK a, b, d : a = h[t \ {x}] /\ b = h[t \ {c}] /\ d = h[(t \ {x}) \ {c}]
        OBVIOUS
      <4>6. h[t] = w[c] + b /\ b = w[x] + d /\ a = w[c] + d
        BY <2>4, <4>2, <4>3, <4>5
      <4>7. a \in Int /\ b \in Int /\ d \in Int /\ w[c] \in Int /\ w[x] \in Int
        BY <2>4, <4>1, <4>4, <4>5
      <4>8. h[t] = w[x] + a
        BY <4>6, <4>7
      <4>9. QED
        BY <4>5, <4>8
    <3>3. QED
      BY <3>1, <3>2
  <2>6. h[t] \in Int
    BY <2>4 DEF Good
  <2>7. QED
    BY <2>2, <2>5, <2>6 DEF Good
<1>3. QED
  <2>1. Good(s)
    BY <1>2
  <2>2. QED
    BY <1>1, <2>1

\* Functions that agree on a set have the same sum over it.
LEMMA SumsAgree ==
  ASSUME NEW S, IsFiniteSet(S), NEW w, NEW v, NEW g, NEW h, Sums(g, w, S), Sums(h, v, S),
         NEW s \in SUBSET S, \A x \in s : w[x] = v[x]
  PROVE g[s] = h[s]
<1> DEFINE Bad == {t \in SUBSET s : g[t] # h[t]}
<1>1. \A t \in SUBSET S : /\ g[t] = IF t = {} THEN 0 ELSE w[First(t)] + g[t \ {First(t)}]
                          /\ h[t] = IF t = {} THEN 0 ELSE v[First(t)] + h[t \ {First(t)}]
  BY DEF Sums
<1>2. ASSUME Bad # {} PROVE FALSE
  <2>1. PICK t \in Bad : \A u \in Bad : ~(u \subseteq t /\ u # t)
    <3>1. Bad \in SUBSET SUBSET S
      OBVIOUS
    <3> HIDE DEF Bad
    <3>2. QED
      BY <1>2, <3>1, LeastPart
  <2>2. t # {} /\ First(t) \in t
    BY <1>1, <2>1 DEF First
  <2>3. t \ {First(t)} \notin Bad /\ t \ {First(t)} \in SUBSET s
    BY <2>1, <2>2
  <2>4. QED
    BY <1>1, <2>1, <2>2, <2>3
<1>3. QED
  BY <1>2

\* SumFunction is the sum over the whole domain.
LEMMA FunctionSumIsSums ==
  ASSUME NEW S, IsFiniteSet(S), NEW w, DOMAIN w = S
  PROVE \E h : Sums(h, w, S) /\ SumFunction(w) = h[S]
<1> DEFINE iter == CHOOSE h : h = [s \in SUBSET S |-> IF s = {} THEN 0 ELSE w[First(s)] + h[s \ {First(s)}]]
<1>1. PICK g : Sums(g, w, S)
  BY SumsExist
<1>2. g = [s \in SUBSET S |-> IF s = {} THEN 0 ELSE w[First(s)] + g[s \ {First(s)}]]
  BY <1>1 DEF Sums
<1>3. iter = [s \in SUBSET S |-> IF s = {} THEN 0 ELSE w[First(s)] + iter[s \ {First(s)}]]
  BY <1>2, Zenon
<1>4. SumFunction(w) = iter[S]
  BY DEF SumFunction, SumFunctionOnSet, FoldFunctionOnSet, MapThenFoldSet, First
<1> HIDE DEF iter
<1>5. Sums(iter, w, S)
  BY <1>3 DEF Sums
<1>6. QED
  BY <1>4, <1>5

\* A sum of integers is one, the sum of zeros is zero.
LEMMA SumTyped ==
  ASSUME NEW S, IsFiniteSet(S), NEW w \in [S -> Int]
  PROVE /\ SumFunction(w) \in Int
        /\ (\A x \in S : w[x] = 0) => SumFunction(w) = 0
<1>1. PICK h : Sums(h, w, S) /\ SumFunction(w) = h[S]
  BY FunctionSumIsSums
<1>2. h[S] \in Int
  BY <1>1, SumsSplit
<1>3. ASSUME \A x \in S : w[x] = 0
      PROVE h[S] = 0
  <2> DEFINE Bad == {t \in SUBSET S : h[t] # 0}
  <2>1. Bad \in SUBSET SUBSET S
    OBVIOUS
  <2>2. ASSUME Bad # {} PROVE FALSE
    <3>1. PICK t \in Bad : \A u \in Bad : ~(u \subseteq t /\ u # t)
      <4> HIDE DEF Bad
      <4>1. QED
        BY <2>1, <2>2, LeastPart
    <3>2. h[{}] = 0 /\ t \in SUBSET S /\ h[t] # 0
      BY <1>1, SumsSplit
    <3>3. PICK x \in t : TRUE
      BY <3>2
    <3>4. h[t] = w[x] + h[t \ {x}] /\ h[t \ {x}] \in Int
      BY <1>1, <3>2, <3>3, SumsSplit
    <3>5. t \ {x} \notin Bad
      BY <3>1, <3>3
    <3>6. h[t \ {x}] = 0 /\ w[x] = 0
      BY <1>3, <3>2, <3>3, <3>5
    <3>7. QED
      BY <3>2, <3>4, <3>6
  <2>3. QED
    BY <2>2
<1>4. QED
  BY <1>1, <1>2, <1>3

\* Where two functions differ at one place, their sums differ by as much.
LEMMA SumChange ==
  ASSUME NEW S, IsFiniteSet(S), NEW w \in [S -> Int], NEW v \in [S -> Int], NEW x \in S,
         \A y \in S \ {x} : v[y] = w[y]
  PROVE SumFunction(v) = SumFunction(w) + (v[x] - w[x])
<1>1. PICK g : Sums(g, w, S) /\ SumFunction(w) = g[S]
  BY FunctionSumIsSums
<1>2. PICK h : Sums(h, v, S) /\ SumFunction(v) = h[S]
  BY FunctionSumIsSums
<1>3. g[S \ {x}] = h[S \ {x}]
  BY <1>1, <1>2, SumsAgree
<1>4. g[S] = w[x] + g[S \ {x}] /\ g[S \ {x}] \in Int
  <2>1. \A s \in SUBSET S : g[s] \in Int /\ \A y \in s : g[s] = w[y] + g[s \ {y}]
    BY <1>1, SumsSplit
  <2>2. QED
    BY <2>1
<1>5. h[S] = v[x] + h[S \ {x}]
  BY <1>2, SumsSplit
<1>6. PICK d : d = g[S \ {x}]
  OBVIOUS
<1>7. SumFunction(v) = v[x] + d /\ SumFunction(w) = w[x] + d /\ d \in Int
  BY <1>1, <1>2, <1>3, <1>4, <1>5, <1>6
<1>8. v[x] \in Int /\ w[x] \in Int
  OBVIOUS
<1>9. QED
  BY <1>7, <1>8

\* Where two functions differ at two places, so do their sums.
LEMMA SumChangeTwo ==
  ASSUME NEW S, IsFiniteSet(S), NEW w \in [S -> Int], NEW v \in [S -> Int],
         NEW x \in S, NEW y \in S, x # y, \A z \in S \ {x, y} : v[z] = w[z]
  PROVE SumFunction(v) = SumFunction(w) + (v[x] - w[x]) + (v[y] - w[y])
<1>1. PICK u : u = [w EXCEPT ![x] = v[x]]
  OBVIOUS
<1>2. u \in [S -> Int] /\ u[x] = v[x] /\ \A z \in S \ {x} : u[z] = w[z]
  BY <1>1
<1>3. \A z \in S \ {y} : v[z] = u[z]
  BY <1>2
<1>4. SumFunction(u) = SumFunction(w) + (v[x] - w[x])
  BY <1>2, SumChange
<1>5. SumFunction(v) = SumFunction(u) + (v[y] - u[y])
  BY <1>2, <1>3, SumChange
<1>6. u[y] = w[y] /\ w[x] \in Int /\ w[y] \in Int /\ v[x] \in Int /\ v[y] \in Int
  BY <1>2
<1>7. SumFunction(w) \in Int
  BY SumTyped
<1>8. QED
  BY <1>4, <1>5, <1>6, <1>7

\* One more on each place of W is as many more.
LEMMA SumRaised ==
  ASSUME NEW S, IsFiniteSet(S), NEW w \in [S -> Int], NEW v \in [S -> Int], NEW W \in SUBSET S,
         \A x \in S : v[x] = IF x \in W THEN w[x] + 1 ELSE w[x]
  PROVE SumFunction(v) = SumFunction(w) + Cardinality(W)
<1>1. PICK g : Sums(g, w, S) /\ SumFunction(w) = g[S]
  BY FunctionSumIsSums
<1>2. PICK h : Sums(h, v, S) /\ SumFunction(v) = h[S]
  BY FunctionSumIsSums
<1> DEFINE Bad == {t \in SUBSET S : h[t] # g[t] + Cardinality(t \cap W)}
<1>3. Bad \in SUBSET SUBSET S
  OBVIOUS
<1>4. ASSUME Bad # {} PROVE FALSE
  <2>1. PICK t \in Bad : \A u \in Bad : ~(u \subseteq t /\ u # t)
    <3> HIDE DEF Bad
    <3>1. QED
      BY <1>3, <1>4, LeastPart
  <2>2. t \in SUBSET S /\ h[t] # g[t] + Cardinality(t \cap W)
    OBVIOUS
  <2>3. g[{}] = 0 /\ h[{}] = 0
    BY <1>1, <1>2, SumsSplit
  <2>4. {} \cap W = {} /\ Cardinality({}) = 0
    BY FS_EmptySet
  <2>5. PICK x \in t : TRUE
    <3>1. t = {} => t \cap W = {}
      OBVIOUS
    <3>2. t # {}
      BY <2>2, <2>3, <2>4, <3>1
    <3>3. QED
      BY <3>2
  <2>6. PICK r : r = t \ {x}
    OBVIOUS
  <2>7. r \in SUBSET S /\ r \notin Bad
    BY <2>1, <2>5, <2>6
  <2>8. h[r] = g[r] + Cardinality(r \cap W) /\ h[r] \in Int /\ g[r] \in Int
    <3>1. h[r] \in Int
      BY <1>2, <2>7, SumsSplit
    <3>2. g[r] \in Int
      BY <1>1, <2>7, SumsSplit
    <3>3. QED
      BY <2>7, <3>1, <3>2
  <2>9. h[t] = v[x] + h[r] /\ g[t] = w[x] + g[r]
    <3>1. h[t] = v[x] + h[t \ {x}]
      BY <1>2, <2>2, <2>5, SumsSplit
    <3>2. g[t] = w[x] + g[t \ {x}]
      BY <1>1, <2>2, <2>5, SumsSplit
    <3>3. QED
      BY <2>6, <3>1, <3>2
  <2>10. IsFiniteSet(t \cap W) /\ Cardinality(t \cap W) \in Nat
    <3>1. t \cap W \in SUBSET S
      OBVIOUS
    <3>2. QED
      BY <3>1, FS_Subset, FS_CardinalityType
  <2>11. Cardinality(r \cap W) = IF x \in W THEN Cardinality(t \cap W) - 1 ELSE Cardinality(t \cap W)
    <3>1. CASE x \in W
      <4>1. PICK a : a = t \cap W
        OBVIOUS
      <4>2. r \cap W = a \ {x} /\ x \in a /\ IsFiniteSet(a)
        BY <2>5, <2>6, <2>10, <3>1, <4>1
      <4>3. Cardinality(a \ {x}) = Cardinality(a) - 1
        BY <4>2, FS_RemoveElement
      <4>4. QED
        BY <3>1, <4>1, <4>2, <4>3
    <3>2. CASE x \notin W
      <4>1. r \cap W = t \cap W
        BY <2>6, <3>2
      <4>2. QED
        BY <3>2, <4>1
    <3>3. QED
      BY <3>1, <3>2
  <2>12. v[x] = (IF x \in W THEN w[x] + 1 ELSE w[x]) /\ w[x] \in Int
    BY <2>2, <2>5
  <2>13. h[t] = g[t] + Cardinality(t \cap W)
    BY <2>8, <2>9, <2>10, <2>11, <2>12
  <2>14. QED
    BY <2>2, <2>13
<1>5. S \notin Bad /\ S \cap W = W
  BY <1>4
<1>6. QED
  BY <1>1, <1>2, <1>5
=============================================================================
