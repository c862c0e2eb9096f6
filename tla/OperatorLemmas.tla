--------------------------- MODULE OperatorLemmas ---------------------------
(***************************************************************************)
(* What the operators that pick the least, that put a set in a row, that   *)
(* sum over a set and that take an element out of a sequence return, for   *)
(* use in the proofs of the other modules.                                 *)
(***************************************************************************)
EXTENDS Integers, SequencesExt, FiniteSetTheorems, SequenceTheorems, TLAPS

(* A set of natural numbers has a least element, which Min is.             *)
LEMMA LeastNatural ==
  ASSUME NEW S \in SUBSET Nat, S # {}
  PROVE  Min(S) \in S /\ \A y \in S : Min(S) <= y
<1> DEFINE Below(x) == S \cap 0..x
           Sections == {Below(x) : x \in S}
<1>1. \A x \in S : Below(x) \in FiniteSubsetsOf(Nat)
  <2> TAKE x \in S
  <2>1. Below(x) \in SUBSET Nat /\ x \in Nat /\ \A s \in Below(x) : s <= x
    OBVIOUS
  <2>2. IsFiniteSet(Below(x))
    <3> HIDE DEF Below
    <3> QED BY <2>1, FS_BoundedSetOfNaturals
  <2> QED BY <2>1, <2>2 DEF FiniteSubsetsOf
<1>2. PICK T \in Sections : \A U \in Sections : <<U, T>> \notin StrictSubsetOrdering(Nat)
  <2>1. Sections \subseteq FiniteSubsetsOf(Nat) /\ Sections # {}
    BY <1>1
  <2> HIDE DEF Sections
  <2> QED BY <2>1, FS_StrictSubsetOrderingWellFounded, WFMin
<1>3. PICK x \in S : T = Below(x)
  OBVIOUS
<1>4. \A y \in S : x <= y
  <2> SUFFICES ASSUME NEW y \in S, y < x PROVE FALSE
    OBVIOUS
  <2>1. x \in Below(x) /\ x \notin Below(y) /\ Below(y) \subseteq Below(x)
    OBVIOUS
  <2>2. Below(y) \in Sections /\ Below(x) \in SUBSET Nat /\ Below(y) \in SUBSET Nat
    OBVIOUS
  <2> QED BY <1>2, <1>3, <2>1, <2>2 DEF StrictSubsetOrdering
<1> QED BY <1>4 DEF Min

(* The members of a finite set can be put in a row along a strict total    *)
(* order, R: a member's place is one more than there are members below it. *)
LEMMA RowExists ==
  ASSUME NEW S, IsFiniteSet(S), NEW R,
         \A x, y \in S : x # y => <<x, y>> \in R \/ <<y, x>> \in R,
         \A x \in S : <<x, x>> \notin R,
         \A x, y, z \in S : <<x, y>> \in R /\ <<y, z>> \in R => <<x, z>> \in R
  PROVE  \E s \in SetToSeqs(S) : \A k, l \in DOMAIN s : k < l => <<s[k], s[l]>> \in R
<1> DEFINE n == Cardinality(S)
           Below(x) == {y \in S : <<y, x>> \in R}
           place == [x \in S |-> Cardinality(Below(x)) + 1]
<1>1. n \in Nat
  BY FS_CardinalityType
<1>2. ASSUME NEW x \in S
      PROVE  /\ IsFiniteSet(Below(x)) /\ Cardinality(Below(x)) \in Nat /\ Cardinality(Below(x)) < n
  <2>1. Below(x) \in SUBSET S /\ Below(x) # S
    OBVIOUS
  <2>2. IsFiniteSet(Below(x)) /\ Cardinality(Below(x)) <= n /\ Cardinality(Below(x)) # n
    <3> HIDE DEF Below
    <3> QED BY <2>1, FS_Subset
  <2>3. Cardinality(Below(x)) \in Nat
    BY <2>2, FS_CardinalityType
  <2> HIDE DEF Below, n
  <2> QED BY <1>1, <2>2, <2>3
<1>3. \A x \in S : place[x] \in 1..n
  <2> TAKE x \in S
  <2>1. place[x] = Cardinality(Below(x)) + 1
    OBVIOUS
  <2> HIDE DEF Below, n, place
  <2> QED BY <1>1, <1>2, <2>1
<1>4. ASSUME NEW x \in S, NEW y \in S, <<x, y>> \in R PROVE place[x] < place[y]
  <2>1. Below(x) \in SUBSET Below(y) /\ Below(x) # Below(y)
    BY <1>4
  <2>2. Cardinality(Below(x)) <= Cardinality(Below(y)) /\ Cardinality(Below(x)) # Cardinality(Below(y))
    <3> HIDE DEF Below
    <3> QED BY <1>2, <2>1, FS_Subset
  <2>3. place[x] = Cardinality(Below(x)) + 1 /\ place[y] = Cardinality(Below(y)) + 1
    OBVIOUS
  <2> HIDE DEF Below, place
  <2> QED BY <1>2, <2>2, <2>3
<1>5. place \in Injection(S, 1..n)
  <2>1. place \in [S -> 1..n]
    BY <1>3
  <2>2. \A x, y \in S : place[x] = place[y] => x = y
    <3> SUFFICES ASSUME NEW x \in S, NEW y \in S, place[x] = place[y], x # y PROVE FALSE
      OBVIOUS
    <3>1. place[x] < place[y] \/ place[y] < place[x]
      BY <1>4
    <3> HIDE DEF place, n
    <3> QED BY <1>1, <1>3, <3>1
  <2> HIDE DEF place, n
  <2> QED BY <2>1, <2>2 DEF Injection, IsInjective
<1>6. place \in Surjection(S, 1..n)
  <2>1. IsFiniteSet(1..n) /\ Cardinality(1..n) = n
    <3> HIDE DEF n
    <3> QED BY <1>1, FS_Interval
  <2>2. Cardinality(S) = Cardinality(1..n)
    BY <2>1
  <2> HIDE DEF place, n
  <2> QED BY <1>5, <2>1, <2>2, FS_Injection
<1> DEFINE s == [k \in 1..n |-> CHOOSE x \in S : place[x] = k]
<1>7. \A k \in 1..n : s[k] \in S /\ place[s[k]] = k
  <2> HIDE DEF place, n
  <2> QED BY <1>6 DEF Surjection
<1>8. s \in [1..n -> S] /\ DOMAIN s = 1..n
  BY <1>7
<1>9. ASSUME NEW k \in 1..n, NEW l \in 1..n, k < l PROVE <<s[k], s[l]>> \in R
  <2>1. s[k] # s[l] /\ s[k] \in S /\ s[l] \in S /\ ~ (place[s[l]] < place[s[k]])
    <3> HIDE DEF s, place, n
    <3> QED BY <1>7, <1>9, <1>1
  <2> HIDE DEF s, place, n
  <2> QED BY <1>4, <2>1
<1>10. s \in SetToSeqs(S)
  <2>1. \A k, l \in 1..n : k # l => s[k] # s[l]
    <3> HIDE DEF s, place, n
    <3> QED BY <1>7
  <2> HIDE DEF s
  <2> QED BY <1>8, <2>1 DEF SetToSeqs
<1> HIDE DEF s, n
<1> QED BY <1>8, <1>9, <1>10

(* A row of the members of a set is a sequence of all of them.             *)
LEMMA RowIsSequence ==
  ASSUME NEW S, IsFiniteSet(S), NEW s \in SetToSeqs(S)
  PROVE  s \in Seq(S) /\ Len(s) = Cardinality(S) /\ Cardinality(S) \in Nat /\ DOMAIN s = 1..Len(s)
<1> DEFINE n == Cardinality(S)
<1>1. n \in Nat
  BY FS_CardinalityType
<1>2. s \in [1..n -> S]
  BY DEF SetToSeqs
<1> HIDE DEF n
<1>3. s \in Seq(S) /\ Len(s) = n
  BY <1>1, <1>2
<1> QED BY <1>1, <1>2, <1>3 DEF n

(* Each member has one place in it.                                        *)
LEMMA RowIsBijective ==
  ASSUME NEW S, IsFiniteSet(S), NEW s \in SetToSeqs(S)
  PROVE  /\ \A k, l \in DOMAIN s : s[k] = s[l] => k = l
         /\ \A x \in S : \E k \in DOMAIN s : s[k] = x
         /\ Range(s) = S
<1> DEFINE n == Cardinality(S)
<1>1. n \in Nat /\ IsFiniteSet(1..n) /\ Cardinality(1..n) = n
  <2>1. n \in Nat
    BY FS_CardinalityType
  <2> HIDE DEF n
  <2>2. n - 1 + 1 = n
    BY <2>1
  <2> QED BY <2>1, <2>2, FS_Interval
<1>2. s \in [1..n -> S] /\ \A k, l \in 1..n : k # l => s[k] # s[l]
  BY Zenon DEF SetToSeqs
<1>3. Cardinality(S) = Cardinality(1..n)
  BY <1>1
<1> HIDE DEF n
<1>4. s \in Injection(1..n, S)
  BY <1>2 DEF Injection, IsInjective
<1>5. s \in Surjection(1..n, S)
  BY <1>1, <1>3, <1>4, FS_Injection
<1>6. DOMAIN s = 1..n /\ \A x \in S : \E k \in 1..n : s[k] = x
  BY <1>2, <1>5 DEF Surjection
<1> QED BY <1>2, <1>6 DEF Range

(* A set of numbers can be put in ascending order.                         *)
LEMMA AscendingRow ==
  \A S : S \subseteq Nat /\ IsFiniteSet(S) =>
    \E s \in SetToSeqs(S) : \A k, l \in DOMAIN s : k < l => s[k] < s[l]
<1> SUFFICES ASSUME NEW S
             PROVE  S \subseteq Nat /\ IsFiniteSet(S) =>
                      \E s \in SetToSeqs(S) : \A k, l \in DOMAIN s : k < l => s[k] < s[l]
  OBVIOUS
<1> DEFINE Orders(R) == /\ \A x, y \in S : x # y => <<x, y>> \in R \/ <<y, x>> \in R
                        /\ \A x \in S : <<x, x>> \notin R
                        /\ \A x, y, z \in S : <<x, y>> \in R /\ <<y, z>> \in R => <<x, z>> \in R
           Less == {xy \in S \X S : xy[1] < xy[2]}
<1>1. \A x, y \in S : <<x, y>> \in Less <=> x < y
  OBVIOUS
<1> HIDE DEF Less
<1>2. S \subseteq Nat => Orders(Less)
  BY <1>1
<1>3. IsFiniteSet(S) /\ Orders(Less) =>
        \E s \in SetToSeqs(S) : \A k, l \in DOMAIN s : k < l => <<s[k], s[l]>> \in Less
  BY RowExists
<1>4. ASSUME IsFiniteSet(S), NEW s \in SetToSeqs(S), NEW k \in DOMAIN s PROVE s[k] \in S
  BY <1>4, RowIsSequence
<1> QED BY <1>1, <1>2, <1>3, <1>4

-----------------------------------------------------------------------------
(* Sums over finite sets.  The fold takes the members one at a time, in an *)
(* order of its own; the sum does not depend on it.  g is the table that   *)
(* the fold of f computes.                                                 *)
One(s) == CHOOSE x \in s : TRUE
IsFold(g, f, S) == g = [s \in SUBSET S |-> IF s = {} THEN 0 ELSE f[One(s)] + g[s \ {One(s)}]]

LEMMA SumIsFold == ASSUME NEW f, NEW S PROVE SumFunctionOnSet(f, S) = (CHOOSE g : IsFold(g, f, S))[S]
  BY DEF SumFunctionOnSet, FoldFunctionOnSet, MapThenFoldSet, IsFold, One

(* A set of numbers that counts up from 0 holds them all.                  *)
LEMMA Induction ==
  ASSUME NEW A \in SUBSET Nat, 0 \in A, \A n \in A : n + 1 \in A
  PROVE  A = Nat
<1> SUFFICES ASSUME Nat \ A # {} PROVE FALSE
  OBVIOUS
<1> DEFINE m == Min(Nat \ A)
<1>1. m \in Nat \ A /\ \A y \in Nat \ A : m <= y
  BY LeastNatural
<1> HIDE DEF m
<1>2. m - 1 \in Nat
  BY <1>1
<1>3. m - 1 \in A
  BY <1>1, <1>2
<1>4. m - 1 + 1 \in A
  BY <1>3
<1> QED BY <1>1, <1>4

LEMMA OneOf == ASSUME NEW s, s # {} PROVE One(s) \in s
  BY DEF One

(* Removing a member leaves one fewer.                                     *)
LEMMA OneFewer ==
  ASSUME NEW S, IsFiniteSet(S), NEW s \in SUBSET S, NEW x \in s
  PROVE  /\ s \ {x} \in SUBSET S /\ Cardinality(s) \in Nat /\ Cardinality(s \ {x}) \in Nat
         /\ Cardinality(s) = Cardinality(s \ {x}) + 1
<1>1. IsFiniteSet(s)
  BY FS_Subset
<1>2. IsFiniteSet(s \ {x}) /\ Cardinality(s \ {x}) = Cardinality(s) - 1
  BY <1>1, FS_RemoveElement
<1>3. Cardinality(s) \in Nat /\ Cardinality(s \ {x}) \in Nat
  BY <1>1, <1>2, FS_CardinalityType
<1> QED BY <1>2, <1>3

(* There is such a table, of numbers: it is built up by the size of the    *)
(* subsets.                                                                *)
LEMMA FoldExists ==
  ASSUME NEW S, IsFiniteSet(S), NEW f, \A x \in S : f[x] \in Nat
  PROVE  \E g \in [SUBSET S -> Nat] : IsFold(g, f, S)
<1> DEFINE Value(g, s) == IF s = {} THEN 0 ELSE f[One(s)] + g[s \ {One(s)}]
           A == {n \in Nat : \E g \in [SUBSET S -> Nat] : \A s \in SUBSET S : Cardinality(s) <= n => g[s] = Value(g, s)}
<1>0. ASSUME NEW s \in SUBSET S PROVE Cardinality(s) \in Nat /\ Cardinality(s) <= Cardinality(S)
                                      /\ (Cardinality(s) = 0 <=> s = {}) /\ Cardinality(S) \in Nat
  BY FS_Subset, FS_CardinalityType, FS_EmptySet
<1>1. 0 \in A
  <2> DEFINE zero == [s \in SUBSET S |-> 0]
  <2>1. zero \in [SUBSET S -> Nat]
    OBVIOUS
  <2>2. \A s \in SUBSET S : Cardinality(s) <= 0 => zero[s] = Value(zero, s)
    <3> SUFFICES ASSUME NEW s \in SUBSET S, Cardinality(s) <= 0 PROVE zero[s] = Value(zero, s)
      OBVIOUS
    <3>1. s = {}
      BY <1>0
    <3> QED BY <3>1
  <2> HIDE DEF zero, Value
  <2> QED BY <2>1, <2>2
<1>2. ASSUME NEW n \in A PROVE n + 1 \in A
  <2>0. n \in Nat
    OBVIOUS
  <2>1. PICK g \in [SUBSET S -> Nat] : \A s \in SUBSET S : Cardinality(s) <= n => g[s] = Value(g, s)
    BY <1>2
  <2> DEFINE h == [s \in SUBSET S |-> IF Cardinality(s) <= n THEN g[s] ELSE Value(g, s)]
  <2>2. ASSUME NEW s \in SUBSET S PROVE Value(g, s) \in Nat
    <3>1. CASE s # {}
      <4>1. One(s) \in s
        BY <3>1, OneOf
      <4>2. f[One(s)] \in Nat /\ s \ {One(s)} \in SUBSET S
        BY <4>1
      <4> QED BY <4>2
    <3> QED BY <3>1
  <2>3. h \in [SUBSET S -> Nat]
    <3> HIDE DEF Value
    <3> QED BY <2>1, <2>2
  <2>4. ASSUME NEW s \in SUBSET S, Cardinality(s) <= n + 1 PROVE h[s] = Value(h, s)
    <3>1. h[s] = IF Cardinality(s) <= n THEN g[s] ELSE Value(g, s)
      OBVIOUS
    <3>2. h[s] = Value(g, s)
      <4> HIDE DEF h, Value
      <4> QED BY <2>1, <3>1
    <3>3. CASE s = {}
      <4> HIDE DEF h
      <4> QED BY <3>2, <3>3
    <3>4. CASE s # {}
      <4>1. One(s) \in s
        BY <3>4, OneOf
      <4> DEFINE t == s \ {One(s)}
      <4>2. t \in SUBSET S /\ Cardinality(t) \in Nat /\ Cardinality(s) = Cardinality(t) + 1
        BY <4>1, OneFewer
      <4>3. Cardinality(t) <= n
        <5> HIDE DEF t
        <5> QED BY <2>0, <2>4, <4>2
      <4>4. h[t] = g[t]
        <5> HIDE DEF t, Value
        <5> QED BY <4>2, <4>3
      <4> HIDE DEF h
      <4> QED BY <3>2, <3>4, <4>4
    <3> QED BY <3>3, <3>4
  <2> HIDE DEF h, Value
  <2> QED BY <2>0, <2>3, <2>4
<1> HIDE DEF A
<1>3. A = Nat
  <2>1. A \in SUBSET Nat
    BY DEF A
  <2> QED BY <1>1, <1>2, <2>1, Induction
<1>4. Cardinality(S) \in A
  BY <1>3, FS_CardinalityType
<1>5. PICK g \in [SUBSET S -> Nat] : \A s \in SUBSET S : Cardinality(s) <= Cardinality(S) => g[s] = Value(g, s)
  <2> HIDE DEF Value
  <2> QED BY <1>4 DEF A
<1>6. g = [s \in SUBSET S |-> Value(g, s)]
  <2> HIDE DEF Value
  <2> QED BY <1>0, <1>5
<1> QED BY <1>6, Zenon DEF IsFold

(* It is the only one, and of a set and of a subset the same.              *)
LEMMA FoldUnique ==
  ASSUME NEW S, IsFiniteSet(S), NEW T \in SUBSET S, NEW f, NEW e, \A x \in T : f[x] = e[x],
         NEW g, IsFold(g, f, S), NEW h, IsFold(h, e, T)
  PROVE  \A s \in SUBSET T : g[s] = h[s]
<1> DEFINE A == {n \in Nat : \A s \in SUBSET T : Cardinality(s) = n => g[s] = h[s]}
<1>0. ASSUME NEW s \in SUBSET T
      PROVE  /\ Cardinality(s) \in Nat /\ s \in SUBSET S /\ (Cardinality(s) = 0 <=> s = {})
             /\ g[s] = (IF s = {} THEN 0 ELSE f[One(s)] + g[s \ {One(s)}])
             /\ h[s] = (IF s = {} THEN 0 ELSE e[One(s)] + h[s \ {One(s)}])
  <2>1. s \in SUBSET S
    OBVIOUS
  <2>2. IsFiniteSet(s)
    BY <2>1, FS_Subset
  <2>3. Cardinality(s) \in Nat /\ (Cardinality(s) = 0 <=> s = {})
    BY <2>2, FS_CardinalityType, FS_EmptySet
  <2>4. g[s] = (IF s = {} THEN 0 ELSE f[One(s)] + g[s \ {One(s)}])
    BY <2>1, Zenon DEF IsFold
  <2>5. h[s] = (IF s = {} THEN 0 ELSE e[One(s)] + h[s \ {One(s)}])
    BY Zenon DEF IsFold
  <2> QED BY <2>1, <2>3, <2>4, <2>5, Zenon
<1>1. 0 \in A
  BY <1>0
<1>2. ASSUME NEW n \in A PROVE n + 1 \in A
  <2>1. ASSUME NEW s \in SUBSET T, Cardinality(s) = n + 1 PROVE g[s] = h[s]
    <3>1. n \in Nat /\ s # {}
      BY <1>0, <2>1
    <3>2. One(s) \in s /\ One(s) \in T
      BY <3>1, OneOf
    <3> DEFINE t == s \ {One(s)}
    <3>3. t \in SUBSET T /\ Cardinality(t) \in Nat /\ Cardinality(s) = Cardinality(t) + 1
      <4>1. IsFiniteSet(T)
        BY FS_Subset
      <4> QED BY <3>2, <4>1, OneFewer
    <3>4. Cardinality(t) = n
      <4> HIDE DEF t
      <4> QED BY <2>1, <3>1, <3>3
    <3>5. g[t] = h[t]
      <4> HIDE DEF t
      <4> QED BY <1>2, <3>3, <3>4
    <3> QED BY <1>0, <2>1, <3>1, <3>2, <3>5, Zenon
  <2> QED BY <2>1
<1>3. A = Nat
  <2>1. A \in SUBSET Nat
    OBVIOUS
  <2> HIDE DEF A
  <2> QED BY <1>1, <1>2, <2>1, Induction
<1> QED BY <1>0, <1>3

Splits(g, f, S) == \A s \in SUBSET S : \A a \in s : g[s] = f[a] + g[s \ {a}]

LEMMA FoldSplits ==
  ASSUME NEW S, IsFiniteSet(S), NEW f, \A x \in S : f[x] \in Nat,
         NEW g, g \in [SUBSET S -> Nat], IsFold(g, f, S)
  PROVE  Splits(g, f, S)
<1> DEFINE A == {n \in Nat : \A s \in SUBSET S : Cardinality(s) = n => \A a \in s : g[s] = f[a] + g[s \ {a}]}
<1>0. ASSUME NEW s \in SUBSET S, NEW x \in s
      PROVE  /\ s \ {x} \in SUBSET S /\ g[s] \in Nat /\ g[s \ {x}] \in Nat /\ f[x] \in Nat
             /\ Cardinality(s) \in Nat /\ Cardinality(s \ {x}) \in Nat
             /\ Cardinality(s) = Cardinality(s \ {x}) + 1
  <2>1. s \ {x} \in SUBSET S /\ f[x] \in Nat
    OBVIOUS
  <2> QED BY <2>1, OneFewer
<1>1. 0 \in A
  <2>1. ASSUME NEW s \in SUBSET S, Cardinality(s) = 0, NEW a \in s PROVE FALSE
    <3>1. Cardinality(s \ {a}) \in Nat /\ Cardinality(s) = Cardinality(s \ {a}) + 1
      BY <1>0
    <3> QED BY <2>1, <3>1
  <2> QED BY <2>1
<1>2. ASSUME NEW n \in A PROVE n + 1 \in A
  <2>1. ASSUME NEW s \in SUBSET S, Cardinality(s) = n + 1, NEW a \in s PROVE g[s] = f[a] + g[s \ {a}]
    <3> DEFINE b == One(s)
               t == s \ {a}
               u == s \ {b}
               r == u \ {a}
    <3>0. n \in Nat /\ \A q \in SUBSET S : Cardinality(q) = n => \A x \in q : g[q] = f[x] + g[q \ {x}]
      BY <1>2
    <3>1. b \in s
      BY OneOf
    <3>2. g[s] = f[b] + g[u]
      BY <3>1, Zenon DEF IsFold
    <3>3. CASE a = b
      BY <3>2, <3>3
    <3>4. CASE a # b
      <4>1. a \in u /\ b \in t /\ t \ {b} = r
        BY <3>1, <3>4
      <4>2. /\ t \in SUBSET S /\ u \in SUBSET S /\ g[u] \in Nat /\ g[t] \in Nat /\ f[a] \in Nat /\ f[b] \in Nat
            /\ Cardinality(t) \in Nat /\ n + 1 = Cardinality(t) + 1
            /\ Cardinality(u) \in Nat /\ n + 1 = Cardinality(u) + 1
        <5> HIDE DEF b
        <5> QED BY <1>0, <2>1, <3>1
      <4>3. g[r] \in Nat
        <5> HIDE DEF u
        <5> QED BY <1>0, <4>1, <4>2
      <4> HIDE DEF b, t, u, r
      <4>4. Cardinality(t) = n /\ Cardinality(u) = n
        BY <3>0, <4>2
      <4>5. g[u] = f[a] + g[r]
        BY <3>0, <4>1, <4>2, <4>4 DEF r
      <4>6. g[t] = f[b] + g[r]
        BY <3>0, <4>1, <4>2, <4>4
      <4>7. g[s] = f[a] + g[t]
        BY <3>2, <4>2, <4>3, <4>5, <4>6
      <4> QED BY <4>7 DEF t
    <3> QED BY <3>3, <3>4
  <2>2. n + 1 \in Nat
    OBVIOUS
  <2> QED BY <2>1, <2>2
<1>3. A = Nat
  <2>1. A \in SUBSET Nat
    OBVIOUS
  <2> HIDE DEF A
  <2> QED BY <1>1, <1>2, <2>1, Induction
<1>4. ASSUME NEW s \in SUBSET S, NEW a \in s PROVE g[s] = f[a] + g[s \ {a}]
  <2>1. Cardinality(s) \in A
    <3> HIDE DEF A
    <3> QED BY <1>0, <1>3
  <2> QED BY <2>1
<1> QED BY <1>4 DEF Splits

(* The sum is what any fold table holds for the whole set.                 *)
SumTable(g, f, S) ==
  /\ g \in [SUBSET S -> Nat] /\ IsFold(g, f, S)
  /\ \A T \in SUBSET S : SumFunctionOnSet(f, T) = g[T]

LEMMA SumIsTable ==
  ASSUME NEW S, IsFiniteSet(S), NEW f, \A x \in S : f[x] \in Nat
  PROVE  \E g : SumTable(g, f, S)
<1>1. PICK g \in [SUBSET S -> Nat] : IsFold(g, f, S)
  BY FoldExists
<1>2. ASSUME NEW T \in SUBSET S PROVE SumFunctionOnSet(f, T) = g[T]
  <2>1. IsFiniteSet(T) /\ \A x \in T : f[x] \in Nat
    BY FS_Subset
  <2>2. \E h : IsFold(h, f, T)
    BY <2>1, FoldExists
  <2> DEFINE h == CHOOSE h : IsFold(h, f, T)
  <2>3. IsFold(h, f, T)
    BY <2>2
  <2>4. T \in SUBSET T /\ SumFunctionOnSet(f, T) = h[T]
    BY SumIsFold
  <2> HIDE DEF h
  <2>5. \A s \in SUBSET T : g[s] = h[s]
    BY <1>1, <2>3, FoldUnique
  <2> QED BY <2>4, <2>5
<1> QED BY <1>1, <1>2 DEF SumTable

(* The sum of numbers is a number, the sum over no members is 0, and any   *)
(* member can be taken out first.                                          *)
LEMMA SumSplits ==
  ASSUME NEW S, IsFiniteSet(S), NEW f, \A x \in S : f[x] \in Nat
  PROVE  /\ SumFunctionOnSet(f, S) \in Nat
         /\ S = {} => SumFunctionOnSet(f, S) = 0
         /\ \A a \in S : /\ SumFunctionOnSet(f, S \ {a}) \in Nat
                         /\ SumFunctionOnSet(f, S) = f[a] + SumFunctionOnSet(f, S \ {a})
<1>1. PICK g : SumTable(g, f, S)
  BY SumIsTable
<1>2. S \in SUBSET S /\ \A a \in S : S \ {a} \in SUBSET S
  OBVIOUS
<1>3. Splits(g, f, S)
  <2>1. g \in [SUBSET S -> Nat] /\ IsFold(g, f, S)
    BY <1>1 DEF SumTable
  <2> QED BY <2>1, FoldSplits
<1>4. S = {} => g[S] = 0
  BY <1>1, <1>2, Zenon DEF IsFold, SumTable
<1> QED BY <1>1, <1>2, <1>3, <1>4 DEF SumTable, Splits

(* It depends on the values over the set only.                             *)
LEMMA SumCongruent ==
  ASSUME NEW S, IsFiniteSet(S), NEW f, NEW e, \A x \in S : f[x] \in Nat /\ f[x] = e[x]
  PROVE  SumFunctionOnSet(f, S) = SumFunctionOnSet(e, S)
<1>1. PICK g : SumTable(g, f, S)
  BY SumIsTable
<1>2. PICK h : SumTable(h, e, S)
  <2>1. \A x \in S : e[x] \in Nat
    OBVIOUS
  <2> QED BY <2>1, SumIsTable
<1>3. S \in SUBSET S /\ \A x \in S : f[x] = e[x]
  OBVIOUS
<1>4. \A s \in SUBSET S : g[s] = h[s]
  BY <1>1, <1>2, <1>3, FoldUnique DEF SumTable
<1> QED BY <1>1, <1>2, <1>3, <1>4 DEF SumTable

(* Changing one value changes the sum by as much.                          *)
LEMMA SumChanges ==
  ASSUME NEW S, IsFiniteSet(S), NEW f, NEW e, \A x \in S : f[x] \in Nat, \A x \in S : e[x] \in Nat,
         NEW a \in S, \A x \in S : x # a => f[x] = e[x]
  PROVE  SumFunctionOnSet(f, S) + e[a] = SumFunctionOnSet(e, S) + f[a]
<1> DEFINE T == S \ {a}
<1>1. IsFiniteSet(T)
  BY FS_Subset
<1>2. SumFunctionOnSet(f, T) = SumFunctionOnSet(e, T)
  <2>1. \A x \in T : f[x] \in Nat /\ f[x] = e[x]
    OBVIOUS
  <2> HIDE DEF T
  <2> QED BY <1>1, <2>1, SumCongruent
<1>3. SumFunctionOnSet(f, S) = f[a] + SumFunctionOnSet(f, T) /\ SumFunctionOnSet(f, T) \in Nat
  BY SumSplits
<1>4. SumFunctionOnSet(e, S) = e[a] + SumFunctionOnSet(e, T) /\ SumFunctionOnSet(e, T) \in Nat
  BY SumSplits
<1>5. f[a] \in Nat /\ e[a] \in Nat
  OBVIOUS
<1> HIDE DEF T
<1> QED BY <1>2, <1>3, <1>4, <1>5

LEMMA SumOfZeros ==
  ASSUME NEW S, IsFiniteSet(S), NEW f, \A x \in S : f[x] = 0
  PROVE  SumFunctionOnSet(f, S) = 0
<1>1. PICK g : SumTable(g, f, S)
  <2>1. \A x \in S : f[x] \in Nat
    OBVIOUS
  <2> QED BY <2>1, SumIsTable
<1> DEFINE zero == [s \in SUBSET S |-> 0]
<1>2. IsFold(zero, f, S)
  <2>1. \A s \in SUBSET S : s # {} => f[One(s)] = 0 /\ s \ {One(s)} \in SUBSET S
    BY OneOf
  <2>2. \A s \in SUBSET S : 0 = IF s = {} THEN 0 ELSE f[One(s)] + zero[s \ {One(s)}]
    BY <2>1
  <2>3. zero = [s \in SUBSET S |-> IF s = {} THEN 0 ELSE f[One(s)] + zero[s \ {One(s)}]]
    BY <2>2
  <2> HIDE DEF zero
  <2> QED BY <2>3, Zenon DEF IsFold
<1>3. S \in SUBSET S /\ \A x \in S : f[x] = f[x]
  OBVIOUS
<1>4. g[S] = SumFunctionOnSet(f, S) /\ IsFold(g, f, S)
  BY <1>1, <1>3 DEF SumTable
<1>5. zero[S] = 0
  OBVIOUS
<1> HIDE DEF zero
<1>6. \A s \in SUBSET S : g[s] = zero[s]
  BY <1>2, <1>3, <1>4, FoldUnique
<1> QED BY <1>3, <1>4, <1>5, <1>6

-----------------------------------------------------------------------------
(* t is s without its k-th element, a sequence over A.                     *)
Without(A, s, k, t) ==
  /\ t \in Seq(A) /\ Len(t) = Len(s) - 1
  /\ \A i \in 1..Len(s) - 1 : t[i] = IF i < k THEN s[i] ELSE s[i + 1]

LEMMA TailIs ==
  ASSUME NEW A, NEW s \in Seq(A), s # <<>>
  PROVE  Without(A, s, 1, Tail(s))
<1>1. Tail(s) \in Seq(A) /\ Len(Tail(s)) = Len(s) - 1 /\ \A i \in 1..Len(s) - 1 : Tail(s)[i] = s[i + 1]
  BY HeadTailProperties
<1>2. \A i \in 1..Len(s) - 1 : ~ (i < 1)
  OBVIOUS
<1> QED BY <1>1, <1>2 DEF Without

LEMMA FrontIs ==
  ASSUME NEW A, NEW s \in Seq(A), s # <<>>
  PROVE  Without(A, s, Len(s), Front(s))
<1> DEFINE n == Len(s)
           m == n - 1
           t == SubSeq(s, 1, m)
<1>1. n \in Nat /\ n # 0
  BY EmptySeq
<1>2. 1 \in 1..n + 1 /\ m \in 1 - 1..n /\ m \in Nat /\ m - 1 + 1 = m /\ \A i \in 1..m : i < n /\ 1 + i - 1 = i
  BY <1>1
<1>3. Front(s) = t
  BY DEF Front
<1> HIDE DEF m
<1>4. t \in Seq(A) /\ Len(t) = m - 1 + 1 /\ \A i \in 1..m - 1 + 1 : t[i] = s[1 + i - 1]
  BY <1>1, <1>2, SubSeqProperties
<1> HIDE DEF t, n
<1>5. Len(t) = m /\ \A i \in 1..m : t[i] = s[i] /\ i < n
  BY <1>2, <1>4
<1> QED BY <1>3, <1>4, <1>5 DEF Without, n, m

LEMMA RemoveAtIs ==
  ASSUME NEW A, NEW s \in Seq(A), NEW k \in 1..Len(s)
  PROVE  Without(A, s, k, RemoveAt(s, k))
<1> DEFINE n == Len(s)
           a == SubSeq(s, 1, k - 1)
           b == SubSeq(s, k + 1, n)
<1>1. n \in Nat /\ k \in Nat /\ 1 <= k /\ k <= n
  OBVIOUS
<1>2. a \in Seq(A) /\ Len(a) = k - 1 /\ \A i \in 1..k - 1 : a[i] = s[i]
  <2>1. 1 \in 1..n + 1 /\ k - 1 \in 1 - 1..n
    BY <1>1
  <2>2. a \in Seq(A) /\ Len(a) = k - 1 - 1 + 1 /\ \A i \in 1..k - 1 - 1 + 1 : a[i] = s[1 + i - 1]
    BY <2>1, SubSeqProperties
  <2> HIDE DEF a
  <2> QED BY <1>1, <2>2
<1>3. b \in Seq(A) /\ Len(b) = n - k /\ \A i \in 1..n - k : b[i] = s[k + i]
  <2>1. k + 1 \in 1..n + 1 /\ n \in k + 1 - 1..n
    BY <1>1
  <2>2. b \in Seq(A) /\ Len(b) = n - (k + 1) + 1 /\ \A i \in 1..n - (k + 1) + 1 : b[i] = s[k + 1 + i - 1]
    BY <2>1, SubSeqProperties
  <2> HIDE DEF b
  <2>3. n - (k + 1) + 1 = n - k /\ \A i \in 1..n - k : k + 1 + i - 1 = k + i
    BY <1>1
  <2> QED BY <2>2, <2>3
<1>4. RemoveAt(s, k) = a \o b
  BY DEF RemoveAt
<1> HIDE DEF a, b
<1>5. /\ a \o b \in Seq(A) /\ Len(a \o b) = Len(a) + Len(b)
      /\ \A i \in 1..Len(a) + Len(b) : (a \o b)[i] = IF i <= Len(a) THEN a[i] ELSE b[i - Len(a)]
  BY <1>2, <1>3, ConcatProperties
<1> HIDE DEF n
<1>6. ASSUME NEW i \in 1..n - 1 PROVE (a \o b)[i] = IF i < k THEN s[i] ELSE s[i + 1]
  <2>1. Len(a) + Len(b) = n - 1
    BY <1>1, <1>2, <1>3
  <2>2. CASE i < k
    <3>1. i <= k - 1 /\ i \in 1..k - 1
      BY <1>1, <2>2
    <3> QED BY <1>2, <1>5, <2>1, <2>2, <3>1
  <2>3. CASE ~ (i < k)
    <3>1. ~ (i <= k - 1) /\ i - (k - 1) \in 1..n - k /\ k + (i - (k - 1)) = i + 1
      BY <1>1, <2>3
    <3> QED BY <1>2, <1>3, <1>5, <2>1, <2>3, <3>1
  <2> QED BY <2>2, <2>3
<1>7. Len(a \o b) = n - 1
  BY <1>1, <1>2, <1>3, <1>5
<1> QED BY <1>4, <1>5, <1>6, <1>7 DEF Without, n

(* The others stay, each once.                                             *)
LEMMA RemovesOne ==
  ASSUME NEW A, NEW s \in Seq(A), IsInjective(s), NEW k \in 1..Len(s), NEW t, Without(A, s, k, t)
  PROVE  IsInjective(t) /\ Range(t) = Range(s) \ {s[k]}
<1> DEFINE n == Len(s)
           At(i) == IF i < k THEN i ELSE i + 1
<1>1. n \in Nat /\ DOMAIN s = 1..n /\ DOMAIN t = 1..n - 1 /\ k \in 1..n
  <2>1. n \in Nat /\ DOMAIN s = 1..n
    OBVIOUS
  <2>2. t \in Seq(A) /\ Len(t) = n - 1
    BY DEF Without
  <2> QED BY <2>1, <2>2
<1>2. \A i, j \in 1..n : s[i] = s[j] => i = j
  BY <1>1 DEF IsInjective
<1>3. \A i \in 1..n - 1 : t[i] = s[At(i)] /\ At(i) \in 1..n /\ At(i) # k
  BY <1>1 DEF Without
<1>4. \A i, j \in 1..n - 1 : At(i) = At(j) => i = j
  BY <1>1
<1>5. \A m \in 1..n : m # k => \E i \in 1..n - 1 : m = At(i)
  <2> SUFFICES ASSUME NEW m \in 1..n, m # k PROVE \E i \in 1..n - 1 : m = At(i)
    OBVIOUS
  <2>1. CASE m < k
    <3>1. m \in 1..n - 1 /\ At(m) = m
      BY <1>1, <2>1
    <3> QED BY <3>1
  <2>2. CASE m > k
    <3>1. m - 1 \in 1..n - 1 /\ At(m - 1) = m
      BY <1>1, <2>2
    <3> QED BY <3>1
  <2> QED BY <1>1, <2>1, <2>2
<1> HIDE DEF At, n
<1>6. \A i, j \in 1..n - 1 : t[i] = t[j] => i = j
  BY <1>2, <1>3, <1>4
<1>7. IsInjective(t)
  BY <1>1, <1>6 DEF IsInjective
<1>8. \A x : x \in Range(t) <=> \E i \in 1..n - 1 : x = t[i]
  BY <1>1 DEF Range
<1>9. \A x : x \in Range(s) <=> \E i \in 1..n : x = s[i]
  BY <1>1 DEF Range
<1>10. \A x : x \in Range(t) => x \in Range(s) /\ x # s[k]
  BY <1>1, <1>2, <1>3, <1>8, <1>9
<1>11. \A x : x \in Range(s) /\ x # s[k] => x \in Range(t)
  BY <1>3, <1>5, <1>8, <1>9
<1> QED BY <1>7, <1>10, <1>11

(* Adjacent numbers in order are in order.                                 *)
LEMMA AdjacentOrder ==
  ASSUME NEW n \in Nat, NEW f, \A i \in 1..n : f[i] \in Int, \A i \in 1..n - 1 : f[i] <= f[i + 1]
  PROVE  \A i, j \in 1..n : i < j => f[i] <= f[j]
<1> DEFINE A == {m \in Nat : \A i \in 1..n : i + m <= n => f[i] <= f[i + m]}
<1>1. 0 \in A
  <2>1. \A i \in 1..n : i + 0 = i /\ f[i] <= f[i]
    OBVIOUS
  <2> QED BY <2>1
<1>2. ASSUME NEW m \in A PROVE m + 1 \in A
  <2> SUFFICES ASSUME NEW i \in 1..n, i + (m + 1) <= n PROVE f[i] <= f[i + (m + 1)]
    BY <1>2
  <2>1. m \in Nat /\ i + m \in 1..n - 1 /\ i + m \in 1..n /\ i + m <= n /\ i + m + 1 = i + (m + 1) /\ i + (m + 1) \in 1..n
    BY <1>2
  <2>2. f[i] <= f[i + m]
    BY <1>2, <2>1
  <2>3. f[i + m] <= f[i + (m + 1)]
    BY <2>1
  <2>4. f[i] \in Int /\ f[i + m] \in Int /\ f[i + (m + 1)] \in Int
    BY <2>1
  <2> QED BY <2>2, <2>3, <2>4
<1>3. A = Nat
  <2>1. A \in SUBSET Nat
    OBVIOUS
  <2> HIDE DEF A
  <2> QED BY <1>1, <1>2, <2>1, Induction
<1> QED
  <2> SUFFICES ASSUME NEW i \in 1..n, NEW j \in 1..n, i < j PROVE f[i] <= f[j]
    OBVIOUS
  <2>1. j - i \in Nat /\ i + (j - i) = j /\ j <= n
    OBVIOUS
  <2>2. \A m \in Nat : \A l \in 1..n : l + m <= n => f[l] <= f[l + m]
    BY <1>3
  <2>3. i + (j - i) <= n => f[i] <= f[i + (j - i)]
    BY <2>1, <2>2
  <2> QED BY <2>1, <2>3

(* There is one sequence without the k-th element.                         *)
LEMMA WithoutIsUnique ==
  ASSUME NEW A, NEW s \in Seq(A), NEW k, NEW t, Without(A, s, k, t), NEW u, Without(A, s, k, u)
  PROVE  t = u
<1>1. t \in Seq(A) /\ u \in Seq(A) /\ Len(t) = Len(u) /\ Len(t) = Len(s) - 1
  BY DEF Without
<1>2. \A i \in 1..Len(t) : t[i] = u[i]
  BY <1>1 DEF Without
<1> QED BY <1>1, <1>2, SeqEqual
=============================================================================
