-------------------------- MODULE HashTableProofs --------------------------
(***************************************************************************)
(* Proofs about HashTable, for any keys, any values, any number of buckets *)
(* to begin with and however often the table grows.                        *)
(***************************************************************************)
EXTENDS HashTable, OperatorLemmas

(* A table bk of n buckets that lookups can rely on: an item is in the     *)
(* bucket of its key, and no other in it has that key.                     *)
Hashed(bk, n) ==
  /\ n \in Nat \ {0}
  /\ bk \in [0..n - 1 -> Seq(Item)]
  /\ \A b \in 0..n - 1 : \A i \in DOMAIN bk[b] : bk[b][i].key % n = b
  /\ \A b \in 0..n - 1 : \A i, j \in DOMAIN bk[b] : bk[b][i].key = bk[b][j].key => i = j

Contents(bk) == UNION {Range(bk[b]) : b \in DOMAIN bk}

(* It holds these items.                                                   *)
TableOf(bk, n, items) == Hashed(bk, n) /\ Contents(bk) = items

At(bk, x, b, i) == b \in DOMAIN bk /\ i \in DOMAIN bk[b] /\ bk[b][i] = x

(* Its items, by their places.                                             *)
LEMMA Placed ==
  ASSUME NEW bk
  PROVE  /\ \A x \in Contents(bk) : \E b, i : At(bk, x, b, i)
         /\ \A x, b, i : At(bk, x, b, i) => x \in Contents(bk)
<1>1. ASSUME NEW x \in Contents(bk) PROVE \E b, i : At(bk, x, b, i)
  <2>1. PICK b \in DOMAIN bk : x \in Range(bk[b])
    BY DEF Contents
  <2>2. PICK i \in DOMAIN bk[b] : x = bk[b][i]
    BY <2>1 DEF Range
  <2> QED BY <2>1, <2>2 DEF At
<1>2. ASSUME NEW x, NEW b, NEW i, At(bk, x, b, i) PROVE x \in Contents(bk)
  <2>1. x \in Range(bk[b]) /\ b \in DOMAIN bk
    BY <1>2 DEF At, Range
  <2> QED BY <2>1 DEF Contents
<1> QED BY <1>1, <1>2

LEMMA BucketOf ==
  ASSUME NEW key \in Keys, NEW n \in Nat \ {0}
  PROVE  key % n \in 0..n - 1
  BY KeysAssumption

LEMMA PlaceIs ==
  ASSUME NEW bk, NEW n, Hashed(bk, n), NEW x, NEW b, NEW i, At(bk, x, b, i)
  PROVE  /\ b \in 0..n - 1 /\ i \in 1..Len(bk[b]) /\ Len(bk[b]) \in Nat
         /\ x \in Item /\ x.key \in Keys /\ b = x.key % n
<1>1. b \in 0..n - 1 /\ bk[b] \in Seq(Item)
  BY DEF Hashed, At
<1>2. i \in 1..Len(bk[b]) /\ Len(bk[b]) \in Nat /\ x \in Item
  BY <1>1 DEF At
<1> QED BY <1>1, <1>2 DEF Hashed, At, Item

(* A key has one place at most.                                            *)
LEMMA OnePlace ==
  ASSUME NEW bk, NEW n, Hashed(bk, n), NEW x, NEW b, NEW i, At(bk, x, b, i),
         NEW y, NEW c, NEW j, At(bk, y, c, j), x.key = y.key
  PROVE  b = c /\ i = j /\ x = y
<1>1. b = c /\ b \in 0..n - 1
  BY PlaceIs
<1>2. i = j
  BY <1>1 DEF Hashed, At
<1> QED BY <1>1, <1>2 DEF At

LEMMA KeysDiffer ==
  ASSUME NEW bk, NEW n, Hashed(bk, n)
  PROVE  /\ Contents(bk) \subseteq Item
         /\ \A x, y \in Contents(bk) : x.key = y.key => x = y
<1>1. ASSUME NEW x \in Contents(bk) PROVE x \in Item
  BY Placed, PlaceIs
<1>2. ASSUME NEW x \in Contents(bk), NEW y \in Contents(bk), x.key = y.key PROVE x = y
  <2>1. PICK b, i : At(bk, x, b, i)
    BY Placed
  <2>2. PICK c, j : At(bk, y, c, j)
    BY Placed
  <2> QED BY <1>2, <2>1, <2>2, OnePlace
<1> QED BY <1>1, <1>2

(* What InsertFindHelper finds.                                            *)
LEMMA Lookup ==
  ASSUME NEW bk, NEW n, Hashed(bk, n), NEW key \in Keys
  PROVE  LET b == key % n
             i == PlaceIn(bk[b], key)
         IN /\ b \in 0..n - 1 /\ bk[b] \in Seq(Item)
            /\ \/ i = 0 /\ \A x \in Contents(bk) : x.key # key
               \/ i # 0 /\ i \in 1..Len(bk[b]) /\ bk[b][i].key = key /\ At(bk, bk[b][i], b, i)
<1> DEFINE b == key % n
           I == {i \in 1..Len(bk[b]) : bk[b][i].key = key}
<1>1. b \in 0..n - 1 /\ bk[b] \in Seq(Item) /\ b \in DOMAIN bk /\ DOMAIN bk[b] = 1..Len(bk[b])
  BY BucketOf DEF Hashed
<1>2. PlaceIn(bk[b], key) = IF I # {} THEN Min(I) ELSE 0
  BY DEF PlaceIn, SelectInSeq
<1>3. CASE I = {}
  <2>1. ASSUME NEW x \in Contents(bk) PROVE x.key # key
    <3>1. PICK c, j : At(bk, x, c, j)
      BY Placed
    <3>2. j \in 1..Len(bk[c]) /\ c = x.key % n /\ bk[c][j] = x
      BY <3>1, PlaceIs DEF At
    <3> QED BY <1>3, <3>2
  <2> QED BY <1>1, <1>2, <1>3, <2>1
<1>4. CASE I # {}
  <2>1. Min(I) \in I
    <3>1. I \in SUBSET Nat
      OBVIOUS
    <3> HIDE DEF I
    <3> QED BY <1>4, <3>1, LeastNatural
  <2>2. PlaceIn(bk[b], key) \in 1..Len(bk[b]) /\ bk[b][PlaceIn(bk[b], key)].key = key
    <3>1. PlaceIn(bk[b], key) \in I
      <4> HIDE DEF I
      <4> QED BY <1>2, <1>4, <2>1
    <3> QED BY <3>1
  <2> QED BY <1>1, <2>2 DEF At
<1> QED BY <1>3, <1>4

-----------------------------------------------------------------------------
(* A chain that only has items of its bucket, under different keys, can    *)
(* take a chain's place.                                                   *)
Chained(c, b, n) ==
  /\ c \in Seq(Item)
  /\ \A i \in DOMAIN c : c[i].key % n = b
  /\ \A i, j \in DOMAIN c : c[i].key = c[j].key => i = j

Swapped(bk, b, c, new) == new = [bk EXCEPT ![b] = c]

LEMMA ChainChanged ==
  ASSUME NEW bk, NEW n, Hashed(bk, n), NEW b \in 0..n - 1, NEW c, Chained(c, b, n),
         NEW new, Swapped(bk, b, c, new)
  PROVE  TableOf(new, n, (Contents(bk) \ Range(bk[b])) \cup Range(c))
<1>1. DOMAIN bk = 0..n - 1 /\ DOMAIN new = 0..n - 1 /\ \A a \in 0..n - 1 : new[a] = IF a = b THEN c ELSE bk[a]
  BY DEF Hashed, Swapped
<1>2. Hashed(new, n)
  <2>1. new \in [0..n - 1 -> Seq(Item)] /\ n \in Nat \ {0}
    BY DEF Hashed, Chained, Swapped
  <2>2. \A a \in 0..n - 1 : \A i \in DOMAIN new[a] : new[a][i].key % n = a
    BY <1>1 DEF Hashed, Chained
  <2>3. \A a \in 0..n - 1 : \A i, j \in DOMAIN new[a] : new[a][i].key = new[a][j].key => i = j
    BY <1>1 DEF Hashed, Chained
  <2> QED BY <2>1, <2>2, <2>3 DEF Hashed
<1>3. ASSUME NEW x PROVE x \in Contents(new) <=> (x \in Contents(bk) /\ x \notin Range(bk[b])) \/ x \in Range(c)
  <2>1. ASSUME x \in Range(c) PROVE x \in Contents(new)
    BY <1>1, <2>1 DEF Contents
  <2>2. ASSUME x \in Contents(bk), x \notin Range(bk[b]) PROVE x \in Contents(new)
    <3>1. PICK a \in 0..n - 1 : x \in Range(bk[a])
      BY <1>1, <2>2 DEF Contents
    <3>2. a # b
      BY <2>2, <3>1
    <3> QED BY <1>1, <3>1, <3>2 DEF Contents
  <2>3. ASSUME x \in Contents(new), x \notin Range(c) PROVE x \in Contents(bk) /\ x \notin Range(bk[b])
    <3>1. PICK a \in 0..n - 1 : x \in Range(new[a])
      BY <1>1, <2>3 DEF Contents
    <3>2. a # b /\ x \in Range(bk[a])
      BY <1>1, <2>3, <3>1
    <3>3. ASSUME x \in Range(bk[b]) PROVE FALSE
      <4>1. PICK i \in DOMAIN bk[a] : bk[a][i] = x
        BY <3>2 DEF Range
      <4>2. PICK j \in DOMAIN bk[b] : bk[b][j] = x
        BY <3>3 DEF Range
      <4>3. x.key % n = a /\ x.key % n = b
        BY <4>1, <4>2 DEF Hashed
      <4> QED BY <3>2, <4>3
    <3> QED BY <1>1, <3>2, <3>3 DEF Contents
  <2> QED BY <2>1, <2>2, <2>3
<1> QED BY <1>2, <1>3 DEF TableOf

LEMMA ChainOf ==
  ASSUME NEW bk, NEW n, Hashed(bk, n), NEW b \in 0..n - 1
  PROVE  /\ Chained(bk[b], b, n) /\ bk[b] \in Seq(Item) /\ Len(bk[b]) \in Nat /\ DOMAIN bk[b] = 1..Len(bk[b])
         /\ IsInjective(bk[b]) /\ Range(bk[b]) \subseteq Contents(bk)
<1>1. bk[b] \in Seq(Item) /\ b \in DOMAIN bk
  BY DEF Hashed
<1>2. Len(bk[b]) \in Nat /\ DOMAIN bk[b] = 1..Len(bk[b])
  BY <1>1
<1>3. Chained(bk[b], b, n)
  BY <1>1 DEF Hashed, Chained
<1>4. IsInjective(bk[b])
  BY DEF Hashed, IsInjective
<1>5. Range(bk[b]) \subseteq Contents(bk)
  BY <1>1 DEF Contents
<1> QED BY <1>1, <1>2, <1>3, <1>4, <1>5

(* A new item at the end of its chain.                                     *)
LEMMA Appended ==
  ASSUME NEW bk, NEW n, Hashed(bk, n), NEW kv \in Item, \A x \in Contents(bk) : x.key # kv.key,
         NEW new, new = [bk EXCEPT ![kv.key % n] = Append(@, kv)]
  PROVE  TableOf(new, n, Contents(bk) \cup {kv})
<1> DEFINE b == kv.key % n
           c == Append(bk[b], kv)
<1>0. kv.key \in Keys /\ n \in Nat \ {0}
  BY DEF Item, Hashed
<1>1. b \in 0..n - 1 /\ b = kv.key % n
  BY <1>0, BucketOf
<1> HIDE DEF b
<1>2. /\ Chained(bk[b], b, n) /\ bk[b] \in Seq(Item) /\ Len(bk[b]) \in Nat /\ DOMAIN bk[b] = 1..Len(bk[b])
      /\ Range(bk[b]) \subseteq Contents(bk)
  BY <1>1, ChainOf
<1>3. /\ c \in Seq(Item) /\ Len(c) = Len(bk[b]) + 1 /\ \A i \in 1..Len(bk[b]) : c[i] = bk[b][i]
      /\ c[Len(bk[b]) + 1] = kv
  BY <1>2, AppendProperties
<1> DEFINE m == Len(bk[b])
<1>4. DOMAIN c = 1..m + 1 /\ m \in Nat /\ DOMAIN bk[b] = 1..m
  BY <1>2, <1>3
<1> HIDE DEF c, m
<1>5. \A i \in 1..m : bk[b][i] \in Contents(bk)
  BY <1>2, <1>4 DEF Range
<1>6. /\ \A i \in 1..m + 1 : i \in 1..m \/ i = m + 1
      /\ \A i \in 1..m : c[i] = bk[b][i] /\ c[m + 1] = kv /\ i \in 1..m + 1
      /\ c[m + 1] = kv /\ m + 1 \in 1..m + 1
  BY <1>3, <1>4 DEF m
<1>7. Chained(c, b, n)
  <2>1. \A i \in DOMAIN c : c[i].key % n = b
    BY <1>1, <1>2, <1>4, <1>6 DEF Chained
  <2>2. \A i, j \in DOMAIN c : c[i].key = c[j].key => i = j
    BY <1>2, <1>4, <1>5, <1>6 DEF Chained
  <2> QED BY <1>3, <2>1, <2>2 DEF Chained
<1>8. Range(c) = Range(bk[b]) \cup {kv}
  BY <1>4, <1>6 DEF Range
<1>9. Swapped(bk, b, c, new)
  BY <1>1 DEF c, Swapped
<1>10. TableOf(new, n, (Contents(bk) \ Range(bk[b])) \cup Range(c))
  BY <1>1, <1>7, <1>9, ChainChanged
<1> QED BY <1>2, <1>8, <1>10 DEF TableOf

(* Another value for a key.                                                *)
LEMMA Replaced ==
  ASSUME NEW bk, NEW n, Hashed(bk, n), NEW kv \in Item, NEW x, NEW b, NEW i, At(bk, x, b, i), x.key = kv.key,
         NEW new, new = [bk EXCEPT ![b][i].value = kv.value]
  PROVE  TableOf(new, n, (Contents(bk) \ {x}) \cup {kv})
<1> DEFINE c == [bk[b] EXCEPT ![i] = kv]
<1>1. b \in 0..n - 1 /\ i \in 1..Len(bk[b]) /\ x \in Item /\ b = x.key % n /\ bk[b][i] = x
  BY PlaceIs DEF At
<1>2. /\ Chained(bk[b], b, n) /\ bk[b] \in Seq(Item) /\ Len(bk[b]) \in Nat /\ DOMAIN bk[b] = 1..Len(bk[b])
      /\ Range(bk[b]) \subseteq Contents(bk)
  BY <1>1, ChainOf
<1>3. [x EXCEPT !.value = kv.value] = kv
  BY <1>1 DEF Item
<1>4. Swapped(bk, b, c, new)
  BY <1>1, <1>3 DEF Swapped
<1>5. c \in Seq(Item) /\ Len(c) = Len(bk[b]) /\ \A j \in 1..Len(bk[b]) : c[j] = IF j = i THEN kv ELSE bk[b][j]
  BY <1>1, <1>2, ExceptSeq
<1>6. DOMAIN c = DOMAIN bk[b] /\ DOMAIN c = 1..Len(bk[b])
  BY <1>2, <1>5
<1> HIDE DEF c
<1>7. Chained(c, b, n)
  <2>1. \A j \in DOMAIN c : c[j].key = bk[b][j].key
    BY <1>1, <1>5, <1>6
  <2> QED BY <1>2, <1>5, <1>6, <2>1 DEF Chained
<1>8. Range(c) = (Range(bk[b]) \ {x}) \cup {kv}
  <2>1. \A j \in 1..Len(bk[b]) : bk[b][j] = x => j = i
    BY <1>1, <1>2 DEF Chained
  <2> QED BY <1>1, <1>5, <1>6, <2>1 DEF Range
<1>9. TableOf(new, n, (Contents(bk) \ Range(bk[b])) \cup Range(c))
  BY <1>1, <1>4, <1>7, ChainChanged
<1>10. x \in Range(bk[b])
  BY <1>1, <1>2 DEF Range
<1>11. \A y \in Contents(bk) : y = kv => y \in {x}
  <2>1. x \in Contents(bk)
    BY <1>2, <1>10
  <2> QED BY <2>1, KeysDiffer
<1> QED BY <1>2, <1>8, <1>9, <1>10, <1>11 DEF TableOf

(* An item less.                                                           *)
LEMMA TakenOut ==
  ASSUME NEW bk, NEW n, Hashed(bk, n), NEW x, NEW b, NEW i, At(bk, x, b, i),
         NEW new, new = [bk EXCEPT ![b] = RemoveAt(@, i)]
  PROVE  TableOf(new, n, Contents(bk) \ {x})
<1> DEFINE c == RemoveAt(bk[b], i)
<1>1. b \in 0..n - 1 /\ i \in 1..Len(bk[b]) /\ x \in Item /\ b = x.key % n /\ bk[b][i] = x /\ b \in DOMAIN bk
  BY PlaceIs DEF At
<1>2. /\ Chained(bk[b], b, n) /\ bk[b] \in Seq(Item) /\ Len(bk[b]) \in Nat /\ DOMAIN bk[b] = 1..Len(bk[b])
      /\ Range(bk[b]) \subseteq Contents(bk) /\ IsInjective(bk[b])
  BY <1>1, ChainOf
<1>3. Without(Item, bk[b], i, c)
  BY <1>1, <1>2, RemoveAtIs
<1> HIDE DEF c
<1>4. Range(c) = Range(bk[b]) \ {x}
  BY <1>1, <1>2, <1>3, RemovesOne
<1>5. c \in Seq(Item) /\ DOMAIN c = 1..Len(bk[b]) - 1
      /\ \A j \in 1..Len(bk[b]) - 1 : c[j] = IF j < i THEN bk[b][j] ELSE bk[b][j + 1]
  BY <1>2, <1>3 DEF Without
<1>6. Chained(c, b, n)
  <2>1. \A j \in DOMAIN c : j \in DOMAIN bk[b] /\ j + 1 \in DOMAIN bk[b]
    BY <1>2, <1>5
  <2>2. \A j \in DOMAIN c : c[j].key % n = b
    BY <1>2, <1>5, <2>1 DEF Chained
  <2>3. \A j, k \in DOMAIN c : c[j].key = c[k].key => j = k
    <3> SUFFICES ASSUME NEW j \in DOMAIN c, NEW k \in DOMAIN c, c[j].key = c[k].key PROVE j = k
      OBVIOUS
    <3> DEFINE p == IF j < i THEN j ELSE j + 1
               q == IF k < i THEN k ELSE k + 1
    <3>1. p \in DOMAIN bk[b] /\ q \in DOMAIN bk[b] /\ c[j] = bk[b][p] /\ c[k] = bk[b][q]
      BY <1>5, <2>1
    <3>2. p = q
      <4> HIDE DEF p, q
      <4> QED BY <1>2, <3>1 DEF Chained
    <3> QED BY <1>1, <1>2, <1>5, <3>2
  <2> QED BY <1>5, <2>2, <2>3 DEF Chained
<1>7. Swapped(bk, b, c, new)
  BY <1>1 DEF c, Swapped
<1>8. TableOf(new, n, (Contents(bk) \ Range(bk[b])) \cup Range(c))
  BY <1>1, <1>6, <1>7, ChainChanged
<1>9. x \in Range(bk[b])
  BY <1>1, <1>2 DEF Range
<1> QED BY <1>2, <1>4, <1>8, <1>9 DEF TableOf

-----------------------------------------------------------------------------
(* The iterator's order, by places.                                        *)
BeforeIn(bk, x, y) ==
  \E b, c \in DOMAIN bk : \E i \in DOMAIN bk[b], j \in DOMAIN bk[c] :
    bk[b][i] = x /\ bk[c][j] = y /\ (b < c \/ (b = c /\ i < j))

LEMMA PlacesDecide ==
  ASSUME NEW bk, NEW n, Hashed(bk, n), NEW x, NEW b, NEW i, At(bk, x, b, i),
         NEW y, NEW c, NEW j, At(bk, y, c, j)
  PROVE  BeforeIn(bk, x, y) <=> b < c \/ (b = c /\ i < j)
<1>1. ASSUME b < c \/ (b = c /\ i < j) PROVE BeforeIn(bk, x, y)
  BY <1>1 DEF BeforeIn, At
<1>2. ASSUME BeforeIn(bk, x, y) PROVE b < c \/ (b = c /\ i < j)
  <2>1. PICK p, q \in DOMAIN bk : \E k \in DOMAIN bk[p], l \in DOMAIN bk[q] :
          bk[p][k] = x /\ bk[q][l] = y /\ (p < q \/ (p = q /\ k < l))
    BY <1>2 DEF BeforeIn
  <2>2. PICK k \in DOMAIN bk[p], l \in DOMAIN bk[q] :
          bk[p][k] = x /\ bk[q][l] = y /\ (p < q \/ (p = q /\ k < l))
    BY <2>1
  <2>3. At(bk, x, p, k) /\ At(bk, y, q, l)
    BY <2>2 DEF At
  <2>4. p = b /\ k = i
    BY <2>3, OnePlace
  <2>5. q = c /\ l = j
    BY <2>3, OnePlace
  <2> QED BY <2>2, <2>4, <2>5
<1> QED BY <1>1, <1>2

(* It is a strict total order.                                             *)
InARow(bk) ==
  /\ \A x \in Contents(bk) : ~BeforeIn(bk, x, x)
  /\ \A x, y \in Contents(bk) : x # y => BeforeIn(bk, x, y) \/ BeforeIn(bk, y, x)
  /\ \A x, y, z \in Contents(bk) : BeforeIn(bk, x, y) /\ BeforeIn(bk, y, z) => BeforeIn(bk, x, z)

LEMMA ItemsInARow == ASSUME NEW bk, NEW n, Hashed(bk, n) PROVE InARow(bk)
<1>1. ASSUME NEW x \in Contents(bk) PROVE ~BeforeIn(bk, x, x)
  <2>1. PICK b, i : At(bk, x, b, i)
    BY Placed
  <2>2. b \in 0..n - 1 /\ i \in 1..Len(bk[b]) /\ Len(bk[b]) \in Nat /\ n \in Nat
    BY <2>1, PlaceIs DEF Hashed
  <2>3. BeforeIn(bk, x, x) <=> b < b \/ (b = b /\ i < i)
    BY <2>1, PlacesDecide
  <2> QED BY <2>2, <2>3
<1>2. ASSUME NEW x \in Contents(bk), NEW y \in Contents(bk), x # y
      PROVE  BeforeIn(bk, x, y) \/ BeforeIn(bk, y, x)
  <2>1. PICK b, i : At(bk, x, b, i)
    BY Placed
  <2>2. PICK c, j : At(bk, y, c, j)
    BY Placed
  <2>3. /\ b \in 0..n - 1 /\ i \in 1..Len(bk[b]) /\ Len(bk[b]) \in Nat /\ n \in Nat
        /\ c \in 0..n - 1 /\ j \in 1..Len(bk[c]) /\ Len(bk[c]) \in Nat
    BY <2>1, <2>2, PlaceIs DEF Hashed
  <2>4. BeforeIn(bk, x, y) <=> b < c \/ (b = c /\ i < j)
    BY <2>1, <2>2, PlacesDecide
  <2>5. BeforeIn(bk, y, x) <=> c < b \/ (c = b /\ j < i)
    BY <2>1, <2>2, PlacesDecide
  <2>6. b # c \/ i # j
    BY <1>2, <2>1, <2>2 DEF At
  <2> QED BY <2>3, <2>4, <2>5, <2>6
<1>3. ASSUME NEW x \in Contents(bk), NEW y \in Contents(bk), NEW z \in Contents(bk),
             BeforeIn(bk, x, y), BeforeIn(bk, y, z)
      PROVE  BeforeIn(bk, x, z)
  <2>1. PICK b, i : At(bk, x, b, i)
    BY Placed
  <2>2. PICK c, j : At(bk, y, c, j)
    BY Placed
  <2>3. PICK d, k : At(bk, z, d, k)
    BY Placed
  <2>4. /\ b \in 0..n - 1 /\ i \in 1..Len(bk[b]) /\ Len(bk[b]) \in Nat /\ n \in Nat
        /\ c \in 0..n - 1 /\ j \in 1..Len(bk[c]) /\ Len(bk[c]) \in Nat
        /\ d \in 0..n - 1 /\ k \in 1..Len(bk[d]) /\ Len(bk[d]) \in Nat
    BY <2>1, <2>2, <2>3, PlaceIs DEF Hashed
  <2>5. b < c \/ (b = c /\ i < j)
    BY <1>3, <2>1, <2>2, PlacesDecide
  <2>6. c < d \/ (c = d /\ j < k)
    BY <1>3, <2>2, <2>3, PlacesDecide
  <2>7. BeforeIn(bk, x, z) <=> b < d \/ (b = d /\ i < k)
    BY <2>1, <2>3, PlacesDecide
  <2> QED BY <2>4, <2>5, <2>6, <2>7
<1> QED BY <1>1, <1>2, <1>3 DEF InARow

(* Taking an item out leaves the others in their order.                    *)
SameOrder(new, bk) == \A y, z \in Contents(new) : BeforeIn(new, y, z) <=> BeforeIn(bk, y, z)

LEMMA OrderKept ==
  ASSUME NEW bk, NEW n, Hashed(bk, n), NEW x, NEW b, NEW i, At(bk, x, b, i),
         NEW new, new = [bk EXCEPT ![b] = RemoveAt(@, i)]
  PROVE  SameOrder(new, bk)
<1> SUFFICES ASSUME NEW y \in Contents(new), NEW z \in Contents(new)
             PROVE  BeforeIn(new, y, z) <=> BeforeIn(bk, y, z)
  BY DEF SameOrder
<1> DEFINE Was(c, j) == IF c = b /\ ~ (j < i) THEN j + 1 ELSE j
<1>1. /\ b \in 0..n - 1 /\ i \in 1..Len(bk[b]) /\ bk[b] \in Seq(Item) /\ n \in Nat
      /\ DOMAIN bk = 0..n - 1 /\ DOMAIN new = 0..n - 1
      /\ \A c \in 0..n - 1 : new[c] = IF c = b THEN RemoveAt(bk[b], i) ELSE bk[c]
  BY PlaceIs DEF Hashed
<1>2. Without(Item, bk[b], i, RemoveAt(bk[b], i))
  BY <1>1, RemoveAtIs
<1>3. Hashed(new, n)
  BY TakenOut DEF TableOf
<1>4. ASSUME NEW u, NEW c, NEW j, At(new, u, c, j)
      PROVE  At(bk, u, c, Was(c, j)) /\ c \in 0..n - 1 /\ j \in Nat
  <2>1. c \in 0..n - 1 /\ j \in DOMAIN new[c] /\ new[c][j] = u
    BY <1>1, <1>4 DEF At
  <2>2. CASE c # b
    <3>1. bk[c] \in Seq(Item) /\ new[c] = bk[c] /\ Was(c, j) = j
      BY <1>1, <2>1, <2>2 DEF Hashed
    <3> QED BY <1>1, <2>1, <3>1 DEF At
  <2>3. CASE c = b
    <3>1. /\ RemoveAt(bk[b], i) \in Seq(Item) /\ Len(RemoveAt(bk[b], i)) = Len(bk[b]) - 1
          /\ \A k \in 1..Len(bk[b]) - 1 : RemoveAt(bk[b], i)[k] = IF k < i THEN bk[b][k] ELSE bk[b][k + 1]
      BY <1>2 DEF Without
    <3>2. j \in 1..Len(bk[b]) - 1 /\ new[b][j] = u
      BY <1>1, <2>1, <2>3, <3>1
    <3>3. Was(b, j) \in DOMAIN bk[b] /\ bk[b][Was(b, j)] = u
      <4>1. CASE j < i
        BY <1>1, <3>1, <3>2, <4>1
      <4>2. CASE ~ (j < i)
        BY <1>1, <3>1, <3>2, <4>2
      <4> QED BY <4>1, <4>2
    <3> QED BY <1>1, <2>3, <3>2, <3>3 DEF At
  <2> QED BY <2>2, <2>3
<1>5. PICK c, j : At(new, y, c, j)
  BY Placed
<1>6. PICK d, k : At(new, z, d, k)
  BY Placed
<1>7. /\ At(bk, y, c, Was(c, j)) /\ c \in 0..n - 1 /\ j \in Nat
      /\ At(bk, z, d, Was(d, k)) /\ d \in 0..n - 1 /\ k \in Nat
  BY <1>4, <1>5, <1>6
<1>8. BeforeIn(new, y, z) <=> c < d \/ (c = d /\ j < k)
  BY <1>3, <1>5, <1>6, PlacesDecide
<1>9. BeforeIn(bk, y, z) <=> c < d \/ (c = d /\ Was(c, j) < Was(d, k))
  <2> HIDE DEF Was
  <2> QED BY <1>7, PlacesDecide
<1>10. c = d => (j < k <=> Was(c, j) < Was(d, k))
  BY <1>1, <1>7
<1> HIDE DEF Was
<1> QED BY <1>8, <1>9, <1>10

-----------------------------------------------------------------------------
(* The larger table holds what the smaller one held.                       *)
LEMMA Rehashed ==
  ASSUME Hashed(buckets, num_buckets), IsFiniteSet(Items), NEW n \in Nat \ {0}
  PROVE  TableOf(MaybeResize(n), n, Items)
<1> DEFINE InBucket(b) == {kv \in Items : kv.key % n = b}
           Less == {xy \in Items \X Items : Before(xy[1], xy[2])}
           bk == [b \in 0..n - 1 |-> InOrder(InBucket(b))]
<1>1. Items = Contents(buckets)
  BY DEF Items, Contents
<1>2. Items \subseteq Item /\ \A x, y \in Items : x.key = y.key => x = y
  BY <1>1, KeysDiffer
<1>3. \A x, y \in Items : <<x, y>> \in Less <=> BeforeIn(buckets, x, y)
  BY DEF Before, BeforeIn
<1>4. InARow(buckets)
  BY ItemsInARow
<1>5. ASSUME NEW S \in SUBSET Items
      PROVE  InOrder(S) \in SetToSeqs(S)
  <2>1. IsFiniteSet(S)
    BY FS_Subset
  <2>2. /\ \A x, y \in S : x # y => <<x, y>> \in Less \/ <<y, x>> \in Less
        /\ \A x \in S : <<x, x>> \notin Less
        /\ \A x, y, z \in S : <<x, y>> \in Less /\ <<y, z>> \in Less => <<x, z>> \in Less
    <3> HIDE DEF Less
    <3> QED BY <1>1, <1>3, <1>4 DEF InARow
  <2>3. PICK s \in SetToSeqs(S) : \A k, l \in DOMAIN s : k < l => <<s[k], s[l]>> \in Less
    <3> HIDE DEF Less
    <3> QED BY <2>1, <2>2, RowExists
  <2>4. \A k, l \in DOMAIN s : k < l => Before(s[k], s[l])
    BY <2>3
  <2> HIDE DEF Less
  <2> QED BY <2>4 DEF InOrder
<1>6. ASSUME NEW b \in 0..n - 1
      PROVE  /\ bk[b] \in Seq(Item) /\ Range(bk[b]) = InBucket(b)
             /\ \A i \in DOMAIN bk[b] : bk[b][i] \in InBucket(b)
             /\ \A i, j \in DOMAIN bk[b] : bk[b][i] = bk[b][j] => i = j
  <2> DEFINE S == InBucket(b)
  <2>1. S \in SUBSET Items /\ S \in SUBSET Item /\ IsFiniteSet(S) /\ bk[b] = InOrder(S)
    BY <1>2, FS_Subset
  <2> HIDE DEF S, bk
  <2>2. bk[b] \in SetToSeqs(S)
    BY <1>5, <2>1
  <2>3. bk[b] \in Seq(S) /\ DOMAIN bk[b] = 1..Len(bk[b])
    BY <2>1, <2>2, RowIsSequence
  <2>4. Range(bk[b]) = S /\ \A i, j \in DOMAIN bk[b] : bk[b][i] = bk[b][j] => i = j
    BY <2>1, <2>2, RowIsBijective
  <2>5. bk[b] \in Seq(Item)
    BY <2>1, <2>3, SeqMonotonic
  <2>6. \A i \in DOMAIN bk[b] : bk[b][i] \in S
    BY <2>3
  <2> QED BY <2>4, <2>5, <2>6 DEF S
<1>7. DOMAIN bk = 0..n - 1
  OBVIOUS
<1>8. bk \in [0..n - 1 -> Seq(Item)]
  <2>1. \A b \in 0..n - 1 : InOrder(InBucket(b)) \in Seq(Item)
    BY <1>6
  <2> HIDE DEF InBucket
  <2> QED BY <2>1
<1> HIDE DEF bk
<1>9. \A b \in 0..n - 1 : \A i \in DOMAIN bk[b] : bk[b][i] \in Items /\ bk[b][i].key % n = b
  BY <1>6
<1>10. \A b \in 0..n - 1 : \A i, j \in DOMAIN bk[b] : bk[b][i].key = bk[b][j].key => i = j
  BY <1>2, <1>6, <1>9
<1>11. Hashed(bk, n)
  BY <1>8, <1>9, <1>10 DEF Hashed
<1>12. Contents(bk) = Items
  <2>1. ASSUME NEW x \in Contents(bk) PROVE x \in Items
    BY <1>6, <1>7, <2>1 DEF Contents
  <2>2. ASSUME NEW x \in Items PROVE x \in Contents(bk)
    <3>1. x.key \in Keys
      BY <1>2 DEF Item
    <3>2. x.key % n \in 0..n - 1 /\ x \in InBucket(x.key % n)
      BY <3>1, BucketOf
    <3> HIDE DEF InBucket
    <3> QED BY <1>6, <1>7, <3>2 DEF Contents
  <2> QED BY <2>1, <2>2
<1>13. CASE n = num_buckets
  BY <1>1, <1>13 DEF MaybeResize, TableOf
<1>14. CASE n # num_buckets
  BY <1>11, <1>12, <1>14 DEF MaybeResize, TableOf, bk
<1> QED BY <1>13, <1>14

-----------------------------------------------------------------------------
(* An iterator of table bk that is past the end or at one of its nodes.    *)
GoodIter(it, bk, n) ==
  /\ it \in [bucket_idx : -1..n, node : Keys \cup {NULL}]
  /\ it.node = NULL \/ \E x, i : At(bk, x, it.bucket_idx, i) /\ x.key = it.node

(* It is at the first one of the items of S, if there are any.             *)
FirstOf(it, bk, n, S) ==
  /\ GoodIter(it, bk, n)
  /\ \/ S = {} /\ it.node = NULL
     \/ \E x \in S : it.node = x.key /\ \A y \in S : y = x \/ BeforeIn(bk, x, y)

After(bk, h) == {z \in Contents(bk) : BeforeIn(bk, h, z)}

LEMMA FirstFromIs ==
  ASSUME Hashed(buckets, num_buckets), NEW b \in 0..num_buckets
  PROVE  FirstOf(FirstFrom(b), buckets, num_buckets, {x \in Contents(buckets) : x.key % num_buckets >= b})
<1> DEFINE n == num_buckets
           S == {x \in Contents(buckets) : x.key % num_buckets >= b}
           full == {i \in b..n - 1 : buckets[i] # <<>>}
           m == Min(full)
<1>1. n \in Nat \ {0} /\ DOMAIN buckets = 0..n - 1 /\ \A i \in b..n - 1 : i \in 0..n - 1
  BY DEF Hashed
<1>2. ASSUME NEW y \in S
      PROVE  \E c, j : /\ At(buckets, y, c, j) /\ c \in full /\ c \in Nat
                      /\ j \in 1..Len(buckets[c]) /\ Len(buckets[c]) \in Nat
  <2>1. PICK c, j : At(buckets, y, c, j)
    BY Placed
  <2>2. c \in 0..n - 1 /\ j \in 1..Len(buckets[c]) /\ Len(buckets[c]) \in Nat /\ c = y.key % n
    BY <2>1, PlaceIs
  <2>3. buckets[c] # <<>>
    BY <2>2
  <2> QED BY <1>1, <2>1, <2>2, <2>3
<1>3. CASE full = {}
  <2>1. FirstFrom(b) = [bucket_idx |-> n, node |-> NULL]
    BY <1>3 DEF FirstFrom
  <2>2. S = {}
    BY <1>2, <1>3
  <2>3. FirstFrom(b) \in [bucket_idx : -1..n, node : Keys \cup {NULL}]
    BY <1>1, <2>1
  <2> QED BY <2>1, <2>2, <2>3 DEF FirstOf, GoodIter
<1>4. CASE full # {}
  <2> DEFINE x == buckets[m][1]
  <2>1. m \in full /\ \A c \in full : m <= c
    <3>1. full \in SUBSET Nat
      BY <1>1
    <3> HIDE DEF full
    <3> QED BY <1>4, <3>1, LeastNatural
  <2>2. m \in 0..n - 1 /\ buckets[m] # <<>> /\ m >= b /\ m \in Nat
    BY <1>1, <2>1
  <2>3. FirstFrom(b) = [bucket_idx |-> m, node |-> x.key]
    BY <1>4 DEF FirstFrom
  <2> HIDE DEF m, full
  <2>4. At(buckets, x, m, 1)
    <3>1. buckets[m] \in Seq(Item) /\ 1 \in DOMAIN buckets[m]
      BY <2>2 DEF Hashed
    <3> QED BY <1>1, <2>2, <3>1 DEF At
  <2> HIDE DEF x
  <2>5. x \in Contents(buckets) /\ x.key \in Keys /\ x.key % n = m
    BY <2>4, Placed, PlaceIs
  <2>6. x \in S
    BY <2>2, <2>5
  <2>7. ASSUME NEW y \in S PROVE y = x \/ BeforeIn(buckets, x, y)
    <3>1. PICK c, j : /\ At(buckets, y, c, j) /\ c \in full /\ c \in Nat
                      /\ j \in 1..Len(buckets[c]) /\ Len(buckets[c]) \in Nat
      BY <1>2
    <3>2. m < c \/ m = c
      BY <2>1, <2>2, <3>1
    <3>3. BeforeIn(buckets, x, y) <=> m < c \/ (m = c /\ 1 < j)
      BY <2>4, <3>1, PlacesDecide
    <3>4. j = 1 /\ m = c => y = x
      BY <2>4, <3>1 DEF At
    <3> QED BY <3>1, <3>2, <3>3, <3>4
  <2>8. GoodIter(FirstFrom(b), buckets, n)
    <3>0. m \in -1..n
      BY <1>1, <2>2
    <3>1. FirstFrom(b) \in [bucket_idx : -1..n, node : Keys \cup {NULL}]
      BY <2>3, <2>5, <3>0
    <3> QED BY <2>3, <2>4, <3>1 DEF GoodIter
  <2>9. FirstFrom(b).node = x.key
    BY <2>3
  <2> HIDE DEF S
  <2>10. FirstOf(FirstFrom(b), buckets, n, S)
    BY <2>6, <2>7, <2>8, <2>9 DEF FirstOf
  <2> QED BY <2>10 DEF S
<1> QED BY <1>3, <1>4

(* Moving on is to the next item in order.                                 *)
LEMMA AdvancedIs ==
  ASSUME Hashed(buckets, num_buckets), GoodIter(iter, buckets, num_buckets),
         NEW h, NEW i, At(buckets, h, iter.bucket_idx, i), h.key = iter.node
  PROVE  FirstOf(Advanced, buckets, num_buckets, After(buckets, h))
<1> DEFINE n == num_buckets
           b == iter.bucket_idx
           S == After(buckets, h)
<1>1. /\ b \in 0..n - 1 /\ i \in 1..Len(buckets[b]) /\ Len(buckets[b]) \in Nat /\ n \in Nat \ {0}
      /\ h.key \in Keys /\ b = h.key % n /\ h \in Contents(buckets) /\ buckets[b] \in Seq(Item)
  <2>1. /\ b \in 0..n - 1 /\ i \in 1..Len(buckets[b]) /\ Len(buckets[b]) \in Nat
        /\ h.key \in Keys /\ b = h.key % n
    BY PlaceIs
  <2>2. h \in Contents(buckets)
    BY Placed
  <2> QED BY <2>1, <2>2 DEF Hashed
<1>2. InsertFindHelper(iter.node) = i
  <2> DEFINE p == PlaceIn(buckets[b], h.key)
  <2>1. InsertFindHelper(iter.node) = p
    BY <1>1 DEF InsertFindHelper, Chain, HashKeyToBucketNum
  <2>2. \/ p = 0 /\ \A x \in Contents(buckets) : x.key # h.key
        \/ p # 0 /\ buckets[b][p].key = h.key /\ At(buckets, buckets[b][p], b, p)
    BY <1>1, Lookup
  <2> HIDE DEF p
  <2>3. p = i
    BY <1>1, <2>2, OnePlace
  <2> QED BY <2>1, <2>3
<1>3. CASE i < Len(buckets[b])
  <2> DEFINE y == buckets[b][i + 1]
  <2>1. Advanced = [iter EXCEPT !.node = y.key]
    BY <1>2, <1>3 DEF Advanced
  <2>2. At(buckets, y, b, i + 1) /\ i \in Nat
    BY <1>1, <1>3 DEF At, Hashed
  <2> HIDE DEF y
  <2>3. y \in Contents(buckets) /\ y.key \in Keys
    BY <2>2, Placed, PlaceIs
  <2>4. y \in S
    <3>1. BeforeIn(buckets, h, y) <=> b < b \/ (b = b /\ i < i + 1)
      BY <2>2, PlacesDecide
    <3> QED BY <2>2, <2>3, <3>1 DEF After
  <2>5. ASSUME NEW z \in S PROVE z = y \/ BeforeIn(buckets, y, z)
    <3>0. z \in Contents(buckets) /\ BeforeIn(buckets, h, z)
      BY DEF After
    <3>1. PICK c, j : At(buckets, z, c, j)
      BY <3>0, Placed
    <3>2. c \in 0..n - 1 /\ j \in 1..Len(buckets[c]) /\ Len(buckets[c]) \in Nat
      BY <3>1, PlaceIs
    <3>3. b < c \/ (b = c /\ i < j)
      BY <3>0, <3>1, PlacesDecide
    <3>4. BeforeIn(buckets, y, z) <=> b < c \/ (b = c /\ i + 1 < j)
      BY <2>2, <3>1, PlacesDecide
    <3>5. b = c /\ j = i + 1 => z = y
      BY <2>2, <3>1 DEF At
    <3> QED BY <1>1, <2>2, <3>2, <3>3, <3>4, <3>5
  <2>6. Advanced.node = y.key /\ Advanced.bucket_idx = b /\ Advanced \in [bucket_idx : -1..n, node : Keys \cup {NULL}]
    BY <2>1, <2>3 DEF GoodIter
  <2>7. GoodIter(Advanced, buckets, n)
    BY <2>2, <2>6 DEF GoodIter
  <2> HIDE DEF S
  <2>8. FirstOf(Advanced, buckets, n, S)
    BY <2>4, <2>5, <2>6, <2>7 DEF FirstOf
  <2> QED BY <2>8 DEF S
<1>4. CASE ~ (i < Len(buckets[b]))
  <2>1. Advanced = FirstFrom(b + 1)
    BY <1>2, <1>4 DEF Advanced
  <2>2. b + 1 \in 0..num_buckets
    BY <1>1
  <2>3. {x \in Contents(buckets) : x.key % num_buckets >= b + 1} = S
    <3> SUFFICES ASSUME NEW z \in Contents(buckets)
                 PROVE  z.key % num_buckets >= b + 1 <=> BeforeIn(buckets, h, z)
      BY DEF After
    <3>1. PICK c, j : At(buckets, z, c, j)
      BY Placed
    <3>2. c \in 0..n - 1 /\ j \in 1..Len(buckets[c]) /\ Len(buckets[c]) \in Nat /\ c = z.key % num_buckets
      BY <3>1, PlaceIs
    <3>3. BeforeIn(buckets, h, z) <=> b < c \/ (b = c /\ i < j)
      BY <3>1, PlacesDecide
    <3> QED BY <1>1, <1>4, <3>2, <3>3
  <2> HIDE DEF b, S
  <2>4. FirstOf(Advanced, buckets, num_buckets, S)
    BY <2>1, <2>2, <2>3, FirstFromIs
  <2> QED BY <2>4 DEF S
<1> QED BY <1>3, <1>4

(* An iterator stays good as long as its node stays.                       *)
LEMMA IterStays ==
  ASSUME NEW bk, NEW new, NEW n, Hashed(bk, n), Hashed(new, n), NEW it, GoodIter(it, bk, n),
         \A x \in Contents(bk) : x.key = it.node => x \in Contents(new)
  PROVE  GoodIter(it, new, n)
<1>1. CASE it.node = NULL
  BY <1>1 DEF GoodIter
<1>2. CASE it.node # NULL
  <2>1. PICK x, i : At(bk, x, it.bucket_idx, i) /\ x.key = it.node
    BY <1>2 DEF GoodIter
  <2>2. x \in Contents(new) /\ it.bucket_idx = x.key % n
    BY <2>1, Placed, PlaceIs
  <2>3. PICK c, j : At(new, x, c, j)
    BY <2>2, Placed
  <2>4. c = it.bucket_idx
    BY <2>2, <2>3, PlaceIs
  <2> QED BY <2>1, <2>3, <2>4 DEF GoodIter
<1> QED BY <1>1, <1>2

-----------------------------------------------------------------------------
(* The inductive invariant.                                                *)
Sound ==
  /\ Hashed(buckets, num_buckets)
  /\ IsFiniteSet(Items) /\ num_elements = Cardinality(Items)
  /\ iter # NoIter => GoodIter(iter, buckets, num_buckets)

IInv == TypeOK /\ Sound

LEMMA ItemsAre == Items = Contents(buckets) /\ \A x, y : Before(x, y) <=> BeforeIn(buckets, x, y)
  BY DEF Items, Contents, Before, BeforeIn

(* What a lookup returns.                                                  *)
LEMMA LookIs ==
  ASSUME Hashed(buckets, num_buckets), NEW key \in Keys
  PROVE  \/ /\ InsertFindHelper(key) = 0 /\ Look(key) = NotFound
            /\ \A x \in Items : x.key # key
         \/ /\ InsertFindHelper(key) # 0
            /\ \E x \in Items : /\ x.key = key /\ Look(key) = Found(x)
                               /\ At(buckets, x, key % num_buckets, InsertFindHelper(key))
<1> DEFINE b == key % num_buckets
           i == PlaceIn(buckets[b], key)
<1>1. /\ b \in 0..num_buckets - 1 /\ buckets[b] \in Seq(Item)
      /\ \/ i = 0 /\ \A x \in Contents(buckets) : x.key # key
         \/ i # 0 /\ i \in 1..Len(buckets[b]) /\ buckets[b][i].key = key /\ At(buckets, buckets[b][i], b, i)
  BY Lookup
<1>2. InsertFindHelper(key) = i /\ Look(key) = IF i = 0 THEN NotFound ELSE Found(buckets[b][i])
  BY DEF InsertFindHelper, Chain, HashKeyToBucketNum, Look
<1> HIDE DEF i, b
<1>3. CASE i = 0
  BY <1>1, <1>2, <1>3, ItemsAre
<1>4. CASE i # 0
  <2>1. buckets[b][i] \in Items
    BY <1>1, <1>4, Placed, ItemsAre
  <2> QED BY <1>1, <1>2, <1>4, <2>1 DEF b
<1> QED BY <1>3, <1>4

LEMMA CountIs ==
  ASSUME NEW S, IsFiniteSet(S)
  PROVE  /\ Cardinality(S) \in Nat /\ (Cardinality(S) = 0 <=> S = {})
         /\ \A x : x \notin S => IsFiniteSet(S \cup {x}) /\ Cardinality(S \cup {x}) = Cardinality(S) + 1
         /\ \A x \in S : IsFiniteSet(S \ {x}) /\ Cardinality(S \ {x}) = Cardinality(S) - 1
  BY FS_CardinalityType, FS_EmptySet, FS_AddElement, FS_RemoveElement

LEMMA LoadIs == IInv => Grown \in Nat \ {0}
  BY DEF IInv, TypeOK, Grown

(* HashTable_Insert, whether or not it grows the table first.              *)
InsertsNew(kv) ==
  /\ \A x \in Items : x.key # kv.key
  /\ TableOf(buckets', num_buckets', Items \cup {kv})
  /\ num_elements' = num_elements + 1 /\ ret' = NotFound

InsertsInPlaceOf(x, kv) ==
  /\ x \in Items /\ x.key = kv.key
  /\ TableOf(buckets', num_buckets', (Items \ {x}) \cup {kv})
  /\ num_elements' = num_elements /\ ret' = Found(x)

LEMMA InsertIs ==
  ASSUME IInv, NEW kv \in Item, HashTable_Insert(kv)
  PROVE  InsertsNew(kv) \/ \E x \in Items : InsertsInPlaceOf(x, kv)
<1> DEFINE n == Grown
           bk == MaybeResize(n)
           b == kv.key % n
           i == PlaceIn(bk[b], kv.key)
<1>1. n \in Nat \ {0} /\ TableOf(bk, n, Items)
  <2>1. n \in Nat \ {0}
    BY LoadIs
  <2>2. Hashed(buckets, num_buckets) /\ IsFiniteSet(Items)
    BY DEF IInv, Sound
  <2> HIDE DEF n
  <2> QED BY <2>1, <2>2, Rehashed
<1>2. num_buckets' = n
  BY DEF HashTable_Insert
<1>3. kv.key \in Keys
  BY DEF Item
<1>4. IF i = 0
      THEN buckets' = [bk EXCEPT ![b] = Append(@, kv)] /\ num_elements' = num_elements + 1 /\ ret' = NotFound
      ELSE /\ buckets' = [bk EXCEPT ![b][i].value = kv.value] /\ num_elements' = num_elements
           /\ ret' = Found(bk[b][i])
  BY DEF HashTable_Insert
<1> HIDE DEF n, bk
<1>5. /\ b \in 0..n - 1 /\ bk[b] \in Seq(Item)
      /\ \/ i = 0 /\ \A x \in Items : x.key # kv.key
         \/ i # 0 /\ i \in 1..Len(bk[b]) /\ bk[b][i].key = kv.key /\ At(bk, bk[b][i], b, i)
  BY <1>1, <1>3, Lookup DEF TableOf
<1>6. CASE i = 0
  <2>1. buckets' = [bk EXCEPT ![kv.key % n] = Append(@, kv)]
    BY <1>4, <1>6
  <2>2. Hashed(bk, n) /\ \A x \in Contents(bk) : x.key # kv.key
    BY <1>1, <1>5, <1>6 DEF TableOf
  <2>3. TableOf(buckets', n, Contents(bk) \cup {kv})
    BY <2>1, <2>2, Appended
  <2> QED BY <1>1, <1>2, <1>4, <1>5, <1>6, <2>3 DEF InsertsNew, TableOf
<1>7. CASE i # 0
  <2> DEFINE x == bk[b][i]
  <2>1. /\ buckets' = [bk EXCEPT ![b][i].value = kv.value] /\ num_elements' = num_elements
        /\ ret' = Found(x)
    BY <1>4, <1>7
  <2>2. At(bk, x, b, i) /\ x.key = kv.key
    BY <1>5, <1>7
  <2> HIDE DEF b, i, x
  <2>3. Hashed(bk, n) /\ Contents(bk) = Items
    BY <1>1 DEF TableOf
  <2>4. TableOf(buckets', n, (Contents(bk) \ {x}) \cup {kv})
    BY <2>1, <2>2, <2>3, Replaced
  <2>5. x \in Items
    BY <2>2, <2>3, Placed
  <2> QED BY <1>2, <2>1, <2>2, <2>3, <2>4, <2>5 DEF InsertsInPlaceOf
<1> QED BY <1>6, <1>7

(* Taking out the item of a key.                                           *)
Removes(x) ==
  /\ TableOf(buckets', num_buckets', Items \ {x})
  /\ num_elements' = num_elements - 1 /\ num_buckets' = num_buckets
  /\ \A y, z \in Items \ {x} : BeforeIn(buckets', y, z) <=> BeforeIn(buckets, y, z)

LEMMA TakeOutIs ==
  ASSUME IInv, NEW key \in Keys, NEW x \in Items, x.key = key, TakeOut(key)
  PROVE  Removes(x)
<1> DEFINE b == key % num_buckets
           i == InsertFindHelper(key)
<1>1. Hashed(buckets, num_buckets)
  BY DEF IInv, Sound
<1>2. At(buckets, x, b, i)
  <2>1. PICK y \in Items : y.key = key /\ At(buckets, y, b, i)
    BY <1>1, LookIs
  <2>2. x = y
    BY <1>1, <2>1, KeysDiffer, ItemsAre
  <2> QED BY <2>1, <2>2
<1>3. buckets' = [buckets EXCEPT ![b] = RemoveAt(@, i)] /\ num_elements' = num_elements - 1 /\ num_buckets' = num_buckets
  BY DEF TakeOut, HashKeyToBucketNum
<1> HIDE DEF b, i
<1>4. TableOf(buckets', num_buckets, Contents(buckets) \ {x})
  BY <1>1, <1>2, <1>3, TakenOut
<1>5. Contents(buckets') = Items \ {x}
  BY <1>4, ItemsAre DEF TableOf
<1>6. SameOrder(buckets', buckets)
  BY <1>1, <1>2, <1>3, OrderKept
<1> QED BY <1>3, <1>4, <1>5, <1>6, ItemsAre DEF Removes, SameOrder

-----------------------------------------------------------------------------
(* Every step keeps it.  TypeOK follows from the rest of it and from what  *)
(* is returned.                                                            *)
LEMMA SoundIsTyped ==
  Sound => /\ num_buckets \in Nat \ {0} /\ num_elements \in Nat
           /\ buckets \in [0..num_buckets - 1 -> Seq(Item)]
           /\ iter = NoIter \/ iter \in [bucket_idx : -1..num_buckets, node : Keys \cup {NULL}]
  BY CountIs DEF Sound, Hashed, GoodIter

LEMMA ResultsAreTyped == NotFound \in [ok : BOOLEAN, kv : Item \cup {NoItem}] /\ \A x \in Item : Found(x) \in [ok : BOOLEAN, kv : Item \cup {NoItem}]
  BY DEF NotFound, Found

LEMMA InitIInv == Init => IInv
<1> SUFFICES ASSUME Init PROVE IInv
  OBVIOUS
<1>1. PICK n \in InitialBuckets : num_buckets = n /\ num_elements = 0 /\ buckets = [b \in 0..n - 1 |-> <<>>]
  BY DEF Init, HashTable_Allocate
<1>2. n \in Nat \ {0} /\ DOMAIN buckets = 0..n - 1 /\ \A b \in 0..n - 1 : buckets[b] = <<>>
  BY <1>1, BucketsAssumption
<1>3. Hashed(buckets, num_buckets)
  <2>1. buckets \in [0..n - 1 -> Seq(Item)]
    BY <1>1
  <2>2. \A b \in 0..n - 1 : DOMAIN buckets[b] = {}
    BY <1>2
  <2> QED BY <1>1, <1>2, <2>1, <2>2 DEF Hashed
<1>4. Items = {}
  BY <1>2 DEF Items, Range
<1>5. IsFiniteSet(Items) /\ Cardinality(Items) = 0
  BY <1>4, FS_EmptySet
<1>6. Sound
  BY <1>1, <1>3, <1>5 DEF Sound, Init
<1> QED BY <1>6, SoundIsTyped, ResultsAreTyped DEF Init, IInv, TypeOK

(* What is needed of a step.                                               *)
LEMMA Keeps ==
  ASSUME IInv, NEW items, TableOf(buckets', num_buckets', items),
         IsFiniteSet(items), num_elements' = Cardinality(items),
         iter' # NoIter => GoodIter(iter', buckets', num_buckets'),
         ret' \in [ok : BOOLEAN, kv : Item \cup {NoItem}], freed' \subseteq Item, open' \in BOOLEAN
  PROVE  IInv'
<1>1. Items' = items
  BY DEF Items, TableOf, Contents
<1>2. Sound'
  BY <1>1 DEF Sound, TableOf
<1>3. /\ num_buckets' \in Nat \ {0} /\ num_elements' \in Nat
      /\ buckets' \in [0..num_buckets' - 1 -> Seq(Item)]
      /\ iter' = NoIter \/ iter' \in [bucket_idx : -1..num_buckets', node : Keys \cup {NULL}]
  BY <1>2, CountIs DEF Sound, Hashed, GoodIter
<1>4. TypeOK'
  BY <1>3 DEF TypeOK
<1> QED BY <1>2, <1>4 DEF IInv

LEMMA InsertKeepsIInv == ASSUME IInv, NEW kv \in Item, HashTable_Insert(kv) PROVE IInv'
<1>1. IsFiniteSet(Items) /\ num_elements = Cardinality(Items) /\ num_elements \in Nat /\ Items \subseteq Item
  BY KeysDiffer, ItemsAre DEF IInv, Sound, TypeOK
<1>2. iter' = NoIter /\ freed' \subseteq Item /\ open' \in BOOLEAN
  BY DEF HashTable_Insert, IInv, TypeOK
<1>3. CASE InsertsNew(kv)
  <2> DEFINE items == Items \cup {kv}
  <2>1. TableOf(buckets', num_buckets', items) /\ num_elements' = num_elements + 1 /\ ret' = NotFound
    BY <1>3 DEF InsertsNew
  <2>2. kv \notin Items
    BY <1>3 DEF InsertsNew
  <2>3. IsFiniteSet(items) /\ Cardinality(items) = Cardinality(Items) + 1
    BY <1>1, <2>2, CountIs
  <2> HIDE DEF items
  <2> QED BY <1>1, <1>2, <2>1, <2>3, Keeps, ResultsAreTyped
<1>4. ASSUME NEW x \in Items, InsertsInPlaceOf(x, kv) PROVE IInv'
  <2> DEFINE items == (Items \ {x}) \cup {kv}
  <2>1. TableOf(buckets', num_buckets', items) /\ num_elements' = num_elements /\ ret' = Found(x) /\ x.key = kv.key
    BY <1>4 DEF InsertsInPlaceOf
  <2>2. kv \notin Items \ {x}
    BY <2>1, KeysDiffer, ItemsAre DEF IInv, Sound
  <2>3. IsFiniteSet(Items \ {x}) /\ Cardinality(Items \ {x}) = Cardinality(Items) - 1
    BY <1>1, CountIs
  <2>4. IsFiniteSet(items) /\ Cardinality(items) = Cardinality(Items \ {x}) + 1
    BY <2>2, <2>3, CountIs
  <2>5. num_elements' = Cardinality(items)
    BY <1>1, <2>1, <2>3, <2>4
  <2>6. ret' \in [ok : BOOLEAN, kv : Item \cup {NoItem}]
    BY <1>1, <2>1, ResultsAreTyped
  <2> HIDE DEF items
  <2> QED BY <1>2, <2>1, <2>4, <2>5, <2>6, Keeps
<1> QED BY <1>3, <1>4, InsertIs

LEMMA LookIsTyped ==
  ASSUME IInv, NEW key \in Keys PROVE Look(key) \in [ok : BOOLEAN, kv : Item \cup {NoItem}]
  BY LookIs, ResultsAreTyped, KeysDiffer, ItemsAre DEF IInv, Sound

LEMMA FindKeepsIInv == ASSUME IInv, NEW key \in Keys, HashTable_Find(key) PROVE IInv'
<1>1. UNCHANGED <<tableVars, iter, freed, open>> /\ ret' \in [ok : BOOLEAN, kv : Item \cup {NoItem}]
  BY LookIsTyped DEF HashTable_Find
<1>2. TableOf(buckets, num_buckets, Items) /\ IsFiniteSet(Items) /\ num_elements = Cardinality(Items)
  BY ItemsAre DEF IInv, Sound, TableOf
<1> QED BY <1>1, <1>2, Keeps DEF IInv, Sound, TypeOK, tableVars

LEMMA RemoveKeepsIInv == ASSUME IInv, NEW key \in Keys, HashTable_Remove(key) PROVE IInv'
<1>1. iter' = NoIter /\ freed' \subseteq Item /\ open' \in BOOLEAN
      /\ ret' \in [ok : BOOLEAN, kv : Item \cup {NoItem}]
  BY LookIsTyped DEF HashTable_Remove, IInv, TypeOK
<1>2. TableOf(buckets, num_buckets, Items) /\ IsFiniteSet(Items) /\ num_elements = Cardinality(Items)
      /\ Hashed(buckets, num_buckets)
  BY ItemsAre DEF IInv, Sound, TableOf
<1>3. CASE InsertFindHelper(key) = 0
  <2>1. UNCHANGED tableVars
    BY <1>3 DEF HashTable_Remove
  <2> QED BY <1>1, <1>2, <2>1, Keeps DEF tableVars
<1>4. CASE InsertFindHelper(key) # 0
  <2>1. TakeOut(key)
    BY <1>4 DEF HashTable_Remove
  <2>2. PICK x \in Items : x.key = key
    BY <1>2, <1>4, LookIs
  <2>3. Removes(x)
    BY <2>1, <2>2, TakeOutIs
  <2>4. TableOf(buckets', num_buckets', Items \ {x}) /\ num_elements' = num_elements - 1
    BY <2>3 DEF Removes
  <2>5. IsFiniteSet(Items \ {x}) /\ Cardinality(Items \ {x}) = Cardinality(Items) - 1
    BY <1>2, CountIs
  <2> QED BY <1>1, <1>2, <2>4, <2>5, Keeps
<1> QED BY <1>3, <1>4

LEMMA FreeKeepsIInv == ASSUME IInv, HashTable_Free PROVE IInv'
<1>1. /\ iter' = NoIter /\ freed' = Items /\ open' = FALSE /\ UNCHANGED <<num_buckets, ret>>
      /\ num_elements' = 0 /\ buckets' = [b \in DOMAIN buckets |-> <<>>]
  BY DEF HashTable_Free
<1>2. Items \subseteq Item /\ DOMAIN buckets = 0..num_buckets - 1 /\ num_buckets \in Nat \ {0}
  BY KeysDiffer, ItemsAre DEF IInv, Sound, Hashed
<1>3. DOMAIN buckets' = 0..num_buckets - 1 /\ \A b \in 0..num_buckets - 1 : buckets'[b] = <<>>
  BY <1>1, <1>2
<1>4. TableOf(buckets', num_buckets', {})
  <2>1. buckets' \in [0..num_buckets - 1 -> Seq(Item)]
    BY <1>1, <1>2
  <2>2. \A b \in 0..num_buckets - 1 : DOMAIN buckets'[b] = {}
    BY <1>3
  <2>3. Hashed(buckets', num_buckets)
    BY <1>2, <2>1, <2>2 DEF Hashed
  <2>4. Contents(buckets') = {}
    BY <1>3 DEF Contents, Range
  <2> QED BY <1>1, <2>3, <2>4 DEF TableOf
<1>5. IsFiniteSet({}) /\ Cardinality({}) = 0
  BY FS_EmptySet
<1> QED BY <1>1, <1>2, <1>4, <1>5, Keeps DEF IInv, TypeOK

(* The item that an iterator points at.                                    *)
PointsAt(h) ==
  /\ h \in Items /\ h.key = iter.node /\ h.key \in Keys /\ HTIterator_IsValid /\ Look(iter.node) = Found(h)
  /\ FirstOf(Advanced, buckets, num_buckets, After(buckets, h))

LEMMA IterNode ==
  ASSUME IInv, iter # NoIter
  PROVE  IF iter.node = NULL THEN ~HTIterator_IsValid ELSE \E h : PointsAt(h)
<1>1. Hashed(buckets, num_buckets) /\ GoodIter(iter, buckets, num_buckets)
  BY DEF IInv, Sound
<1>2. CASE iter.node = NULL
  BY <1>2 DEF HTIterator_IsValid
<1>3. CASE iter.node # NULL
  <2>1. PICK h, i : At(buckets, h, iter.bucket_idx, i) /\ h.key = iter.node
    BY <1>1, <1>3 DEF GoodIter
  <2>2. h \in Items /\ h.key \in Keys
    BY <1>1, <2>1, Placed, PlaceIs, ItemsAre
  <2>3. HTIterator_IsValid
    BY <1>3, <2>2, CountIs DEF HTIterator_IsValid, IInv, Sound
  <2>4. Look(iter.node) = Found(h)
    <3>1. PICK x \in Items : x.key = iter.node /\ Look(iter.node) = Found(x)
      BY <1>1, <2>1, <2>2, LookIs
    <3> QED BY <1>1, <2>1, <2>2, <3>1, KeysDiffer, ItemsAre
  <2>5. FirstOf(Advanced, buckets, num_buckets, After(buckets, h))
    BY <1>1, <2>1, AdvancedIs
  <2> QED BY <1>3, <2>1, <2>2, <2>3, <2>4, <2>5 DEF PointsAt
<1> QED BY <1>2, <1>3

(* Where a new iterator stands.                                            *)
Starts == FirstOf(iter', buckets, num_buckets, Items)

LEMMA AllocateIs == ASSUME IInv, HTIterator_Allocate PROVE Starts /\ iter' # NoIter
<1>1. /\ Hashed(buckets, num_buckets) /\ num_buckets \in Nat \ {0} /\ num_elements = Cardinality(Items) /\ IsFiniteSet(Items)
      /\ Items = Contents(buckets)
  BY ItemsAre DEF IInv, Sound, Hashed
<1>2. ASSUME num_elements = 0 PROVE Starts
  <2>1. Items = {} /\ iter' = [bucket_idx |-> -1, node |-> NULL]
    BY <1>1, <1>2, CountIs DEF HTIterator_Allocate
  <2>2. -1 \in -1..num_buckets
    BY <1>1
  <2>3. iter' \in [bucket_idx : -1..num_buckets, node : Keys \cup {NULL}] /\ iter'.node = NULL
    BY <2>1, <2>2
  <2> QED BY <2>1, <2>3 DEF FirstOf, GoodIter, Starts
<1>3. ASSUME num_elements # 0 PROVE Starts
  <2>1. iter' = FirstFrom(0) /\ 0 \in 0..num_buckets
    BY <1>1, <1>3 DEF HTIterator_Allocate
  <2>2. {x \in Contents(buckets) : x.key % num_buckets >= 0} = Items
    <3>1. \A x \in Contents(buckets) : x.key \in Keys
      BY <1>1, KeysDiffer DEF Item
    <3>2. \A x \in Contents(buckets) : x.key % num_buckets >= 0
      BY <1>1, <3>1, BucketOf
    <3> QED BY <1>1, <3>2
  <2>3. FirstOf(FirstFrom(0), buckets, num_buckets, {x \in Contents(buckets) : x.key % num_buckets >= 0})
    BY <1>1, <2>1, FirstFromIs
  <2> QED BY <2>1, <2>2, <2>3 DEF Starts
<1>4. Starts
  BY <1>2, <1>3
<1>5. iter' \in [bucket_idx : -1..num_buckets, node : Keys \cup {NULL}]
  BY <1>4 DEF Starts, FirstOf, GoodIter
<1>6. -1..num_buckets \subseteq Int
  BY <1>1
<1>7. iter' \in [bucket_idx : Int, node : Keys \cup {NULL}]
  BY <1>5, <1>6
<1> QED BY <1>4, <1>7, NoIterAssumption

LEMMA IterStepsKeepIInv ==
  ASSUME IInv, HTIterator_Allocate \/ HTIterator_Free \/ HTIterator_Next \/ HTIterator_Get
  PROVE  IInv'
<1>1. /\ TableOf(buckets, num_buckets, Items) /\ IsFiniteSet(Items) /\ num_elements = Cardinality(Items)
      /\ iter # NoIter => GoodIter(iter, buckets, num_buckets)
  BY ItemsAre DEF IInv, Sound, TableOf
<1>2. UNCHANGED <<tableVars, freed, open>>
  BY DEF HTIterator_Allocate, HTIterator_Free, HTIterator_Next, HTIterator_Get
<1>3. ret' \in [ok : BOOLEAN, kv : Item \cup {NoItem}]
  <2>1. CASE HTIterator_Allocate \/ HTIterator_Free
    BY <2>1 DEF HTIterator_Allocate, HTIterator_Free, IInv, TypeOK
  <2>2. CASE HTIterator_Next
    BY <2>2 DEF HTIterator_Next
  <2>3. CASE HTIterator_Get
    <3>1. HTIterator_IsValid => iter.node \in Keys
      BY <2>3, IterNode DEF HTIterator_Get, PointsAt
    <3> QED BY <2>3, <3>1, LookIsTyped, ResultsAreTyped DEF HTIterator_Get
  <2> QED BY <2>1, <2>2, <2>3
<1>4. iter' # NoIter => GoodIter(iter', buckets, num_buckets)
  <2>1. CASE HTIterator_Allocate
    BY <2>1, AllocateIs DEF Starts, FirstOf
  <2>2. CASE HTIterator_Free
    BY <2>2 DEF HTIterator_Free
  <2>3. CASE HTIterator_Next
    <3>1. HTIterator_IsValid => GoodIter(Advanced, buckets, num_buckets)
      BY <2>3, IterNode DEF HTIterator_Next, PointsAt, FirstOf
    <3> QED BY <1>1, <2>3, <3>1 DEF HTIterator_Next
  <2>4. CASE HTIterator_Get
    BY <1>1, <2>4 DEF HTIterator_Get
  <2> QED BY <2>1, <2>2, <2>3, <2>4
<1> QED BY <1>1, <1>2, <1>3, <1>4, Keeps DEF IInv, TypeOK, tableVars

(* HTIterator_Remove moves on first, so that the node it frees is not the  *)
(* one it points at.                                                       *)
RemovesUnderIter(h) ==
  /\ PointsAt(h) /\ Removes(h) /\ iter' = Advanced /\ ret' = Found(h)
  /\ GoodIter(Advanced, buckets', num_buckets')

LEMMA IterRemoveIs ==
  ASSUME IInv, HTIterator_Remove
  PROVE  IF iter.node = NULL THEN ret' = NotFound /\ UNCHANGED <<tableVars, iter>>
         ELSE \E h : RemovesUnderIter(h)
<1>1. iter # NoIter
  BY DEF HTIterator_Remove
<1>2. CASE iter.node = NULL
  BY <1>1, <1>2, IterNode DEF HTIterator_Remove
<1>3. CASE iter.node # NULL
  <2>1. PICK h : PointsAt(h)
    BY <1>1, <1>3, IterNode
  <2>2. ret' = Found(h) /\ iter' = Advanced /\ TakeOut(iter.node) /\ h \in Items /\ h.key = iter.node /\ h.key \in Keys
    BY <2>1 DEF HTIterator_Remove, PointsAt
  <2>3. Removes(h)
    BY <2>2, TakeOutIs
  <2>4. GoodIter(Advanced, buckets', num_buckets')
    <3>1. /\ Hashed(buckets, num_buckets) /\ Hashed(buckets', num_buckets) /\ num_buckets' = num_buckets
          /\ Contents(buckets) = Items /\ Contents(buckets') = Items \ {h}
      BY <2>3, ItemsAre DEF IInv, Sound, Removes, TableOf
    <3>2. FirstOf(Advanced, buckets, num_buckets, After(buckets, h))
      BY <2>1 DEF PointsAt
    <3>3. GoodIter(Advanced, buckets, num_buckets)
      BY <3>2 DEF FirstOf
    <3>4. \A x \in Contents(buckets) : x.key = Advanced.node => x \in Contents(buckets')
      <4> SUFFICES ASSUME NEW x \in Contents(buckets), x.key = Advanced.node PROVE x # h
        BY <3>1
      <4>1. Advanced.node # NULL
        BY <3>1, KeysDiffer, KeysAssumption DEF Item
      <4>2. PICK y \in After(buckets, h) : Advanced.node = y.key
        BY <3>2, <4>1 DEF FirstOf
      <4>3. y = x
        BY <3>1, <4>2, KeysDiffer DEF After
      <4>4. BeforeIn(buckets, h, x) /\ ~BeforeIn(buckets, h, h)
        BY <2>2, <3>1, <4>2, <4>3, ItemsInARow DEF After, InARow
      <4> QED BY <4>4
    <3> QED BY <3>1, <3>3, <3>4, IterStays
  <2> QED BY <1>3, <2>1, <2>2, <2>3, <2>4 DEF RemovesUnderIter
<1> QED BY <1>2, <1>3

LEMMA IterRemoveKeepsIInv == ASSUME IInv, HTIterator_Remove PROVE IInv'
<1>1. /\ TableOf(buckets, num_buckets, Items) /\ IsFiniteSet(Items) /\ num_elements = Cardinality(Items)
      /\ iter # NoIter => GoodIter(iter, buckets, num_buckets)
  BY ItemsAre DEF IInv, Sound, TableOf
<1>2. UNCHANGED <<freed, open>> /\ freed \subseteq Item /\ open \in BOOLEAN
  BY DEF HTIterator_Remove, IInv, TypeOK
<1>3. CASE iter.node = NULL
  BY <1>1, <1>2, <1>3, IterRemoveIs, Keeps, ResultsAreTyped DEF tableVars
<1>4. CASE iter.node # NULL
  <2>1. PICK h : RemovesUnderIter(h)
    BY <1>4, IterRemoveIs
  <2>2. h \in Items /\ ret' = Found(h) /\ iter' = Advanced /\ GoodIter(iter', buckets', num_buckets')
        /\ TableOf(buckets', num_buckets', Items \ {h}) /\ num_elements' = num_elements - 1
    BY <2>1 DEF RemovesUnderIter, PointsAt, Removes
  <2>3. h \in Item
    BY <2>2, KeysDiffer, ItemsAre DEF IInv, Sound
  <2>4. IsFiniteSet(Items \ {h}) /\ Cardinality(Items \ {h}) = Cardinality(Items) - 1
    BY <1>1, <2>2, CountIs
  <2>5. ret' \in [ok : BOOLEAN, kv : Item \cup {NoItem}]
    BY <2>2, <2>3, ResultsAreTyped
  <2> QED BY <1>1, <1>2, <2>2, <2>4, <2>5, Keeps
<1> QED BY <1>3, <1>4

LEMMA StepIInv == IInv /\ [Next]_vars => IInv'
<1> SUFFICES ASSUME IInv, [Next]_vars PROVE IInv'
  OBVIOUS
<1>1. ASSUME NEW kv \in Item, HashTable_Insert(kv) PROVE IInv'
  BY <1>1, InsertKeepsIInv
<1>2. ASSUME NEW key \in Keys, HashTable_Find(key) PROVE IInv'
  BY <1>2, FindKeepsIInv
<1>3. ASSUME NEW key \in Keys, HashTable_Remove(key) PROVE IInv'
  BY <1>3, RemoveKeepsIInv
<1>4. CASE HTIterator_Allocate \/ HTIterator_Free \/ HTIterator_Next \/ HTIterator_Get
  BY <1>4, IterStepsKeepIInv
<1>5. CASE HTIterator_Remove
  BY <1>5, IterRemoveKeepsIInv
<1>6. CASE HashTable_Free
  BY <1>6, FreeKeepsIInv
<1>7. CASE UNCHANGED vars
  <2>1. UNCHANGED Items
    BY <1>7 DEF vars, tableVars, Items
  <2> QED BY <1>7, <2>1 DEF vars, tableVars, IInv, TypeOK, Sound
<1> QED BY <1>1, <1>2, <1>3, <1>4, <1>5, <1>6, <1>7 DEF Next

THEOREM Invariance == Spec => []IInv
  BY InitIInv, StepIInv, PTL DEF Spec

(* However often the table has grown, every item is in the chain where a   *)
(* lookup searches for it, under a key of its own, and the count is right. *)
THEOREM Consistent == Spec => []ItemsInTheirBuckets
<1>1. IInv => ItemsInTheirBuckets
  BY DEF IInv, Sound, Hashed, ItemsInTheirBuckets, HashKeyToBucketNum
<1> QED BY <1>1, Invariance, PTL

(* The node an iterator points at is never freed under it.                 *)
THEOREM IteratorSafe == Spec => []IteratorPointsIntoTable
<1>1. IInv => IteratorPointsIntoTable
  BY DEF IInv, Sound, GoodIter, At, IteratorPointsIntoTable
<1> QED BY <1>1, Invariance, PTL

-----------------------------------------------------------------------------
(* The refinement of KeyMap.  m maps the keys of these items to their      *)
(* values.                                                                 *)
MapOf(m, items) ==
  /\ DOMAIN m = {x.key : x \in items} /\ m = [k \in DOMAIN m |-> m[k]]
  /\ \A x \in items : m[x.key] = x.value

LEMMA OneMap ==
  ASSUME NEW items, NEW m, NEW o, MapOf(m, items), MapOf(o, items) PROVE m = o
<1>1. DOMAIN m = DOMAIN o /\ \A k \in DOMAIN m : m[k] = o[k]
  BY DEF MapOf
<1>2. m = [k \in DOMAIN m |-> m[k]] /\ o = [k \in DOMAIN o |-> o[k]]
  BY DEF MapOf
<1> QED BY <1>1, <1>2

(* What the abstract map and the keys still to be visited are.             *)
Mapped ==
  /\ MapOf(Pairs, Items)
  /\ Items \subseteq Item /\ \A x, y \in Items : x.key = y.key => x = y
  /\ iter = NoIter \/ iter.node = NULL => NodesAfter = {}
  /\ iter # NoIter => \A h \in Items : h.key = iter.node => NodesAfter = {z.key : z \in After(buckets, h)}

LEMMA MappedIs == IInv => Mapped
<1> SUFFICES ASSUME IInv PROVE Mapped
  OBVIOUS
<1>1. Hashed(buckets, num_buckets)
  BY DEF IInv, Sound
<1>2. Items \subseteq Item /\ \A x, y \in Items : x.key = y.key => x = y
  BY <1>1, KeysDiffer, ItemsAre
<1>3. ASSUME NEW x \in Items PROVE x.key \in Stored /\ Pairs[x.key] = x.value
  <2>1. x.key \in Keys
    BY <1>2 DEF Item
  <2>2. InsertFindHelper(x.key) # 0 /\ \E y \in Items : y.key = x.key /\ Look(x.key) = Found(y)
    BY <1>1, <2>1, LookIs
  <2>3. Look(x.key) = Found(x)
    BY <1>2, <2>2
  <2>4. x.key \in Stored
    BY <2>1, <2>2 DEF Stored
  <2> QED BY <2>3, <2>4 DEF Pairs, Found
<1>4. ASSUME NEW k \in Stored PROVE \E x \in Items : x.key = k
  BY <1>1, LookIs DEF Stored
<1>5. MapOf(Pairs, Items)
  <2>1. DOMAIN Pairs = Stored /\ Pairs = [k \in DOMAIN Pairs |-> Pairs[k]]
    BY DEF Pairs
  <2>2. Stored = {x.key : x \in Items}
    BY <1>3, <1>4
  <2> QED BY <1>3, <2>1, <2>2 DEF MapOf
<1>6. iter = NoIter \/ iter.node = NULL => NodesAfter = {}
  <2>1. \A x \in Items : x.key # NULL
    BY <1>2, KeysAssumption DEF Item
  <2> QED BY <2>1 DEF NodesAfter
<1>7. ASSUME iter # NoIter, NEW h \in Items, h.key = iter.node PROVE NodesAfter = {z.key : z \in After(buckets, h)}
  <2>1. {x \in Items : \E here \in Items : here.key = iter.node /\ Before(here, x)} = After(buckets, h)
    BY <1>2, <1>7, ItemsAre DEF After
  <2> QED BY <1>7, <2>1 DEF NodesAfter
<1> QED BY <1>2, <1>5, <1>6, <1>7 DEF Mapped

LEMMA FoundIs == ASSUME IInv, NEW x \in Items PROVE x.key \in DOMAIN Pairs /\ Promise!Found(x.key) = Found(x)
<1>1. x.key \in DOMAIN Pairs /\ Pairs[x.key] = x.value /\ x \in Item
  BY MappedIs DEF Mapped, MapOf
<1>2. x = [key |-> x.key, value |-> x.value]
  BY <1>1 DEF Item
<1> QED BY <1>1, <1>2 DEF Found, Promise!Found, Promise!Item

LEMMA NotFoundIs == Promise!NotFound = NotFound
  BY DEF NotFound, Promise!NotFound

(* What a lookup returns is what the map holds.                            *)
LEMMA LookIsPromised ==
  ASSUME IInv, NEW key \in Keys
  PROVE  /\ Look(key) = IF key \in DOMAIN Pairs THEN Promise!Found(key) ELSE Promise!NotFound
         /\ key \in DOMAIN Pairs <=> InsertFindHelper(key) # 0
<1>1. key \in DOMAIN Pairs <=> \E x \in Items : x.key = key
  BY MappedIs DEF Mapped, MapOf
<1> QED BY <1>1, LookIs, FoundIs, NotFoundIs DEF IInv, Sound

LEMMA Stops == ASSUME iter' = NoIter PROVE Promise!StopIterating
<1>1. (iter # NoIter)' = FALSE
  OBVIOUS
<1>2. Current' = NULL /\ NodesAfter' = {}
  BY DEF Current, NodesAfter
<1> QED BY <1>1, <1>2 DEF Promise!StopIterating

LEMMA ItemsBecome ==
  ASSUME NEW items, TableOf(buckets', num_buckets', items) PROVE Items' = items
  BY DEF Items, TableOf, Contents

LEMMA NextMap ==
  ASSUME IInv', NEW m, MapOf(m, Items') PROVE Pairs' = m
<1>1. Mapped'
  BY MappedIs, PTL
<1>2. MapOf(Pairs', Items')
  BY <1>1 DEF Mapped
<1> QED BY <1>2, OneMap

LEMMA InsertImplements ==
  ASSUME IInv, IInv', NEW kv \in Item, HashTable_Insert(kv)
  PROVE  Promise!Insert(kv.key, kv.value)
<1> DEFINE k == kv.key
           m == [j \in DOMAIN Pairs \cup {k} |-> IF j = k THEN kv.value ELSE Pairs[j]]
<1>1. open /\ UNCHANGED <<freed, open>> /\ Promise!StopIterating
  BY Stops DEF HashTable_Insert
<1>2. Mapped /\ MapOf(Pairs, Items)
  BY MappedIs DEF Mapped
<1>3. CASE InsertsNew(kv)
  <2>1. k \notin DOMAIN Pairs /\ \A x \in Items : x.key # k
    BY <1>2, <1>3 DEF InsertsNew, MapOf
  <2>2. ret' = Promise!NotFound
    BY <1>3, NotFoundIs DEF InsertsNew
  <2>3. Items' = Items \cup {kv}
    BY <1>3, ItemsBecome DEF InsertsNew
  <2>4. MapOf(m, Items \cup {kv})
    <3>1. DOMAIN m = {x.key : x \in Items \cup {kv}}
      BY <1>2 DEF MapOf
    <3>2. \A x \in Items \cup {kv} : m[x.key] = x.value
      BY <1>2, <2>1 DEF MapOf
    <3> QED BY <3>1, <3>2 DEF MapOf
  <2> HIDE DEF m
  <2>5. Pairs' = m
    BY <2>3, <2>4, NextMap
  <2> QED BY <1>1, <2>1, <2>2, <2>5 DEF Promise!Insert, m
<1>4. ASSUME NEW x \in Items, InsertsInPlaceOf(x, kv) PROVE Promise!Insert(kv.key, kv.value)
  <2>1. x.key = k /\ ret' = Found(x) /\ \A y \in Items : y.key = k => y = x
    BY <1>2, <1>4 DEF InsertsInPlaceOf, Mapped
  <2>2. k \in DOMAIN Pairs /\ ret' = Promise!Found(k)
    BY <2>1, FoundIs
  <2>3. Items' = (Items \ {x}) \cup {kv}
    BY <1>4, ItemsBecome DEF InsertsInPlaceOf
  <2>4. MapOf(m, (Items \ {x}) \cup {kv})
    <3>1. DOMAIN m = {y.key : y \in (Items \ {x}) \cup {kv}}
      <4>1. DOMAIN m = {y.key : y \in Items}
        BY <1>2, <2>2 DEF MapOf
      <4> HIDE DEF m
      <4> QED BY <2>1, <4>1
    <3>2. \A y \in (Items \ {x}) \cup {kv} : m[y.key] = y.value
      BY <1>2, <2>1 DEF MapOf
    <3> QED BY <3>1, <3>2 DEF MapOf
  <2> HIDE DEF m
  <2>5. Pairs' = m
    BY <2>3, <2>4, NextMap
  <2> QED BY <1>1, <2>2, <2>5 DEF Promise!Insert, m
<1> QED BY <1>3, <1>4, InsertIs

LEMMA FrameIs ==
  ASSUME IInv', UNCHANGED tableVars, IInv
  PROVE  Pairs' = Pairs /\ Items' = Items
<1>1. Items' = Items
  BY DEF tableVars, Items
<1>2. MapOf(Pairs, Items')
  BY <1>1, MappedIs DEF Mapped
<1> QED BY <1>1, <1>2, NextMap

LEMMA TodoStays ==
  ASSUME UNCHANGED tableVars, iter' = iter
  PROVE  NodesAfter' = NodesAfter /\ Current' = Current
  BY DEF tableVars, NodesAfter, Items, Before, Current

LEMMA FindImplements ==
  ASSUME IInv, IInv', NEW key \in Keys, HashTable_Find(key) PROVE Promise!Find(key)
<1>1. open /\ ret' = Look(key) /\ UNCHANGED <<tableVars, iter, freed, open>>
  BY DEF HashTable_Find
<1>2. Pairs' = Pairs /\ NodesAfter' = NodesAfter /\ Current' = Current
  BY <1>1, FrameIs, TodoStays
<1> QED BY <1>1, <1>2, LookIsPromised DEF Promise!Find

(* The pairs that are left.                                                *)
LEMMA PairsLeft ==
  ASSUME IInv, IInv', NEW x \in Items, Removes(x) PROVE Pairs' = Promise!Without(x.key) /\ Items' = Items \ {x}
<1> DEFINE m == [j \in DOMAIN Pairs \ {x.key} |-> Pairs[j]]
<1>1. Items' = Items \ {x}
  BY ItemsBecome DEF Removes
<1>2. Mapped
  BY MappedIs
<1>3. \A y \in Items : y.key = x.key <=> y = x
  BY <1>2 DEF Mapped
<1>4. MapOf(m, Items \ {x})
  <2>1. DOMAIN m = {y.key : y \in Items \ {x}}
    BY <1>2, <1>3 DEF Mapped, MapOf
  <2>2. \A y \in Items \ {x} : m[y.key] = y.value
    BY <1>2, <1>3 DEF Mapped, MapOf
  <2> QED BY <2>1, <2>2 DEF MapOf
<1> HIDE DEF m
<1>5. Pairs' = m
  BY <1>1, <1>4, NextMap
<1> QED BY <1>1, <1>5 DEF Promise!Without, m

(* Taking out a key that the map does not have changes nothing.            *)
LEMMA NothingLeft ==
  ASSUME IInv, NEW key, key \notin DOMAIN Pairs PROVE Promise!Without(key) = Pairs
<1>1. DOMAIN Pairs \ {key} = DOMAIN Pairs /\ Pairs = [k \in DOMAIN Pairs |-> Pairs[k]]
  BY MappedIs DEF Mapped, MapOf
<1> QED BY <1>1 DEF Promise!Without

LEMMA RemoveImplements ==
  ASSUME IInv, IInv', NEW key \in Keys, HashTable_Remove(key) PROVE Promise!Remove(key)
<1>1. open /\ ret' = Look(key) /\ UNCHANGED <<freed, open>> /\ Promise!StopIterating
  BY Stops DEF HashTable_Remove
<1>2. ret' = IF key \in DOMAIN Pairs THEN Promise!Found(key) ELSE Promise!NotFound
  BY <1>1, LookIsPromised
<1>3. Pairs' = Promise!Without(key)
  <2>1. CASE InsertFindHelper(key) = 0
    <3>1. UNCHANGED tableVars
      BY <2>1 DEF HashTable_Remove
    <3> QED BY <2>1, <3>1, FrameIs, LookIsPromised, NothingLeft
  <2>2. CASE InsertFindHelper(key) # 0
    <3>1. TakeOut(key)
      BY <2>2 DEF HashTable_Remove
    <3>2. PICK x \in Items : x.key = key
      BY <2>2, LookIs DEF IInv, Sound
    <3>3. Removes(x)
      BY <3>1, <3>2, TakeOutIs
    <3> QED BY <3>2, <3>3, PairsLeft
  <2> QED BY <2>1, <2>2
<1> QED BY <1>1, <1>2, <1>3 DEF Promise!Remove

(* Being at the first of the items S, with the others of S to come, is     *)
(* what the abstract iterator does.                                        *)
LEMMA MovesInto ==
  ASSUME IInv, IInv', iter' # NoIter, NEW S \in SUBSET Items, FirstOf(iter', buckets, num_buckets, S),
         \A x \in S : iter'.node = x.key => x \in Items' /\ After(buckets', x) = S \ {x}
  PROVE  Promise!MoveInto({z.key : z \in S})
<1> DEFINE K == {z.key : z \in S}
<1>1. Current' = iter'.node
  BY DEF Current
<1>2. Mapped /\ Mapped'
  BY MappedIs, PTL
<1>3. CASE S = {} /\ iter'.node = NULL
  <2>1. NodesAfter' = {} /\ K = {}
    BY <1>2, <1>3 DEF Mapped
  <2> QED BY <1>1, <1>3, <2>1 DEF Promise!MoveInto
<1>4. ASSUME NEW x \in S, iter'.node = x.key PROVE Promise!MoveInto(K)
  <2>1. x \in Items' /\ After(buckets', x) = S \ {x}
    BY <1>4
  <2>2. NodesAfter' = {z.key : z \in S \ {x}}
    BY <1>2, <1>4, <2>1 DEF Mapped
  <2>3. {z.key : z \in S \ {x}} = K \ {x.key}
    BY <1>2 DEF Mapped
  <2>4. x.key \in K
    OBVIOUS
  <2> HIDE DEF K
  <2> QED BY <1>1, <1>4, <2>2, <2>3, <2>4 DEF Promise!MoveInto
<1> QED BY <1>3, <1>4 DEF FirstOf

(* What follows the next item is what followed the last one, without it.   *)
LEMMA AfterNext ==
  ASSUME NEW bk, NEW n, Hashed(bk, n), NEW it, NEW h \in Contents(bk), FirstOf(it, bk, n, After(bk, h)),
         NEW x \in After(bk, h), it.node = x.key
  PROVE  After(bk, x) = After(bk, h) \ {x} /\ h \notin After(bk, x) /\ x # h
<1>1. InARow(bk)
  BY ItemsInARow
<1>2. x \in Contents(bk) /\ BeforeIn(bk, h, x)
  BY DEF After
<1>3. \A y \in After(bk, h) : y = x \/ BeforeIn(bk, x, y)
  <2>1. PICK z \in After(bk, h) : it.node = z.key /\ \A y \in After(bk, h) : y = z \/ BeforeIn(bk, z, y)
    BY DEF FirstOf
  <2>2. z = x
    BY <1>2, <2>1, KeysDiffer DEF After
  <2> QED BY <2>1, <2>2
<1> QED BY <1>1, <1>2, <1>3 DEF After, InARow

LEMMA AllocateImplements == ASSUME IInv, IInv', HTIterator_Allocate PROVE Promise!IterAllocate
<1>1. open /\ iter = NoIter /\ UNCHANGED <<tableVars, ret, freed, open>>
  BY DEF HTIterator_Allocate
<1>2. Starts /\ iter' # NoIter
  BY AllocateIs
<1>3. Pairs' = Pairs /\ Items' = Items /\ buckets' = buckets
  BY <1>1, FrameIs DEF tableVars
<1>4. Hashed(buckets, num_buckets) /\ Items = Contents(buckets) /\ InARow(buckets)
  BY ItemsAre, ItemsInARow DEF IInv, Sound
<1>5. ASSUME NEW x \in Items, iter'.node = x.key PROVE x \in Items' /\ After(buckets', x) = Items \ {x}
  <2>1. PICK z \in Items : iter'.node = z.key /\ \A y \in Items : y = z \/ BeforeIn(buckets, z, y)
    BY <1>2, <1>5 DEF Starts, FirstOf
  <2>2. z = x
    BY <1>4, <1>5, <2>1, KeysDiffer
  <2> QED BY <1>3, <1>4, <2>1, <2>2 DEF After, InARow
<1>6. Promise!MoveInto({z.key : z \in Items})
  BY <1>2, <1>5, MovesInto DEF Starts
<1>7. {z.key : z \in Items} = DOMAIN Pairs
  BY MappedIs DEF Mapped, MapOf
<1>8. (iter # NoIter)' = TRUE
  BY <1>2
<1> QED BY <1>1, <1>3, <1>6, <1>7, <1>8 DEF Promise!IterAllocate

LEMMA FreeIterImplements == ASSUME IInv, IInv', HTIterator_Free PROVE Promise!IterFree
<1>1. iter # NoIter /\ iter' = NoIter /\ UNCHANGED <<tableVars, ret, freed, open>>
  BY DEF HTIterator_Free
<1> QED BY <1>1, Stops, FrameIs DEF Promise!IterFree

(* An iterator past the end has nothing left to visit.                     *)
LEMMA PastTheEnd ==
  ASSUME IInv, iter # NoIter, iter.node = NULL, iter' = iter, UNCHANGED tableVars
  PROVE  /\ Current = NULL /\ NodesAfter = {} /\ Current' = NULL /\ NodesAfter' = {}
         /\ Promise!MoveInto(NodesAfter) /\ NULL \notin DOMAIN Pairs
<1>1. Current = NULL /\ NodesAfter = {}
  BY MappedIs DEF Current, Mapped
<1>2. Current' = NULL /\ NodesAfter' = {}
  BY <1>1, TodoStays
<1>3. NULL \notin DOMAIN Pairs
  BY MappedIs, KeysAssumption DEF Mapped, MapOf, Item
<1> QED BY <1>1, <1>2, <1>3 DEF Promise!MoveInto

(* An iterator at an item moves into the items after it.                   *)
LEMMA MovesOn ==
  ASSUME IInv, IInv', iter # NoIter, iter' = Advanced, NEW h, PointsAt(h),
         Removes(h) \/ UNCHANGED tableVars
  PROVE  Promise!MoveInto(NodesAfter) /\ Current = h.key /\ (iter # NoIter)' = TRUE
<1> DEFINE S == After(buckets, h)
<1>1. /\ h \in Items /\ h.key = iter.node /\ h.key \in Keys /\ FirstOf(iter', buckets, num_buckets, S)
      /\ Hashed(buckets, num_buckets) /\ Items = Contents(buckets)
  BY ItemsAre DEF PointsAt, IInv, Sound
<1>2. iter' # NoIter
  <2>1. iter' \in [bucket_idx : -1..num_buckets, node : Keys \cup {NULL}]
    BY <1>1 DEF FirstOf, GoodIter
  <2>2. -1..num_buckets \subseteq Int
    BY <1>1 DEF Hashed
  <2>3. iter' \in [bucket_idx : Int, node : Keys \cup {NULL}]
    BY <2>1, <2>2
  <2> QED BY <2>3, NoIterAssumption
<1>3. NodesAfter = {z.key : z \in S} /\ Current = h.key
  BY <1>1, MappedIs DEF Mapped, Current
<1>4. ASSUME NEW x \in S, iter'.node = x.key PROVE x \in Items' /\ After(buckets', x) = S \ {x}
  <2>1. After(buckets, x) = S \ {x} /\ h \notin After(buckets, x) /\ x # h /\ x \in Items
    BY <1>1, <1>4, AfterNext DEF After
  <2>2. CASE UNCHANGED tableVars
    BY <2>1, <2>2, FrameIs DEF tableVars
  <2>3. CASE Removes(h)
    <3>1. Items' = Items \ {h} /\ Contents(buckets') = Items \ {h}
      BY <1>1, <2>3, PairsLeft DEF Removes, TableOf
    <3>2. \A y, z \in Items \ {h} : BeforeIn(buckets', y, z) <=> BeforeIn(buckets, y, z)
      BY <2>3 DEF Removes
    <3>3. x \in Items \ {h}
      BY <2>1
    <3>4. After(buckets', x) = After(buckets, x)
      BY <1>1, <2>1, <3>1, <3>2, <3>3 DEF After
    <3> QED BY <2>1, <3>1, <3>3, <3>4
  <2> QED BY <2>2, <2>3
<1>5. S \in SUBSET Items
  BY <1>1 DEF After
<1> HIDE DEF S
<1>6. Promise!MoveInto({z.key : z \in S})
  BY <1>1, <1>2, <1>4, <1>5, MovesInto
<1> QED BY <1>2, <1>3, <1>6

LEMMA NextImplements == ASSUME IInv, IInv', HTIterator_Next PROVE Promise!IterNext
<1>1. /\ iter # NoIter /\ UNCHANGED <<tableVars, freed, open>>
      /\ iter' = IF HTIterator_IsValid THEN Advanced ELSE iter
      /\ ret' = [ok |-> HTIterator_IsValid /\ iter'.node # NULL, kv |-> NoItem]
  BY DEF HTIterator_Next
<1>2. Pairs' = Pairs
  BY <1>1, FrameIs
<1>3. CASE iter.node = NULL
  <2>1. ~HTIterator_IsValid /\ iter' = iter
    BY <1>1, <1>3, IterNode
  <2>2. Promise!MoveInto(NodesAfter) /\ Current' = NULL
    BY <1>1, <1>3, <2>1, PastTheEnd
  <2>3. ret' = [ok |-> Current' # NULL, kv |-> NoItem] /\ (iter # NoIter)' = (iter # NoIter)
    BY <1>1, <2>1, <2>2
  <2> QED BY <1>1, <1>2, <2>2, <2>3 DEF Promise!IterNext
<1>4. CASE iter.node # NULL
  <2>1. PICK h : PointsAt(h)
    BY <1>1, <1>4, IterNode
  <2>2. HTIterator_IsValid /\ iter' = Advanced
    BY <1>1, <2>1 DEF PointsAt
  <2>3. Promise!MoveInto(NodesAfter) /\ (iter # NoIter)' = TRUE
    BY <1>1, <2>1, <2>2, MovesOn
  <2>4. Current' = iter'.node
    BY <2>3 DEF Current
  <2>5. ret' = [ok |-> Current' # NULL, kv |-> NoItem]
    BY <1>1, <2>2, <2>4
  <2> QED BY <1>1, <1>2, <2>3, <2>5 DEF Promise!IterNext
<1> QED BY <1>3, <1>4

LEMMA GetImplements == ASSUME IInv, IInv', HTIterator_Get PROVE Promise!IterGet
<1>1. /\ iter # NoIter /\ UNCHANGED <<tableVars, iter, freed, open>>
      /\ ret' = IF HTIterator_IsValid THEN Look(iter.node) ELSE NotFound
  BY DEF HTIterator_Get
<1>2. Pairs' = Pairs /\ NodesAfter' = NodesAfter /\ Current' = Current /\ (iter # NoIter)' = (iter # NoIter)
  BY <1>1, FrameIs, TodoStays
<1>3. Current = iter.node
  BY <1>1 DEF Current
<1>4. ret' = IF Current = NULL THEN Promise!NotFound ELSE Promise!Found(Current)
  <2>1. CASE iter.node = NULL
    BY <1>1, <1>3, <2>1, IterNode, NotFoundIs
  <2>2. CASE iter.node # NULL
    <3>1. PICK h : PointsAt(h)
      BY <1>1, <2>2, IterNode
    <3> QED BY <1>1, <1>3, <2>2, <3>1, FoundIs DEF PointsAt
  <2> QED BY <2>1, <2>2
<1> QED BY <1>1, <1>2, <1>4 DEF Promise!IterGet

LEMMA IterRemoveImplements == ASSUME IInv, IInv', HTIterator_Remove PROVE Promise!IterRemove
<1>1. iter # NoIter /\ UNCHANGED <<freed, open>>
  BY DEF HTIterator_Remove
<1>2. Current = iter.node
  BY <1>1 DEF Current
<1>3. CASE iter.node = NULL
  <2>1. ret' = NotFound /\ UNCHANGED <<tableVars, iter>>
    BY <1>3, IterRemoveIs
  <2>2. Pairs' = Pairs /\ Promise!MoveInto(NodesAfter) /\ Current = NULL /\ NULL \notin DOMAIN Pairs
    BY <1>1, <1>3, <2>1, FrameIs, PastTheEnd
  <2>3. Pairs' = Promise!Without(Current)
    BY <2>2, NothingLeft
  <2>4. (iter # NoIter)' = (iter # NoIter)
    BY <2>1
  <2> QED BY <1>1, <2>1, <2>2, <2>3, <2>4, NotFoundIs DEF Promise!IterRemove
<1>4. CASE iter.node # NULL
  <2>1. PICK h : RemovesUnderIter(h)
    BY <1>4, IterRemoveIs
  <2>2. PointsAt(h) /\ Removes(h) /\ iter' = Advanced /\ ret' = Found(h) /\ h \in Items
    BY <2>1 DEF RemovesUnderIter, PointsAt
  <2>3. Promise!MoveInto(NodesAfter) /\ Current = h.key /\ (iter # NoIter)' = TRUE
    BY <1>1, <2>2, MovesOn
  <2>4. Pairs' = Promise!Without(Current)
    BY <2>2, <2>3, PairsLeft
  <2>5. ret' = Promise!Found(Current) /\ Current # NULL
    BY <1>2, <1>4, <2>2, <2>3, FoundIs
  <2> QED BY <1>1, <2>3, <2>4, <2>5 DEF Promise!IterRemove
<1> QED BY <1>3, <1>4

LEMMA FreeImplements == ASSUME IInv, IInv', HashTable_Free PROVE Promise!Free
<1>1. /\ open /\ open' = FALSE /\ freed' = Items /\ ret' = ret /\ Promise!StopIterating
      /\ buckets' = [b \in DOMAIN buckets |-> <<>>]
  BY Stops DEF HashTable_Free
<1>2. Items' = {}
  BY <1>1 DEF Items, Range
<1>3. Pairs' = [k \in {} |-> NULL]
  <2>1. MapOf([k \in {} |-> NULL], {})
    BY DEF MapOf
  <2> QED BY <1>2, <2>1, NextMap
<1>4. Items = {Promise!Item(k) : k \in DOMAIN Pairs}
  <2>1. DOMAIN Pairs = {x.key : x \in Items}
    BY MappedIs DEF Mapped, MapOf
  <2>2. \A x \in Items : Promise!Item(x.key) = x
    BY FoundIs DEF Promise!Found, Found
  <2> QED BY <2>1, <2>2
<1> QED BY <1>1, <1>3, <1>4 DEF Promise!Free

LEMMA RefinementInit == Init => Promise!MapInit
<1> SUFFICES ASSUME Init PROVE Promise!MapInit
  OBVIOUS
<1>1. PICK n \in InitialBuckets : buckets = [b \in 0..n - 1 |-> <<>>]
  BY DEF Init, HashTable_Allocate
<1>2. Items = {}
  BY <1>1 DEF Items, Range
<1>3. MapOf(Pairs, {})
  BY <1>2, InitIInv, MappedIs DEF Mapped
<1>4. Pairs = [k \in {} |-> NULL]
  <2>1. MapOf([k \in {} |-> NULL], {})
    BY DEF MapOf
  <2> QED BY <1>3, <2>1, OneMap
<1>5. Current = NULL /\ NodesAfter = {} /\ (iter # NoIter) = FALSE
  BY DEF Init, Current, NodesAfter
<1> QED BY <1>4, <1>5, NotFoundIs DEF Init, Promise!MapInit

LEMMA RefinementStep == IInv /\ IInv' /\ [Next]_vars => [Promise!MapNext]_(Promise!mapVars)
<1> SUFFICES ASSUME IInv, IInv', [Next]_vars PROVE [Promise!MapNext]_(Promise!mapVars)
  OBVIOUS
<1>1. ASSUME NEW kv \in Item, HashTable_Insert(kv) PROVE Promise!MapNext
  <2>1. kv.key \in Keys /\ kv.value \in Values
    BY DEF Item
  <2> QED BY <1>1, <2>1, InsertImplements DEF Promise!MapNext
<1>2. ASSUME NEW key \in Keys, HashTable_Find(key) PROVE Promise!MapNext
  BY <1>2, FindImplements DEF Promise!MapNext
<1>3. ASSUME NEW key \in Keys, HashTable_Remove(key) PROVE Promise!MapNext
  BY <1>3, RemoveImplements DEF Promise!MapNext
<1>4. ASSUME HTIterator_Allocate PROVE Promise!MapNext
  BY <1>4, AllocateImplements DEF Promise!MapNext
<1>5. ASSUME HTIterator_Free PROVE Promise!MapNext
  BY <1>5, FreeIterImplements DEF Promise!MapNext
<1>6. ASSUME HTIterator_Next PROVE Promise!MapNext
  BY <1>6, NextImplements DEF Promise!MapNext
<1>7. ASSUME HTIterator_Get PROVE Promise!MapNext
  BY <1>7, GetImplements DEF Promise!MapNext
<1>8. ASSUME HTIterator_Remove PROVE Promise!MapNext
  BY <1>8, IterRemoveImplements DEF Promise!MapNext
<1>9. ASSUME HashTable_Free PROVE Promise!MapNext
  BY <1>9, FreeImplements DEF Promise!MapNext
<1>10. ASSUME UNCHANGED vars PROVE UNCHANGED Promise!mapVars
  <2>1. UNCHANGED <<tableVars, iter, ret, freed, open>>
    BY <1>10 DEF vars
  <2>2. Pairs' = Pairs /\ NodesAfter' = NodesAfter /\ Current' = Current /\ (iter # NoIter)' = (iter # NoIter)
    BY <2>1, FrameIs, TodoStays
  <2> QED BY <2>1, <2>2 DEF Promise!mapVars
<1> QED BY <1>1, <1>2, <1>3, <1>4, <1>5, <1>6, <1>7, <1>8, <1>9, <1>10 DEF Next

(* The table is the map that HashTable.h promises: a resize cannot be      *)
(* noticed, and an iterator visits each pair exactly once, whether it      *)
(* removes some on its way or not.                                         *)
THEOREM Implements == Spec => ImplementsMap
<1>1. ImplementsMap <=> Promise!MapSpec
  BY DEF ImplementsMap
<1> QED BY <1>1, Invariance, RefinementInit, RefinementStep, PTL DEF Spec, Promise!MapSpec
=============================================================================
