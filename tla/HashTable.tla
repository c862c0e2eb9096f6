----------------------------- MODULE HashTable -----------------------------
(***************************************************************************)
(* hw1/HashTable.c: chained buckets that grow, and an iterator that walks  *)
(* them.  A chain is the sequence that LinkedList.h promises (PayloadList  *)
(* and LinkedList are about that).  An iterator points at a node, which is *)
(* named by its key.                                                       *)
(***************************************************************************)
EXTENDS Integers, SequencesExt, FiniteSetsExt, Functions

CONSTANTS Keys,            \* the keys, natural numbers
          Values,
          InitialBuckets,  \* the arguments of HashTable_Allocate
          NULL,            \* no node
          NoIter,          \* no iterator, or one that a change made undefined
          NoItem           \* no (key,value) is returned

ASSUME KeysAssumption == Keys \subseteq Nat /\ NULL \notin Keys
ASSUME BucketsAssumption == InitialBuckets \subseteq Nat \ {0}
ASSUME NoIterAssumption == NoIter \notin [bucket_idx : Int, node : Keys \cup {NULL}]

VARIABLES
  num_buckets, num_elements, buckets,  \* the HashTable record
  iter,   \* the HTIterator: bucket_idx and the node of bucket_it
  ret,    \* what the last call returned
  freed,  \* the values given to the value_free_function
  open    \* between HashTable_Allocate and HashTable_Free

tableVars == <<num_buckets, num_elements, buckets>>
vars == <<tableVars, iter, ret, freed, open>>

Item == [key : Keys, value : Values]
NotFound == [ok |-> FALSE, kv |-> NoItem]
Found(kv) == [ok |-> TRUE, kv |-> kv]

HashTable_Allocate(n) ==
  /\ num_buckets = n /\ num_elements = 0
  /\ buckets = [b \in 0..n - 1 |-> <<>>]

Init ==
  /\ \E n \in InitialBuckets : HashTable_Allocate(n)
  /\ iter = NoIter /\ ret = NotFound /\ freed = {} /\ open = TRUE

-----------------------------------------------------------------------------
HashKeyToBucketNum(key) == key % num_buckets

Chain(key) == buckets[HashKeyToBucketNum(key)]

(* The position of key in a chain, 0 if it is not there. *)
PlaceIn(chain, key) == SelectInSeq(chain, LAMBDA kv : kv.key = key)

InsertFindHelper(key) == PlaceIn(Chain(key), key)

Look(key) ==
  LET i == InsertFindHelper(key) IN IF i = 0 THEN NotFound ELSE Found(Chain(key)[i])

Items == UNION {Range(buckets[b]) : b \in DOMAIN buckets}

(* The order in which an iterator visits them.                             *)
Before(kv, other) ==
  \E b, c \in DOMAIN buckets : \E i \in DOMAIN buckets[b], j \in DOMAIN buckets[c] :
    buckets[b][i] = kv /\ buckets[c][j] = other /\ (b < c \/ (b = c /\ i < j))

InOrder(items) == CHOOSE s \in SetToSeqs(items) : \A k, l \in DOMAIN s : k < l => Before(s[k], s[l])

(* The load is compared before it is known whether the key is new; the     *)
(* items are inserted into the larger table in the iterator's order.       *)
Grown == IF num_elements < 3 * num_buckets THEN num_buckets ELSE num_buckets * 9

FaultyMaybeResize(n) == [b \in 0..n - 1 |-> IF b < num_buckets THEN buckets[b] ELSE <<>>]

MaybeResize(n) ==
  IF n = num_buckets THEN buckets
  ELSE [b \in 0..n - 1 |-> InOrder({kv \in Items : kv.key % n = b})]

HashTable_Insert(kv) ==
  /\ open
  /\ num_buckets' = Grown
  /\ LET resized == MaybeResize(Grown)
         b == kv.key % Grown
         i == PlaceIn(resized[b], kv.key)
     IN IF i = 0
        THEN /\ buckets' = [resized EXCEPT ![b] = Append(@, kv)]
             /\ num_elements' = num_elements + 1
             /\ ret' = NotFound
        ELSE /\ buckets' = [resized EXCEPT ![b][i].value = kv.value]
             /\ UNCHANGED num_elements
             /\ ret' = Found(resized[b][i])
  /\ iter' = NoIter
  /\ UNCHANGED <<freed, open>>

HashTable_Find(key) ==
  /\ open
  /\ ret' = Look(key)
  /\ UNCHANGED <<tableVars, iter, freed, open>>

TakeOut(key) ==
  /\ buckets' = [buckets EXCEPT ![HashKeyToBucketNum(key)] = RemoveAt(@, InsertFindHelper(key))]
  /\ num_elements' = num_elements - 1
  /\ UNCHANGED num_buckets

HashTable_Remove(key) ==
  /\ open
  /\ ret' = Look(key)
  /\ IF InsertFindHelper(key) = 0 THEN UNCHANGED tableVars ELSE TakeOut(key)
  /\ iter' = NoIter
  /\ UNCHANGED <<freed, open>>

HashTable_Free ==
  /\ open /\ open' = FALSE
  /\ freed' = Items
  /\ num_elements' = 0 /\ buckets' = [b \in DOMAIN buckets |-> <<>>]
  /\ iter' = NoIter
  /\ UNCHANGED <<num_buckets, ret>>

-----------------------------------------------------------------------------
(* Where the iterator stands at the first node of the first chain that is  *)
(* not empty, from bucket b on.                                            *)
FirstFrom(b) ==
  LET full == {i \in b..num_buckets - 1 : buckets[i] # <<>>} IN
  IF full = {} THEN [bucket_idx |-> num_buckets, node |-> NULL]
  ELSE [bucket_idx |-> Min(full), node |-> buckets[Min(full)][1].key]

HTIterator_Allocate ==
  /\ open /\ iter = NoIter
  /\ iter' = IF num_elements = 0 THEN [bucket_idx |-> -1, node |-> NULL] ELSE FirstFrom(0)
  /\ UNCHANGED <<tableVars, ret, freed, open>>

HTIterator_Free ==
  /\ iter # NoIter
  /\ iter' = NoIter
  /\ UNCHANGED <<tableVars, ret, freed, open>>

HTIterator_IsValid == num_elements > 0 /\ iter.node # NULL

FaultyAdvanced ==
  LET chain == buckets[iter.bucket_idx]
      i == InsertFindHelper(iter.node)
  IN IF i < Len(chain) THEN [iter EXCEPT !.node = chain[i + 1].key]
     ELSE FirstFrom(iter.bucket_idx + 2)

Advanced ==
  LET chain == buckets[iter.bucket_idx]
      i == InsertFindHelper(iter.node)
  IN IF i < Len(chain) THEN [iter EXCEPT !.node = chain[i + 1].key]
     ELSE FirstFrom(iter.bucket_idx + 1)

HTIterator_Next ==
  /\ iter # NoIter
  /\ iter' = IF HTIterator_IsValid THEN Advanced ELSE iter
  /\ ret' = [ok |-> HTIterator_IsValid /\ iter'.node # NULL, kv |-> NoItem]
  /\ UNCHANGED <<tableVars, freed, open>>

HTIterator_Get ==
  /\ iter # NoIter
  /\ ret' = IF HTIterator_IsValid THEN Look(iter.node) ELSE NotFound
  /\ UNCHANGED <<tableVars, iter, freed, open>>

FaultyHTIterator_Remove ==
  /\ iter # NoIter
  /\ IF HTIterator_IsValid
     THEN ret' = Look(iter.node) /\ TakeOut(iter.node) /\ UNCHANGED iter
     ELSE ret' = NotFound /\ UNCHANGED <<tableVars, iter>>
  /\ UNCHANGED <<freed, open>>

(* The iterator is moved before the node is taken out. *)
HTIterator_Remove ==
  /\ iter # NoIter
  /\ IF HTIterator_IsValid
     THEN ret' = Look(iter.node) /\ iter' = Advanced /\ TakeOut(iter.node)
     ELSE ret' = NotFound /\ UNCHANGED <<tableVars, iter>>
  /\ UNCHANGED <<freed, open>>

Next ==
  \/ \E kv \in Item : HashTable_Insert(kv)
  \/ \E key \in Keys : HashTable_Find(key) \/ HashTable_Remove(key)
  \/ HTIterator_Allocate \/ HTIterator_Free \/ HTIterator_Next \/ HTIterator_Get \/ HTIterator_Remove
  \/ HashTable_Free
  \/ ~open /\ UNCHANGED vars

Spec == Init /\ [][Next]_vars

-----------------------------------------------------------------------------
TypeOK ==
  /\ num_buckets \in Nat \ {0} /\ num_elements \in Nat
  /\ buckets \in [0..num_buckets - 1 -> Seq(Item)]
  /\ iter = NoIter \/ iter \in [bucket_idx : -1..num_buckets, node : Keys \cup {NULL}]
  /\ ret \in [ok : BOOLEAN, kv : Item \cup {NoItem}]
  /\ freed \subseteq Item /\ open \in BOOLEAN

(* Every item is in the chain where a lookup searches for it, under a key  *)
(* of its own, across every resize; and the count is right, which the      *)
(* iterator relies on to know that the table is empty.                     *)
ItemsInTheirBuckets ==
  /\ TypeOK
  /\ \A b \in DOMAIN buckets : \A i \in DOMAIN buckets[b] :
       /\ HashKeyToBucketNum(buckets[b][i].key) = b
       /\ \A j \in DOMAIN buckets[b] : buckets[b][i].key = buckets[b][j].key => i = j
  /\ num_elements = Cardinality(Items)

(* The iterator never points at a node that was freed.                     *)
IteratorPointsIntoTable ==
  iter # NoIter => iter.node = NULL \/ \E i \in DOMAIN buckets[iter.bucket_idx] : buckets[iter.bucket_idx][i].key = iter.node

Stored == {k \in Keys : InsertFindHelper(k) # 0}
Pairs == [k \in Stored |-> Look(k).kv.value]

Current == IF iter = NoIter THEN NULL ELSE iter.node

NodesAfter ==
  IF iter = NoIter THEN {}
  ELSE {kv.key : kv \in {x \in Items : \E here \in Items : here.key = iter.node /\ Before(here, x)}}

(* The table is the map that HashTable.h promises, resizing is invisible,  *)
(* and the iterator visits each pair exactly once, also when it removes.   *)
Promise == INSTANCE KeyMap WITH
  map <- Pairs, iterating <- iter # NoIter, cur <- Current, todo <- NodesAfter

ImplementsMap == Promise!MapSpec
=============================================================================
