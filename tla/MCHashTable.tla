---------------------------- MODULE MCHashTable ----------------------------
(* The instance of HashTable for TLC: keys that collide before and after    *)
(* the table has grown from 1 to 9 buckets.                                 *)
EXTENDS HashTable, TLC

CollidingKeys == {0, 1, 9, 18}
Interchangeable == Permutations(Values)
=============================================================================
