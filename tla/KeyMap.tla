------------------------------- MODULE KeyMap -------------------------------
(***************************************************************************)
(* What HashTable.h promises: a map from keys to values, and an iterator   *)
(* that visits each pair exactly once, in no order in particular.          *)
(***************************************************************************)
EXTENDS Integers, FiniteSets

CONSTANTS Keys, Values,
          NULL,   \* no key
          NoItem  \* no (key,value) is returned

VARIABLES
  map,        \* the table's pairs
  iterating,  \* there is an iterator, and the table has not been changed
  cur,        \* the key it points at, NULL past the end
  todo,       \* the keys it has still to visit after cur
  ret,        \* what the last call returned
  freed,      \* the values given to the value_free_function
  open        \* between Allocate and Free

mapVars == <<map, iterating, cur, todo, ret, freed, open>>

Item(k) == [key |-> k, value |-> map[k]]
Found(k) == [ok |-> TRUE, kv |-> Item(k)]
NotFound == [ok |-> FALSE, kv |-> NoItem]
Without(k) == [j \in DOMAIN map \ {k} |-> map[j]]

MapInit ==
  /\ map = [k \in {} |-> NULL]
  /\ iterating = FALSE /\ cur = NULL /\ todo = {}
  /\ ret = NotFound /\ freed = {} /\ open = TRUE

StopIterating == iterating' = FALSE /\ cur' = NULL /\ todo' = {}

Insert(k, v) ==
  /\ open
  /\ map' = [j \in DOMAIN map \cup {k} |-> IF j = k THEN v ELSE map[j]]
  /\ ret' = IF k \in DOMAIN map THEN Found(k) ELSE NotFound
  /\ StopIterating /\ UNCHANGED <<freed, open>>

Find(k) ==
  /\ open
  /\ ret' = IF k \in DOMAIN map THEN Found(k) ELSE NotFound
  /\ UNCHANGED <<map, iterating, cur, todo, freed, open>>

Remove(k) ==
  /\ open
  /\ map' = Without(k)
  /\ ret' = IF k \in DOMAIN map THEN Found(k) ELSE NotFound
  /\ StopIterating /\ UNCHANGED <<freed, open>>

(* The iterator moves to one of the keys of S, if there is one. *)
MoveInto(S) ==
  /\ \/ S = {} /\ cur' = NULL
     \/ cur' \in S
  /\ todo' = S \ {cur'}

IterAllocate ==
  /\ open /\ ~iterating
  /\ iterating' = TRUE /\ MoveInto(DOMAIN map)
  /\ UNCHANGED <<map, ret, freed, open>>

IterFree == iterating /\ StopIterating /\ UNCHANGED <<map, ret, freed, open>>

IterNext ==
  /\ iterating
  /\ MoveInto(todo)
  /\ ret' = [ok |-> cur' # NULL, kv |-> NoItem]
  /\ UNCHANGED <<map, iterating, freed, open>>

IterGet ==
  /\ iterating
  /\ ret' = IF cur = NULL THEN NotFound ELSE Found(cur)
  /\ UNCHANGED <<map, iterating, cur, todo, freed, open>>

IterRemove ==
  /\ iterating
  /\ ret' = IF cur = NULL THEN NotFound ELSE Found(cur)
  /\ map' = Without(cur)
  /\ MoveInto(todo)
  /\ UNCHANGED <<iterating, freed, open>>

Free ==
  /\ open /\ open' = FALSE
  /\ freed' = {Item(k) : k \in DOMAIN map}
  /\ map' = [k \in {} |-> NULL]
  /\ StopIterating /\ UNCHANGED ret

MapNext ==
  \/ \E k \in Keys, v \in Values : Insert(k, v)
  \/ \E k \in Keys : Find(k) \/ Remove(k)
  \/ IterAllocate \/ IterFree \/ IterNext \/ IterGet \/ IterRemove \/ Free

MapSpec == MapInit /\ [][MapNext]_mapVars
=============================================================================
