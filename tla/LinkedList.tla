----------------------------- MODULE LinkedList -----------------------------
(***************************************************************************)
(* hw1/LinkedList.c at the level of its heap cells: one list, its nodes    *)
(* and one iterator over it.  The program is sequential: a call is one     *)
(* step, except LinkedList_Sort, whose loop takes a step per comparison.   *)
(*                                                                         *)
(* A customer pushes payloads it owns, and as LinkedList.h asks, uses an   *)
(* iterator only while no LinkedList function has changed the list.        *)
(***************************************************************************)
EXTENDS Integers, Functions, SequencesExt

CONSTANTS Node,    \* the heap's cells for nodes
          Payload, \* the payloads a customer puts into lists
          Key,     \* what the customer's comparator compares
          NULL,    \* the null pointer
          NoIter   \* no iterator, or one that a mutation made undefined

ASSUME KeyAssumption == Key \in [Payload -> Int]
ASSUME PointerAssumption == NULL \notin Node /\ NoIter \notin Node /\ NoIter # NULL

VARIABLES
  allocated,            \* the cells that malloc returned and free did not get
  payload, next, prev,  \* the contents of the cells
  head, tail, num_elements,  \* the LinkedList record
  iter,                 \* the LLIterator's node
  mine,                 \* the payloads the customer owns
  freed,                \* those passed to the payload_free_function
  out,                  \* the payload last returned through a payload_ptr
  open,                 \* between LinkedList_Allocate and LinkedList_Free
  curnode, swapped, ascending,  \* LinkedList_Sort's
  nodes,                \* history: the list's nodes in order
  unsorted              \* history: the payloads when the sort began

cellVars == <<allocated, payload, next, prev>>
listVars == <<head, tail, num_elements, nodes>>
userVars == <<mine, freed, out, open>>
sortVars == <<curnode, swapped, ascending, unsorted>>
vars == <<cellVars, listVars, iter, userVars, sortVars>>

Pointer == Node \cup {NULL}

(* What a freed cell holds is forgotten: no call may depend on it.         *)
Init ==
  /\ allocated = {}
  /\ payload = [n \in Node |-> NULL] /\ next = [n \in Node |-> NULL] /\ prev = [n \in Node |-> NULL]
  /\ head = NULL /\ tail = NULL /\ num_elements = 0 /\ nodes = <<>>
  /\ iter = NoIter
  /\ mine = Payload /\ freed = {} /\ out \in Payload /\ open = TRUE
  /\ curnode = NULL /\ swapped = FALSE /\ ascending = FALSE /\ unsorted = <<>>

Contents == [i \in DOMAIN nodes |-> payload[nodes[i]]]

Sorting == curnode # NULL
Calling == open /\ ~Sorting

(* free(n), while the pointers are set to nxt and prv and n's payload goes. *)
FreeNode(n, nxt, prv) ==
  /\ allocated' = allocated \ {n}
  /\ payload' = [payload EXCEPT ![n] = NULL]
  /\ next' = [nxt EXCEPT ![n] = NULL]
  /\ prev' = [prv EXCEPT ![n] = NULL]

-----------------------------------------------------------------------------
FaultyPush(p) ==
  /\ Calling /\ p \in mine
  /\ \E ln \in Node \ allocated :
       /\ allocated' = allocated \cup {ln}
       /\ payload' = [payload EXCEPT ![ln] = p]
       /\ next' = [next EXCEPT ![ln] = head]
       /\ prev' = [prev EXCEPT ![ln] = NULL]
       /\ head' = ln
       /\ tail' = IF num_elements = 0 THEN ln ELSE tail
       /\ nodes' = <<ln>> \o nodes
  /\ num_elements' = num_elements + 1
  /\ iter' = NoIter /\ mine' = mine \ {p}
  /\ UNCHANGED <<freed, out, open, sortVars>>

LinkedList_Push(p) ==
  /\ Calling /\ p \in mine
  /\ \E ln \in Node \ allocated :
       /\ allocated' = allocated \cup {ln}
       /\ payload' = [payload EXCEPT ![ln] = p]
       /\ next' = [next EXCEPT ![ln] = IF num_elements = 0 THEN NULL ELSE head]
       /\ prev' = [prev EXCEPT ![ln] = NULL,
                               ![IF num_elements = 0 THEN ln ELSE head] = IF num_elements = 0 THEN NULL ELSE ln]
       /\ head' = ln
       /\ tail' = IF num_elements = 0 THEN ln ELSE tail
       /\ nodes' = <<ln>> \o nodes
  /\ num_elements' = num_elements + 1
  /\ iter' = NoIter /\ mine' = mine \ {p}
  /\ UNCHANGED <<freed, out, open, sortVars>>

(* The new node is linked and then freed: its cell may be handed out       *)
(* again, and the allocator writes over its first two words.               *)
LinkedList_Append(p) ==
  /\ Calling /\ p \in mine
  /\ \E ln \in Node \ allocated, junk \in Payload, link \in Pointer :
       /\ UNCHANGED allocated
       /\ payload' = [payload EXCEPT ![ln] = junk]
       /\ IF head = NULL
          THEN /\ head' = ln
               /\ next' = [next EXCEPT ![ln] = link]
               /\ prev' = [prev EXCEPT ![ln] = NULL]
          ELSE /\ UNCHANGED head
               /\ next' = [next EXCEPT ![tail] = ln, ![ln] = link]
               /\ prev' = [prev EXCEPT ![ln] = tail]
       /\ tail' = ln
       /\ nodes' = Append(nodes, ln)
  /\ num_elements' = num_elements + 1
  /\ iter' = NoIter /\ mine' = mine \ {p}
  /\ UNCHANGED <<freed, out, open, sortVars>>

(* The list without its first node, which is freed. *)
DropHead ==
  /\ head' = IF num_elements = 1 THEN NULL ELSE next[head]
  /\ tail' = IF num_elements = 1 THEN NULL ELSE tail
  /\ FreeNode(head, next, IF num_elements = 1 THEN prev ELSE [prev EXCEPT ![next[head]] = NULL])
  /\ num_elements' = num_elements - 1
  /\ nodes' = Tail(nodes)

LinkedList_Pop ==
  /\ Calling /\ head # NULL
  /\ DropHead
  /\ out' = payload[head] /\ mine' = mine \cup {payload[head]}
  /\ iter' = NoIter
  /\ UNCHANGED <<freed, open, sortVars>>

DropTail ==
  /\ IF head = tail
     THEN head' = NULL /\ tail' = NULL /\ num_elements' = 0 /\ FreeNode(head, next, prev)
     ELSE /\ tail' = prev[tail] /\ UNCHANGED head
          /\ num_elements' = num_elements - 1
          /\ FreeNode(tail, [next EXCEPT ![prev[tail]] = NULL], prev)
  /\ nodes' = Front(nodes)

LinkedList_Slice ==
  /\ Calling /\ head # NULL
  /\ DropTail
  /\ out' = payload[tail] /\ mine' = mine \cup {payload[tail]}
  /\ iter' = NoIter
  /\ UNCHANGED <<freed, open, sortVars>>

(* Free walks the chain, which by WellLinked is nodes; each payload goes to *)
(* the payload_free_function with its node.                                *)
LinkedList_Free ==
  /\ Calling
  /\ allocated' = allocated \ Range(nodes)
  /\ freed' = freed \cup {payload[n] : n \in Range(nodes)}
  /\ payload' = [n \in Node |-> NULL] /\ next' = [n \in Node |-> NULL] /\ prev' = [n \in Node |-> NULL]
  /\ head' = NULL /\ tail' = NULL /\ num_elements' = 0 /\ nodes' = <<>>
  /\ iter' = NoIter /\ open' = FALSE
  /\ UNCHANGED <<mine, out, sortVars>>

-----------------------------------------------------------------------------
(* LinkedList_Sort is a bubble sort that swaps payloads.                   *)
SortBegin(asc) ==
  /\ Calling /\ num_elements >= 2
  /\ curnode' = head /\ swapped' = FALSE /\ ascending' = asc
  /\ unsorted' = Contents
  /\ iter' = NoIter
  /\ UNCHANGED <<cellVars, listVars, userVars>>

FaultyOutOfOrder(p, q) == IF ascending THEN Key[p] >= Key[q] ELSE Key[p] < Key[q]

OutOfOrder(p, q) == IF ascending THEN Key[p] > Key[q] ELSE Key[p] < Key[q]

SortCompare ==
  /\ Sorting /\ next[curnode] # NULL
  /\ LET p == payload[curnode]  q == payload[next[curnode]] IN
       IF OutOfOrder(p, q)
       THEN payload' = [payload EXCEPT ![curnode] = q, ![next[curnode]] = p] /\ swapped' = TRUE
       ELSE UNCHANGED <<payload, swapped>>
  /\ curnode' = next[curnode]
  /\ UNCHANGED <<allocated, next, prev, listVars, iter, userVars, ascending, unsorted>>

FaultySortPassEnds ==
  /\ Sorting /\ next[curnode] = NULL
  /\ curnode' = NULL /\ unsorted' = <<>>
  /\ swapped' = FALSE
  /\ UNCHANGED <<cellVars, listVars, iter, userVars, ascending>>

SortPassEnds ==
  /\ Sorting /\ next[curnode] = NULL
  /\ IF swapped THEN curnode' = head /\ UNCHANGED unsorted ELSE curnode' = NULL /\ unsorted' = <<>>
  /\ swapped' = FALSE
  /\ UNCHANGED <<cellVars, listVars, iter, userVars, ascending>>

-----------------------------------------------------------------------------
LLIterator_Allocate ==
  /\ Calling /\ iter = NoIter
  /\ iter' = head
  /\ UNCHANGED <<cellVars, listVars, userVars, sortVars>>

LLIterator_Free ==
  /\ iter # NoIter
  /\ iter' = NoIter
  /\ UNCHANGED <<cellVars, listVars, userVars, sortVars>>

LLIterator_IsValid == iter \notin {NoIter, NULL}

LLIterator_Next ==
  /\ LLIterator_IsValid
  /\ iter' = next[iter]
  /\ UNCHANGED <<cellVars, listVars, userVars, sortVars>>

LLIterator_Get ==
  /\ LLIterator_IsValid
  /\ out' = payload[iter]
  /\ UNCHANGED <<cellVars, listVars, iter, mine, freed, open, sortVars>>

LLIterator_Rewind ==
  /\ iter # NoIter
  /\ iter' = head
  /\ UNCHANGED <<cellVars, listVars, userVars, sortVars>>

(* The node the iterator points at is unlinked, in the middle of the list. *)
Unlink(n) ==
  /\ FreeNode(n, [next EXCEPT ![prev[n]] = next[n]], [prev EXCEPT ![next[n]] = prev[n]])
  /\ num_elements' = num_elements - 1
  /\ \E k \in DOMAIN nodes : nodes[k] = n /\ nodes' = RemoveAt(nodes, k)
  /\ UNCHANGED <<head, tail>>

RemoveOnly ==
  /\ num_elements = 1
  /\ head' = NULL /\ tail' = NULL /\ num_elements' = 0 /\ nodes' = <<>>
  /\ FreeNode(iter, next, prev)
  /\ iter' = NULL

RemoveHead == num_elements # 1 /\ iter = head /\ DropHead /\ iter' = head'

FaultyRemoveTail == num_elements # 1 /\ iter # head /\ iter = tail /\ DropTail /\ UNCHANGED iter

RemoveTail == num_elements # 1 /\ iter # head /\ iter = tail /\ DropTail /\ iter' = tail'

RemoveInner == num_elements # 1 /\ iter # head /\ iter # tail /\ Unlink(iter) /\ iter' = next[iter]

LLIterator_Remove ==
  /\ LLIterator_IsValid
  /\ RemoveOnly \/ RemoveHead \/ RemoveTail \/ RemoveInner
  /\ freed' = freed \cup {payload[iter]}
  /\ UNCHANGED <<mine, out, open, sortVars>>

Next ==
  \/ \E p \in Payload : LinkedList_Push(p)
  \/ LinkedList_Pop \/ LinkedList_Slice \/ LinkedList_Free
  \/ \E asc \in BOOLEAN : SortBegin(asc)
  \/ SortCompare \/ SortPassEnds
  \/ LLIterator_Allocate \/ LLIterator_Free \/ LLIterator_Next \/ LLIterator_Get
  \/ LLIterator_Rewind \/ LLIterator_Remove
  \/ ~open /\ UNCHANGED vars

(* LinkedList_Append is apart: what it leaves behind is no list.           *)
Spec == Init /\ [][Next]_vars
FairSpec == Spec /\ WF_vars(SortCompare) /\ WF_vars(SortPassEnds)
AppendSpec == Init /\ [][Next \/ \E p \in Payload : LinkedList_Append(p)]_vars

-----------------------------------------------------------------------------
TypeOK ==
  /\ allocated \in SUBSET Node
  /\ payload \in [Node -> Payload \cup {NULL}] /\ next \in [Node -> Pointer] /\ prev \in [Node -> Pointer]
  /\ head \in Pointer /\ tail \in Pointer /\ num_elements \in Nat
  /\ iter \in Pointer \cup {NoIter}
  /\ mine \in SUBSET Payload /\ freed \in SUBSET Payload /\ out \in Payload /\ open \in BOOLEAN
  /\ curnode \in Pointer /\ swapped \in BOOLEAN /\ ascending \in BOOLEAN
  /\ nodes \in Seq(Node) /\ unsorted \in Seq(Payload)

(* head, tail, the two chains and num_elements describe one and the same   *)
(* list, whichever of the special cases of Push, Pop, Slice and Remove     *)
(* made it: what the Verify333 calls of Push rely on.                      *)
WellLinked ==
  LET len == Len(nodes) IN
  /\ TypeOK
  /\ num_elements = len
  /\ head = (IF len = 0 THEN NULL ELSE nodes[1])
  /\ tail = (IF len = 0 THEN NULL ELSE nodes[len])
  /\ \A i \in 1..len :
       /\ next[nodes[i]] = IF i = len THEN NULL ELSE nodes[i + 1]
       /\ prev[nodes[i]] = IF i = 1 THEN NULL ELSE nodes[i - 1]

(* A pointer leads to a cell in use, and a cell in use is in the list: no  *)
(* call frees a node it leaves linked, none leaks a node or frees it twice.*)
NoDanglingNode ==
  /\ IsInjective(nodes)
  /\ allocated = Range(nodes)
  /\ iter \in allocated \cup {NULL, NoIter} /\ curnode \in allocated \cup {NULL}

Position(n) == CHOOSE i \in DOMAIN nodes : nodes[i] = n

(* What a customer sees: the payloads, and where the iterator is.          *)
Sequence == IF Sorting THEN unsorted ELSE Contents
Place == IF iter = NoIter THEN 0 ELSE IF iter = NULL THEN Len(nodes) + 1 ELSE Position(iter)

(* The list is the sequence that LinkedList.h describes; a sort takes      *)
(* effect when it is done, is correct and keeps equal payloads in order.   *)
Promise == INSTANCE PayloadList WITH seq <- Sequence, at <- Place

ImplementsList == Promise!ListSpec

(* The comparisons of equal payloads do not keep the sort going.           *)
SortEnds == Sorting ~> ~Sorting

(* LinkedList.h:99: Append "adds a new element to the tail of the linked   *)
(* list".                                                                  *)
AppendedNodeIsAllocated == Range(nodes) \subseteq allocated
=============================================================================
