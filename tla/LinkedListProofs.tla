-------------------------- MODULE LinkedListProofs --------------------------
(***************************************************************************)
(* Safety of LinkedList for every heap, every set of payloads and every    *)
(* order of them: the chains are well linked, a pointer leads to a node of *)
(* the list, and the list is the sequence that PayloadList describes.      *)
(*                                                                         *)
(* What the two invariants need besides each other is that no iterator is  *)
(* used during a sort, and that a node of the list holds a payload.        *)
(***************************************************************************)
EXTENDS LinkedList, OperatorLemmas, SequenceTheorems

(* The pointers nx and pv chain the nodes of s in this order.              *)
Chain(s, nx, pv) ==
  \A i \in 1..Len(s) : /\ nx[s[i]] = IF i = Len(s) THEN NULL ELSE s[i + 1]
                       /\ pv[s[i]] = IF i = 1 THEN NULL ELSE s[i - 1]

IInv ==
  /\ WellLinked /\ NoDanglingNode
  /\ Sorting => iter = NoIter
  /\ \A n \in Range(nodes) : payload[n] \in Payload

-----------------------------------------------------------------------------
(* The nodes that stay are linked past the k-th one.                       *)
Relinked(s, k, nx, pv, nx2, pv2) ==
  \A i \in 1..Len(s) : i # k =>
    /\ nx2[s[i]] = IF i = k - 1 THEN nx[s[k]] ELSE nx[s[i]]
    /\ pv2[s[i]] = IF i = k + 1 THEN pv[s[k]] ELSE pv[s[i]]

LEMMA ChainWithout ==
  ASSUME NEW s \in Seq(Node), NEW k \in 1..Len(s), NEW t, Without(Node, s, k, t),
         NEW nx, NEW pv, Chain(s, nx, pv), NEW nx2, NEW pv2, Relinked(s, k, nx, pv, nx2, pv2)
  PROVE  Chain(t, nx2, pv2)
<1> DEFINE n == Len(s)
<1>1. n \in Nat /\ k \in 1..n /\ Len(t) = n - 1
  BY DEF Without
<1> HIDE DEF n
<1>2. \A i \in 1..n - 1 : t[i] = IF i < k THEN s[i] ELSE s[i + 1]
  BY DEF Without, n
<1>3. \A i \in 1..n : /\ nx[s[i]] = IF i = n THEN NULL ELSE s[i + 1]
                      /\ pv[s[i]] = IF i = 1 THEN NULL ELSE s[i - 1]
  BY DEF Chain, n
<1>4. \A i \in 1..n : i # k => /\ nx2[s[i]] = IF i = k - 1 THEN nx[s[k]] ELSE nx[s[i]]
                               /\ pv2[s[i]] = IF i = k + 1 THEN pv[s[k]] ELSE pv[s[i]]
  BY DEF Relinked, n
<1>5. ASSUME NEW i \in 1..n - 1 PROVE nx2[t[i]] = IF i = n - 1 THEN NULL ELSE t[i + 1]
  <2>1. CASE i < k - 1
    <3>1. t[i] = s[i] /\ i \in 1..n /\ i # k /\ i # k - 1 /\ i # n /\ i # n - 1 /\ i + 1 \in 1..n - 1 /\ i + 1 < k
      BY <1>1, <1>2, <2>1
    <3>2. t[i + 1] = s[i + 1]
      BY <1>2, <3>1
    <3> QED BY <1>3, <1>4, <3>1, <3>2
  <2>2. CASE i = k - 1
    <3>1. t[i] = s[i] /\ i \in 1..n /\ i # k /\ k \in 1..n
      BY <1>1, <1>2, <2>2
    <3>2. nx2[t[i]] = IF k = n THEN NULL ELSE s[k + 1]
      BY <1>3, <1>4, <2>2, <3>1
    <3>3. CASE k = n
      <4>1. i = n - 1
        BY <2>2, <3>3
      <4> QED BY <3>2, <3>3, <4>1
    <3>4. CASE k # n
      <4>1. i # n - 1 /\ i + 1 \in 1..n - 1 /\ ~ (i + 1 < k) /\ i + 1 + 1 = k + 1
        BY <1>1, <2>2, <3>4
      <4>2. t[i + 1] = s[k + 1]
        BY <1>2, <4>1
      <4> QED BY <3>2, <3>4, <4>1, <4>2
    <3> QED BY <3>3, <3>4
  <2>3. CASE i >= k
    <3>1. t[i] = s[i + 1] /\ i + 1 \in 1..n /\ i + 1 # k /\ i + 1 # k - 1
      BY <1>1, <1>2, <2>3
    <3>2. nx2[t[i]] = IF i + 1 = n THEN NULL ELSE s[i + 1 + 1]
      BY <1>3, <1>4, <3>1
    <3>3. CASE i = n - 1
      BY <1>1, <3>2, <3>3
    <3>4. CASE i # n - 1
      <4>1. i + 1 \in 1..n - 1 /\ ~ (i + 1 < k) /\ i + 1 # n
        BY <1>1, <2>3, <3>4
      <4>2. t[i + 1] = s[i + 1 + 1]
        BY <1>2, <4>1
      <4> QED BY <3>2, <3>4, <4>1, <4>2
    <3> QED BY <3>3, <3>4
  <2> QED BY <1>1, <2>1, <2>2, <2>3
<1>6. ASSUME NEW i \in 1..n - 1 PROVE pv2[t[i]] = IF i = 1 THEN NULL ELSE t[i - 1]
  <2>1. CASE i < k
    <3>1. t[i] = s[i] /\ i \in 1..n /\ i # k /\ i # k + 1
      BY <1>1, <1>2, <2>1
    <3>2. pv2[t[i]] = IF i = 1 THEN NULL ELSE s[i - 1]
      BY <1>3, <1>4, <3>1
    <3>3. i # 1 => i - 1 \in 1..n - 1 /\ i - 1 < k
      BY <1>1, <2>1
    <3> QED BY <1>2, <3>2, <3>3
  <2>2. CASE i = k
    <3>1. t[i] = s[i + 1] /\ i + 1 \in 1..n /\ i + 1 # k /\ i + 1 = k + 1
      BY <1>1, <1>2, <2>2
    <3>2. pv2[t[i]] = IF k = 1 THEN NULL ELSE s[k - 1]
      BY <1>1, <1>3, <1>4, <3>1
    <3>3. i # 1 => i - 1 \in 1..n - 1 /\ i - 1 < k /\ i - 1 = k - 1
      BY <1>1, <2>2
    <3> QED BY <1>2, <2>2, <3>2, <3>3
  <2>3. CASE i > k
    <3>1. t[i] = s[i + 1] /\ i + 1 \in 1..n /\ i + 1 # k /\ i + 1 # k + 1 /\ i + 1 # 1 /\ i + 1 - 1 = i
      BY <1>1, <1>2, <2>3
    <3>2. pv2[t[i]] = s[i]
      BY <1>3, <1>4, <3>1
    <3>3. i # 1 /\ i - 1 \in 1..n - 1 /\ ~ (i - 1 < k) /\ i - 1 + 1 = i
      BY <1>1, <2>3
    <3>4. t[i - 1] = s[i]
      BY <1>2, <3>3
    <3> QED BY <3>2, <3>3, <3>4
  <2> QED BY <1>1, <2>1, <2>2, <2>3
<1>7. \A i \in 1..Len(t) : /\ nx2[t[i]] = IF i = Len(t) THEN NULL ELSE t[i + 1]
                           /\ pv2[t[i]] = IF i = 1 THEN NULL ELSE t[i - 1]
  BY <1>1, <1>5, <1>6
<1> QED BY <1>7 DEF Chain

-----------------------------------------------------------------------------
(* What the invariant says of the nodes and of the pointers to them.       *)
LEMMA Facts ==
  ASSUME IInv
  PROVE  /\ TypeOK /\ nodes \in Seq(Node) /\ Len(nodes) \in Nat /\ DOMAIN nodes = 1..Len(nodes)
         /\ num_elements = Len(nodes) /\ Chain(nodes, next, prev)
         /\ head = (IF Len(nodes) = 0 THEN NULL ELSE nodes[1])
         /\ tail = (IF Len(nodes) = 0 THEN NULL ELSE nodes[Len(nodes)])
         /\ IsInjective(nodes) /\ \A i, j \in 1..Len(nodes) : nodes[i] = nodes[j] => i = j
         /\ allocated = Range(nodes)
         /\ \A i \in 1..Len(nodes) : nodes[i] \in Node /\ nodes[i] \in allocated /\ nodes[i] # NULL
         /\ \A n \in allocated : n # NULL /\ payload[n] \in Payload /\ \E i \in 1..Len(nodes) : n = nodes[i]
         /\ head = NULL <=> Len(nodes) = 0
         /\ iter \in allocated \cup {NULL, NoIter} /\ curnode \in allocated \cup {NULL}
<1>1. TypeOK /\ nodes \in Seq(Node)
  BY DEF IInv, WellLinked, TypeOK
<1>2. Len(nodes) \in Nat /\ DOMAIN nodes = 1..Len(nodes) /\ \A i \in 1..Len(nodes) : nodes[i] \in Node
  BY <1>1
<1>3. /\ num_elements = Len(nodes)
      /\ head = (IF Len(nodes) = 0 THEN NULL ELSE nodes[1])
      /\ tail = (IF Len(nodes) = 0 THEN NULL ELSE nodes[Len(nodes)])
  BY DEF IInv, WellLinked
<1>4. Chain(nodes, next, prev)
  BY DEF IInv, WellLinked, Chain
<1>5. /\ IsInjective(nodes) /\ allocated = Range(nodes)
      /\ iter \in allocated \cup {NULL, NoIter} /\ curnode \in allocated \cup {NULL}
      /\ \A n \in Range(nodes) : payload[n] \in Payload
  BY DEF IInv, NoDanglingNode
<1>6. \A i, j \in 1..Len(nodes) : nodes[i] = nodes[j] => i = j
  BY <1>2, <1>5 DEF IsInjective
<1>7. \A n : n \in allocated <=> \E i \in 1..Len(nodes) : n = nodes[i]
  BY <1>2, <1>5 DEF Range
<1>8. \A i \in 1..Len(nodes) : nodes[i] \in allocated /\ nodes[i] # NULL
  BY <1>2, <1>7, PointerAssumption
<1>9. \A n \in allocated : n # NULL
  BY <1>7, <1>8
<1>10. head = NULL <=> Len(nodes) = 0
  BY <1>2, <1>3, <1>8
<1> QED BY <1>1, <1>2, <1>3, <1>4, <1>5, <1>6, <1>7, <1>8, <1>9, <1>10

LEMMA Combine ==
  ASSUME TypeOK', num_elements' = Len(nodes'), Chain(nodes', next', prev'),
         head' = (IF Len(nodes') = 0 THEN NULL ELSE nodes'[1]),
         tail' = (IF Len(nodes') = 0 THEN NULL ELSE nodes'[Len(nodes')]),
         IsInjective(nodes'), allocated' = Range(nodes'), \A n \in Range(nodes') : payload'[n] \in Payload,
         iter' \in allocated' \cup {NULL, NoIter}, curnode' \in allocated' \cup {NULL},
         curnode' # NULL => iter' = NoIter
  PROVE  IInv'
<1>1. WellLinked'
  BY DEF WellLinked, Chain
<1>2. NoDanglingNode'
  BY DEF NoDanglingNode
<1> QED BY <1>1, <1>2 DEF IInv, Sorting

(* The k-th node is taken out of the chain and freed.                      *)
LEMMA NodeTakenOut ==
  ASSUME IInv, NEW k \in 1..Len(nodes), Without(Node, nodes, k, nodes'), ~ Sorting,
         allocated' = allocated \ {nodes[k]}, payload' = [payload EXCEPT ![nodes[k]] = NULL],
         next' \in [Node -> Pointer], prev' \in [Node -> Pointer],
         Relinked(nodes, k, next, prev, next', prev'),
         num_elements' = num_elements - 1,
         head' = (IF k = 1 THEN next[nodes[k]] ELSE head),
         tail' = (IF k = Len(nodes) THEN prev[nodes[k]] ELSE tail),
         iter' \in (allocated \ {nodes[k]}) \cup {NULL, NoIter},
         mine' \in SUBSET Payload, freed' \in SUBSET Payload, out' \in Payload, UNCHANGED <<open, sortVars>>
  PROVE  IInv'
<1> DEFINE n == Len(nodes)
<1>1. /\ TypeOK /\ nodes \in Seq(Node) /\ n \in Nat /\ k \in 1..n /\ num_elements = n /\ Chain(nodes, next, prev)
      /\ head = (IF n = 0 THEN NULL ELSE nodes[1]) /\ tail = (IF n = 0 THEN NULL ELSE nodes[n])
      /\ IsInjective(nodes) /\ allocated = Range(nodes) /\ \A m \in allocated : payload[m] \in Payload
      /\ \A i, j \in 1..n : nodes[i] = nodes[j] => i = j
  BY Facts
<1>2. nodes' \in Seq(Node) /\ Len(nodes') = n - 1 /\ \A i \in 1..n - 1 : nodes'[i] = IF i < k THEN nodes[i] ELSE nodes[i + 1]
  BY DEF Without
<1>3. IsInjective(nodes') /\ Range(nodes') = Range(nodes) \ {nodes[k]}
  BY <1>1, RemovesOne
<1>4. Chain(nodes', next', prev')
  BY <1>1, ChainWithout
<1>5. /\ next[nodes[k]] = IF k = n THEN NULL ELSE nodes[k + 1]
      /\ prev[nodes[k]] = IF k = 1 THEN NULL ELSE nodes[k - 1]
  BY <1>1 DEF Chain
<1> HIDE DEF n
<1>6. head' = (IF n - 1 = 0 THEN NULL ELSE nodes'[1])
  <2>1. CASE k = 1
    <3>1. n - 1 # 0 => nodes'[1] = nodes[2]
      BY <1>1, <1>2, <2>1
    <3> QED BY <1>1, <1>5, <2>1, <3>1
  <2>2. CASE k # 1
    <3>1. n - 1 # 0 /\ 1 < k /\ nodes'[1] = nodes[1]
      BY <1>1, <1>2, <2>2
    <3> QED BY <1>1, <2>2, <3>1
  <2> QED BY <2>1, <2>2
<1>7. tail' = (IF n - 1 = 0 THEN NULL ELSE nodes'[n - 1])
  <2>1. CASE k = n
    <3>1. n - 1 # 0 => nodes'[n - 1] = nodes[n - 1]
      BY <1>1, <1>2, <2>1
    <3>2. tail' = prev[nodes[k]]
      BY <2>1 DEF n
    <3> QED BY <1>1, <1>5, <2>1, <3>1, <3>2
  <2>2. CASE k # n
    <3>1. n - 1 # 0 /\ ~ (n - 1 < k) /\ n - 1 \in 1..n - 1 /\ n - 1 + 1 = n
      BY <1>1, <2>2
    <3>2. nodes'[n - 1] = nodes[n] /\ tail' = tail
      BY <1>2, <2>2, <3>1 DEF n
    <3> QED BY <1>1, <3>1, <3>2
  <2> QED BY <2>1, <2>2
<1>8. TypeOK'
  <2>1. payload' \in [Node -> Payload \cup {NULL}] /\ allocated' \in SUBSET Node
    BY <1>1 DEF TypeOK
  <2>2. next[nodes[k]] \in Pointer /\ prev[nodes[k]] \in Pointer
    <3>1. nodes[k] \in Node
      BY <1>1
    <3> QED BY <1>1, <3>1 DEF TypeOK
  <2>3. head' \in Pointer /\ tail' \in Pointer
    BY <1>1, <2>2 DEF TypeOK
  <2>4. num_elements' \in Nat
    BY <1>1
  <2>5. iter' \in Pointer \cup {NoIter}
    BY <1>1 DEF TypeOK, Pointer
  <2>6. UNCHANGED <<open, curnode, swapped, ascending, unsorted>>
    BY DEF sortVars
  <2> QED BY <1>1, <1>2, <2>1, <2>3, <2>4, <2>5, <2>6 DEF TypeOK
<1>9. ASSUME NEW m \in Range(nodes') PROVE payload'[m] \in Payload
  <2>1. m \in allocated /\ m # nodes[k] /\ m \in Node
    BY <1>1, <1>3 DEF TypeOK
  <2>2. payload'[m] = payload[m]
    BY <1>1, <2>1 DEF TypeOK
  <2> QED BY <1>1, <2>1, <2>2
<1>10. curnode' = NULL /\ allocated' = Range(nodes') /\ num_elements' = Len(nodes')
  BY <1>1, <1>2, <1>3 DEF Sorting, sortVars
<1>11. iter' \in allocated' \cup {NULL, NoIter}
  OBVIOUS
<1> QED BY <1>2, <1>3, <1>4, <1>6, <1>7, <1>8, <1>9, <1>10, <1>11, Combine

(* The list stays, but for its payloads.                                   *)
LEMMA ListStays ==
  ASSUME IInv, UNCHANGED <<allocated, next, prev, head, tail, num_elements, nodes>>,
         TypeOK', \A n \in allocated : payload'[n] \in Payload,
         iter' \in allocated \cup {NULL, NoIter}, curnode' \in allocated \cup {NULL},
         curnode' # NULL => iter' = NoIter
  PROVE  IInv'
<1>1. /\ num_elements = Len(nodes) /\ Chain(nodes, next, prev)
      /\ head = (IF Len(nodes) = 0 THEN NULL ELSE nodes[1])
      /\ tail = (IF Len(nodes) = 0 THEN NULL ELSE nodes[Len(nodes)])
      /\ IsInjective(nodes) /\ allocated = Range(nodes)
  BY Facts
<1> QED BY <1>1, Combine

-----------------------------------------------------------------------------
LEMMA InitIInv ==
  Init => IInv
<1> SUFFICES ASSUME Init PROVE IInv
  OBVIOUS
<1>1. nodes = <<>> /\ Len(nodes) = 0 /\ DOMAIN nodes = {} /\ Range(nodes) = {}
  BY DEF Init, Range
<1>2. TypeOK
  <2>1. /\ allocated \in SUBSET Node /\ mine \in SUBSET Payload /\ freed \in SUBSET Payload /\ out \in Payload
        /\ open \in BOOLEAN /\ swapped \in BOOLEAN /\ ascending \in BOOLEAN
    BY DEF Init
  <2>2. /\ payload \in [Node -> Payload \cup {NULL}] /\ next \in [Node -> Pointer] /\ prev \in [Node -> Pointer]
        /\ head \in Pointer /\ tail \in Pointer /\ curnode \in Pointer /\ iter \in Pointer \cup {NoIter}
    BY DEF Init, Pointer
  <2>3. num_elements \in Nat /\ nodes \in Seq(Node) /\ unsorted \in Seq(Payload)
    BY DEF Init
  <2> QED BY <2>1, <2>2, <2>3 DEF TypeOK
<1>3. WellLinked
  BY <1>1, <1>2 DEF Init, WellLinked
<1>4. NoDanglingNode
  BY <1>1 DEF Init, NoDanglingNode, IsInjective
<1> QED BY <1>1, <1>3, <1>4 DEF Init, IInv, Sorting

(* A new node before the first.                                            *)
LEMMA Prepended ==
  ASSUME NEW s \in Seq(Node), IsInjective(s), NEW ln \in Node, ln \notin Range(s)
  PROVE  LET t == <<ln>> \o s IN
         /\ t \in Seq(Node) /\ Len(t) = Len(s) + 1
         /\ \A i \in 1..Len(s) + 1 : t[i] = IF i = 1 THEN ln ELSE s[i - 1]
         /\ IsInjective(t) /\ Range(t) = Range(s) \cup {ln}
<1> DEFINE n == Len(s)
           t == <<ln>> \o s
<1>1. n \in Nat /\ DOMAIN s = 1..n
  OBVIOUS
<1>2. t \in Seq(Node) /\ Len(t) = n + 1 /\ \A i \in 1..n + 1 : t[i] = IF i = 1 THEN ln ELSE s[i - 1]
  OBVIOUS
<1> HIDE DEF t, n
<1>3. DOMAIN t = 1..n + 1
  BY <1>2
<1>4. \A i, j \in 1..n : s[i] = s[j] => i = j
  BY <1>1 DEF IsInjective
<1>5. \A x : x \in Range(s) <=> \E i \in 1..n : x = s[i]
  BY <1>1 DEF Range
<1>6. \A x : x \in Range(t) <=> \E i \in 1..n + 1 : x = t[i]
  BY <1>3 DEF Range
<1>7. \A i \in 1..n + 1 : i # 1 => i - 1 \in 1..n /\ t[i] = s[i - 1] /\ s[i - 1] # ln
  BY <1>1, <1>2, <1>5
<1>8. t[1] = ln /\ 1 \in 1..n + 1
  BY <1>1, <1>2
<1>9. \A i, j \in 1..n + 1 : t[i] = t[j] => i = j
  <2> SUFFICES ASSUME NEW i \in 1..n + 1, NEW j \in 1..n + 1, t[i] = t[j] PROVE i = j
    OBVIOUS
  <2>1. CASE i = 1 \/ j = 1
    BY <2>1, <1>7, <1>8
  <2>2. CASE i # 1 /\ j # 1
    <3>1. i - 1 = j - 1
      BY <2>2, <1>4, <1>7
    <3> QED BY <3>1, <1>1
  <2> QED BY <2>1, <2>2
<1>10. \A x \in Range(s) : x \in Range(t)
  <2> SUFFICES ASSUME NEW i \in 1..n PROVE \E j \in 1..n + 1 : s[i] = t[j]
    BY <1>5, <1>6
  <2>1. i + 1 \in 1..n + 1 /\ i + 1 # 1 /\ i + 1 - 1 = i
    BY <1>1
  <2> QED BY <2>1, <1>2
<1>11. \A x : x \in Range(t) <=> x \in Range(s) \/ x = ln
  BY <1>5, <1>6, <1>7, <1>8, <1>10
<1>12. IsInjective(t)
  BY <1>3, <1>9 DEF IsInjective
<1> QED BY <1>2, <1>11, <1>12 DEF t, n

LEMMA PushStep ==
  ASSUME IInv, NEW p \in Payload, LinkedList_Push(p)
  PROVE  IInv'
<1> DEFINE n == Len(nodes)
<1>1. PICK ln \in Node \ allocated :
       /\ allocated' = allocated \cup {ln}
       /\ payload' = [payload EXCEPT ![ln] = p]
       /\ next' = [next EXCEPT ![ln] = IF num_elements = 0 THEN NULL ELSE head]
       /\ prev' = [prev EXCEPT ![ln] = NULL,
                               ![IF num_elements = 0 THEN ln ELSE head] = IF num_elements = 0 THEN NULL ELSE ln]
       /\ head' = ln
       /\ tail' = IF num_elements = 0 THEN ln ELSE tail
       /\ nodes' = <<ln>> \o nodes
  BY DEF LinkedList_Push
<1>2. /\ curnode = NULL /\ num_elements' = num_elements + 1 /\ iter' = NoIter /\ mine' = mine \ {p}
      /\ UNCHANGED <<freed, out, open, curnode, swapped, ascending, unsorted>>
  BY DEF LinkedList_Push, Calling, Sorting, sortVars
<1>3. /\ TypeOK /\ nodes \in Seq(Node) /\ n \in Nat /\ num_elements = n /\ Chain(nodes, next, prev)
      /\ head = (IF n = 0 THEN NULL ELSE nodes[1]) /\ tail = (IF n = 0 THEN NULL ELSE nodes[n])
      /\ IsInjective(nodes) /\ allocated = Range(nodes) /\ \A m \in allocated : payload[m] \in Payload
      /\ \A i, j \in 1..n : nodes[i] = nodes[j] => i = j
      /\ \A i \in 1..n : nodes[i] \in Node /\ nodes[i] \in allocated
  BY Facts
<1>4. /\ nodes' \in Seq(Node) /\ Len(nodes') = n + 1
      /\ \A i \in 1..n + 1 : nodes'[i] = IF i = 1 THEN ln ELSE nodes[i - 1]
      /\ IsInjective(nodes') /\ Range(nodes') = Range(nodes) \cup {ln}
  BY <1>1, <1>3, Prepended
<1>5. \A i \in 1..n : /\ next[nodes[i]] = IF i = n THEN NULL ELSE nodes[i + 1]
                      /\ prev[nodes[i]] = IF i = 1 THEN NULL ELSE nodes[i - 1]
  BY <1>3 DEF Chain
<1> HIDE DEF n
<1>6. next \in [Node -> Pointer] /\ prev \in [Node -> Pointer] /\ payload \in [Node -> Payload \cup {NULL}]
  BY <1>3 DEF TypeOK
<1>7. next'[ln] = IF n = 0 THEN NULL ELSE nodes[1]
  BY <1>1, <1>3, <1>6
<1>8. prev'[ln] = NULL
  <2>1. n # 0 => head # ln
    BY <1>1, <1>3
  <2> QED BY <1>1, <1>3, <1>6, <2>1
<1>9. \A i \in 1..n : /\ next'[nodes[i]] = next[nodes[i]]
                      /\ prev'[nodes[i]] = IF i = 1 THEN ln ELSE prev[nodes[i]]
  <2> SUFFICES ASSUME NEW i \in 1..n
               PROVE  /\ next'[nodes[i]] = next[nodes[i]]
                      /\ prev'[nodes[i]] = IF i = 1 THEN ln ELSE prev[nodes[i]]
    OBVIOUS
  <2>1. n # 0 /\ nodes[i] # ln /\ nodes[i] \in Node /\ head = nodes[1] /\ (i # 1 => nodes[i] # head)
    BY <1>1, <1>3
  <2>2. next'[nodes[i]] = next[nodes[i]]
    BY <1>1, <1>6, <2>1
  <2>3. prev' = [prev EXCEPT ![ln] = NULL, ![head] = ln]
    BY <1>1, <1>3, <2>1
  <2> QED BY <1>6, <2>1, <2>2, <2>3
<1>10. ASSUME NEW i \in 1..n + 1
       PROVE  /\ next'[nodes'[i]] = IF i = n + 1 THEN NULL ELSE nodes'[i + 1]
              /\ prev'[nodes'[i]] = IF i = 1 THEN NULL ELSE nodes'[i - 1]
  <2>1. CASE i = 1
    <3>1. nodes'[1] = ln /\ (n # 0 => 2 \in 1..n + 1 /\ nodes'[2] = nodes[1])
      BY <1>3, <1>4, <2>1
    <3> QED BY <1>3, <1>7, <1>8, <2>1, <3>1
  <2>2. CASE i # 1
    <3>1. i - 1 \in 1..n /\ nodes'[i] = nodes[i - 1]
      BY <1>3, <1>4, <2>2
    <3>2. next'[nodes'[i]] = IF i - 1 = n THEN NULL ELSE nodes[i - 1 + 1]
      BY <1>5, <1>9, <3>1
    <3>3. i # n + 1 => i + 1 \in 1..n + 1 /\ nodes'[i + 1] = nodes[i - 1 + 1]
      BY <1>3, <1>4, <2>2
    <3>4. prev'[nodes'[i]] = IF i = 2 THEN ln ELSE nodes[i - 1 - 1]
      BY <1>3, <1>5, <1>9, <3>1
    <3>5. i - 1 \in 1..n + 1 /\ nodes'[i - 1] = IF i = 2 THEN ln ELSE nodes[i - 1 - 1]
      BY <1>3, <1>4, <3>1
    <3> QED BY <1>3, <2>2, <3>2, <3>3, <3>4, <3>5
  <2> QED BY <2>1, <2>2
<1>11. Chain(nodes', next', prev')
  BY <1>4, <1>10 DEF Chain
<1>12. Len(nodes') # 0 /\ head' = nodes'[1] /\ tail' = nodes'[Len(nodes')]
  <2>1. 1 \in 1..n + 1 /\ n + 1 \in 1..n + 1 /\ n + 1 - 1 = n /\ n + 1 # 0
    BY <1>3
  <2>2. nodes'[1] = ln
    BY <1>4, <2>1
  <2>3. nodes'[n + 1] = IF n = 0 THEN ln ELSE nodes[n]
    BY <1>3, <1>4, <2>1
  <2> QED BY <1>1, <1>3, <1>4, <2>1, <2>2, <2>3
<1>13. TypeOK'
  <2>1. allocated' \in SUBSET Node /\ payload' \in [Node -> Payload \cup {NULL}]
    BY <1>1, <1>3 DEF TypeOK
  <2>2. next' \in [Node -> Pointer] /\ prev' \in [Node -> Pointer] /\ head' \in Pointer /\ tail' \in Pointer
    BY <1>1, <1>3 DEF TypeOK, Pointer
  <2> QED BY <1>2, <1>3, <1>4, <2>1, <2>2 DEF TypeOK
<1>14. ASSUME NEW m \in Range(nodes') PROVE payload'[m] \in Payload
  <2>1. CASE m = ln
    BY <1>1, <1>6, <2>1
  <2>2. CASE m # ln
    <3>1. m \in allocated /\ m \in Node
      BY <1>3, <1>4, <2>2 DEF TypeOK
    <3> QED BY <1>1, <1>3, <1>6, <2>2, <3>1
  <2> QED BY <2>1, <2>2
<1>15. num_elements' = Len(nodes') /\ allocated' = Range(nodes') /\ iter' = NoIter /\ curnode' = NULL
  BY <1>1, <1>2, <1>3, <1>4
<1> QED BY <1>4, <1>11, <1>12, <1>13, <1>14, <1>15, Combine

-----------------------------------------------------------------------------
(* DropHead and DropTail, in Pop, Slice and Remove.                        *)
LEMMA HeadDropped ==
  ASSUME IInv, DropHead, ~ Sorting, head # NULL, iter' \in {NoIter, head'},
         mine' \in SUBSET Payload, freed' \in SUBSET Payload, out' \in Payload, UNCHANGED <<open, sortVars>>
  PROVE  IInv'
<1> DEFINE n == Len(nodes)
<1>1. /\ TypeOK /\ nodes \in Seq(Node) /\ n \in Nat /\ num_elements = n /\ Chain(nodes, next, prev)
      /\ head = (IF n = 0 THEN NULL ELSE nodes[1]) /\ tail = (IF n = 0 THEN NULL ELSE nodes[n])
      /\ \A i, j \in 1..n : nodes[i] = nodes[j] => i = j
      /\ \A i \in 1..n : nodes[i] \in Node /\ nodes[i] \in allocated /\ nodes[i] # NULL
  BY Facts
<1>2. n # 0 /\ 1 \in 1..n /\ nodes # <<>> /\ nodes[1] = head
  BY <1>1
<1>3. Without(Node, nodes, 1, nodes')
  BY <1>1, <1>2, TailIs DEF DropHead
<1>4. \A i \in 1..n : /\ next[nodes[i]] = IF i = n THEN NULL ELSE nodes[i + 1]
                      /\ prev[nodes[i]] = IF i = 1 THEN NULL ELSE nodes[i - 1]
  BY <1>1 DEF Chain
<1> HIDE DEF n
<1>5. /\ allocated' = allocated \ {nodes[1]} /\ payload' = [payload EXCEPT ![nodes[1]] = NULL]
      /\ next' = [next EXCEPT ![nodes[1]] = NULL]
      /\ num_elements' = num_elements - 1
      /\ prev' = [(IF n = 1 THEN prev ELSE [prev EXCEPT ![next[head]] = NULL]) EXCEPT ![nodes[1]] = NULL]
      /\ head' = IF n = 1 THEN NULL ELSE next[head]
      /\ tail' = IF n = 1 THEN NULL ELSE tail
  BY <1>1, <1>2 DEF DropHead, FreeNode
<1>6. next \in [Node -> Pointer] /\ prev \in [Node -> Pointer] /\ NULL \in Pointer
  BY <1>1 DEF TypeOK, Pointer
<1>7. next' \in [Node -> Pointer] /\ prev' \in [Node -> Pointer]
  BY <1>5, <1>6
<1>8. n # 1 => next[head] = nodes[2] /\ 2 \in 1..n
  BY <1>1, <1>2, <1>4
<1>9. next[head] = head' /\ (n = 1 => prev[nodes[1]] = tail')
  BY <1>1, <1>2, <1>4, <1>5
<1>10. ASSUME NEW i \in 1..n, i # 1
       PROVE  /\ next'[nodes[i]] = next[nodes[i]]
              /\ prev'[nodes[i]] = IF i = 2 THEN NULL ELSE prev[nodes[i]]
  <2>1. nodes[i] # nodes[1] /\ nodes[i] \in Node /\ n # 1
    BY <1>1, <1>2, <1>10
  <2>2. i # 2 => nodes[i] # nodes[2]
    BY <1>1, <1>8, <2>1
  <2>3. next'[nodes[i]] = next[nodes[i]]
    BY <1>5, <1>6, <2>1
  <2>4. prev' = [[prev EXCEPT ![nodes[2]] = NULL] EXCEPT ![nodes[1]] = NULL]
    BY <1>5, <1>8, <2>1
  <2> QED BY <1>6, <2>1, <2>2, <2>3, <2>4
<1>11. Relinked(nodes, 1, next, prev, next', prev')
  <2>1. prev[nodes[1]] = NULL
    BY <1>2, <1>4
  <2>2. \A i \in 1..n : i # 1 =>
          /\ next'[nodes[i]] = IF i = 1 - 1 THEN next[nodes[1]] ELSE next[nodes[i]]
          /\ prev'[nodes[i]] = IF i = 1 + 1 THEN prev[nodes[1]] ELSE prev[nodes[i]]
    BY <1>1, <1>10, <2>1
  <2> QED BY <2>2 DEF Relinked, n
<1>12. iter' \in (allocated \ {nodes[1]}) \cup {NULL, NoIter}
  <2>1. n # 1 => nodes[2] \in allocated /\ nodes[2] # nodes[1]
    BY <1>1, <1>2, <1>8
  <2> QED BY <1>5, <1>8, <2>1
<1>13. head' = (IF 1 = 1 THEN next[nodes[1]] ELSE head) /\ tail' = (IF 1 = Len(nodes) THEN prev[nodes[1]] ELSE tail)
  BY <1>2, <1>5, <1>9 DEF n
<1>14. 1 \in 1..Len(nodes)
  BY <1>2 DEF n
<1> QED BY <1>3, <1>5, <1>7, <1>11, <1>12, <1>13, <1>14, NodeTakenOut

LEMMA TailDropped ==
  ASSUME IInv, DropTail, ~ Sorting, head # NULL, iter' \in {NoIter, tail'},
         mine' \in SUBSET Payload, freed' \in SUBSET Payload, out' \in Payload, UNCHANGED <<open, sortVars>>
  PROVE  IInv'
<1> DEFINE n == Len(nodes)
<1>1. /\ TypeOK /\ nodes \in Seq(Node) /\ n \in Nat /\ num_elements = n /\ Chain(nodes, next, prev)
      /\ head = (IF n = 0 THEN NULL ELSE nodes[1]) /\ tail = (IF n = 0 THEN NULL ELSE nodes[n])
      /\ \A i, j \in 1..n : nodes[i] = nodes[j] => i = j
      /\ \A i \in 1..n : nodes[i] \in Node /\ nodes[i] \in allocated /\ nodes[i] # NULL
  BY Facts
<1>2. n # 0 /\ 1 \in 1..n /\ n \in 1..n /\ nodes # <<>> /\ nodes[1] = head /\ nodes[n] = tail
  BY <1>1
<1>3. Without(Node, nodes, n, nodes')
  BY <1>1, <1>2, FrontIs DEF DropTail
<1>4. \A i \in 1..n : /\ next[nodes[i]] = IF i = n THEN NULL ELSE nodes[i + 1]
                      /\ prev[nodes[i]] = IF i = 1 THEN NULL ELSE nodes[i - 1]
  BY <1>1 DEF Chain
<1>5. next \in [Node -> Pointer] /\ prev \in [Node -> Pointer] /\ NULL \in Pointer
  BY <1>1 DEF TypeOK, Pointer
<1> HIDE DEF n
<1>6. head = tail <=> n = 1
  BY <1>1, <1>2
<1>7. n # 1 => prev[tail] = nodes[n - 1] /\ n - 1 \in 1..n
  BY <1>1, <1>2, <1>4
<1>8. /\ allocated' = allocated \ {nodes[n]} /\ payload' = [payload EXCEPT ![nodes[n]] = NULL]
      /\ prev' = [prev EXCEPT ![nodes[n]] = NULL]
      /\ num_elements' = num_elements - 1
      /\ next' = [(IF n = 1 THEN next ELSE [next EXCEPT ![prev[tail]] = NULL]) EXCEPT ![nodes[n]] = NULL]
      /\ head' = IF n = 1 THEN NULL ELSE head
      /\ tail' = IF n = 1 THEN NULL ELSE prev[tail]
  <2>1. CASE n = 1
    BY <1>1, <1>2, <1>6, <2>1 DEF DropTail, FreeNode
  <2>2. CASE n # 1
    BY <1>1, <1>2, <1>6, <2>2 DEF DropTail, FreeNode
  <2> QED BY <2>1, <2>2
<1>9. next' \in [Node -> Pointer] /\ prev' \in [Node -> Pointer]
  BY <1>5, <1>8
<1>10. ASSUME NEW i \in 1..n, i # n
       PROVE  /\ next'[nodes[i]] = IF i = n - 1 THEN NULL ELSE next[nodes[i]]
              /\ prev'[nodes[i]] = prev[nodes[i]]
  <2>1. nodes[i] # nodes[n] /\ nodes[i] \in Node /\ n # 1
    BY <1>1, <1>2, <1>10
  <2>2. i # n - 1 => nodes[i] # nodes[n - 1]
    BY <1>1, <1>7, <2>1
  <2>3. prev'[nodes[i]] = prev[nodes[i]]
    BY <1>5, <1>8, <2>1
  <2>4. next' = [[next EXCEPT ![nodes[n - 1]] = NULL] EXCEPT ![nodes[n]] = NULL]
    BY <1>7, <1>8, <2>1
  <2> QED BY <1>5, <2>1, <2>2, <2>3, <2>4
<1>11. Relinked(nodes, n, next, prev, next', prev')
  <2>1. next[nodes[n]] = NULL
    BY <1>2, <1>4
  <2>2. \A i \in 1..n : i # n =>
          /\ next'[nodes[i]] = IF i = n - 1 THEN next[nodes[n]] ELSE next[nodes[i]]
          /\ prev'[nodes[i]] = IF i = n + 1 THEN prev[nodes[n]] ELSE prev[nodes[i]]
    BY <1>1, <1>10, <2>1
  <2> QED BY <2>2 DEF Relinked, n
<1>12. iter' \in (allocated \ {nodes[n]}) \cup {NULL, NoIter}
  <2>1. n # 1 => nodes[n - 1] \in allocated /\ nodes[n - 1] # nodes[n]
    BY <1>1, <1>2, <1>7
  <2> QED BY <1>7, <1>8, <2>1
<1>13. /\ head' = (IF n = 1 THEN next[nodes[n]] ELSE head)
       /\ tail' = (IF n = Len(nodes) THEN prev[nodes[n]] ELSE tail)
  <2>1. n = 1 => next[nodes[n]] = NULL /\ prev[nodes[n]] = NULL
    BY <1>2, <1>4
  <2> QED BY <1>2, <1>8, <2>1 DEF n
<1>14. n \in 1..Len(nodes)
  BY <1>2 DEF n
<1> QED BY <1>3, <1>8, <1>9, <1>11, <1>12, <1>13, <1>14, NodeTakenOut

(* The nodes that Pop, Slice and Remove take payloads from hold some.      *)
LEMMA EndsHoldPayloads ==
  ASSUME IInv
  PROVE  /\ head # NULL => payload[head] \in Payload /\ payload[tail] \in Payload
         /\ LLIterator_IsValid => iter \in allocated /\ payload[iter] \in Payload /\ head # NULL /\ ~ Sorting
<1> DEFINE n == Len(nodes)
<1>1. /\ n \in Nat /\ head = (IF n = 0 THEN NULL ELSE nodes[1]) /\ tail = (IF n = 0 THEN NULL ELSE nodes[n])
      /\ \A i \in 1..n : nodes[i] \in allocated
      /\ \A m \in allocated : m # NULL /\ payload[m] \in Payload /\ \E i \in 1..n : m = nodes[i]
      /\ iter \in allocated \cup {NULL, NoIter} /\ (head = NULL <=> n = 0)
  BY Facts
<1> HIDE DEF n
<1>2. head # NULL => payload[head] \in Payload /\ payload[tail] \in Payload
  <2>1. n # 0 => 1 \in 1..n /\ n \in 1..n
    BY <1>1
  <2> QED BY <1>1, <2>1
<1>3. LLIterator_IsValid => iter \in allocated /\ payload[iter] \in Payload /\ head # NULL
  <2> SUFFICES ASSUME LLIterator_IsValid PROVE iter \in allocated /\ payload[iter] \in Payload /\ head # NULL
    OBVIOUS
  <2>1. iter \in allocated /\ payload[iter] \in Payload
    <3>1. iter \notin {NoIter, NULL}
      BY DEF LLIterator_IsValid
    <3> QED BY <1>1, <3>1
  <2>2. PICK i \in 1..n : iter = nodes[i]
    BY <1>1, <2>1
  <2>3. n # 0
    BY <1>1, <2>2
  <2> QED BY <1>1, <2>1, <2>3
<1>4. LLIterator_IsValid => ~ Sorting
  BY DEF IInv, LLIterator_IsValid
<1> QED BY <1>2, <1>3, <1>4

LEMMA PopStep ==
  ASSUME IInv, LinkedList_Pop
  PROVE  IInv'
<1>1. payload[head] \in Payload /\ TypeOK
  BY EndsHoldPayloads, Facts DEF LinkedList_Pop
<1>2. /\ DropHead /\ ~ Sorting /\ head # NULL /\ iter' = NoIter
      /\ mine' \in SUBSET Payload /\ freed' \in SUBSET Payload /\ out' \in Payload /\ UNCHANGED <<open, sortVars>>
  BY <1>1 DEF LinkedList_Pop, Calling, TypeOK
<1> QED BY <1>2, HeadDropped

LEMMA SliceStep ==
  ASSUME IInv, LinkedList_Slice
  PROVE  IInv'
<1>1. payload[tail] \in Payload /\ TypeOK
  BY EndsHoldPayloads, Facts DEF LinkedList_Slice
<1>2. /\ DropTail /\ ~ Sorting /\ head # NULL /\ iter' = NoIter
      /\ mine' \in SUBSET Payload /\ freed' \in SUBSET Payload /\ out' \in Payload /\ UNCHANGED <<open, sortVars>>
  BY <1>1 DEF LinkedList_Slice, Calling, TypeOK
<1> QED BY <1>2, TailDropped

LEMMA FreeStep ==
  ASSUME IInv, LinkedList_Free
  PROVE  IInv'
<1>1. TypeOK /\ allocated = Range(nodes) /\ \A m \in allocated : payload[m] \in Payload
  BY Facts
<1>2. /\ allocated' = {} /\ nodes' = <<>> /\ head' = NULL /\ tail' = NULL /\ num_elements' = 0 /\ iter' = NoIter
      /\ payload' = [n \in Node |-> NULL] /\ next' = [n \in Node |-> NULL] /\ prev' = [n \in Node |-> NULL]
      /\ freed' = freed \cup {payload[n] : n \in Range(nodes)} /\ open' = FALSE
      /\ UNCHANGED <<mine, out, curnode, swapped, ascending, unsorted>> /\ curnode = NULL
  BY <1>1 DEF LinkedList_Free, Calling, Sorting, sortVars
<1>3. nodes' \in Seq(Node) /\ Len(nodes') = 0 /\ DOMAIN nodes' = {} /\ Range(nodes') = {}
  BY <1>2 DEF Range
<1>4. IsInjective(nodes') /\ Chain(nodes', next', prev')
  BY <1>3 DEF IsInjective, Chain
<1>5. TypeOK'
  <2>1. freed' \in SUBSET Payload
    BY <1>1, <1>2 DEF TypeOK
  <2>2. /\ payload' \in [Node -> Payload \cup {NULL}] /\ next' \in [Node -> Pointer] /\ prev' \in [Node -> Pointer]
        /\ head' \in Pointer /\ tail' \in Pointer /\ iter' \in Pointer \cup {NoIter}
    BY <1>2 DEF Pointer
  <2>3. num_elements' \in Nat /\ open' \in BOOLEAN /\ allocated' \in SUBSET Node
    BY <1>2
  <2> QED BY <1>1, <1>2, <1>3, <2>1, <2>2, <2>3 DEF TypeOK
<1>6. \A n \in Range(nodes') : payload'[n] \in Payload
  BY <1>3
<1>7. num_elements' = Len(nodes') /\ allocated' = Range(nodes') /\ curnode' = NULL
  BY <1>2, <1>3
<1> QED BY <1>2, <1>3, <1>4, <1>5, <1>6, <1>7, Combine

(* A sort exchanges payloads and walks along the chain, or starts over.    *)
LEMMA SortStep ==
  ASSUME IInv, SortCompare \/ SortPassEnds \/ \E asc \in BOOLEAN : SortBegin(asc)
  PROVE  IInv'
<1>1. /\ TypeOK /\ nodes \in Seq(Node) /\ Len(nodes) \in Nat /\ DOMAIN nodes = 1..Len(nodes)
      /\ num_elements = Len(nodes) /\ Chain(nodes, next, prev)
      /\ head = (IF Len(nodes) = 0 THEN NULL ELSE nodes[1])
      /\ \A i \in 1..Len(nodes) : nodes[i] \in Node /\ nodes[i] \in allocated
      /\ \A n \in allocated : payload[n] \in Payload /\ \E i \in 1..Len(nodes) : n = nodes[i]
      /\ iter \in allocated \cup {NULL, NoIter} /\ curnode \in allocated \cup {NULL}
  BY Facts
<1>2. Sorting => iter = NoIter
  BY DEF IInv
<1>3. head \in allocated \cup {NULL}
  <2>1. Len(nodes) # 0 => 1 \in 1..Len(nodes)
    BY <1>1
  <2> QED BY <1>1, <2>1
<1>4. CASE SortCompare
  <2>1. curnode \in allocated /\ curnode \in Node /\ iter = NoIter /\ next[curnode] # NULL
    BY <1>1, <1>2, <1>4 DEF SortCompare, Sorting, TypeOK
  <2>2. next[curnode] \in allocated
    <3>1. PICK i \in 1..Len(nodes) : curnode = nodes[i]
      BY <1>1, <2>1
    <3>2. next[nodes[i]] = IF i = Len(nodes) THEN NULL ELSE nodes[i + 1]
      BY <1>1 DEF Chain
    <3>3. i # Len(nodes)
      BY <2>1, <3>1, <3>2
    <3>4. i + 1 \in 1..Len(nodes)
      <4>1. Len(nodes) \in Nat
        BY <1>1
      <4> QED BY <3>3, <4>1
    <3> QED BY <1>1, <3>1, <3>2, <3>3, <3>4
  <2>3. /\ UNCHANGED <<allocated, next, prev, head, tail, num_elements, nodes, iter, mine, freed, out, open,
                       ascending, unsorted>>
        /\ curnode' = next[curnode]
    BY <1>4 DEF SortCompare, listVars, userVars
  <2>4. /\ payload' \in [Node -> Payload \cup {NULL}] /\ swapped' \in BOOLEAN
        /\ \A n \in allocated : payload'[n] \in Payload
    <3>1. payload[curnode] \in Payload /\ payload[next[curnode]] \in Payload /\ next[curnode] \in Node
      BY <1>1, <2>1, <2>2 DEF TypeOK
    <3>2. CASE OutOfOrder(payload[curnode], payload[next[curnode]])
      <4>1. /\ payload' = [payload EXCEPT ![curnode] = payload[next[curnode]], ![next[curnode]] = payload[curnode]]
            /\ swapped' = TRUE
        BY <1>4, <3>2 DEF SortCompare
      <4> QED BY <1>1, <2>1, <3>1, <4>1 DEF TypeOK
    <3>3. CASE ~ OutOfOrder(payload[curnode], payload[next[curnode]])
      <4>1. UNCHANGED <<payload, swapped>>
        BY <1>4, <3>3 DEF SortCompare
      <4> QED BY <1>1, <4>1 DEF TypeOK
    <3> QED BY <3>2, <3>3
  <2>5. TypeOK'
    <3>1. curnode' \in Pointer
      BY <1>1, <2>2, <2>3 DEF TypeOK, Pointer
    <3> QED BY <1>1, <2>3, <2>4, <3>1 DEF TypeOK
  <2> QED BY <2>1, <2>2, <2>3, <2>4, <2>5, ListStays
<1>5. CASE SortPassEnds
  <2>1. /\ UNCHANGED <<allocated, payload, next, prev, head, tail, num_elements, nodes, iter, mine, freed, out, open,
                       ascending>>
        /\ swapped' = FALSE /\ iter = NoIter
        /\ curnode' \in {head, NULL} /\ unsorted' \in {unsorted, <<>>}
    BY <1>2, <1>5 DEF SortPassEnds, cellVars, listVars, userVars
  <2>2. TypeOK'
    <3>1. curnode' \in Pointer
      BY <1>1, <2>1 DEF TypeOK, Pointer
    <3>2. unsorted' \in Seq(Payload)
      <4>1. unsorted \in Seq(Payload) /\ <<>> \in Seq(Payload)
        BY <1>1 DEF TypeOK
      <4> QED BY <2>1, <4>1
    <3> QED BY <1>1, <2>1, <3>1, <3>2 DEF TypeOK
  <2> QED BY <1>1, <1>3, <2>1, <2>2, ListStays
<1>6. CASE \E asc \in BOOLEAN : SortBegin(asc)
  <2>1. PICK asc \in BOOLEAN : SortBegin(asc)
    BY <1>6
  <2>2. /\ UNCHANGED <<allocated, payload, next, prev, head, tail, num_elements, nodes, mine, freed, out, open>>
        /\ swapped' = FALSE /\ iter' = NoIter /\ curnode' = head /\ ascending' = asc
        /\ unsorted' = [i \in DOMAIN nodes |-> payload[nodes[i]]]
    BY <2>1 DEF SortBegin, Contents, cellVars, listVars, userVars
  <2>3. unsorted' \in Seq(Payload)
    BY <1>1, <2>2
  <2>4. TypeOK'
    BY <1>1, <2>2, <2>3 DEF TypeOK
  <2> QED BY <1>1, <1>3, <2>2, <2>4, ListStays
<1> QED BY <1>4, <1>5, <1>6

LEMMA IteratorStep ==
  ASSUME IInv,
         LLIterator_Allocate \/ LLIterator_Free \/ LLIterator_Next \/ LLIterator_Get \/ LLIterator_Rewind
  PROVE  IInv'
<1>1. /\ TypeOK /\ Len(nodes) \in Nat /\ Chain(nodes, next, prev)
      /\ head = (IF Len(nodes) = 0 THEN NULL ELSE nodes[1])
      /\ \A i \in 1..Len(nodes) : nodes[i] \in allocated
      /\ \A n \in allocated : payload[n] \in Payload /\ \E i \in 1..Len(nodes) : n = nodes[i]
      /\ iter \in allocated \cup {NULL, NoIter} /\ curnode \in allocated \cup {NULL}
  BY Facts
<1>2. Sorting => iter = NoIter
  BY DEF IInv
<1>3. head \in allocated \cup {NULL}
  <2>1. Len(nodes) # 0 => 1 \in 1..Len(nodes)
    BY <1>1
  <2> QED BY <1>1, <2>1
<1>4. LLIterator_IsValid => iter \in allocated /\ next[iter] \in allocated \cup {NULL}
  <2> SUFFICES ASSUME LLIterator_IsValid PROVE iter \in allocated /\ next[iter] \in allocated \cup {NULL}
    OBVIOUS
  <2>1. iter \in allocated
    BY EndsHoldPayloads
  <2>2. PICK i \in 1..Len(nodes) : iter = nodes[i]
    BY <1>1, <2>1
  <2>3. next[nodes[i]] = IF i = Len(nodes) THEN NULL ELSE nodes[i + 1]
    BY <1>1 DEF Chain
  <2>4. i # Len(nodes) => i + 1 \in 1..Len(nodes)
    BY <1>1
  <2> QED BY <1>1, <2>1, <2>2, <2>3, <2>4
<1>5. /\ UNCHANGED <<allocated, payload, next, prev, head, tail, num_elements, nodes, mine, freed, open,
                     curnode, swapped, ascending, unsorted>>
      /\ iter' \in {head, NoIter, iter, next[iter]} /\ (~ Sorting \/ iter' = NoIter)
      /\ iter' \in allocated \cup {NULL, NoIter}
      /\ out' \in Payload
  <2>1. CASE LLIterator_Allocate
    BY <1>1, <1>3, <2>1 DEF LLIterator_Allocate, Calling, cellVars, listVars, userVars, sortVars, TypeOK
  <2>2. CASE LLIterator_Free
    BY <1>1, <2>2 DEF LLIterator_Free, cellVars, listVars, userVars, sortVars, TypeOK
  <2>3. CASE LLIterator_Next
    BY <1>1, <1>2, <1>4, <2>3
    DEF LLIterator_Next, LLIterator_IsValid, cellVars, listVars, userVars, sortVars, TypeOK
  <2>4. CASE LLIterator_Get
    <3>1. iter \in allocated /\ payload[iter] \in Payload
      BY <2>4, EndsHoldPayloads DEF LLIterator_Get
    <3> QED BY <1>1, <1>2, <2>4, <3>1 DEF LLIterator_Get, LLIterator_IsValid, cellVars, listVars, sortVars
  <2>5. CASE LLIterator_Rewind
    BY <1>1, <1>2, <1>3, <2>5 DEF LLIterator_Rewind, cellVars, listVars, userVars, sortVars, TypeOK
  <2> QED BY <2>1, <2>2, <2>3, <2>4, <2>5
<1>6. TypeOK'
  <2>1. iter' \in Pointer \cup {NoIter}
    BY <1>1, <1>5 DEF TypeOK, Pointer
  <2> QED BY <1>1, <1>5, <2>1 DEF TypeOK
<1>7. curnode' # NULL => iter' = NoIter
  BY <1>5 DEF Sorting
<1> QED BY <1>1, <1>5, <1>6, <1>7, ListStays

(* Remove takes out the only node, the first, the last or one between.     *)
LEMMA RemoveStep ==
  ASSUME IInv, LLIterator_Remove
  PROVE  IInv'
<1> DEFINE n == Len(nodes)
<1>1. /\ TypeOK /\ nodes \in Seq(Node) /\ n \in Nat /\ num_elements = n /\ Chain(nodes, next, prev)
      /\ head = (IF n = 0 THEN NULL ELSE nodes[1]) /\ tail = (IF n = 0 THEN NULL ELSE nodes[n])
      /\ \A i, j \in 1..n : nodes[i] = nodes[j] => i = j
      /\ \A i \in 1..n : nodes[i] \in Node /\ nodes[i] \in allocated /\ nodes[i] # NULL
      /\ DOMAIN nodes = 1..n
  BY Facts
<1>2. iter \in allocated /\ payload[iter] \in Payload /\ head # NULL /\ ~ Sorting
  BY EndsHoldPayloads DEF LLIterator_Remove
<1>3. /\ mine' \in SUBSET Payload /\ freed' \in SUBSET Payload /\ out' \in Payload /\ UNCHANGED <<open, sortVars>>
  BY <1>1, <1>2 DEF LLIterator_Remove, TypeOK
<1>4. \A i \in 1..n : /\ next[nodes[i]] = IF i = n THEN NULL ELSE nodes[i + 1]
                      /\ prev[nodes[i]] = IF i = 1 THEN NULL ELSE nodes[i - 1]
  BY <1>1 DEF Chain
<1>5. PICK k \in 1..n : iter = nodes[k]
  BY <1>2, Facts
<1>6. next \in [Node -> Pointer] /\ prev \in [Node -> Pointer] /\ NULL \in Pointer
  BY <1>1 DEF TypeOK, Pointer
<1>7. CASE RemoveHead
  <2>1. DropHead /\ iter' = head'
    BY <1>7 DEF RemoveHead
  <2> QED BY <1>2, <1>3, <2>1, HeadDropped
<1>8. CASE RemoveTail
  <2>1. DropTail /\ iter' = tail'
    BY <1>8 DEF RemoveTail
  <2> QED BY <1>2, <1>3, <2>1, TailDropped
<1>9. CASE RemoveOnly
  <2>1. n = 1 /\ k = 1 /\ nodes # <<>>
    <3>1. n = 1
      BY <1>1, <1>9 DEF RemoveOnly
    <3>2. k = 1
      BY <3>1
    <3>3. nodes # <<>>
      BY <3>1
    <3> QED BY <3>1, <3>2, <3>3
  <2>2. Without(Node, nodes, k, nodes')
    <3>1. nodes' = <<>> /\ nodes' \in Seq(Node) /\ Len(nodes') = 0
      BY <1>9 DEF RemoveOnly
    <3> QED BY <2>1, <3>1 DEF Without
  <2>3. /\ allocated' = allocated \ {nodes[k]} /\ payload' = [payload EXCEPT ![nodes[k]] = NULL]
        /\ next' = [next EXCEPT ![nodes[k]] = NULL] /\ prev' = [prev EXCEPT ![nodes[k]] = NULL]
        /\ num_elements' = num_elements - 1 /\ head' = NULL /\ tail' = NULL /\ iter' = NULL
    BY <1>5, <1>9 DEF RemoveOnly, FreeNode
  <2>4. next' \in [Node -> Pointer] /\ prev' \in [Node -> Pointer]
    BY <1>6, <2>3
  <2>5. Relinked(nodes, k, next, prev, next', prev')
    BY <2>1 DEF Relinked
  <2>6. next[nodes[k]] = NULL /\ prev[nodes[k]] = NULL
    BY <1>4, <2>1
  <2>7. /\ head' = (IF k = 1 THEN next[nodes[k]] ELSE head)
        /\ tail' = (IF k = Len(nodes) THEN prev[nodes[k]] ELSE tail)
    BY <2>1, <2>3, <2>6
  <2> QED BY <1>2, <1>3, <2>2, <2>3, <2>4, <2>5, <2>7, NodeTakenOut
<1>10. CASE RemoveInner
  <2>1. k # 1 /\ k # n
    BY <1>1, <1>5, <1>10 DEF RemoveInner
  <2> HIDE DEF n
  <2>2. n \in Nat /\ k - 1 \in 1..n /\ k + 1 \in 1..n /\ k - 1 # k /\ k + 1 # k /\ k - 1 # k + 1
    BY <1>1, <2>1
  <2>3. next[nodes[k]] = nodes[k + 1] /\ prev[nodes[k]] = nodes[k - 1]
    BY <1>4, <2>1
  <2>4. Without(Node, nodes, k, nodes')
    <3>1. PICK j \in DOMAIN nodes : nodes[j] = iter /\ nodes' = RemoveAt(nodes, j)
      BY <1>10 DEF RemoveInner, Unlink
    <3>2. j = k
      BY <1>1, <1>5, <3>1
    <3>3. k \in 1..Len(nodes)
      BY DEF n
    <3> QED BY <1>1, <3>1, <3>2, <3>3, RemoveAtIs
  <2>5. /\ allocated' = allocated \ {nodes[k]} /\ payload' = [payload EXCEPT ![nodes[k]] = NULL]
        /\ next' = [[next EXCEPT ![nodes[k - 1]] = nodes[k + 1]] EXCEPT ![nodes[k]] = NULL]
        /\ prev' = [[prev EXCEPT ![nodes[k + 1]] = nodes[k - 1]] EXCEPT ![nodes[k]] = NULL]
        /\ num_elements' = num_elements - 1 /\ head' = head /\ tail' = tail /\ iter' = nodes[k + 1]
    BY <1>5, <1>10, <2>3 DEF RemoveInner, Unlink, FreeNode
  <2>6. nodes[k - 1] \in Pointer /\ nodes[k + 1] \in Pointer
    BY <1>1, <2>2 DEF Pointer
  <2>7. next' \in [Node -> Pointer] /\ prev' \in [Node -> Pointer]
    BY <1>6, <2>5, <2>6
  <2>8. ASSUME NEW i \in 1..n, i # k
        PROVE  /\ next'[nodes[i]] = IF i = k - 1 THEN next[nodes[k]] ELSE next[nodes[i]]
               /\ prev'[nodes[i]] = IF i = k + 1 THEN prev[nodes[k]] ELSE prev[nodes[i]]
    <3>1. nodes[i] \in Node /\ nodes[i] # nodes[k] /\ (i # k - 1 => nodes[i] # nodes[k - 1])
          /\ (i # k + 1 => nodes[i] # nodes[k + 1])
      BY <1>1, <2>2, <2>8
    <3> QED BY <1>6, <2>3, <2>5, <3>1
  <2>9. Relinked(nodes, k, next, prev, next', prev')
    BY <2>8 DEF Relinked, n
  <2>10. nodes[k + 1] \in allocated /\ nodes[k + 1] # nodes[k]
    BY <1>1, <2>2
  <2>11. /\ k \in 1..Len(nodes) /\ head' = (IF k = 1 THEN next[nodes[k]] ELSE head)
         /\ tail' = (IF k = Len(nodes) THEN prev[nodes[k]] ELSE tail)
    BY <2>1, <2>5 DEF n
  <2>12. iter' \in (allocated \ {nodes[k]}) \cup {NULL, NoIter}
    BY <2>5, <2>10
  <2> QED BY <1>2, <1>3, <2>4, <2>5, <2>7, <2>9, <2>11, <2>12, NodeTakenOut
<1> QED BY <1>7, <1>8, <1>9, <1>10 DEF LLIterator_Remove

LEMMA StepIInv ==
  IInv /\ [Next]_vars => IInv'
<1> SUFFICES ASSUME IInv, [Next]_vars PROVE IInv'
  OBVIOUS
<1>1. CASE \E p \in Payload : LinkedList_Push(p)
  BY <1>1, PushStep
<1>2. CASE LinkedList_Pop
  BY <1>2, PopStep
<1>3. CASE LinkedList_Slice
  BY <1>3, SliceStep
<1>4. CASE LinkedList_Free
  BY <1>4, FreeStep
<1>5. CASE SortCompare \/ SortPassEnds \/ \E asc \in BOOLEAN : SortBegin(asc)
  BY <1>5, SortStep
<1>6. CASE LLIterator_Allocate \/ LLIterator_Free \/ LLIterator_Next \/ LLIterator_Get \/ LLIterator_Rewind
  BY <1>6, IteratorStep
<1>7. CASE LLIterator_Remove
  BY <1>7, RemoveStep
<1>8. CASE UNCHANGED vars
  <2>1. UNCHANGED <<allocated, payload, next, prev, head, tail, num_elements, nodes, iter, mine, freed, out, open,
                    curnode, swapped, ascending, unsorted>>
    BY <1>8 DEF vars, cellVars, listVars, userVars, sortVars
  <2> QED BY <2>1 DEF IInv, WellLinked, NoDanglingNode, TypeOK, Sorting
<1> QED BY <1>1, <1>2, <1>3, <1>4, <1>5, <1>6, <1>7, <1>8 DEF Next

LEMMA Invariance ==
  Spec => []IInv
<1> QED BY InitIInv, StepIInv, PTL DEF Spec

(* After any sequence of calls of hw1/LinkedList.c but Append, head, tail, *)
(* next, prev and num_elements describe one and the same list, however     *)
(* many nodes there are and whatever the customer's comparator.            *)
THEOREM ListIsWellLinked ==
  Spec => []WellLinked
<1>1. IInv => WellLinked
  BY DEF IInv
<1> QED BY <1>1, Invariance, PTL

(* No call leaves the list, its iterator or a sort with a pointer to a     *)
(* node that was freed, and each node malloc returned is in the list once. *)
THEOREM PointersLeadToNodes ==
  Spec => []NoDanglingNode
<1>1. IInv => NoDanglingNode
  BY DEF IInv
<1> QED BY <1>1, Invariance, PTL

-----------------------------------------------------------------------------
(* Two payloads that a sort in this direction must not leave in this order. *)
Wrong(asc, p, q) == IF asc THEN Key[p] > Key[q] ELSE Key[p] < Key[q]

(* c is what a sort has made of d: the same payloads, and those that have  *)
(* changed their order had to.                                             *)
Stage(c, d, asc) ==
  /\ Len(c) = Len(d) /\ Range(c) = Range(d)
  /\ \A p, q \in Payload : Promise!Before(c, p, q) => Promise!Before(d, p, q) \/ Wrong(asc, q, p)

(* The first k payloads are in order.                                      *)
OrderedTo(c, k, asc) == \A i \in 1..k - 1 : ~ Wrong(asc, c[i], c[i + 1])

(* A sort is on its way from unsorted, and what it has passed without a    *)
(* swap is in order.                                                       *)
SortInv ==
  /\ Sorting => Stage(Contents, unsorted, ascending)
  /\ Sorting /\ ~ swapped => \A k \in 1..Len(nodes) : nodes[k] = curnode => OrderedTo(Contents, k, ascending)
  /\ Sorting \/ iter # NoIter => open

(* d is c but for two neighbours that have changed places.                 *)
Exchanged(c, k, d) ==
  /\ Len(d) = Len(c) /\ d[k] = c[k + 1] /\ d[k + 1] = c[k]
  /\ \A i \in 1..Len(c) : i # k /\ i # k + 1 => d[i] = c[i]

LEMMA ExchangeKeepsOrder ==
  ASSUME NEW c \in Seq(Payload), NEW d \in Seq(Payload), NEW k \in 1..Len(c) - 1, Exchanged(c, k, d)
  PROVE  /\ Range(d) = Range(c)
         /\ \A p, q : Promise!Before(d, p, q) => Promise!Before(c, p, q) \/ (p = c[k + 1] /\ q = c[k])
<1> DEFINE n == Len(c)
           At(i) == IF i = k THEN k + 1 ELSE IF i = k + 1 THEN k ELSE i
<1>1. n \in Nat /\ DOMAIN c = 1..n /\ DOMAIN d = 1..n /\ Len(d) = n /\ k \in 1..n /\ k + 1 \in 1..n
  BY DEF Exchanged
<1>2. \A i \in 1..n : At(i) \in 1..n /\ d[i] = c[At(i)] /\ c[i] = d[At(i)]
  BY <1>1 DEF Exchanged
<1>3. Range(d) = Range(c)
  <2>1. \A x : x \in Range(c) <=> \E i \in 1..n : x = c[i]
    BY <1>1 DEF Range
  <2>2. \A x : x \in Range(d) <=> \E i \in 1..n : x = d[i]
    BY <1>1 DEF Range
  <2> HIDE DEF At
  <2>3. \A x : x \in Range(c) <=> x \in Range(d)
    BY <1>2, <2>1, <2>2
  <2> QED BY <2>3
<1>4. ASSUME NEW p, NEW q, Promise!Before(d, p, q)
      PROVE  Promise!Before(c, p, q) \/ (p = c[k + 1] /\ q = c[k])
  <2>1. PICK i \in 1..n, j \in 1..n : i < j /\ d[i] = p /\ d[j] = q
    BY <1>1, <1>4 DEF Promise!Before
  <2>2. CASE i = k /\ j = k + 1
    BY <1>2, <2>1, <2>2
  <2>3. CASE ~ (i = k /\ j = k + 1)
    <3>1. At(i) < At(j)
      BY <1>1, <2>1, <2>3
    <3>2. At(i) \in DOMAIN c /\ At(j) \in DOMAIN c /\ c[At(i)] = p /\ c[At(j)] = q
      BY <1>1, <1>2, <2>1
    <3> HIDE DEF At
    <3> QED BY <3>1, <3>2 DEF Promise!Before
  <2> QED BY <2>2, <2>3
<1> QED BY <1>3, <1>4

(* A swap of neighbours in the wrong order brings a sort a stage further.  *)
LEMMA SwapSorts ==
  ASSUME NEW c \in Seq(Payload), NEW d \in Seq(Payload), NEW e, NEW asc, NEW k \in 1..Len(c) - 1,
         Exchanged(c, k, d), Wrong(asc, c[k], c[k + 1]), Stage(c, e, asc)
  PROVE  Stage(d, e, asc)
<1>1. /\ Range(d) = Range(c) /\ Len(d) = Len(c)
      /\ \A p, q : Promise!Before(d, p, q) => Promise!Before(c, p, q) \/ (p = c[k + 1] /\ q = c[k])
  BY ExchangeKeepsOrder DEF Exchanged
<1> QED BY <1>1 DEF Stage

LEMMA OrderedAll ==
  ASSUME NEW c \in Seq(Payload), NEW asc, OrderedTo(c, Len(c), asc)
  PROVE  \A i, j \in 1..Len(c) : i < j => IF asc THEN Key[c[i]] <= Key[c[j]] ELSE Key[c[i]] >= Key[c[j]]
<1> DEFINE n == Len(c)
           f == [i \in 1..n |-> IF asc THEN Key[c[i]] ELSE 0 - Key[c[i]]]
<1>1. n \in Nat /\ \A i \in 1..n : c[i] \in Payload /\ Key[c[i]] \in Int
  <2>1. n \in Nat /\ \A i \in 1..n : c[i] \in Payload
    OBVIOUS
  <2> QED BY <2>1, KeyAssumption
<1>2. \A i \in 1..n - 1 : i \in 1..n /\ i + 1 \in 1..n /\ ~ Wrong(asc, c[i], c[i + 1])
  BY <1>1 DEF OrderedTo
<1> HIDE DEF n
<1>3. \A i \in 1..n : f[i] \in Int
  BY <1>1
<1>4. \A i \in 1..n - 1 : f[i] <= f[i + 1]
  BY <1>1, <1>2 DEF Wrong
<1> HIDE DEF f
<1>5. \A i, j \in 1..n : i < j => f[i] <= f[j]
  BY <1>1, <1>3, <1>4, AdjacentOrder
<1>6. \A i, j \in 1..n : i < j => IF asc THEN Key[c[i]] <= Key[c[j]] ELSE Key[c[i]] >= Key[c[j]]
  BY <1>1, <1>5 DEF f
<1> QED BY <1>6 DEF n

-----------------------------------------------------------------------------
(* What a customer sees of a list that is well linked.                     *)
Seen ==
  /\ Contents \in Seq(Payload) /\ Len(Contents) = Len(nodes) /\ DOMAIN Contents = 1..Len(nodes)
  /\ \A i \in 1..Len(nodes) : Contents[i] = payload[nodes[i]] /\ Position(nodes[i]) = i
  /\ Range(Contents) = {payload[n] : n \in Range(nodes)}
  /\ iter = NoIter => Place = 0
  /\ iter = NULL => Place = Len(nodes) + 1
  /\ \A i \in 1..Len(nodes) : iter = nodes[i] => Place = i
  /\ Place = 0 => iter = NoIter
  /\ LLIterator_IsValid => \E i \in 1..Len(nodes) : iter = nodes[i]
  /\ head = (IF Len(nodes) = 0 THEN NULL ELSE nodes[1])
  /\ tail = (IF Len(nodes) = 0 THEN NULL ELSE nodes[Len(nodes)])
  /\ Len(nodes) \in Nat /\ num_elements = Len(nodes)

LEMMA SeenHolds == IInv => Seen
<1> SUFFICES ASSUME IInv PROVE Seen
  OBVIOUS
<1> DEFINE n == Len(nodes)
<1>1. /\ n \in Nat /\ DOMAIN nodes = 1..n /\ \A i, j \in 1..n : nodes[i] = nodes[j] => i = j
      /\ \A i \in 1..n : nodes[i] \in Node /\ nodes[i] \in allocated /\ nodes[i] # NULL
      /\ \A m \in allocated : m # NULL /\ payload[m] \in Payload /\ \E i \in 1..n : m = nodes[i]
      /\ iter \in allocated \cup {NULL, NoIter}
  BY Facts
<1> HIDE DEF n
<1>2. /\ Contents \in Seq(Payload) /\ Len(Contents) = n /\ DOMAIN Contents = 1..n
      /\ \A i \in 1..n : Contents[i] = payload[nodes[i]]
  BY <1>1 DEF Contents
<1>3. \A i \in 1..n : Position(nodes[i]) = i
  BY <1>1 DEF Position
<1>4. Range(Contents) = {payload[m] : m \in Range(nodes)}
  BY <1>1, <1>2 DEF Range
<1>5. NULL # NoIter /\ \A i \in 1..n : nodes[i] # NULL /\ nodes[i] # NoIter
  BY <1>1, PointerAssumption
<1>6. LLIterator_IsValid => \E i \in 1..n : iter = nodes[i]
  BY <1>1 DEF LLIterator_IsValid
<1>7. /\ iter = NoIter => Place = 0
      /\ iter = NULL => Place = n + 1
      /\ \A i \in 1..n : iter = nodes[i] => Place = i
  BY <1>3, <1>5 DEF Place, n
<1>8. Place = 0 => iter = NoIter
  BY <1>1, <1>6, <1>7 DEF LLIterator_IsValid
<1>9. /\ head = (IF Len(nodes) = 0 THEN NULL ELSE nodes[1]) /\ num_elements = Len(nodes)
      /\ tail = (IF Len(nodes) = 0 THEN NULL ELSE nodes[Len(nodes)])
  BY Facts
<1> QED BY <1>1, <1>2, <1>3, <1>4, <1>6, <1>7, <1>8, <1>9 DEF Seen, n

LEMMA SeenNext == IInv' => Seen'
BY SeenHolds, PTL

(* A sort takes no iterator along, and sees to it that the list is open.   *)
LEMMA SortInvInit == Init => SortInv
BY DEF Init, SortInv, Sorting

LEMMA CompareSorts ==
  ASSUME IInv, IInv', SortInv, SortCompare
  PROVE  SortInv'
<1> DEFINE n == Len(nodes)
<1>1. /\ n \in Nat /\ nodes \in Seq(Node) /\ Chain(nodes, next, prev)
      /\ \A i, j \in 1..n : nodes[i] = nodes[j] => i = j
      /\ \A i \in 1..n : nodes[i] \in Node
      /\ curnode \in allocated \cup {NULL} /\ \A m \in allocated : \E i \in 1..n : m = nodes[i]
      /\ payload \in [Node -> Payload \cup {NULL}]
  BY Facts DEF TypeOK
<1>2. /\ Contents \in Seq(Payload) /\ Len(Contents) = n /\ \A i \in 1..n : Contents[i] = payload[nodes[i]]
      /\ Contents' \in Seq(Payload) /\ Len(Contents') = Len(nodes') /\ \A i \in 1..Len(nodes') : Contents'[i] = payload'[nodes'[i]]
  BY SeenHolds, SeenNext DEF Seen
<1>3. /\ UNCHANGED <<nodes, iter, open, ascending, unsorted>> /\ curnode' = next[curnode]
      /\ Sorting /\ next[curnode] # NULL /\ Sorting'
  BY DEF SortCompare, listVars, userVars, Sorting
<1>4. PICK k \in 1..n : curnode = nodes[k]
  BY <1>1, <1>3 DEF Sorting
<1>5. k \in 1..n - 1 /\ next[curnode] = nodes[k + 1] /\ k + 1 \in 1..n
  <2>1. next[nodes[k]] = IF k = n THEN NULL ELSE nodes[k + 1]
    BY <1>1, <1>4 DEF Chain
  <2> QED BY <1>1, <1>3, <1>4, <2>1
<1>6. Stage(Contents, unsorted, ascending) /\ open /\ (~ swapped => OrderedTo(Contents, k, ascending))
  BY <1>3, <1>4 DEF SortInv
<1>7. (Sorting \/ iter # NoIter => open)'
  BY <1>3, <1>6
<1> HIDE DEF n
<1>8. CASE OutOfOrder(payload[curnode], payload[next[curnode]])
  <2>1. /\ payload' = [payload EXCEPT ![nodes[k]] = payload[nodes[k + 1]], ![nodes[k + 1]] = payload[nodes[k]]]
        /\ swapped' = TRUE
    BY <1>4, <1>5, <1>8 DEF SortCompare
  <2>2. Exchanged(Contents, k, Contents')
    <3>1. nodes[k] \in Node /\ nodes[k + 1] \in Node /\ nodes[k] # nodes[k + 1]
      BY <1>1, <1>4, <1>5
    <3>2. payload'[nodes[k]] = payload[nodes[k + 1]] /\ payload'[nodes[k + 1]] = payload[nodes[k]]
      BY <1>1, <2>1, <3>1
    <3>3. \A i \in 1..n : i # k /\ i # k + 1 => payload'[nodes[i]] = payload[nodes[i]]
      BY <1>1, <1>5, <2>1, <3>1
    <3>4. nodes' = nodes /\ Len(nodes') = n
      BY <1>3 DEF n
    <3>5. Len(Contents') = n /\ \A i \in 1..n : Contents'[i] = payload'[nodes[i]]
      BY <1>2, <3>4
    <3>6. \A i \in 1..n : i # k /\ i # k + 1 => Contents'[i] = Contents[i]
      BY <1>2, <3>3, <3>5
    <3>7. k \in 1..n /\ Contents'[k] = Contents[k + 1] /\ Contents'[k + 1] = Contents[k]
      BY <1>2, <1>5, <3>2, <3>5
    <3>8. Len(Contents) = n
      BY <1>2 DEF n
    <3> QED BY <3>5, <3>6, <3>7, <3>8 DEF Exchanged
  <2>3. Wrong(ascending, Contents[k], Contents[k + 1])
    BY <1>2, <1>4, <1>5, <1>8 DEF OutOfOrder, Wrong
  <2>4. Stage(Contents', unsorted, ascending)
    BY <1>2, <1>5, <1>6, <2>2, <2>3, SwapSorts
  <2> QED BY <1>3, <1>7, <2>1, <2>4 DEF SortInv
<1>9. CASE ~ OutOfOrder(payload[curnode], payload[next[curnode]])
  <2>1. UNCHANGED <<payload, swapped>>
    BY <1>9 DEF SortCompare
  <2>2. Contents' = Contents
    BY <1>3, <2>1 DEF Contents
  <2>3. ~ Wrong(ascending, Contents[k], Contents[k + 1])
    BY <1>2, <1>4, <1>5, <1>9 DEF OutOfOrder, Wrong
  <2>4. ~ swapped => OrderedTo(Contents, k + 1, ascending)
    <3>1. \A i \in 1..(k + 1) - 1 : i \in 1..k - 1 \/ i = k
      BY <1>5
    <3> QED BY <1>6, <2>3, <3>1 DEF OrderedTo
  <2>5. \A i \in 1..n : nodes'[i] = curnode' => i = k + 1
    BY <1>1, <1>3, <1>5
  <2>6. Len(nodes') = n
    BY <1>3 DEF n
  <2> QED BY <1>3, <1>6, <1>7, <2>1, <2>2, <2>4, <2>5, <2>6 DEF SortInv
<1> QED BY <1>8, <1>9

LEMMA StepSortInv ==
  ASSUME IInv, IInv', SortInv, [Next]_vars
  PROVE  SortInv'
<1>1. iter # NoIter => ~ Sorting
  BY DEF IInv
<1>2. ASSUME ~ Sorting', iter' = NoIter \/ open' PROVE SortInv'
  BY <1>2 DEF SortInv
<1>3. CASE \E p \in Payload : LinkedList_Push(p)
  BY <1>2, <1>3 DEF LinkedList_Push, Calling, Sorting, sortVars
<1>4. CASE LinkedList_Pop \/ LinkedList_Slice \/ LinkedList_Free
  BY <1>2, <1>4 DEF LinkedList_Pop, LinkedList_Slice, LinkedList_Free, Calling, Sorting, sortVars
<1>5. ASSUME NEW asc \in BOOLEAN, SortBegin(asc) PROVE SortInv'
  <2>1. /\ UNCHANGED <<nodes, payload, open>> /\ open /\ curnode' = head /\ unsorted' = Contents /\ iter' = NoIter
    BY <1>5 DEF SortBegin, Calling, cellVars, listVars, userVars
  <2>2. Contents' = Contents
    BY <2>1 DEF Contents
  <2>3. Stage(Contents, Contents, ascending')
    BY DEF Stage
  <2>4. \A k \in 1..Len(nodes) : nodes[k] = head => k = 1
    <3>1. /\ Len(nodes) \in Nat /\ head = (IF Len(nodes) = 0 THEN NULL ELSE nodes[1])
          /\ \A i, j \in 1..Len(nodes) : nodes[i] = nodes[j] => i = j
      BY Facts
    <3> QED BY <3>1
  <2>5. OrderedTo(Contents, 1, ascending')
    BY DEF OrderedTo
  <2> QED BY <2>1, <2>2, <2>3, <2>4, <2>5 DEF SortInv
<1>6. CASE SortCompare
  BY <1>6, CompareSorts
<1>7. CASE SortPassEnds
  <2>1. /\ UNCHANGED <<nodes, payload, open, iter, ascending>> /\ open
        /\ curnode' = NULL \/ (curnode' = head /\ unsorted' = unsorted)
        /\ Stage(Contents, unsorted, ascending)
    BY <1>7 DEF SortPassEnds, cellVars, listVars, userVars, SortInv
  <2>2. Contents' = Contents
    BY <2>1 DEF Contents
  <2>4. \A k \in 1..Len(nodes) : nodes[k] = head => k = 1
    <3>1. /\ Len(nodes) \in Nat /\ head = (IF Len(nodes) = 0 THEN NULL ELSE nodes[1])
          /\ \A i, j \in 1..Len(nodes) : nodes[i] = nodes[j] => i = j
      BY Facts
    <3> QED BY <3>1
  <2>5. OrderedTo(Contents, 1, ascending)
    BY DEF OrderedTo
  <2>6. CASE curnode' = NULL
    BY <1>2, <2>1, <2>6 DEF Sorting
  <2>7. CASE curnode' = head /\ unsorted' = unsorted
    BY <2>1, <2>2, <2>4, <2>5, <2>7 DEF SortInv
  <2> QED BY <2>1, <2>6, <2>7
<1>8. CASE LLIterator_Allocate
  BY <1>2, <1>8 DEF LLIterator_Allocate, Calling, Sorting, userVars, sortVars
<1>9. CASE LLIterator_Free \/ LLIterator_Next \/ LLIterator_Get \/ LLIterator_Rewind \/ LLIterator_Remove
  <2>1. iter # NoIter /\ UNCHANGED <<open, curnode>>
    BY <1>9 DEF LLIterator_Free, LLIterator_Next, LLIterator_Get, LLIterator_Rewind, LLIterator_Remove,
                LLIterator_IsValid, userVars, sortVars
  <2> QED BY <1>1, <1>2, <2>1 DEF SortInv, Sorting
<1>10. CASE UNCHANGED vars
  <2>1. UNCHANGED <<payload, nodes, iter, open, curnode, swapped, ascending, unsorted>>
    BY <1>10 DEF vars, cellVars, listVars, userVars, sortVars
  <2>2. Contents' = Contents
    BY <2>1 DEF Contents
  <2> QED BY <2>1, <2>2 DEF SortInv, Sorting
<1> QED BY <1>3, <1>4, <1>5, <1>6, <1>7, <1>8, <1>9, <1>10 DEF Next

-----------------------------------------------------------------------------
(* Without a sort a customer sees the list as it is.                       *)
LEMMA AsItIs == (~ Sorting => Sequence = Contents) /\ (~ Sorting' => Sequence' = Contents')
BY DEF Sequence

(* What a node that leaves the list takes with it is its payload.          *)
LEMMA PayloadGone ==
  ASSUME IInv, IInv', NEW k \in 1..Len(nodes), Without(Node, nodes, k, nodes'),
         payload' = [payload EXCEPT ![nodes[k]] = NULL]
  PROVE  Without(Payload, Contents, k, Contents')
<1> DEFINE n == Len(nodes)
<1>1. /\ Contents \in Seq(Payload) /\ Len(Contents) = n /\ \A i \in 1..n : Contents[i] = payload[nodes[i]]
      /\ Contents' \in Seq(Payload) /\ Len(Contents') = Len(nodes') /\ \A i \in 1..Len(nodes') : Contents'[i] = payload'[nodes'[i]]
  BY SeenHolds, SeenNext DEF Seen
<1>2. /\ n \in Nat /\ k \in 1..n /\ \A i, j \in 1..n : nodes[i] = nodes[j] => i = j
      /\ \A i \in 1..n : nodes[i] \in Node
      /\ payload \in [Node -> Payload \cup {NULL}]
  BY Facts DEF TypeOK
<1>3. Len(nodes') = n - 1 /\ \A i \in 1..n - 1 : nodes'[i] = IF i < k THEN nodes[i] ELSE nodes[i + 1]
  BY DEF Without
<1> HIDE DEF n
<1>4. ASSUME NEW i \in 1..n - 1 PROVE Contents'[i] = IF i < k THEN Contents[i] ELSE Contents[i + 1]
  <2>1. i \in 1..n /\ i + 1 \in 1..n /\ (~ (i < k) => i + 1 # k) /\ (i < k => i # k)
    BY <1>2
  <2>2. Contents'[i] = payload'[nodes'[i]]
    BY <1>1, <1>3
  <2>3. ASSUME NEW j \in 1..n, j # k PROVE payload'[nodes[j]] = payload[nodes[j]]
    <3>1. nodes[j] # nodes[k] /\ nodes[j] \in Node
      BY <1>2, <2>3
    <3> QED BY <1>2, <3>1
  <2> QED BY <1>1, <1>3, <2>1, <2>2, <2>3
<1>5. Len(Contents') = Len(Contents) - 1 /\ Len(Contents) = n
  BY <1>1, <1>3
<1> QED BY <1>1, <1>4, <1>5 DEF Without

LEMMA HeadGone ==
  ASSUME IInv, IInv', DropHead, head # NULL
  PROVE  /\ Len(nodes) # 0 /\ nodes[1] = head /\ Len(nodes') = Len(nodes) - 1
         /\ Contents # <<>> /\ Head(Contents) = payload[head] /\ Contents' = Tail(Contents)
         /\ Without(Payload, Contents, 1, Contents')
<1>1. /\ nodes \in Seq(Node) /\ Len(nodes) # 0 /\ nodes[1] = head /\ Len(nodes) \in Nat
  BY Facts
<1>2. 1 \in 1..Len(nodes) /\ nodes # <<>>
  BY <1>1
<1>3. Without(Node, nodes, 1, nodes') /\ payload' = [payload EXCEPT ![nodes[1]] = NULL]
  BY <1>1, <1>2, TailIs DEF DropHead, FreeNode
<1>4. Without(Payload, Contents, 1, Contents')
  BY <1>2, <1>3, PayloadGone
<1>5. /\ Contents \in Seq(Payload) /\ Len(Contents) # 0 /\ Contents[1] = payload[head] /\ Len(Contents) = Len(nodes)
  BY <1>1, <1>2, SeenHolds DEF Seen
<1>6. Contents # <<>> /\ Head(Contents) = payload[head]
  BY <1>5
<1>7. Contents' = Tail(Contents)
  BY <1>4, <1>5, <1>6, TailIs, WithoutIsUnique
<1>8. Len(nodes') = Len(nodes) - 1
  BY <1>3 DEF Without
<1> QED BY <1>1, <1>4, <1>6, <1>7, <1>8

LEMMA TailGone ==
  ASSUME IInv, IInv', DropTail, head # NULL
  PROVE  /\ Len(nodes) # 0 /\ nodes[Len(nodes)] = tail /\ Len(nodes') = Len(nodes) - 1
         /\ Contents # <<>> /\ Last(Contents) = payload[tail] /\ Contents' = Front(Contents)
         /\ Without(Payload, Contents, Len(nodes), Contents')
<1> DEFINE n == Len(nodes)
<1>1. /\ nodes \in Seq(Node) /\ n # 0 /\ nodes[n] = tail /\ n \in Nat /\ nodes[1] = head
      /\ \A i, j \in 1..n : nodes[i] = nodes[j] => i = j
  BY Facts
<1>2. n \in 1..n /\ nodes # <<>> /\ 1 \in 1..n
  BY <1>1
<1>3. Without(Node, nodes, n, nodes')
  BY <1>1, <1>2, FrontIs DEF DropTail
<1>4. payload' = [payload EXCEPT ![nodes[n]] = NULL]
  BY <1>1, <1>2 DEF DropTail, FreeNode
<1>5. Without(Payload, Contents, n, Contents')
  BY <1>2, <1>3, <1>4, PayloadGone
<1>6. /\ Contents \in Seq(Payload) /\ Len(Contents) = n /\ Contents[n] = payload[tail]
  BY <1>1, <1>2, SeenHolds DEF Seen
<1>7. Contents # <<>> /\ Last(Contents) = payload[tail]
  BY <1>1, <1>6 DEF Last
<1>8. Contents' = Front(Contents)
  BY <1>5, <1>6, <1>7, FrontIs, WithoutIsUnique
<1>9. Len(nodes') = n - 1
  BY <1>3 DEF Without
<1> QED BY <1>1, <1>5, <1>7, <1>8, <1>9

LEMMA PushImplements ==
  ASSUME IInv, IInv', NEW p \in Payload, LinkedList_Push(p)
  PROVE  Promise!Push(p)
<1> DEFINE n == Len(nodes)
<1>1. PICK ln \in Node \ allocated : payload' = [payload EXCEPT ![ln] = p] /\ nodes' = <<ln>> \o nodes
  BY DEF LinkedList_Push
<1>2. /\ open /\ p \in mine /\ mine' = mine \ {p} /\ UNCHANGED <<freed, out, open>>
      /\ iter' = NoIter /\ ~ Sorting /\ ~ Sorting'
  BY DEF LinkedList_Push, Calling, Sorting, sortVars
<1>3. /\ nodes \in Seq(Node) /\ n \in Nat /\ \A i \in 1..n : nodes[i] \in Node /\ nodes[i] \in allocated
      /\ payload \in [Node -> Payload \cup {NULL}]
  BY Facts DEF TypeOK
<1>4. /\ Len(nodes') = n + 1 /\ \A i \in 1..n + 1 : nodes'[i] = IF i = 1 THEN ln ELSE nodes[i - 1]
  BY <1>1, <1>3
<1>5. /\ Contents \in Seq(Payload) /\ Len(Contents) = n /\ \A i \in 1..n : Contents[i] = payload[nodes[i]]
      /\ Contents' \in Seq(Payload) /\ Len(Contents') = n + 1 /\ \A i \in 1..n + 1 : Contents'[i] = payload'[nodes'[i]]
      /\ Place' = 0
  BY <1>2, <1>4, SeenHolds, SeenNext DEF Seen
<1> HIDE DEF n
<1>6. ASSUME NEW i \in 1..n + 1 PROVE Contents'[i] = IF i = 1 THEN p ELSE Contents[i - 1]
  <2>1. CASE i = 1
    BY <1>1, <1>3, <1>4, <1>5, <2>1
  <2>2. CASE i # 1
    <3>1. i - 1 \in 1..n /\ nodes'[i] = nodes[i - 1] /\ nodes[i - 1] # ln /\ nodes[i - 1] \in Node
      BY <1>1, <1>3, <1>4, <2>2
    <3>2. payload'[nodes[i - 1]] = payload[nodes[i - 1]]
      BY <1>1, <1>3, <3>1
    <3>3. Contents'[i] = payload'[nodes[i - 1]] /\ Contents[i - 1] = payload[nodes[i - 1]]
      BY <1>5, <3>1
    <3> QED BY <2>2, <3>2, <3>3
  <2> QED BY <2>1, <2>2
<1>7. Contents' = <<p>> \o Contents
  <2> DEFINE t == <<p>> \o Contents
  <2>1. t \in Seq(Payload) /\ Len(t) = n + 1 /\ \A i \in 1..n + 1 : t[i] = IF i = 1 THEN p ELSE Contents[i - 1]
    BY <1>3, <1>5
  <2> HIDE DEF t
  <2>2. Contents' = t
    BY <1>5, <1>6, <2>1, SeqEqual
  <2> QED BY <2>2 DEF t
<1> QED BY <1>2, <1>5, <1>7, AsItIs DEF Promise!Push

LEMMA PopImplements ==
  ASSUME IInv, IInv', LinkedList_Pop
  PROVE  Promise!Pop
<1>1. /\ DropHead /\ head # NULL /\ open /\ ~ Sorting /\ ~ Sorting' /\ iter' = NoIter /\ UNCHANGED <<freed, open>>
      /\ out' = payload[head] /\ mine' = mine \cup {payload[head]}
  BY DEF LinkedList_Pop, Calling, Sorting, sortVars
<1>2. Place' = 0
  BY <1>1, SeenNext DEF Seen
<1> QED BY <1>1, <1>2, HeadGone, AsItIs DEF Promise!Pop

LEMMA SliceImplements ==
  ASSUME IInv, IInv', LinkedList_Slice
  PROVE  Promise!Slice
<1>1. /\ DropTail /\ head # NULL /\ open /\ ~ Sorting /\ ~ Sorting' /\ iter' = NoIter /\ UNCHANGED <<freed, open>>
      /\ out' = payload[tail] /\ mine' = mine \cup {payload[tail]}
  BY DEF LinkedList_Slice, Calling, Sorting, sortVars
<1>2. Place' = 0
  BY <1>1, SeenNext DEF Seen
<1> QED BY <1>1, <1>2, TailGone, AsItIs DEF Promise!Slice, Promise!Front, Promise!Last, Front, Last

LEMMA FreeImplements ==
  ASSUME IInv, IInv', LinkedList_Free
  PROVE  Promise!Free
<1>1. /\ open /\ ~ Sorting /\ ~ Sorting' /\ iter' = NoIter /\ open' = FALSE /\ UNCHANGED <<mine, out>>
      /\ nodes' = <<>> /\ freed' = freed \cup {payload[n] : n \in Range(nodes)}
  BY DEF LinkedList_Free, Calling, Sorting, sortVars
<1>2. Range(Contents) = {payload[n] : n \in Range(nodes)} /\ Place' = 0
  BY <1>1, SeenHolds, SeenNext DEF Seen
<1>3. Contents' = <<>>
  <2>1. Contents' \in Seq(Payload) /\ Len(Contents') = 0
    BY <1>1, SeenNext DEF Seen
  <2> QED BY <2>1, EmptySeq
<1>4. Promise!ToSet(Contents) = Range(Contents)
  BY DEF Promise!ToSet, Range
<1> QED BY <1>1, <1>2, <1>3, <1>4, AsItIs DEF Promise!Free

(* A sort takes effect when a pass without a swap has ended.               *)
LEMMA PassEndImplements ==
  ASSUME IInv, IInv', SortInv, SortPassEnds, ~ swapped
  PROVE  Promise!Sort(ascending)
<1> DEFINE n == Len(nodes)
<1>1. /\ n \in Nat /\ Chain(nodes, next, prev)
      /\ curnode \in allocated \cup {NULL} /\ \A m \in allocated : \E i \in 1..n : m = nodes[i]
      /\ \A i \in 1..n : nodes[i] # NULL
  BY Facts
<1>2. /\ Sorting /\ next[curnode] = NULL /\ ~ Sorting' /\ iter' = iter
      /\ UNCHANGED <<payload, nodes, mine, freed, out, open>>
  BY DEF SortPassEnds, Sorting, cellVars, listVars, userVars
<1>3. Contents' = Contents /\ Sequence = unsorted /\ Sequence' = Contents
  BY <1>2 DEF Contents, Sequence
<1>4. PICK k \in 1..n : curnode = nodes[k]
  BY <1>1, <1>2 DEF Sorting
<1>5. k = n
  <2>1. next[nodes[k]] = IF k = n THEN NULL ELSE nodes[k + 1]
    BY <1>1, <1>4 DEF Chain
  <2>2. k # n => k + 1 \in 1..n
    BY <1>1
  <2> QED BY <1>1, <1>2, <1>4, <2>1, <2>2
<1>6. Stage(Contents, unsorted, ascending) /\ OrderedTo(Contents, n, ascending) /\ open
  BY <1>2, <1>4, <1>5 DEF SortInv
<1>7. iter = NoIter /\ Place' = 0
  <2>1. iter = NoIter
    BY <1>2 DEF IInv
  <2> QED BY <1>2, <2>1, SeenNext DEF Seen
<1>8. Contents \in Seq(Payload) /\ Len(Contents) = n /\ DOMAIN Contents = 1..n
  BY SeenHolds DEF Seen
<1>9. \A i, j \in 1..n : i < j =>
        IF ascending THEN Key[Contents[i]] <= Key[Contents[j]] ELSE Key[Contents[i]] >= Key[Contents[j]]
  BY <1>6, <1>8, OrderedAll
<1>10. unsorted \in Seq(Payload) /\ Len(unsorted) = n /\ DOMAIN unsorted = 1..n
  <2>1. unsorted \in Seq(Payload)
    BY Facts DEF TypeOK
  <2>2. Len(unsorted) = n
    BY <1>6, <1>8 DEF Stage
  <2> QED BY <2>1, <2>2
<1> HIDE DEF n
<1>11. Promise!ToSet(unsorted) = Range(unsorted) /\ Promise!ToSet(Contents) = Range(Contents) /\ Range(Contents) = Range(unsorted)
  BY <1>6 DEF Promise!ToSet, Range, Stage
<1>12. Contents \in [DOMAIN unsorted -> Promise!ToSet(unsorted)]
  <2>1. \A i \in 1..n : Contents[i] \in Range(Contents)
    BY <1>8 DEF Range
  <2>2. Contents = [i \in 1..n |-> Contents[i]]
    BY <1>8
  <2> QED BY <1>10, <1>11, <2>1, <2>2
<1>13. \A p, q \in Promise!ToSet(unsorted) : Promise!Before(Contents, p, q) /\ ~ Promise!Before(unsorted, p, q) =>
         IF ascending THEN Key[p] < Key[q] ELSE Key[p] > Key[q]
  <2>1. ASSUME NEW p \in Promise!ToSet(unsorted), NEW q \in Promise!ToSet(unsorted),
               Promise!Before(Contents, p, q), ~ Promise!Before(unsorted, p, q)
        PROVE  IF ascending THEN Key[p] < Key[q] ELSE Key[p] > Key[q]
    <3>1. p \in Payload /\ q \in Payload
      BY <1>10 DEF Promise!ToSet
    <3>2. Wrong(ascending, q, p)
      BY <1>6, <2>1, <3>1 DEF Stage
    <3>3. Key[p] \in Int /\ Key[q] \in Int
      BY <3>1, KeyAssumption
    <3> QED BY <3>2, <3>3 DEF Wrong
  <2> QED BY <2>1
<1>14. UNCHANGED <<mine, freed, out, open>>
  BY <1>2
<1> QED BY <1>3, <1>6, <1>7, <1>9, <1>10, <1>11, <1>12, <1>13, <1>14 DEF Promise!Sort

(* The rest of a sort a customer cannot notice, but for the iterator that  *)
(* it makes undefined.                                                     *)
LEMMA SortImplements ==
  ASSUME IInv, IInv', SortInv, SortCompare \/ (SortPassEnds /\ swapped) \/ \E asc \in BOOLEAN : SortBegin(asc)
  PROVE  UNCHANGED Promise!listVars \/ Promise!IterFree
<1>1. /\ Len(nodes) \in Nat /\ head = (IF Len(nodes) = 0 THEN NULL ELSE nodes[1]) /\ num_elements = Len(nodes)
      /\ \A i \in 1..Len(nodes) : nodes[i] # NULL
      /\ \A i \in 1..Len(nodes) : nodes[i] \in allocated
      /\ curnode \in allocated \cup {NULL} /\ \A m \in allocated : \E i \in 1..Len(nodes) : m = nodes[i]
  BY Facts
<1>2. Len(nodes) # 0 => head # NULL
  <2>1. Len(nodes) # 0 => 1 \in 1..Len(nodes)
    BY <1>1
  <2> QED BY <1>1, <2>1
<1>3. CASE SortCompare \/ (SortPassEnds /\ swapped)
  <2>1. Sorting /\ UNCHANGED <<nodes, iter, unsorted, mine, freed, out, open>> /\ iter = NoIter
    BY <1>3 DEF SortCompare, SortPassEnds, listVars, userVars, IInv
  <2>2. Sorting'
    <3>1. CASE SortCompare
      BY <3>1 DEF SortCompare, Sorting
    <3>2. CASE SortPassEnds /\ swapped
      <4>1. curnode' = head /\ curnode # NULL
        BY <3>2 DEF SortPassEnds, Sorting
      <4>2. Len(nodes) # 0
        BY <1>1, <4>1
      <4> QED BY <1>2, <4>1, <4>2 DEF Sorting
    <3> QED BY <1>3, <3>1, <3>2
  <2>3. Sequence' = Sequence
    BY <2>1, <2>2 DEF Sequence
  <2>4. Place' = Place
    BY <2>1, SeenHolds, SeenNext DEF Seen
  <2> QED BY <2>1, <2>3, <2>4 DEF Promise!listVars
<1>4. ASSUME NEW asc \in BOOLEAN, SortBegin(asc) PROVE UNCHANGED Promise!listVars \/ Promise!IterFree
  <2>1. ~ Sorting /\ num_elements >= 2 /\ unsorted' = Contents /\ curnode' = head /\ iter' = NoIter
        /\ UNCHANGED <<mine, freed, out, open>>
    BY <1>4 DEF SortBegin, Calling, userVars
  <2>2. Sorting'
    BY <1>1, <1>2, <2>1 DEF Sorting
  <2>3. Sequence' = Sequence
    BY <2>1, <2>2 DEF Sequence
  <2>4. Place' = 0
    BY <2>1, SeenNext DEF Seen
  <2> QED BY <2>1, <2>3, <2>4 DEF Promise!listVars, Promise!IterFree
<1> QED BY <1>3, <1>4

LEMMA IteratorImplements ==
  ASSUME IInv, IInv', SortInv,
         LLIterator_Allocate \/ LLIterator_Free \/ LLIterator_Next \/ LLIterator_Get \/ LLIterator_Rewind
  PROVE  Promise!IterAllocate \/ Promise!IterFree \/ Promise!IterNext \/ Promise!IterGet \/ Promise!IterRewind
<1> DEFINE n == Len(nodes)
<1>1. /\ n \in Nat /\ head = (IF n = 0 THEN NULL ELSE nodes[1]) /\ Chain(nodes, next, prev)
  BY Facts
<1>2. /\ Len(Contents) = n /\ DOMAIN Contents = 1..n
      /\ \A i \in 1..n : Contents[i] = payload[nodes[i]]
      /\ iter = NoIter => Place = 0
      /\ Place = 0 => iter = NoIter
      /\ \A i \in 1..n : iter = nodes[i] => Place = i
      /\ LLIterator_IsValid => \E i \in 1..n : iter = nodes[i]
  BY SeenHolds DEF Seen
<1>3. iter # NoIter => open /\ ~ Sorting
  BY DEF SortInv, IInv
<1>4. UNCHANGED <<nodes, payload, curnode, unsorted, mine, freed, open>>
  BY DEF LLIterator_Allocate, LLIterator_Free, LLIterator_Next, LLIterator_Get, LLIterator_Rewind,
         cellVars, listVars, userVars, sortVars
<1>5. Contents' = Contents /\ Sequence' = Sequence /\ (~ Sorting => Sequence = Contents)
  BY <1>4 DEF Contents, Sequence, Sorting
<1>6. /\ iter' = NoIter => Place' = 0
      /\ iter' = NULL => Place' = n + 1
      /\ \A i \in 1..n : iter' = nodes[i] => Place' = i
  BY <1>4, SeenNext DEF Seen
<1>7. iter' = head => Place' = 1
  <2>1. n # 0 => 1 \in 1..n
    BY <1>1
  <2> QED BY <1>1, <1>6, <2>1
<1>8. CASE LLIterator_Allocate
  <2>1. open /\ iter = NoIter /\ iter' = head /\ out' = out
    BY <1>8 DEF LLIterator_Allocate, Calling, userVars
  <2> QED BY <1>2, <1>4, <1>5, <1>7, <2>1 DEF Promise!IterAllocate
<1>9. CASE LLIterator_Free
  <2>1. iter # NoIter /\ iter' = NoIter /\ out' = out
    BY <1>9 DEF LLIterator_Free, userVars
  <2> QED BY <1>2, <1>4, <1>5, <1>6, <2>1 DEF Promise!IterFree
<1>10. CASE LLIterator_Next
  <2>1. LLIterator_IsValid /\ iter # NoIter /\ iter' = next[iter] /\ out' = out
    BY <1>10 DEF LLIterator_Next, LLIterator_IsValid, userVars
  <2>2. PICK k \in 1..n : iter = nodes[k]
    BY <1>2, <2>1
  <2>3. next[nodes[k]] = IF k = n THEN NULL ELSE nodes[k + 1]
    BY <1>1 DEF Chain
  <2>4. k # n => k + 1 \in 1..n
    BY <1>1
  <2>5. Place = k /\ Place' = k + 1
    BY <1>2, <1>6, <2>1, <2>2, <2>3, <2>4
  <2>6. Promise!IsValid
    BY <1>2, <1>3, <1>5, <2>1, <2>5 DEF Promise!IsValid
  <2> QED BY <1>4, <1>5, <2>1, <2>5, <2>6 DEF Promise!IterNext
<1>11. CASE LLIterator_Get
  <2>1. LLIterator_IsValid /\ iter # NoIter /\ iter' = iter /\ out' = payload[iter]
    BY <1>11 DEF LLIterator_Get, LLIterator_IsValid
  <2>2. PICK k \in 1..n : iter = nodes[k]
    BY <1>2, <2>1
  <2>3. Place = k /\ Place' = k /\ out' = Contents[k] /\ Sequence = Contents
    BY <1>2, <1>3, <1>5, <1>6, <2>1, <2>2
  <2>4. Promise!IsValid
    BY <1>2, <1>3, <2>1, <2>3 DEF Promise!IsValid
  <2> QED BY <1>4, <1>5, <2>1, <2>3, <2>4 DEF Promise!IterGet
<1>12. CASE LLIterator_Rewind
  <2>1. iter # NoIter /\ iter' = head /\ out' = out
    BY <1>12 DEF LLIterator_Rewind, userVars
  <2> QED BY <1>2, <1>3, <1>4, <1>5, <1>7, <2>1 DEF Promise!IterRewind
<1> QED BY <1>8, <1>9, <1>10, <1>11, <1>12

(* Each case of Remove moves the iterator to the successor, or from the    *)
(* tail to the predecessor.                                                *)
LEMMA RemoveImplements ==
  ASSUME IInv, IInv', SortInv, LLIterator_Remove
  PROVE  Promise!IterRemove
<1> DEFINE n == Len(nodes)
<1>1. /\ nodes \in Seq(Node) /\ n \in Nat /\ DOMAIN nodes = 1..n /\ num_elements = n /\ Chain(nodes, next, prev)
      /\ head = (IF n = 0 THEN NULL ELSE nodes[1]) /\ tail = (IF n = 0 THEN NULL ELSE nodes[n])
      /\ \A i, j \in 1..n : nodes[i] = nodes[j] => i = j
      /\ \A i \in 1..n : nodes[i] # NULL
  BY Facts
<1>2. /\ LLIterator_IsValid /\ iter # NoIter /\ freed' = freed \cup {payload[iter]} /\ UNCHANGED <<mine, out, open, curnode>>
  BY DEF LLIterator_Remove, LLIterator_IsValid, sortVars
<1>3. /\ Contents \in Seq(Payload) /\ Len(Contents) = n /\ \A i \in 1..n : Contents[i] = payload[nodes[i]]
      /\ \A i \in 1..n : iter = nodes[i] => Place = i
      /\ LLIterator_IsValid => \E i \in 1..n : iter = nodes[i]
  BY SeenHolds DEF Seen
<1>4. /\ Len(nodes') \in Nat
      /\ head' = (IF Len(nodes') = 0 THEN NULL ELSE nodes'[1])
      /\ tail' = (IF Len(nodes') = 0 THEN NULL ELSE nodes'[Len(nodes')])
      /\ iter' = NULL => Place' = Len(nodes') + 1
      /\ \A i \in 1..Len(nodes') : iter' = nodes'[i] => Place' = i
  BY SeenNext DEF Seen
<1>5. open /\ Sequence = Contents /\ Sequence' = Contents'
  <2>1. ~ Sorting /\ ~ Sorting' /\ open
    BY <1>2 DEF IInv, SortInv, Sorting
  <2> QED BY <2>1, AsItIs
<1>6. PICK k \in 1..n : iter = nodes[k]
  BY <1>2, <1>3
<1>7. Place = k /\ Contents[k] = payload[iter] /\ n # 0 /\ head # NULL
  <2>1. n # 0 /\ 1 \in 1..n
    BY <1>1, <1>6
  <2> QED BY <1>1, <1>3, <1>6, <2>1
<1>8. ASSUME Without(Payload, Contents, k, Contents'), Place' = IF k = n /\ k > 1 THEN k - 1 ELSE k
      PROVE  Promise!IterRemove
  <2>1. Without(Payload, Contents, k, RemoveAt(Contents, k))
    BY <1>3, RemoveAtIs
  <2>2. Contents' = RemoveAt(Contents, k)
    BY <1>3, <1>8, <2>1, WithoutIsUnique
  <2>3. RemoveAt(Contents, k) = Promise!RemoveAt(Contents, k)
    BY DEF RemoveAt, Promise!RemoveAt
  <2>4. Promise!IsValid
    BY <1>1, <1>3, <1>5, <1>7 DEF Promise!IsValid
  <2>5. Place' = IF Place = Len(Sequence) /\ Place > 1 THEN Place - 1 ELSE Place
    BY <1>3, <1>5, <1>7, <1>8
  <2> QED BY <1>2, <1>5, <1>7, <2>2, <2>3, <2>4, <2>5 DEF Promise!IterRemove
<1>9. CASE RemoveHead
  <2>1. DropHead /\ n # 1 /\ iter = head /\ iter' = head'
    BY <1>1, <1>9 DEF RemoveHead
  <2>2. k = 1
    <3>1. 1 \in 1..n /\ head = nodes[1]
      BY <1>1, <1>7
    <3> QED BY <1>1, <1>6, <2>1, <3>1
  <2>3. Without(Payload, Contents, 1, Contents') /\ Len(nodes') = n - 1
    BY <1>7, <2>1, HeadGone
  <2>4. Place' = 1
    <3>1. Len(nodes') # 0 /\ 1 \in 1..Len(nodes')
      BY <1>1, <1>7, <2>1, <2>3
    <3> QED BY <1>4, <2>1, <3>1
  <2> QED BY <1>1, <1>8, <2>1, <2>2, <2>3, <2>4
<1>10. CASE RemoveTail
  <2>1. DropTail /\ n # 1 /\ iter = tail /\ iter' = tail'
    BY <1>1, <1>10 DEF RemoveTail
  <2>2. k = n
    <3>1. n \in 1..n /\ tail = nodes[n]
      BY <1>1, <1>7
    <3> QED BY <1>1, <1>6, <2>1, <3>1
  <2>3. Without(Payload, Contents, n, Contents') /\ Len(nodes') = n - 1
    BY <1>7, <2>1, TailGone
  <2>4. Place' = n - 1 /\ n > 1
    <3>1. n > 1 /\ Len(nodes') # 0 /\ Len(nodes') \in 1..Len(nodes')
      BY <1>1, <1>7, <2>1, <2>3
    <3> QED BY <1>4, <2>1, <2>3, <3>1
  <2> QED BY <1>8, <2>2, <2>3, <2>4
<1>11. CASE RemoveOnly
  <2>1. n = 1 /\ nodes' = <<>> /\ iter' = NULL /\ payload' = [payload EXCEPT ![iter] = NULL]
    BY <1>1, <1>11 DEF RemoveOnly, FreeNode
  <2>2. k = 1 /\ Len(nodes') = 0
    BY <2>1
  <2>3. Without(Node, nodes, k, nodes')
    <3>1. nodes' \in Seq(Node)
      BY <2>1
    <3> QED BY <2>1, <2>2, <3>1 DEF Without
  <2>4. Place' = 1
    BY <1>4, <2>1, <2>2
  <2>5. Without(Payload, Contents, k, Contents')
    BY <1>6, <2>1, <2>3, PayloadGone
  <2> QED BY <1>8, <2>1, <2>2, <2>4, <2>5
<1>12. CASE RemoveInner
  <2>1. k # 1 /\ k # n
    <3>1. iter # head /\ iter # tail
      BY <1>12 DEF RemoveInner
    <3> QED BY <1>1, <1>6, <1>7, <3>1
  <2>2. Without(Node, nodes, k, nodes') /\ payload' = [payload EXCEPT ![nodes[k]] = NULL] /\ iter' = next[iter]
    <3>1. PICK j \in DOMAIN nodes : nodes[j] = iter /\ nodes' = RemoveAt(nodes, j)
      BY <1>12 DEF RemoveInner, Unlink
    <3>2. j = k
      BY <1>1, <1>6, <3>1
    <3>3. Without(Node, nodes, k, nodes')
      BY <1>1, <3>1, <3>2, RemoveAtIs
    <3> QED BY <1>6, <1>12, <3>3 DEF RemoveInner, Unlink, FreeNode
  <2>3. next[nodes[k]] = nodes[k + 1]
    <3>1. next[nodes[k]] = IF k = n THEN NULL ELSE nodes[k + 1]
      BY <1>1 DEF Chain
    <3> QED BY <2>1, <3>1
  <2>4. Len(nodes') = n - 1 /\ nodes'[k] = nodes[k + 1] /\ k \in 1..Len(nodes')
    <3>0. n \in Nat
      BY <1>1
    <3>1. k \in 1..n - 1 /\ ~ (k < k)
      BY <2>1, <3>0
    <3>2. Len(nodes') = n - 1 /\ nodes'[k] = IF k < k THEN nodes[k] ELSE nodes[k + 1]
      BY <2>2, <3>1 DEF Without
    <3> QED BY <3>1, <3>2
  <2>5. Place' = k
    BY <1>4, <1>6, <2>2, <2>3, <2>4
  <2>6. Without(Payload, Contents, k, Contents')
    BY <2>2, PayloadGone
  <2> QED BY <1>8, <2>1, <2>5, <2>6
<1> QED BY <1>9, <1>10, <1>11, <1>12 DEF LLIterator_Remove

LEMMA RefinementInit == Init => Promise!ListInit
<1> SUFFICES ASSUME Init PROVE Promise!ListInit
  OBVIOUS
<1>1. nodes = <<>> /\ ~ Sorting /\ iter = NoIter
  BY DEF Init, Sorting
<1>2. Contents = <<>> /\ Place = 0
  <2>1. Contents \in Seq(Payload) /\ Len(Contents) = 0 /\ Place = 0
    BY <1>1, InitIInv, SeenHolds DEF Seen
  <2> QED BY <2>1, EmptySeq
<1> QED BY <1>1, <1>2, AsItIs DEF Init, Promise!ListInit

LEMMA RefinementStep ==
  ASSUME IInv, IInv', SortInv, [Next]_vars
  PROVE  [Promise!ListNext]_(Promise!listVars)
<1>1. ASSUME NEW p \in Payload, LinkedList_Push(p) PROVE Promise!ListNext
  BY <1>1, PushImplements DEF Promise!ListNext
<1>2. ASSUME LinkedList_Pop PROVE Promise!ListNext
  BY <1>2, PopImplements DEF Promise!ListNext
<1>3. ASSUME LinkedList_Slice PROVE Promise!ListNext
  BY <1>3, SliceImplements DEF Promise!ListNext
<1>4. ASSUME LinkedList_Free PROVE Promise!ListNext
  BY <1>4, FreeImplements DEF Promise!ListNext
<1>5. ASSUME SortPassEnds, ~ swapped PROVE Promise!ListNext
  <2>1. ascending \in BOOLEAN
    BY Facts DEF TypeOK
  <2> QED BY <1>5, <2>1, PassEndImplements DEF Promise!ListNext
<1>6. ASSUME SortCompare \/ (SortPassEnds /\ swapped) \/ \E asc \in BOOLEAN : SortBegin(asc)
      PROVE  UNCHANGED Promise!listVars \/ Promise!ListNext
  BY <1>6, SortImplements DEF Promise!ListNext
<1>7. ASSUME LLIterator_Allocate \/ LLIterator_Free \/ LLIterator_Next \/ LLIterator_Get \/ LLIterator_Rewind
      PROVE  Promise!ListNext
  BY <1>7, IteratorImplements DEF Promise!ListNext
<1>8. ASSUME LLIterator_Remove PROVE Promise!ListNext
  BY <1>8, RemoveImplements DEF Promise!ListNext
<1>9. ASSUME UNCHANGED vars PROVE UNCHANGED Promise!listVars
  <2>1. UNCHANGED <<payload, nodes, iter, mine, freed, out, open, curnode, unsorted>>
    BY <1>9 DEF vars, cellVars, listVars, userVars, sortVars
  <2>2. Contents' = Contents /\ Sequence' = Sequence
    BY <2>1 DEF Contents, Sequence, Sorting
  <2>3. Place' = Place
    BY <2>1 DEF Place, Position
  <2> QED BY <2>1, <2>2, <2>3 DEF Promise!listVars
<1> QED BY <1>1, <1>2, <1>3, <1>4, <1>5, <1>6, <1>7, <1>8, <1>9 DEF Next

(* The list is the sequence that LinkedList.h promises, however long it    *)
(* is: what every call returns and leaves, and a sort that takes effect at *)
(* once, puts the payloads in order and keeps equal ones as they were.     *)
THEOREM Implements == Spec => ImplementsList
<1>1. Init => IInv /\ SortInv
  BY InitIInv, SortInvInit
<1>2. IInv /\ SortInv /\ [Next]_vars => IInv' /\ SortInv'
  BY StepIInv, StepSortInv
<1>3. IInv /\ IInv' /\ SortInv /\ [Next]_vars => [Promise!ListNext]_(Promise!listVars)
  BY RefinementStep
<1>4. ImplementsList <=> Promise!ListSpec
  BY DEF ImplementsList
<1> QED BY <1>1, <1>2, <1>3, <1>4, RefinementInit, PTL DEF Spec, Promise!ListSpec
=============================================================================
