---------------------------- MODULE PayloadList ----------------------------
(***************************************************************************)
(* What LinkedList.h promises its customers: a sequence of payloads with   *)
(* one iterator, and for each payload someone who must free it.            *)
(***************************************************************************)
EXTENDS Integers, SequencesExt

CONSTANTS Payload,  \* the payloads a customer puts into lists
          Key       \* what the customer's comparator compares

VARIABLES
  seq,    \* the list's payloads
  at,     \* the iterator's position; Len(seq) + 1 is past the end,
          \* 0 that there is none, or one that a mutation made undefined
  mine,   \* the payloads the customer owns
  freed,  \* those passed to the payload_free_function
  out,    \* the payload last returned
  open    \* between Allocate and Free

listVars == <<seq, at, mine, freed, out, open>>

ListInit == seq = <<>> /\ at = 0 /\ mine = Payload /\ freed = {} /\ out \in Payload /\ open = TRUE

IsValid == open /\ at \in 1..Len(seq)

Push(p) ==
  /\ open /\ p \in mine
  /\ seq' = <<p>> \o seq /\ at' = 0
  /\ mine' = mine \ {p}
  /\ UNCHANGED <<freed, out, open>>

Append1(p) ==
  /\ open /\ p \in mine
  /\ seq' = Append(seq, p) /\ at' = 0
  /\ mine' = mine \ {p}
  /\ UNCHANGED <<freed, out, open>>

Pop ==
  /\ open /\ seq # <<>>
  /\ seq' = Tail(seq) /\ at' = 0
  /\ out' = Head(seq) /\ mine' = mine \cup {Head(seq)}
  /\ UNCHANGED <<freed, open>>

Slice ==
  /\ open /\ seq # <<>>
  /\ seq' = Front(seq) /\ at' = 0
  /\ out' = Last(seq) /\ mine' = mine \cup {Last(seq)}
  /\ UNCHANGED <<freed, open>>

(* Payloads with equal keys keep their order. *)
Before(s, p, q) == \E i, j \in DOMAIN s : i < j /\ s[i] = p /\ s[j] = q

Sort(ascending) ==
  /\ open
  /\ seq' \in [DOMAIN seq -> ToSet(seq)] /\ ToSet(seq') = ToSet(seq)
  /\ \A p, q \in ToSet(seq) : Before(seq', p, q) /\ ~Before(seq, p, q) =>
       IF ascending THEN Key[p] < Key[q] ELSE Key[p] > Key[q]
  /\ \A i, j \in DOMAIN seq : i < j =>
       IF ascending THEN Key[seq'[i]] <= Key[seq'[j]] ELSE Key[seq'[i]] >= Key[seq'[j]]
  /\ at' = 0
  /\ UNCHANGED <<mine, freed, out, open>>

IterAllocate == open /\ at = 0 /\ at' = 1 /\ UNCHANGED <<seq, mine, freed, out, open>>
IterFree == at # 0 /\ at' = 0 /\ UNCHANGED <<seq, mine, freed, out, open>>
IterNext == IsValid /\ at' = at + 1 /\ UNCHANGED <<seq, mine, freed, out, open>>
IterGet == IsValid /\ out' = seq[at] /\ UNCHANGED <<seq, at, mine, freed, open>>
IterRewind == open /\ at # 0 /\ at' = 1 /\ UNCHANGED <<seq, mine, freed, out, open>>

(* The iterator moves to the successor, from the tail to the predecessor.  *)
IterRemove ==
  /\ IsValid
  /\ seq' = RemoveAt(seq, at)
  /\ freed' = freed \cup {seq[at]}
  /\ at' = IF at = Len(seq) /\ at > 1 THEN at - 1 ELSE at
  /\ UNCHANGED <<mine, out, open>>

Free ==
  /\ open /\ open' = FALSE
  /\ seq' = <<>> /\ at' = 0
  /\ freed' = freed \cup ToSet(seq)
  /\ UNCHANGED <<mine, out>>

ListNext ==
  \/ \E p \in Payload : Push(p) \/ Append1(p)
  \/ Pop \/ Slice \/ Free
  \/ \E ascending \in BOOLEAN : Sort(ascending)
  \/ IterAllocate \/ IterFree \/ IterNext \/ IterGet \/ IterRewind \/ IterRemove

ListSpec == ListInit /\ [][ListNext]_listVars
=============================================================================
