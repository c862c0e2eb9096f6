---------------------------- MODULE MCLinkedList ----------------------------
(* Instances of LinkedList for TLC: p1 and p2 compare as equal. *)
EXTENDS LinkedList, TLC

CONSTANTS p1, p2, p3, p4

Payloads3 == {p1, p2, p3}
Payloads4 == {p1, p2, p3, p4}
KeyOf == [p \in Payload |-> CASE p \in {p1, p2} -> 1 [] p = p3 -> 0 [] OTHER -> 2]
Interchangeable == Permutations(Node)
=============================================================================
