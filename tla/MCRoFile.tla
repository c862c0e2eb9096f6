------------------------------ MODULE MCRoFile ------------------------------
(* Instances of RoFile for TLC: the byte at an offset is that offset.       *)
EXTENDS RoFile

FileOfOffsets == [i \in 0..FileLen - 1 |-> i]
SmallLengths == 0..4
SmallOffsets == -2..3
=============================================================================
