---------------------------- MODULE MCWriteIndex ----------------------------
(* The instance of WriteIndex for TLC: every operation may fail, or none.   *)
EXTENDS WriteIndex

EveryError == {"write", "read", "sync", "writeback", "close"}
NoError == {}
=============================================================================
