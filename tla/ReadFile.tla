------------------------------ MODULE ReadFile ------------------------------
(***************************************************************************)
(* What ro_file.h promises: a file that is read from a position, which     *)
(* ro_tell returns and ro_seek sets.                                       *)
(***************************************************************************)
EXTENDS Integers, Sequences, FiniteSetsExt

CONSTANTS File,    \* the file's bytes, a function from offsets
          FileLen, \* their number
          Lengths, \* the lengths asked of ro_read
          Offsets, \* the offsets given to ro_seek
          Ahead    \* how far SEEK_CUR may be off: what may be buffered

VARIABLES pos,    \* the position in the file
          asked,  \* how many bytes the last ro_read was asked for
          out,    \* the bytes the last ro_read put into the user's buffer
          ret,    \* what the last call returned
          open

fileVars == <<pos, asked, out, ret, open>>

FileInit == pos = 0 /\ asked = 0 /\ out = <<>> /\ ret = 0 /\ open = TRUE

Bytes(from, n) == [i \in 1..n |-> File[from + i - 1]]

(* All the bytes asked for, or those up to the end of the file.            *)
Read(len) ==
  /\ open /\ asked' = len
  /\ LET left == IF pos < FileLen THEN FileLen - pos ELSE 0
         n == IF len <= left THEN len ELSE left
     IN out' = Bytes(pos, n) /\ ret' = n /\ pos' = pos + n
  /\ UNCHANGED open

(* What an error leaves: some bytes may have been read, and be lost.       *)
ReadError(len) ==
  /\ open /\ asked' = len
  /\ \E n \in 0..len :
       /\ n = 0 \/ pos + n <= FileLen
       /\ out' = Bytes(pos, n) /\ pos' = pos + n
  /\ ret' = -1
  /\ UNCHANGED open

(* ro_file.h:36-39 says that SEEK_CUR moves from the current position; it  *)
(* moves from up to Ahead bytes further on.                                *)
Targets(offset, whence) ==
  CASE whence = "SEEK_SET" -> {offset}
    [] whence = "SEEK_CUR" -> {pos + ahead + offset : ahead \in 0..Ahead}
    [] whence = "SEEK_END" -> {FileLen + offset}

Seek(offset, whence) ==
  /\ open
  /\ \E target \in Targets(offset, whence) :
       IF target >= 0 THEN pos' = target /\ ret' = 0 ELSE ret' = 1 /\ UNCHANGED pos
  /\ UNCHANGED <<asked, out, open>>

Close == open /\ open' = FALSE /\ ret' \in {0, -1} /\ UNCHANGED <<pos, asked, out>>

FileNext ==
  \/ \E len \in Lengths : Read(len) \/ ReadError(len)
  \/ \E offset \in Offsets, whence \in {"SEEK_SET", "SEEK_CUR", "SEEK_END"} : Seek(offset, whence)
  \/ Close

FileSpec == FileInit /\ [][FileNext]_fileVars
=============================================================================
