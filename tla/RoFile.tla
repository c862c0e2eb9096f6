------------------------------- MODULE RoFile -------------------------------
(***************************************************************************)
(* exercises/ex4/ro_file.c: buffered reading of a file.  The program is    *)
(* sequential, but ro_read takes a step for every read system call it      *)
(* makes, which may bring fewer bytes than asked for, or an error.         *)
(***************************************************************************)
EXTENDS Integers, Sequences

CONSTANTS File,     \* the file's bytes, a function from offsets
          FileLen,  \* their number
          BufLen,   \* RO_FILE_BUF_LEN
          Lengths,  \* the lengths asked of ro_read
          Offsets,  \* the offsets given to ro_seek
          Whences,  \* the directives given to ro_seek
          MaxPos    \* bound: the highest position that is sought

ASSUME FileAssumption == FileLen \in Nat /\ BufLen \in Nat \ {0} /\ File \in [0..FileLen - 1 -> Nat]
ASSUME WhencesAssumption == Whences \subseteq {"SEEK_SET", "SEEK_CUR", "SEEK_END"}
ASSUME CallsAssumption == Lengths \subseteq Nat /\ Offsets \subseteq Int /\ MaxPos \in Nat

VARIABLES
  fd_pos,     \* the kernel's offset of the descriptor
  buf, buf_pos, buf_index, buf_end,  \* the RO_FILE
  pc,         \* where ro_read is: idle when it is not running
  len, got,   \* its argument, and what it has put into the user's buffer
  asked,      \* history: what length the last ro_read to return was asked for
  out,        \* history: what the last ro_read to return had put there
  from,       \* history: the position when it was called
  ret,        \* what the last call returned
  open        \* between ro_open and ro_close

bufVars == <<fd_pos, buf, buf_pos, buf_index, buf_end>>
vars == <<bufVars, pc, len, got, asked, out, from, ret, open>>

Init ==
  /\ fd_pos = 0 /\ buf_pos = 0 /\ buf_index = 0 /\ buf_end = 0
  /\ buf = [i \in 0..BufLen - 1 |-> 0]
  /\ pc = "idle" /\ len = 0 /\ got = <<>> /\ asked = 0 /\ out = <<>> /\ from = 0
  /\ ret = 0 /\ open = TRUE

Calling == open /\ pc = "idle"

ro_tell == buf_pos + buf_index

-----------------------------------------------------------------------------
Least(a, b) == IF a <= b THEN a ELSE b

Returns(n, bytes, r) == pc' = "idle" /\ asked' = n /\ out' = bytes /\ got' = <<>> /\ ret' = r

(* flush_buffer: bytes of the buffer go to the user, behind those in sofar; *)
(* ro_read returns when it has all it was asked for.                       *)
FlushBehind(sofar, amount) ==
  LET n == Least(amount - Len(sofar), buf_end - buf_index)
      bytes == sofar \o [i \in 1..n |-> buf[buf_index + i - 1]]
  IN /\ buf_index' = buf_index + n
     /\ IF Len(bytes) = amount THEN Returns(amount, bytes, amount)
        ELSE pc' = "fill" /\ got' = bytes /\ UNCHANGED <<asked, out, ret>>

ro_read(n) ==
  /\ Calling
  /\ len' = n /\ from' = ro_tell
  /\ FlushBehind(<<>>, n)
  /\ UNCHANGED <<fd_pos, buf, buf_pos, buf_end, open>>

FaultyFillBegins ==
  /\ pc = "fill"
  /\ buf_pos' = fd_pos /\ buf_end' = 0
  /\ pc' = "filling"
  /\ UNCHANGED <<fd_pos, buf, buf_index, len, got, asked, out, from, ret, open>>

(* fill_buffer: the buffer is emptied, and filled until it is full, the    *)
(* file ends or read fails.                                                *)
FillBegins ==
  /\ pc = "fill"
  /\ buf_pos' = fd_pos /\ buf_index' = 0 /\ buf_end' = 0
  /\ pc' = "filling"
  /\ UNCHANGED <<fd_pos, buf, len, got, asked, out, from, ret, open>>

FaultyRoom == BufLen

Room == BufLen - buf_end

FaultyFillReads ==
  /\ pc = "filling" /\ buf_end < BufLen
  /\ \E n \in 1..Least(Room, FileLen - fd_pos) :
       /\ buf' = [i \in DOMAIN buf |-> IF i < n THEN File[fd_pos + i] ELSE buf[i]]
       /\ fd_pos' = fd_pos + n
       /\ buf_end' = buf_end + n
  /\ UNCHANGED <<buf_pos, buf_index, pc, len, got, asked, out, from, ret, open>>

FillReads ==
  /\ pc = "filling" /\ buf_end < BufLen
  /\ \E n \in 1..Least(Room, FileLen - fd_pos) :
       /\ buf' = [i \in DOMAIN buf |->
                    IF i \in buf_end..buf_end + n - 1 THEN File[fd_pos + i - buf_end] ELSE buf[i]]
       /\ fd_pos' = fd_pos + n
       /\ buf_end' = buf_end + n
  /\ UNCHANGED <<buf_pos, buf_index, pc, len, got, asked, out, from, ret, open>>

FaultyFillFails ==
  /\ pc = "filling" /\ buf_end < BufLen
  /\ Returns(len, got, Len(got))
  /\ UNCHANGED <<bufVars, len, from, open>>

FillFails ==
  /\ pc = "filling" /\ buf_end < BufLen
  /\ Returns(len, got, -1)
  /\ UNCHANGED <<bufVars, len, from, open>>

FaultyFillEnds ==
  /\ pc = "filling"
  /\ buf_end = BufLen \/ fd_pos >= FileLen
  /\ FlushBehind(got, len)
  /\ UNCHANGED <<fd_pos, buf, buf_pos, buf_end, len, from, open>>

(* The buffer is full or the file ended; if it brought nothing, the read   *)
(* is over.                                                                *)
FillEnds ==
  /\ pc = "filling"
  /\ buf_end = BufLen \/ fd_pos >= FileLen
  /\ IF buf_end = 0
     THEN Returns(len, got, Len(got)) /\ UNCHANGED buf_index
     ELSE FlushBehind(got, len)
  /\ UNCHANGED <<fd_pos, buf, buf_pos, buf_end, len, from, open>>

-----------------------------------------------------------------------------
Target(offset, whence) ==
  offset + (CASE whence = "SEEK_SET" -> 0 [] whence = "SEEK_CUR" -> fd_pos [] whence = "SEEK_END" -> FileLen)

(* lseek moves the descriptor's own offset, which is ahead of ro_tell by   *)
(* what is left in the buffer.                                             *)
ro_seek(offset, whence) ==
  /\ Calling /\ Target(offset, whence) <= MaxPos
  /\ IF Target(offset, whence) < 0
     THEN ret' = 1 /\ UNCHANGED <<fd_pos, buf_pos, buf_index, buf_end>>
     ELSE /\ fd_pos' = Target(offset, whence) /\ buf_pos' = Target(offset, whence)
          /\ ret' = 0 /\ buf_index' = 0 /\ buf_end' = 0
  /\ UNCHANGED <<buf, pc, len, got, asked, out, from, open>>

(* The buffer is written to the descriptor, which is open for reading      *)
(* only, so the write fails.                                               *)
ro_close ==
  /\ Calling
  /\ open' = FALSE
  /\ ret' = IF buf_end > 0 THEN -1 ELSE 0
  /\ UNCHANGED <<bufVars, pc, len, got, asked, out, from>>

ReadStep == FillBegins \/ FillReads \/ FillFails \/ FillEnds

Next ==
  \/ \E n \in Lengths : ro_read(n)
  \/ ReadStep
  \/ \E offset \in Offsets, whence \in Whences : ro_seek(offset, whence)
  \/ ro_close
  \/ ~open /\ UNCHANGED vars

Spec == Init /\ [][Next]_vars
FairSpec == Spec /\ WF_vars(ReadStep)

-----------------------------------------------------------------------------
TypeOK ==
  /\ fd_pos \in Nat /\ buf_pos \in Nat /\ buf_index \in 0..BufLen /\ buf_end \in 0..BufLen
  /\ buf \in [0..BufLen - 1 -> Nat]
  /\ pc \in {"idle", "fill", "filling"}
  /\ len \in Nat /\ got \in Seq(Nat) /\ asked \in Nat /\ out \in Seq(Nat) /\ from \in Nat
  /\ ret \in Int /\ open \in BOOLEAN

(* The buffer is the part of the file that begins at buf_pos, and ends     *)
(* where the kernel will read next: however short the reads, after errors  *)
(* and seeks.                                                              *)
BufferMirrorsFile ==
  /\ buf_index <= buf_end
  /\ fd_pos = buf_pos + buf_end
  /\ \A i \in 0..buf_end - 1 : buf_pos + i < FileLen /\ buf[i] = File[buf_pos + i]

(* A read in progress has delivered the file's bytes from where it began   *)
(* to where ro_tell stands, none left out and none twice.                  *)
GotIsTheFile ==
  /\ \A i \in 1..Len(got) : from + i - 1 < FileLen /\ got[i] = File[from + i - 1]
  /\ pc # "idle" => ro_tell = from + Len(got) /\ Len(got) < len

Promise == INSTANCE ReadFile WITH
  pos <- IF pc = "idle" THEN ro_tell ELSE from,
  Ahead <- BufLen

(* Buffering is invisible: a read returns all it is asked for up to the    *)
(* end of the file, from the position ro_tell gives.  Only SEEK_CUR tells: *)
(* it moves from where the kernel stands.                                  *)
ImplementsFile == Promise!FileSpec

(* A read comes to an end.                                                 *)
ReadReturns == pc # "idle" ~> pc = "idle"

=============================================================================
