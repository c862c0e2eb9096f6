----------------------------- MODULE FileProofs -----------------------------
(***************************************************************************)
(* Proofs about the programs that read and write files: about RoFile, for  *)
(* every file, buffer length and set of calls, about WriteIndex, for       *)
(* bodies of any length and any errors, and about the layout of the index  *)
(* file and what its readers find in it, for any tables.                   *)
(***************************************************************************)
EXTENDS RoFile, WriteIndex, IndexReaders, OperatorLemmas

(* Between a flush that left the request unsatisfied and the end of the    *)
(* fill that follows, the buffer holds nothing that was not delivered.     *)
Drained ==
  /\ pc = "fill" => buf_index = buf_end
  /\ pc = "filling" => buf_index = 0

IInv == TypeOK /\ BufferMirrorsFile /\ GotIsTheFile /\ Drained

LEMMA InitIInv == Init => IInv
  BY FileAssumption DEF Init, IInv, TypeOK, BufferMirrorsFile, GotIsTheFile, Drained, ro_tell

(* What flush_buffer does to the bytes already delivered.                  *)
LEMMA FlushLemma ==
  ASSUME TypeOK, BufferMirrorsFile,
         NEW sofar \in Seq(Nat), NEW amount \in Nat, Len(sofar) <= amount,
         NEW start \in Nat, ro_tell = start + Len(sofar),
         \A i \in 1..Len(sofar) : start + i - 1 < FileLen /\ sofar[i] = File[start + i - 1],
         Len(sofar) < amount \/ sofar = <<>>,
         FlushBehind(sofar, amount), UNCHANGED <<fd_pos, buf, buf_pos, buf_end>>
  PROVE  /\ buf_index' \in 0..BufLen /\ buf_index' <= buf_end
         /\ got' \in Seq(Nat) /\ asked' \in Nat /\ out' \in Seq(Nat) /\ ret' \in Int
         /\ pc' \in {"idle", "fill"}
         /\ \A i \in 1..Len(got') : start + i - 1 < FileLen /\ got'[i] = File[start + i - 1]
         /\ pc' # "idle" => ro_tell' = start + Len(got') /\ Len(got') < amount
         /\ pc' = "fill" => buf_index' = buf_end
         /\ pc' = "fill" => UNCHANGED <<asked, out, ret>>
         /\ pc' = "idle" => /\ asked' = amount /\ ret' = amount /\ Len(out') = amount
                            /\ \A i \in 1..amount : start + i - 1 < FileLen /\ out'[i] = File[start + i - 1]
                            /\ ro_tell' = start + amount
<1> DEFINE n == Least(amount - Len(sofar), buf_end - buf_index)
           more == [i \in 1..n |-> buf[buf_index + i - 1]]
           bytes == sofar \o more
<1>0. Len(sofar) \in Nat /\ buf_pos \in Nat /\ buf_index \in Nat /\ buf_end \in Nat /\ buf_end <= BufLen /\ BufLen \in Nat
  BY FileAssumption DEF TypeOK
<1>a. buf_pos + buf_index = start + Len(sofar)
  BY DEF ro_tell
<1>1. n \in Nat /\ n <= amount - Len(sofar) /\ n <= buf_end - buf_index
      /\ (n = amount - Len(sofar) \/ n = buf_end - buf_index)
  BY <1>0 DEF Least, TypeOK, BufferMirrorsFile
<1>2. more \in Seq(Nat) /\ Len(more) = n /\ \A i \in 1..n : more[i] = File[start + Len(sofar) + i - 1]
                                              /\ start + Len(sofar) + i - 1 < FileLen
  <2> HIDE DEF n
  <2>1. \A i \in 1..n : buf_index + i - 1 \in 0..buf_end - 1 /\ buf_index + i - 1 \in 0..BufLen - 1
    BY <1>1, FileAssumption DEF TypeOK
  <2>2. \A i \in 1..n : buf[buf_index + i - 1] \in Nat
    BY <2>1 DEF TypeOK
  <2>3. more \in Seq(Nat) /\ Len(more) = n
    BY <1>1, <2>2
  <2>4. \A i \in 1..n : more[i] = buf[buf_index + i - 1]
    OBVIOUS
  <2>5. \A i \in 1..n : buf_pos + (buf_index + i - 1) = start + Len(sofar) + i - 1
    <3> SUFFICES ASSUME NEW i \in 1..n PROVE buf_pos + (buf_index + i - 1) = start + Len(sofar) + i - 1
      OBVIOUS
    <3>1. i \in Int
      BY <1>1
    <3> QED BY <3>1, <1>0, <1>a
  <2>6. \A i \in 1..n : buf[buf_index + i - 1] = File[start + Len(sofar) + i - 1]
                        /\ start + Len(sofar) + i - 1 < FileLen
    BY <2>1, <2>5 DEF BufferMirrorsFile
  <2> QED BY <2>3, <2>4, <2>6
<1>3. bytes \in Seq(Nat) /\ Len(bytes) = Len(sofar) + n
  <2> HIDE DEF n, more
  <2> QED BY <1>0, <1>1, <1>2, ConcatProperties
<1>4. \A i \in 1..Len(bytes) : start + i - 1 < FileLen /\ bytes[i] = File[start + i - 1]
  <2> HIDE DEF n, more
  <2> TAKE i \in 1..Len(bytes)
  <2>1. CASE i <= Len(sofar)
    BY <2>1, <1>1, <1>2, <1>3
  <2>2. CASE i > Len(sofar)
    <3>1. i - Len(sofar) \in 1..n /\ bytes[i] = more[i - Len(sofar)]
      BY <2>2, <1>1, <1>2, <1>3
    <3>2. start + Len(sofar) + (i - Len(sofar)) - 1 = start + i - 1
      BY <1>3
    <3> QED BY <3>1, <3>2, <1>2
  <2> QED BY <2>1, <2>2, <1>3
<1>5. /\ buf_index' = buf_index + n
      /\ IF Len(bytes) = amount THEN Returns(amount, bytes, amount)
         ELSE pc' = "fill" /\ got' = bytes /\ UNCHANGED <<asked, out, ret>>
  BY DEF FlushBehind
<1> HIDE DEF n, more, bytes
<1>b. Len(bytes) = Len(sofar) + n /\ Len(bytes) \in Nat /\ bytes \in Seq(Nat)
  BY <1>3, LenProperties
<1>c. PICK s \in Nat, b \in Nat, m \in Nat : s = Len(sofar) /\ b = Len(bytes) /\ m = n
  BY <1>0, <1>1, <1>b
<1>d. b = s + m /\ m <= amount - s /\ m <= buf_end - buf_index /\ (m = amount - s \/ m = buf_end - buf_index)
  BY <1>1, <1>b, <1>c
<1>6. buf_index' \in 0..BufLen /\ buf_index' <= buf_end
  BY <1>0, <1>1, <1>5
<1>e. ro_tell' = start + Len(bytes)
  <2>1. ro_tell' = buf_pos + (buf_index + n)
    BY <1>5 DEF ro_tell
  <2>2. buf_pos + buf_index = start + s
    BY <1>a, <1>c
  <2>3. b = s + m
    BY <1>d
  <2>4. buf_pos \in Int /\ buf_index \in Int /\ s \in Int /\ m \in Int /\ start \in Int
    BY <1>0
  <2>5. buf_pos + (buf_index + m) = start + b
    BY <2>2, <2>3, <2>4
  <2> QED BY <2>1, <2>5, <1>c
<1>7. CASE Len(bytes) = amount
  <2>1. pc' = "idle" /\ asked' = amount /\ out' = bytes /\ got' = <<>> /\ ret' = amount
    BY <1>5, <1>7 DEF Returns
  <2>2. Len(<<>>) = 0 /\ <<>> \in Seq(Nat)
    OBVIOUS
  <2> QED BY <2>1, <2>2, <1>0, <1>3, <1>4, <1>6, <1>7, <1>e
<1>8. CASE Len(bytes) # amount
  <2>1. pc' = "fill" /\ got' = bytes /\ asked' = asked /\ out' = out /\ ret' = ret
    BY <1>5, <1>8
  <2>2. n = buf_end - buf_index /\ Len(bytes) < amount
    <3>1. b # amount
      BY <1>8, <1>c
    <3>2. m = buf_end - buf_index /\ b < amount
      BY <3>1, <1>d, <1>0
    <3> QED BY <3>2, <1>c
  <2>3. buf_index' = buf_end
    BY <2>2, <1>0, <1>5
  <2> QED BY <2>1, <2>2, <2>3, <1>e, <1>3, <1>4, <1>6 DEF TypeOK
<1> QED BY <1>7, <1>8

-----------------------------------------------------------------------------
(* The steps of Next, one by one.                                          *)
LEMMA ReadKeepsIInv ==
  ASSUME IInv, NEW n \in Lengths, ro_read(n)
  PROVE  IInv'
<1>1. n \in Nat /\ ro_tell \in Nat
  BY CallsAssumption DEF IInv, TypeOK, ro_tell
<1>2. <<>> \in Seq(Nat) /\ Len(<<>>) = 0
  OBVIOUS
<1>3. /\ buf_index' \in 0..BufLen /\ buf_index' <= buf_end
      /\ got' \in Seq(Nat) /\ asked' \in Nat /\ out' \in Seq(Nat) /\ ret' \in Int
      /\ pc' \in {"idle", "fill"}
      /\ \A i \in 1..Len(got') : ro_tell + i - 1 < FileLen /\ got'[i] = File[ro_tell + i - 1]
      /\ pc' # "idle" => ro_tell' = ro_tell + Len(got') /\ Len(got') < n
      /\ pc' = "fill" => buf_index' = buf_end
  <2>1. FlushBehind(<<>>, n) /\ UNCHANGED <<fd_pos, buf, buf_pos, buf_end>>
    BY DEF ro_read
  <2>2. TypeOK /\ BufferMirrorsFile
    BY DEF IInv
  <2>3. ro_tell = ro_tell + Len(<<>>) /\ Len(<<>>) <= n
    BY <1>1, <1>2
  <2>4. \A i \in 1..Len(<<>>) : ro_tell + i - 1 < FileLen /\ <<>>[i] = File[ro_tell + i - 1]
    BY <1>2
  <2> QED BY <1>1, <1>2, <2>1, <2>2, <2>3, <2>4, FlushLemma
<1>4. len' = n /\ from' = ro_tell /\ UNCHANGED <<fd_pos, buf, buf_pos, buf_end, open>>
  BY DEF ro_read
<1>5. TypeOK'
  BY <1>1, <1>3, <1>4 DEF IInv, TypeOK
<1>6. BufferMirrorsFile'
  BY <1>3, <1>4 DEF IInv, BufferMirrorsFile
<1>7. GotIsTheFile'
  BY <1>3, <1>4 DEF GotIsTheFile
<1>8. Drained'
  BY <1>3, <1>4 DEF Drained
<1> QED BY <1>5, <1>6, <1>7, <1>8 DEF IInv

LEMMA FillBeginsKeepsIInv == IInv /\ FillBegins => IInv'
<1> SUFFICES ASSUME IInv, FillBegins PROVE IInv'
  OBVIOUS
<1> USE DEF IInv, FillBegins
<1>1. TypeOK'
  BY FileAssumption DEF TypeOK
<1>2. BufferMirrorsFile'
  BY DEF TypeOK, BufferMirrorsFile
<1>3. ro_tell' = ro_tell
  BY DEF TypeOK, BufferMirrorsFile, Drained, ro_tell
<1>4. GotIsTheFile'
  BY <1>3 DEF GotIsTheFile
<1>5. Drained'
  BY DEF Drained
<1> QED BY <1>1, <1>2, <1>4, <1>5

LEMMA FillReadsKeepsIInv == IInv /\ FillReads => IInv'
<1> SUFFICES ASSUME IInv, FillReads PROVE IInv'
  OBVIOUS
<1>1. PICK n \in 1..Least(Room, FileLen - fd_pos) :
        /\ buf' = [i \in DOMAIN buf |->
                     IF i \in buf_end..buf_end + n - 1 THEN File[fd_pos + i - buf_end] ELSE buf[i]]
        /\ fd_pos' = fd_pos + n
        /\ buf_end' = buf_end + n
  BY DEF FillReads
<1>2. UNCHANGED <<buf_pos, buf_index, pc, len, got, asked, out, from, ret, open>>
  BY DEF FillReads
<1>3. BufLen \in Nat /\ FileLen \in Nat /\ buf_end \in 0..BufLen /\ fd_pos \in Nat /\ buf_pos \in Nat
      /\ fd_pos = buf_pos + buf_end /\ DOMAIN buf = 0..BufLen - 1
  BY FileAssumption DEF IInv, TypeOK, BufferMirrorsFile
<1>4. n \in Nat /\ n >= 1 /\ buf_end + n <= BufLen /\ fd_pos + n <= FileLen
  <2>1. n \in 1..Least(BufLen - buf_end, FileLen - fd_pos)
    BY DEF Room
  <2>2. Least(BufLen - buf_end, FileLen - fd_pos) <= BufLen - buf_end
        /\ Least(BufLen - buf_end, FileLen - fd_pos) <= FileLen - fd_pos
        /\ Least(BufLen - buf_end, FileLen - fd_pos) \in Int
    BY <1>3 DEF Least
  <2> QED BY <1>3, <2>1, <2>2
<1>5. \A i \in 0..BufLen - 1 :
        buf'[i] = IF i \in buf_end..buf_end + n - 1 THEN File[buf_pos + i] ELSE buf[i]
  <2> SUFFICES ASSUME NEW i \in 0..BufLen - 1
               PROVE  buf'[i] = IF i \in buf_end..buf_end + n - 1 THEN File[buf_pos + i] ELSE buf[i]
    OBVIOUS
  <2>1. fd_pos + i - buf_end = buf_pos + i
    BY <1>3
  <2> QED BY <1>1, <1>3, <2>1
<1>6. TypeOK'
  <2>1. buf' \in [0..BufLen - 1 -> Nat]
    <3>1. \A i \in 0..BufLen - 1 : i \in buf_end..buf_end + n - 1 => File[buf_pos + i] \in Nat
      <4> SUFFICES ASSUME NEW i \in buf_end..buf_end + n - 1 PROVE File[buf_pos + i] \in Nat
        OBVIOUS
      <4>1. buf_pos + i \in 0..FileLen - 1
        BY <1>3, <1>4
      <4> QED BY <4>1, FileAssumption
    <3>2. \A i \in 0..BufLen - 1 : buf'[i] \in Nat
      BY <1>5, <3>1 DEF IInv, TypeOK
    <3>3. buf' = [i \in 0..BufLen - 1 |-> buf'[i]]
      BY <1>1, <1>3
    <3> QED BY <3>2, <3>3
  <2>2. fd_pos' \in Nat /\ buf_end' \in 0..BufLen
    BY <1>1, <1>3, <1>4
  <2> QED BY <1>2, <2>1, <2>2 DEF IInv, TypeOK
<1>7. BufferMirrorsFile'
  <2>1. buf_index' <= buf_end' /\ fd_pos' = buf_pos' + buf_end'
    BY <1>1, <1>2, <1>3, <1>4 DEF IInv, TypeOK, BufferMirrorsFile
  <2>2. ASSUME NEW i \in 0..buf_end + n - 1
        PROVE  buf_pos' + i < FileLen /\ buf'[i] = File[buf_pos' + i]
    <3>1. i \in 0..BufLen - 1 /\ i \in Int
      BY <1>3, <1>4
    <3>2. CASE i < buf_end
      <4>1. i \in 0..buf_end - 1 /\ ~ (i \in buf_end..buf_end + n - 1)
        BY <3>1, <3>2, <1>3
      <4> QED BY <4>1, <3>1, <1>2, <1>5 DEF IInv, BufferMirrorsFile
    <3>3. CASE i >= buf_end
      <4>1. i \in buf_end..buf_end + n - 1 /\ buf_pos + i < FileLen
        BY <3>1, <3>3, <1>3, <1>4
      <4> QED BY <4>1, <3>1, <1>2, <1>5
    <3> QED BY <3>1, <3>2, <3>3, <1>3
  <2>3. \A i \in 0..buf_end' - 1 : buf_pos' + i < FileLen /\ buf'[i] = File[buf_pos' + i]
    <3>1. buf_end' = buf_end + n
      BY <1>1
    <3>2. buf_end \in Int /\ n \in Int
      BY <1>3, <1>4
    <3>3. 0..buf_end' - 1 = 0..buf_end + n - 1
      BY <3>1, <3>2
    <3> QED BY <2>2, <3>3, Zenon
  <2> QED BY <2>1, <2>3 DEF BufferMirrorsFile
<1>8. ro_tell' = ro_tell
  BY <1>2 DEF ro_tell
<1>9. GotIsTheFile'
  BY <1>2, <1>8 DEF IInv, GotIsTheFile
<1>10. Drained'
  BY <1>2 DEF FillReads, IInv, Drained
<1> QED BY <1>6, <1>7, <1>9, <1>10 DEF IInv

LEMMA FillFailsKeepsIInv == IInv /\ FillFails => IInv'
<1> SUFFICES ASSUME IInv, FillFails PROVE IInv'
  OBVIOUS
<1>1. <<>> \in Seq(Nat) /\ Len(<<>>) = 0
  OBVIOUS
<1>2. pc' = "idle" /\ got' = <<>> /\ asked' = len /\ out' = got /\ ret' = -1 /\ UNCHANGED <<bufVars, len, from, open>>
  BY DEF FillFails, Returns
<1>3. TypeOK'
  BY <1>1, <1>2 DEF IInv, TypeOK, bufVars
<1>4. BufferMirrorsFile'
  BY <1>2 DEF IInv, BufferMirrorsFile, bufVars
<1>5. GotIsTheFile' /\ Drained'
  BY <1>1, <1>2 DEF GotIsTheFile, Drained
<1> QED BY <1>3, <1>4, <1>5 DEF IInv

LEMMA FillEndsKeepsIInv == IInv /\ FillEnds => IInv'
<1> SUFFICES ASSUME IInv, FillEnds PROVE IInv'
  OBVIOUS
<1>1. <<>> \in Seq(Nat) /\ Len(<<>>) = 0 /\ got \in Seq(Nat) /\ Len(got) \in Nat
  BY DEF IInv, TypeOK
<1>2. pc = "filling" /\ UNCHANGED <<fd_pos, buf, buf_pos, buf_end, len, from, open>>
  BY DEF FillEnds
<1>3. CASE buf_end = 0
  <2>1. pc' = "idle" /\ got' = <<>> /\ asked' = len /\ out' = got /\ ret' = Len(got) /\ buf_index' = buf_index
    BY <1>3 DEF FillEnds, Returns
  <2>2. TypeOK'
    BY <1>1, <1>2, <2>1 DEF IInv, TypeOK
  <2>3. BufferMirrorsFile'
    BY <1>2, <2>1 DEF IInv, BufferMirrorsFile
  <2>4. GotIsTheFile' /\ Drained'
    BY <1>1, <2>1 DEF GotIsTheFile, Drained
  <2> QED BY <2>2, <2>3, <2>4 DEF IInv
<1>4. CASE buf_end # 0
  <2>1. FlushBehind(got, len) /\ UNCHANGED <<fd_pos, buf, buf_pos, buf_end>>
    BY <1>4 DEF FillEnds
  <2>2. /\ TypeOK /\ BufferMirrorsFile /\ len \in Nat /\ from \in Nat
        /\ ro_tell = from + Len(got) /\ Len(got) < len /\ Len(got) <= len
        /\ \A i \in 1..Len(got) : from + i - 1 < FileLen /\ got[i] = File[from + i - 1]
    BY <1>1, <1>2 DEF IInv, TypeOK, GotIsTheFile
  <2>3. /\ buf_index' \in 0..BufLen /\ buf_index' <= buf_end
        /\ got' \in Seq(Nat) /\ asked' \in Nat /\ out' \in Seq(Nat) /\ ret' \in Int
        /\ pc' \in {"idle", "fill"}
        /\ \A i \in 1..Len(got') : from + i - 1 < FileLen /\ got'[i] = File[from + i - 1]
        /\ pc' # "idle" => ro_tell' = from + Len(got') /\ Len(got') < len
        /\ pc' = "fill" => buf_index' = buf_end
    BY <1>1, <2>1, <2>2, FlushLemma
  <2>4. TypeOK'
    BY <1>2, <2>3 DEF IInv, TypeOK
  <2>5. BufferMirrorsFile'
    BY <1>2, <2>3 DEF IInv, BufferMirrorsFile
  <2>6. GotIsTheFile'
    BY <1>2, <2>3 DEF GotIsTheFile
  <2>7. Drained'
    BY <1>2, <2>3 DEF Drained
  <2> QED BY <2>4, <2>5, <2>6, <2>7 DEF IInv
<1> QED BY <1>3, <1>4

LEMMA SeekKeepsIInv ==
  ASSUME IInv, NEW offset \in Offsets, NEW whence \in Whences, ro_seek(offset, whence)
  PROVE  IInv'
<1>1. /\ pc = "idle" /\ UNCHANGED <<buf, pc, len, got, asked, out, from, open>> /\ ret' \in {0, 1}
      /\ \/ UNCHANGED <<fd_pos, buf_pos, buf_index, buf_end>>
         \/ fd_pos' = buf_pos' /\ buf_index' = 0 /\ buf_end' = 0
  BY DEF ro_seek, Calling
<1>2. CASE UNCHANGED <<fd_pos, buf_pos, buf_index, buf_end>>
  <2>1. TypeOK'
    BY <1>1, <1>2 DEF IInv, TypeOK
  <2>2. BufferMirrorsFile'
    BY <1>1, <1>2 DEF IInv, BufferMirrorsFile
  <2>3. GotIsTheFile' /\ Drained'
    BY <1>1 DEF IInv, GotIsTheFile, Drained
  <2> QED BY <2>1, <2>2, <2>3 DEF IInv
<1>3. CASE ~ UNCHANGED <<fd_pos, buf_pos, buf_index, buf_end>>
  <2>1. fd_pos' = Target(offset, whence) /\ buf_pos' = Target(offset, whence) /\ ~ (Target(offset, whence) < 0)
        /\ buf_index' = 0 /\ buf_end' = 0
    BY <1>3 DEF ro_seek
  <2>2. Target(offset, whence) \in Int
    <3>1. offset \in Int /\ FileLen \in Int /\ fd_pos \in Int
      BY CallsAssumption, FileAssumption DEF IInv, TypeOK
    <3>2. whence = "SEEK_SET" \/ whence = "SEEK_CUR" \/ whence = "SEEK_END"
      BY WhencesAssumption
    <3>3. CASE whence = "SEEK_SET"
      BY <3>1, <3>3 DEF Target
    <3>4. CASE whence = "SEEK_CUR"
      BY <3>1, <3>4 DEF Target
    <3>5. CASE whence = "SEEK_END"
      BY <3>1, <3>5 DEF Target
    <3> QED BY <3>2, <3>3, <3>4, <3>5
  <2>3. fd_pos' \in Nat /\ buf_pos' \in Nat
    BY <2>1, <2>2
  <2>4. TypeOK'
    BY <1>1, <2>1, <2>3, FileAssumption DEF IInv, TypeOK
  <2>5. BufferMirrorsFile'
    BY <2>1, <2>3 DEF BufferMirrorsFile
  <2>6. GotIsTheFile' /\ Drained'
    BY <1>1 DEF IInv, GotIsTheFile, Drained
  <2> QED BY <2>4, <2>5, <2>6 DEF IInv
<1> QED BY <1>2, <1>3

LEMMA OtherStepsKeepIInv == IInv /\ (ro_close \/ UNCHANGED vars) => IInv'
<1> SUFFICES ASSUME IInv, ro_close \/ UNCHANGED vars PROVE IInv'
  OBVIOUS
<1>1. UNCHANGED <<fd_pos, buf, buf_pos, buf_index, buf_end, pc, len, got, asked, out, from>>
      /\ (ret' \in {0, -1} \/ ret' = ret) /\ (open' = FALSE \/ open' = open)
  BY DEF ro_close, vars, bufVars
<1>2. TypeOK'
  <2>1. open' \in BOOLEAN
    BY Zenon DEF ro_close, vars, IInv, TypeOK
  <2>2. ret' \in Int
    BY <1>1 DEF IInv, TypeOK
  <2> QED BY <1>1, <2>1, <2>2 DEF IInv, TypeOK
<1>3. BufferMirrorsFile'
  BY <1>1 DEF IInv, BufferMirrorsFile
<1>4. ro_tell' = ro_tell
  BY <1>1 DEF ro_tell
<1>5. GotIsTheFile'
  BY <1>1, <1>4 DEF IInv, GotIsTheFile
<1>6. Drained'
  BY <1>1 DEF IInv, Drained
<1> QED BY <1>2, <1>3, <1>5, <1>6 DEF IInv

-----------------------------------------------------------------------------
LEMMA StepIInv == IInv /\ [Next]_vars => IInv'
<1> SUFFICES ASSUME IInv, [Next]_vars PROVE IInv'
  OBVIOUS
<1>1. CASE \E n \in Lengths : ro_read(n)
  BY <1>1, ReadKeepsIInv
<1>2. CASE ReadStep
  BY <1>2, FillBeginsKeepsIInv, FillReadsKeepsIInv, FillFailsKeepsIInv, FillEndsKeepsIInv DEF ReadStep
<1>3. CASE \E offset \in Offsets, whence \in Whences : ro_seek(offset, whence)
  BY <1>3, SeekKeepsIInv
<1>4. CASE ro_close \/ UNCHANGED vars
  BY <1>4, OtherStepsKeepIInv
<1> QED BY <1>1, <1>2, <1>3, <1>4 DEF Next

THEOREM Invariance == Spec => []IInv
  BY InitIInv, StepIInv, PTL DEF Spec

(* The RO_FILE's fields keep their types, and its indices stay within the  *)
(* buffer, whatever the file, the buffer's length and the calls made.      *)
THEOREM TypeCorrect == Spec => []TypeOK
<1>1. IInv => TypeOK
  BY DEF IInv
<1> QED BY <1>1, Invariance, PTL

(* The buffer always is the part of the file that precedes the kernel's    *)
(* offset: no short read, failed read or seek makes it stale.              *)
THEOREM Mirrors == Spec => []BufferMirrorsFile
<1>1. IInv => BufferMirrorsFile
  BY DEF IInv
<1> QED BY <1>1, Invariance, PTL

(* A read never skips, repeats or invents a byte of the file, and never    *)
(* leaves the loop without having what it was asked for or the file's end. *)
THEOREM DeliversTheFile == Spec => []GotIsTheFile
<1>1. IInv => GotIsTheFile
  BY DEF IInv
<1> QED BY <1>1, Invariance, PTL

-----------------------------------------------------------------------------
(* RoFile implements ReadFile.                                             *)

(* A read is of a length that was asked for, of a file that is open.       *)
Busy == pc # "idle" => open /\ len \in Lengths

LEMMA InitBusy == Init => Busy
  BY DEF Init, Busy

LEMMA StepBusy == Busy /\ [Next]_vars => Busy'
<1> SUFFICES ASSUME Busy, [Next]_vars PROVE Busy'
  OBVIOUS
<1>1. CASE \E n \in Lengths : ro_read(n)
  <2>1. PICK n \in Lengths : ro_read(n)
    BY <1>1
  <2>2. open /\ open' = open /\ len' = n
    BY <2>1 DEF ro_read, Calling
  <2> QED BY <2>2 DEF Busy
<1>2. CASE ReadStep
  <2>1. pc # "idle" /\ len' = len /\ open' = open
    BY <1>2 DEF ReadStep, FillBegins, FillReads, FillFails, FillEnds
  <2> QED BY <2>1 DEF Busy
<1>3. CASE \E offset \in Offsets, whence \in Whences : ro_seek(offset, whence)
  <2>1. pc = "idle" /\ pc' = pc
    BY <1>3 DEF ro_seek, Calling
  <2> QED BY <2>1 DEF Busy
<1>4. CASE ro_close
  <2>1. pc = "idle" /\ pc' = pc
    BY <1>4 DEF ro_close, Calling
  <2> QED BY <2>1 DEF Busy
<1>5. CASE UNCHANGED vars
  BY <1>5 DEF Busy, vars
<1> QED BY <1>1, <1>2, <1>3, <1>4, <1>5 DEF Next

(* The position ReadFile speaks of.                                        *)
Pos == IF pc = "idle" THEN ro_tell ELSE from

LEMMA RefinementInit == Init => Promise!FileInit
  BY DEF Init, Promise!FileInit, ro_tell

(* A call that gives back all the bytes asked for is a Read.               *)
LEMMA WholeRead ==
  ASSUME TypeOK, TypeOK', NEW n \in Lengths, open, open' = open, asked' = n, ret' = n, Len(out') = n,
         \A i \in 1..n : Pos + i - 1 < FileLen /\ out'[i] = File[Pos + i - 1],
         Pos' = Pos + n
  PROVE  Promise!Read(n)
<1>1. n \in Nat /\ Pos \in Nat /\ FileLen \in Nat
  BY CallsAssumption, FileAssumption DEF TypeOK, Pos, ro_tell
<1>2. n = 0 \/ Pos + n <= FileLen
  <2>1. CASE n # 0
    <3>1. n \in 1..n
      BY <1>1, <2>1
    <3>2. Pos + n - 1 < FileLen
      BY <3>1
    <3> QED BY <1>1, <3>2
  <2> QED BY <2>1
<1>3. out' = Promise!Bytes(Pos, n)
  <2>1. out' = [i \in 1..n |-> out'[i]]
    BY <1>1 DEF TypeOK
  <2> QED BY <2>1, Zenon DEF Promise!Bytes
<1>4. n <= (IF Pos < FileLen THEN FileLen - Pos ELSE 0)
  BY <1>1, <1>2
<1> QED BY <1>3, <1>4 DEF Promise!Read, Pos

(* So is one that gives back what the file has left.                       *)
LEMMA ShortRead ==
  ASSUME TypeOK, TypeOK', NEW n \in Lengths, open, open' = open, asked' = n,
         ret' = Len(out'), Len(out') < n,
         \A i \in 1..Len(out') : Pos + i - 1 < FileLen /\ out'[i] = File[Pos + i - 1],
         Pos' = Pos + Len(out'), Pos' >= FileLen
  PROVE  Promise!Read(n)
<1>1. n \in Nat /\ Pos \in Nat /\ FileLen \in Nat /\ Len(out') \in Nat
  BY CallsAssumption, FileAssumption DEF TypeOK, Pos, ro_tell
<1>2. Len(out') = 0 \/ Pos + Len(out') <= FileLen
  <2>1. CASE Len(out') # 0
    <3>1. Len(out') \in 1..Len(out')
      BY <1>1, <2>1
    <3>2. Pos + Len(out') - 1 < FileLen
      BY <3>1
    <3> QED BY <1>1, <3>2
  <2> QED BY <2>1
<1>3. out' = Promise!Bytes(Pos, Len(out'))
  <2>1. out' = [i \in 1..Len(out') |-> out'[i]]
    <3>1. \A s \in Seq(Nat) : s = [i \in 1..Len(s) |-> s[i]]
      OBVIOUS
    <3>2. out' \in Seq(Nat)
      BY DEF TypeOK
    <3> QED BY <3>1, <3>2, Zenon
  <2> QED BY <2>1, Zenon DEF Promise!Bytes
<1>4. Len(out') = IF Pos < FileLen THEN FileLen - Pos ELSE 0
  BY <1>1, <1>2
<1>5. ~ (n <= (IF Pos < FileLen THEN FileLen - Pos ELSE 0))
  BY <1>1, <1>4
<1> QED BY <1>3, <1>4, <1>5 DEF Promise!Read, Pos

(* Every step of RoFile is a step of ReadFile or none at all.              *)
LEMMA RefinementStep ==
  ASSUME IInv, IInv', Busy, [Next]_vars
  PROVE  [Promise!FileNext]_(Promise!fileVars)
<1> DEFINE stutters == Pos' = Pos /\ UNCHANGED <<asked, out, ret, open>>
<1>0. /\ TypeOK /\ TypeOK' /\ BufferMirrorsFile /\ GotIsTheFile /\ Drained
      /\ FileLen \in Nat /\ BufLen \in Nat \ {0}
  BY FileAssumption DEF IInv
<1>s. stutters => [Promise!FileNext]_(Promise!fileVars)
  BY Zenon DEF Promise!fileVars, Pos
<1>1. ASSUME NEW n \in Lengths, ro_read(n) PROVE stutters \/ Promise!Read(n)
  <2>1. n \in Nat /\ ro_tell \in Nat /\ <<>> \in Seq(Nat) /\ Len(<<>>) = 0 /\ pc = "idle" /\ Pos = ro_tell
    BY <1>0, <1>1, CallsAssumption DEF TypeOK, ro_tell, ro_read, Calling, Pos
  <2>2. FlushBehind(<<>>, n) /\ UNCHANGED <<fd_pos, buf, buf_pos, buf_end>>
    BY <1>1 DEF ro_read
  <2>3. /\ Len(<<>>) <= n /\ ro_tell = ro_tell + Len(<<>>)
        /\ \A i \in 1..Len(<<>>) : ro_tell + i - 1 < FileLen /\ <<>>[i] = File[ro_tell + i - 1]
    BY <2>1
  <2>4. /\ pc' \in {"idle", "fill"}
        /\ pc' = "fill" => UNCHANGED <<asked, out, ret>>
        /\ pc' = "idle" => /\ asked' = n /\ ret' = n /\ Len(out') = n
                           /\ \A i \in 1..n : ro_tell + i - 1 < FileLen /\ out'[i] = File[ro_tell + i - 1]
                           /\ ro_tell' = ro_tell + n
    BY <1>0, <2>1, <2>2, <2>3, FlushLemma
  <2>5. open /\ open' = open /\ from' = ro_tell
    BY <1>1 DEF ro_read, Calling
  <2>6. CASE pc' = "fill"
    BY <2>1, <2>4, <2>5, <2>6 DEF Pos
  <2>7. CASE pc' = "idle"
    <3>1. Pos' = Pos + n
      BY <2>1, <2>4, <2>7 DEF Pos
    <3> QED BY <1>0, <2>1, <2>4, <2>5, <2>7, <3>1, WholeRead
  <2> QED BY <2>4, <2>6, <2>7
<1>2. ASSUME FillBegins PROVE stutters
  BY <1>2 DEF FillBegins, Pos
<1>3. ASSUME FillReads PROVE stutters
  BY <1>3 DEF FillReads, Pos
<1>4. ASSUME FillFails PROVE Promise!ReadError(len)
  <2>1. /\ pc = "filling" /\ pc' = "idle" /\ asked' = len /\ out' = got /\ ret' = -1
        /\ UNCHANGED <<fd_pos, buf, buf_pos, buf_index, buf_end, len, from, open>>
    BY <1>4 DEF FillFails, Returns, bufVars
  <2>2. /\ open /\ len \in Nat /\ from \in Nat /\ got \in Seq(Nat) /\ Len(got) \in Nat /\ Len(got) < len
        /\ ro_tell = from + Len(got)
        /\ \A i \in 1..Len(got) : from + i - 1 < FileLen /\ got[i] = File[from + i - 1]
    BY <1>0, <2>1 DEF TypeOK, GotIsTheFile, Busy
  <2>3. Pos = from /\ Pos' = Pos + Len(got)
    BY <2>1, <2>2 DEF Pos, ro_tell
  <2>4. Len(got) \in 0..len
    BY <2>2
  <2>5. Len(got) = 0 \/ Pos + Len(got) <= FileLen
    <3>1. CASE Len(got) # 0
      <4>1. Len(got) \in 1..Len(got)
        BY <2>2, <3>1
      <4>2. from + Len(got) - 1 < FileLen
        BY <2>2, <4>1
      <4> QED BY <1>0, <2>2, <2>3, <4>2
    <3> QED BY <3>1
  <2>6. out' = Promise!Bytes(Pos, Len(got))
    <3>1. \A s \in Seq(Nat) : s = [i \in 1..Len(s) |-> s[i]]
      OBVIOUS
    <3>2. out' = [i \in 1..Len(got) |-> got[i]]
      BY <2>1, <2>2, <3>1, Zenon
    <3> QED BY <2>2, <2>3, <3>2, Zenon DEF Promise!Bytes
  <2> QED BY <2>1, <2>2, <2>3, <2>4, <2>5, <2>6, Zenon DEF Promise!ReadError, Pos
<1>5. ASSUME FillEnds PROVE stutters \/ Promise!Read(len)
  <2>1. pc = "filling" /\ UNCHANGED <<fd_pos, buf, buf_pos, buf_end, len, from, open>>
    BY <1>5 DEF FillEnds
  <2>2. /\ open /\ len \in Lengths /\ len \in Nat /\ from \in Nat /\ Pos = from
        /\ got \in Seq(Nat) /\ Len(got) \in Nat /\ Len(got) < len /\ Len(got) <= len
        /\ ro_tell = from + Len(got)
        /\ \A i \in 1..Len(got) : from + i - 1 < FileLen /\ got[i] = File[from + i - 1]
    BY <1>0, <2>1 DEF TypeOK, GotIsTheFile, Busy, Pos
  <2>3. CASE buf_end = 0
    <3>1. /\ pc' = "idle" /\ asked' = len /\ out' = got /\ ret' = Len(got) /\ buf_index' = buf_index
          /\ fd_pos >= FileLen
      BY <1>0, <1>5, <2>3 DEF FillEnds, Returns
    <3>2. Pos' = Pos + Len(got)
      BY <2>1, <2>2, <3>1 DEF Pos, ro_tell
    <3>3. ro_tell = fd_pos
      BY <1>0, <2>1, <2>3 DEF ro_tell, BufferMirrorsFile, Drained, TypeOK
    <3>4. Pos' >= FileLen
      BY <2>2, <3>1, <3>2, <3>3
    <3> QED BY <1>0, <2>1, <2>2, <3>1, <3>2, <3>4, ShortRead
  <2>4. CASE buf_end # 0
    <3>1. FlushBehind(got, len) /\ UNCHANGED <<fd_pos, buf, buf_pos, buf_end>>
      BY <1>5, <2>4 DEF FillEnds
    <3>2. /\ pc' \in {"idle", "fill"}
          /\ pc' = "fill" => UNCHANGED <<asked, out, ret>>
          /\ pc' = "idle" => /\ asked' = len /\ ret' = len /\ Len(out') = len
                             /\ \A i \in 1..len : from + i - 1 < FileLen /\ out'[i] = File[from + i - 1]
                             /\ ro_tell' = from + len
      BY <1>0, <2>2, <3>1, FlushLemma
    <3>3. CASE pc' = "fill"
      BY <2>1, <2>2, <3>2, <3>3 DEF Pos
    <3>4. CASE pc' = "idle"
      <4>1. Pos' = Pos + len
        BY <2>2, <3>2, <3>4 DEF Pos
      <4> QED BY <1>0, <2>1, <2>2, <3>2, <3>4, <4>1, WholeRead
    <3> QED BY <3>2, <3>3, <3>4
  <2> QED BY <2>3, <2>4
<1>6. ASSUME NEW offset \in Offsets, NEW whence \in Whences, ro_seek(offset, whence)
      PROVE  Promise!Seek(offset, whence)
  <2>1. open /\ pc = "idle" /\ pc' = "idle" /\ UNCHANGED <<asked, out, open>> /\ Pos = ro_tell /\ Pos' = ro_tell'
    BY <1>6 DEF ro_seek, Calling, Pos
  <2>2. /\ offset \in Int /\ whence \in {"SEEK_SET", "SEEK_CUR", "SEEK_END"} /\ ro_tell \in Nat
        /\ buf_index \in Nat /\ buf_end \in Nat /\ buf_pos \in Nat /\ fd_pos \in Nat
        /\ buf_index <= buf_end /\ buf_end <= BufLen /\ fd_pos = buf_pos + buf_end
    BY <1>0, CallsAssumption, WhencesAssumption DEF TypeOK, BufferMirrorsFile, ro_tell
  <2>3. Target(offset, whence) \in Promise!Targets(offset, whence)
    <3>1. CASE whence = "SEEK_SET"
      BY <2>2, <3>1 DEF Target, Promise!Targets
    <3>2. CASE whence = "SEEK_CUR"
      <4>1. buf_end - buf_index \in 0..BufLen /\ Target(offset, whence) = ro_tell + (buf_end - buf_index) + offset
        BY <1>0, <2>2, <3>2 DEF Target, ro_tell
      <4>2. Promise!Targets(offset, whence) = {ro_tell + ahead + offset : ahead \in 0..BufLen}
        BY <2>1, <3>2 DEF Promise!Targets, Pos
      <4> QED BY <4>1, <4>2
    <3>3. CASE whence = "SEEK_END"
      BY <1>0, <2>2, <3>3 DEF Target, Promise!Targets
    <3> QED BY <2>2, <3>1, <3>2, <3>3
  <2>4. Target(offset, whence) \in Int
    <3>1. CASE whence = "SEEK_SET"
      BY <2>2, <3>1 DEF Target
    <3>2. CASE whence = "SEEK_CUR"
      BY <2>2, <3>2 DEF Target
    <3>3. CASE whence = "SEEK_END"
      BY <1>0, <2>2, <3>3 DEF Target
    <3> QED BY <2>2, <3>1, <3>2, <3>3
  <2>5. CASE Target(offset, whence) < 0
    <3>1. ret' = 1 /\ Pos' = Pos
      BY <1>6, <2>1, <2>5 DEF ro_seek, ro_tell
    <3>2. ~ (Target(offset, whence) >= 0)
      BY <2>4, <2>5
    <3> HIDE DEF Pos
    <3> QED BY <2>1, <2>3, <3>1, <3>2, Zenon DEF Promise!Seek, Pos
  <2>6. CASE ~ (Target(offset, whence) < 0)
    <3>1. ret' = 0 /\ buf_pos' = Target(offset, whence) /\ buf_index' = 0
      BY <1>6, <2>6 DEF ro_seek
    <3>2. Pos' = Target(offset, whence) /\ Target(offset, whence) >= 0
      BY <2>1, <2>4, <2>6, <3>1 DEF ro_tell
    <3> QED BY <2>1, <2>3, <3>1, <3>2, Zenon DEF Promise!Seek, Pos
  <2> QED BY <2>5, <2>6
<1>7. ASSUME ro_close PROVE Promise!Close
  <2>1. /\ open /\ open' = FALSE /\ ret' \in {0, -1} /\ UNCHANGED <<bufVars, pc, asked, out, from>>
    BY <1>7 DEF ro_close, Calling
  <2>2. Pos' = Pos
    BY <2>1 DEF Pos, ro_tell, bufVars
  <2> QED BY <2>1, <2>2, Zenon DEF Promise!Close, Pos
<1>8. ASSUME UNCHANGED vars PROVE stutters
  BY <1>8 DEF vars, bufVars, Pos, ro_tell
<1>9. CASE \E n \in Lengths : ro_read(n)
  BY <1>s, <1>1, <1>9, Zenon DEF Promise!FileNext
<1>10. CASE ReadStep
  <2>1. len \in Lengths \/ stutters
    BY <1>10 DEF ReadStep, FillBegins, FillReads, FillFails, FillEnds, Busy
  <2> QED BY <1>s, <1>2, <1>3, <1>4, <1>5, <1>10, <2>1, Zenon DEF ReadStep, Promise!FileNext
<1>11. CASE \E offset \in Offsets, whence \in Whences : ro_seek(offset, whence)
  BY <1>6, <1>11, WhencesAssumption DEF Promise!FileNext
<1>12. CASE ro_close \/ UNCHANGED vars
  BY <1>s, <1>7, <1>8, <1>12, Zenon DEF Promise!FileNext
<1> QED BY <1>9, <1>10, <1>11, <1>12, Zenon DEF Next

(* Buffering is invisible: every sequence of calls of ro_file.c is one of  *)
(* an unbuffered file's, for every file, buffer length and set of calls.   *)
THEOREM Implements == Spec => ImplementsFile
<1>1. Spec => []Busy
  BY InitBusy, StepBusy, PTL DEF Spec
<1>2. ImplementsFile <=> Promise!FileSpec
  BY DEF ImplementsFile
<1> QED BY <1>1, <1>2, Invariance, RefinementInit, RefinementStep, PTL DEF Spec, Promise!FileSpec
-----------------------------------------------------------------------------
(* Unless the kernel owes an error report, a block that processes see is   *)
(* on the disk or will be written.                                         *)
NothingForgotten == ~wb_err /\ ~sync_failed => cache = disk \cup dirty

(* How far the body has got, and that no header is under way before it.    *)
BodyProgress ==
  /\ stage = "body" => 1..next - 1 \subseteq cache \cup stdio
  /\ stage \in {"header", "sync", "close"} => Body \subseteq cache
  /\ stage = "close" => Body \subseteq disk
  /\ stage \in {"body", "header"} => Header \notin stdio

(* The header leaves the FILE's buffer only for a disk that has the body.  *)
HeaderFollowsBody ==
  /\ Header \in cache /\ ~sync_failed => Body \subseteq disk
  /\ stage \in {"body", "header", "sync", "close"} => ~sync_failed /\ Header \notin cache /\ result = "none"
  /\ result = "ok" => Body \subseteq disk
  /\ result = "failed" => Header \notin cache /\ stage \in {"returned", "dead"}
  /\ stage \in {"returned", "dead"} => stdio = {}

WriteInv == WriteTypeOK /\ NothingForgotten /\ BodyProgress /\ HeaderFollowsBody

LEMMA WriteInitInv == WriteInit => WriteInv
<1> SUFFICES ASSUME WriteInit PROVE WriteInv
  OBVIOUS
<1> USE BlocksAssumption
<1>1. 1..next - 1 = {}
  BY DEF WriteInit
<1>2. WriteTypeOK
  <2>1. next \in 1..NumBlocks + 1
    BY DEF WriteInit
  <2>2. wb_err \in BOOLEAN /\ exists \in BOOLEAN /\ sync_failed \in BOOLEAN
    BY Zenon DEF WriteInit
  <2>3. stage \in {"body"} /\ result \in {"none"}
    BY DEF WriteInit
  <2>4. stdio = {} /\ cache = {} /\ dirty = {} /\ disk = {}
    BY DEF WriteInit
  <2> QED BY <2>1, <2>2, <2>3, <2>4 DEF WriteTypeOK
<1>3. NothingForgotten /\ BodyProgress
  BY <1>1 DEF WriteInit, NothingForgotten, BodyProgress
<1>4. HeaderFollowsBody
  BY DEF WriteInit, HeaderFollowsBody
<1> QED BY <1>2, <1>3, <1>4 DEF WriteInv

LEMMA WriteStepInv == WriteInv /\ [WriteNext]_writeVars => WriteInv'
<1> SUFFICES ASSUME WriteInv, [WriteNext]_writeVars PROVE WriteInv'
  OBVIOUS
<1> USE BlocksAssumption
<1>1. CASE WriteBlock
  BY <1>1 DEF WriteBlock, Flush, WriteInv, WriteTypeOK, NothingForgotten, BodyProgress, HeaderFollowsBody, Body, Blocks, Header
<1>2. CASE Checksum
  BY <1>2 DEF Checksum, Flush, WriteInv, WriteTypeOK, NothingForgotten, BodyProgress, HeaderFollowsBody, Body, Blocks, Header
<1>3. CASE WriteHeader
  BY <1>3 DEF WriteHeader, WriteInv, WriteTypeOK, NothingForgotten, BodyProgress, HeaderFollowsBody, Body, Blocks, Header
<1>4. CASE Fsync
  BY <1>4 DEF Fsync, WriteInv, WriteTypeOK, NothingForgotten, BodyProgress, HeaderFollowsBody, Body, Blocks, Header
<1>5. CASE FsyncFails
  BY <1>5 DEF FsyncFails, WriteInv, WriteTypeOK, NothingForgotten, BodyProgress, HeaderFollowsBody, Body, Blocks, Header
<1>6. CASE Fclose
  BY <1>6 DEF Fclose, Flush, WriteInv, WriteTypeOK, NothingForgotten, BodyProgress, HeaderFollowsBody, Body, Blocks, Header
<1>7. CASE Fail
  BY <1>7 DEF Fail, Flush, WriteInv, WriteTypeOK, NothingForgotten, BodyProgress, HeaderFollowsBody, Body, Blocks, Header
<1>8. ASSUME NEW b \in Blocks, Writeback(b) PROVE WriteInv'
  BY <1>8 DEF Writeback, WriteInv, WriteTypeOK, NothingForgotten, BodyProgress, HeaderFollowsBody, Body, Blocks, Header
<1>9. ASSUME NEW b \in Blocks, WritebackFails(b) PROVE WriteInv'
  BY <1>9 DEF WritebackFails, WriteInv, WriteTypeOK, NothingForgotten, BodyProgress, HeaderFollowsBody, Body, Blocks, Header
<1>10. CASE Killed
  BY <1>10 DEF Killed, Running, WriteInv, WriteTypeOK, NothingForgotten, BodyProgress, HeaderFollowsBody, Body, Blocks, Header
<1>11. CASE PowerFails
  BY <1>11 DEF PowerFails, WriteInv, WriteTypeOK, NothingForgotten, BodyProgress, HeaderFollowsBody, Body, Blocks, Header
<1>12. CASE UNCHANGED writeVars
  BY <1>12 DEF writeVars, fileVars, WriteInv, WriteTypeOK, NothingForgotten, BodyProgress, HeaderFollowsBody, Body, Blocks, Header
<1> QED
  BY <1>1, <1>2, <1>3, <1>4, <1>5, <1>6, <1>7, <1>8, <1>9, <1>10, <1>11, <1>12 DEF WriteNext, Writer, Kernel

THEOREM WriteInvariance == WriteSpec => []WriteInv
  BY WriteInitInv, WriteStepInv, PTL DEF WriteSpec

(* The kernel's and the FILE's view of the file stay subsets of its blocks, *)
(* and what the disk has the kernel has.                                    *)
THEOREM WriteTypeCorrect == WriteSpec => []WriteTypeOK
<1>1. WriteInv => WriteTypeOK
  BY DEF WriteInv
<1> QED BY <1>1, WriteInvariance, PTL

(* The magic number is a commit record: however kills, power failures,     *)
(* lost writes and the kernel's order of writing are combined, it never    *)
(* stands in a file without its body, as long as fsync does not fail.      *)
THEOREM CommitRecord == WriteSpec => []CommitRecordIsLast
<1>1. WriteInv => CommitRecordIsLast
  BY DEF WriteInv, WriteTypeOK, HeaderFollowsBody, CommitRecordIsLast, Accepts
<1> QED BY <1>1, WriteInvariance, PTL

(* A WriteIndex that fails leaves nothing that is taken for an index, even *)
(* if the power fails before the unlink has reached the disk.              *)
THEOREM FailureIsClean == WriteSpec => []FailureLeavesNoIndex
<1>1. WriteInv => FailureLeavesNoIndex
  BY DEF WriteInv, HeaderFollowsBody, FailureLeavesNoIndex, Accepts
<1> QED BY <1>1, WriteInvariance, PTL

(* When WriteIndex returns a size, the body is on the disk.                *)
THEOREM BodyIsDurable == WriteSpec => []ReturnedBodyIsDurable
<1>1. WriteInv => ReturnedBodyIsDurable
  BY DEF WriteInv, HeaderFollowsBody, ReturnedBodyIsDurable
<1> QED BY <1>1, WriteInvariance, PTL

-----------------------------------------------------------------------------
(* Pieces of a file, written or still to be written, that cover it from    *)
(* its first to its last byte, e: each ends where another one begins.      *)
Tiles(S, e) ==
  /\ e \in Nat
  /\ \A s \in S : s = <<s[1], s[2]>> /\ s[1] \in Nat /\ s[2] \in Nat /\ s[1] < s[2] /\ s[2] <= e
  /\ \A s, t \in S : s = t \/ s[2] <= t[1] \/ t[2] <= s[1]
  /\ \A s \in S : s[2] = e \/ \E t \in S : t[1] = s[2]

Hole(a, b) == IF a < b THEN {<<a, b>>} ELSE {}

(* The pieces W are written, the holes H are not.                          *)
Layout(W, H, e) == W \cap H = {} /\ Tiles(W \cup H, e)

LEMMA SplitTiles ==
  ASSUME NEW S, NEW e, Tiles(S, e), NEW a, NEW b, <<a, b>> \in S, NEW c \in Nat, a < c, c <= b
  PROVE  Tiles((S \ {<<a, b>>}) \cup {<<a, c>>} \cup Hole(c, b), e)
<1> DEFINE T == (S \ {<<a, b>>}) \cup {<<a, c>>} \cup Hole(c, b)
<1>1. a \in Nat /\ b \in Nat /\ b <= e /\ e \in Nat
  <2>1. <<a, b>>[1] = a /\ <<a, b>>[2] = b
    OBVIOUS
  <2> QED BY <2>1 DEF Tiles
<1>2. \A s \in T : (s \in S /\ s # <<a, b>>) \/ s = <<a, c>> \/ (c < b /\ s = <<c, b>>)
  BY DEF Hole
<1>3. <<a, c>> \in T /\ (c < b => <<c, b>> \in T) /\ \A s \in S : s # <<a, b>> => s \in T
  BY DEF Hole
<1> HIDE DEF T
<1>4. \A s \in T : s = <<s[1], s[2]>> /\ s[1] \in Nat /\ s[2] \in Nat /\ s[1] < s[2] /\ s[2] <= e
  BY <1>1, <1>2 DEF Tiles
<1>5. \A s \in S : s # <<a, b>> => s[2] <= a \/ b <= s[1]
  <2> SUFFICES ASSUME NEW s \in S, s # <<a, b>> PROVE s[2] <= a \/ b <= s[1]
    OBVIOUS
  <2>1. <<a, b>>[1] = a /\ <<a, b>>[2] = b
    OBVIOUS
  <2> QED BY <2>1 DEF Tiles
<1>6. \A s, t \in T : s = t \/ s[2] <= t[1] \/ t[2] <= s[1]
  <2> SUFFICES ASSUME NEW s \in T, NEW t \in T PROVE s = t \/ s[2] <= t[1] \/ t[2] <= s[1]
    OBVIOUS
  <2>1. CASE s \in S /\ s # <<a, b>> /\ t \in S /\ t # <<a, b>>
    BY <2>1 DEF Tiles
  <2>2. CASE s \in S /\ s # <<a, b>> /\ (t = <<a, c>> \/ (c < b /\ t = <<c, b>>))
    BY <1>1, <1>4, <1>5, <2>2
  <2>3. CASE t \in S /\ t # <<a, b>> /\ (s = <<a, c>> \/ (c < b /\ s = <<c, b>>))
    BY <1>1, <1>4, <1>5, <2>3
  <2>4. CASE (s = <<a, c>> \/ (c < b /\ s = <<c, b>>)) /\ (t = <<a, c>> \/ (c < b /\ t = <<c, b>>))
    BY <1>1, <2>4
  <2> QED BY <1>2, <2>1, <2>2, <2>3, <2>4
<1>7. ASSUME NEW s \in S PROVE s[2] = e \/ \E t \in T : t[1] = s[2]
  <2>1. CASE s[2] = e
    BY <2>1
  <2>2. CASE s[2] # e
    <3>1. PICK t \in S : t[1] = s[2]
      BY <2>2 DEF Tiles
    <3>2. CASE t = <<a, b>>
      BY <1>3, <3>1, <3>2
    <3>3. CASE t # <<a, b>>
      BY <1>3, <3>1, <3>3
    <3> QED BY <3>2, <3>3
  <2> QED BY <2>1, <2>2
<1>8. ASSUME NEW s \in T PROVE s[2] = e \/ \E t \in T : t[1] = s[2]
  <2>1. CASE s \in S
    BY <1>7, <2>1
  <2>2. b = e \/ \E t \in T : t[1] = b
    <3>1. <<a, b>>[2] = b
      OBVIOUS
    <3> QED BY <1>7, <3>1
  <2>3. CASE s = <<a, c>>
    <3>1. s[2] = c
      BY <2>3
    <3>2. CASE c < b
      <4>1. <<c, b>> \in T /\ <<c, b>>[1] = c
        BY <1>3, <3>2
      <4> QED BY <3>1, <4>1
    <3>3. CASE c = b
      BY <2>2, <3>1, <3>3
    <3> QED BY <1>1, <3>2, <3>3
  <2>4. CASE s = <<c, b>>
    BY <2>2, <2>4
  <2> QED BY <1>2, <2>1, <2>3, <2>4
<1>9. Tiles(T, e)
  BY <1>1, <1>4, <1>6, <1>8 DEF Tiles
<1> QED BY <1>9 DEF T

LEMMA ExtendTiles ==
  ASSUME NEW S, NEW e, Tiles(S, e), NEW f \in Nat, e < f
  PROVE  Tiles(S \cup {<<e, f>>}, f)
<1> DEFINE T == S \cup {<<e, f>>}
<1>1. e \in Nat /\ \A s \in S : s = <<s[1], s[2]>> /\ s[1] \in Nat /\ s[2] \in Nat /\ s[1] < s[2] /\ s[2] <= e
  BY DEF Tiles
<1>2. <<e, f>> \in T /\ <<e, f>>[1] = e /\ <<e, f>>[2] = f
  OBVIOUS
<1>3. \A s \in T : s = <<s[1], s[2]>> /\ s[1] \in Nat /\ s[2] \in Nat /\ s[1] < s[2] /\ s[2] <= f
  BY <1>1
<1>4. \A s, t \in T : s = t \/ s[2] <= t[1] \/ t[2] <= s[1]
  <2>1. \A s, t \in S : s = t \/ s[2] <= t[1] \/ t[2] <= s[1]
    BY DEF Tiles
  <2> QED BY <1>1, <2>1
<1>5. \A s \in T : s[2] = f \/ \E t \in T : t[1] = s[2]
  <2>1. \A s \in S : s[2] = e \/ \E t \in S : t[1] = s[2]
    BY DEF Tiles
  <2> QED BY <1>2, <2>1
<1> HIDE DEF T
<1>6. Tiles(T, f)
  BY <1>3, <1>4, <1>5 DEF Tiles
<1> QED BY <1>6 DEF T

-----------------------------------------------------------------------------
(* The beginning of a hole is written, up to its end or not.               *)
LEMMA FillHole ==
  ASSUME NEW W, NEW H, NEW e, Layout(W, H, e), NEW a, NEW b, <<a, b>> \in H, NEW c \in Nat, a < c, c <= b
  PROVE  /\ Layout(W \cup {<<a, c>>}, (H \ {<<a, b>>}) \cup Hole(c, b), e)
         /\ \A s \in W : s[1] # a
<1> DEFINE S == W \cup H
           X == W \cup {<<a, c>>}
           K == (H \ {<<a, b>>}) \cup Hole(c, b)
<1>1. Tiles(S, e) /\ <<a, b>> \in S /\ <<a, b>> \notin W /\ <<a, b>>[1] = a /\ <<a, b>>[2] = b
  BY DEF Layout
<1>2. X \cup K = (S \ {<<a, b>>}) \cup {<<a, c>>} \cup Hole(c, b)
  BY <1>1
<1>3. Tiles(X \cup K, e)
  <2> HIDE DEF S, X, K
  <2> QED BY <1>1, <1>2, SplitTiles
<1>4. \A s \in S : s # <<a, b>> => s[2] <= a \/ b <= s[1]
  BY <1>1 DEF Tiles
<1>5. \A s \in S : s[1] \in Nat /\ s[2] \in Nat /\ s[1] < s[2]
  BY <1>1 DEF Tiles
<1>6. a \in Nat /\ b \in Nat
  BY <1>1, <1>5
<1>7. \A s \in W : s[1] # a /\ s # <<c, b>>
  <2> SUFFICES ASSUME NEW s \in W PROVE s[1] # a /\ s # <<c, b>>
    OBVIOUS
  <2>1. s \in S /\ s # <<a, b>>
    BY <1>1
  <2>2. s[2] <= a \/ b <= s[1]
    BY <1>4, <2>1
  <2>3. s[1] # a
    BY <1>5, <1>6, <2>1, <2>2
  <2>4. ASSUME s = <<c, b>> PROVE FALSE
    <3>1. s[1] = c /\ s[2] = b
      BY <2>4
    <3> QED BY <1>5, <1>6, <2>1, <2>2, <3>1
  <2> QED BY <2>3, <2>4
<1>8. <<a, c>> \notin K
  <2>1. ASSUME <<a, c>> \in H \ {<<a, b>>} PROVE FALSE
    <3>1. <<a, c>> \in S /\ <<a, c>>[1] = a /\ <<a, c>>[2] = c
      BY <2>1
    <3>2. <<a, c>>[2] <= a \/ b <= <<a, c>>[1]
      BY <1>4, <2>1, <3>1
    <3> QED BY <1>6, <3>1, <3>2
  <2>2. <<a, c>> # <<c, b>>
    BY <1>6
  <2> QED BY <2>1, <2>2 DEF Hole
<1>9. \A s \in W : s \notin K
  BY <1>7 DEF Layout, Hole
<1>10. X \cap K = {}
  BY <1>8, <1>9
<1> QED BY <1>3, <1>7, <1>10 DEF Layout

(* The file grows by a record.                                             *)
LEMMA AddPiece ==
  ASSUME NEW W, NEW H, NEW e, Layout(W, H, e), NEW f \in Nat, e < f
  PROVE  /\ Layout(W \cup {<<e, f>>}, H, f)
         /\ \A s \in W : s[1] # e
<1>1. Tiles(W \cup H, e)
  BY DEF Layout
<1>2. Tiles((W \cup H) \cup {<<e, f>>}, f)
  BY <1>1, ExtendTiles
<1>3. (W \cup H) \cup {<<e, f>>} = (W \cup {<<e, f>>}) \cup H
  OBVIOUS
<1>4. \A s \in W \cup H : s[1] # e
  BY <1>1 DEF Tiles
<1>5. <<e, f>> \notin H
  <2>1. <<e, f>>[1] = e
    OBVIOUS
  <2> QED BY <1>4, <2>1
<1> QED BY <1>2, <1>3, <1>4, <1>5 DEF Layout

(* Room is left for a record.                                              *)
LEMMA AddHole ==
  ASSUME NEW W, NEW H, NEW e, Layout(W, H, e), NEW f \in Nat, e <= f
  PROVE  Layout(W, H \cup Hole(e, f), f)
<1>1. Tiles(W \cup H, e) /\ e \in Nat
  BY DEF Layout, Tiles
<1>2. CASE e < f
  <2>1. Tiles((W \cup H) \cup {<<e, f>>}, f)
    BY <1>1, <1>2, ExtendTiles
  <2>2. (W \cup H) \cup {<<e, f>>} = W \cup (H \cup Hole(e, f))
    BY <1>2 DEF Hole
  <2>3. <<e, f>> \notin W
    <3>1. <<e, f>>[1] = e
      OBVIOUS
    <3>2. \A s \in W : s[1] # e
      BY <1>1 DEF Tiles
    <3> QED BY <3>1, <3>2
  <2> QED BY <2>1, <2>2, <2>3 DEF Layout, Hole
<1>3. CASE e = f
  BY <1>3 DEF Hole
<1> QED BY <1>1, <1>2, <1>3

-----------------------------------------------------------------------------
(* Where the positions of the elements of a call's bucket end.             *)
PositionsEnd(c) == c.bucket_pos + SizeofElementPositionRecord * Len(c.table[c.bucket])

(* A call of WriteHashTable has written its bucket records up to the one   *)
(* it is at, and behind them all whole buckets.                            *)
CallInv(c) ==
  /\ c = [kind |-> c.kind, table |-> c.table, offset |-> c.offset, step |-> c.step, bucket |-> c.bucket,
          record_pos |-> c.record_pos, bucket_pos |-> c.bucket_pos,
          elt |-> c.elt, elt_record_pos |-> c.elt_record_pos, element_pos |-> c.element_pos]
  /\ IsTable(c.table) /\ c.step \in {"record", "element"}
  /\ c.offset \in Nat /\ c.bucket \in 1..Len(c.table) + 1 /\ c.elt \in Nat
  /\ c.record_pos \in Nat /\ c.bucket_pos \in Nat /\ c.elt_record_pos \in Nat /\ c.element_pos \in Nat
  /\ c.record_pos = c.offset + SizeofBucketListHeader
                      + SizeofBucketRecord * (IF c.step = "record" THEN c.bucket - 1 ELSE c.bucket)
  /\ BucketsStart(c.table, c.offset) <= c.bucket_pos
  /\ c.step = "element" =>
       /\ c.bucket <= Len(c.table) /\ c.table[c.bucket] # <<>>
       /\ c.elt \in 1..Len(c.table[c.bucket]) + 1
       /\ c.elt_record_pos = c.bucket_pos + SizeofElementPositionRecord * (c.elt - 1)
       /\ PositionsEnd(c) <= c.element_pos
       /\ c.elt > 1 => PositionsEnd(c) < c.element_pos

(* The element at which the call stands, and where what it writes ends.    *)
ElementOf(c) == c.table[c.bucket][c.elt]
CallEnd(c) == IF c.step = "record" THEN c.bucket_pos ELSE c.element_pos

(* d writes the postings of the word at which c stands.                    *)
Inner(c, d) ==
  /\ c.step = "element" /\ c.elt <= Len(c.table[c.bucket])
  /\ d.kind = "docids" /\ d.table = ElementOf(c).postings
  /\ d.offset = c.element_pos + SizeofWordPostingsHeader + Length[ElementOf(c).word]

(* The first of the open calls is of WriteIndex, the second of the first.  *)
StackInv ==
  /\ stack = <<>> \/ stack = <<stack[1]>> \/ (stack = <<stack[1], stack[2]>> /\ phase = "index" /\ Inner(stack[1], stack[2]))
  /\ \A n \in DOMAIN stack : CallInv(stack[n])
  /\ stack # <<>> =>
       /\ stack[1].offset = cur_pos
       /\ \/ phase = "doctable" /\ stack[1].kind = "doctable" /\ stack[1].table = dt
          \/ phase = "index" /\ stack[1].kind = "index" /\ stack[1].table = mi

(* The holes of a call: bucket records and positions that are not written  *)
(* yet, and beneath another call, the header and the letters of a word.    *)
CallHoles(c) ==
  Hole(c.record_pos, BucketsStart(c.table, c.offset))
  \cup (IF c.step = "element" THEN Hole(c.elt_record_pos, PositionsEnd(c)) ELSE {})
OuterHoles(c, offset) ==
  Hole(c.record_pos, BucketsStart(c.table, c.offset))
  \cup Hole(c.elt_record_pos + SizeofElementPositionRecord, PositionsEnd(c)) \cup {<<c.element_pos, offset>>}

Below == (IF phase = "written" THEN {} ELSE {<<0, SizeofIndexFileHeader>>})
         \cup (IF Len(stack) = 2 THEN OuterHoles(stack[1], stack[2].offset) ELSE {})
Holes == Below \cup (IF stack = <<>> THEN {} ELSE CallHoles(Top))
Pieces == {<<o, Ends(o)>> : o \in DOMAIN file}
End == IF stack = <<>> THEN cur_pos ELSE CallEnd(Top)

LayoutInv ==
  /\ dt \in DocTables /\ mi \in MemIndexes
  /\ phase \in {"doctable", "index", "header", "written", "failed"}
  /\ \A o \in DOMAIN file : o \in Nat /\ file[o].size \in Nat \ {0}
  /\ cur_pos \in Nat /\ dt_bytes \in Nat /\ mi_bytes \in Nat
  /\ cur_pos = SizeofIndexFileHeader + dt_bytes + mi_bytes
  /\ (phase = "doctable" => dt_bytes = 0) /\ (phase \in {"doctable", "index"} => mi_bytes = 0)
  /\ phase = "failed" => DOMAIN file = {}
  /\ phase = "written" => 0 \in DOMAIN file
  /\ StackInv
  /\ phase # "failed" => Layout(Pieces, Holes, End)

-----------------------------------------------------------------------------
(* What is in a file, f: a record of a type, and whole records, which a    *)
(* file that only grows keeps.                                             *)
Grows(f, g) == \A o \in DOMAIN f : o \in DOMAIN g /\ g[o] = f[o]
Typed(f, o, type) == o \in DOMAIN f /\ f[o].type = type
OnFile(f, r) == r.at \in DOMAIN f /\ f[r.at] = r

(* An element of a table, the record and the chain of a bucket, and the    *)
(* whole table, where S has the elements that are stored and their places. *)
ElementLaid(f, S, pos, chain, k) ==
  /\ Typed(f, pos + 4 * (k - 1), "element_pos")
  /\ <<f[pos + 4 * (k - 1)].data.position, chain[k]>> \in S
RecordLaid(f, offset, t, b) ==
  /\ Typed(f, offset + 4 + 8 * (b - 1), "bucket_rec")
  /\ f[offset + 4 + 8 * (b - 1)].data.chain_num_elements = Len(t[b])
BucketLaid(f, S, offset, t, b) ==
  /\ RecordLaid(f, offset, t, b)
  /\ \A k \in 1..Len(t[b]) : ElementLaid(f, S, f[offset + 4 + 8 * (b - 1)].data.position, t[b], k)
Laid(f, S, offset, t) ==
  /\ OnFile(f, BucketListHeader(t, offset))
  /\ \A b \in 1..Len(t) : BucketLaid(f, S, offset, t, b)

(* Where documents, postings and words are stored; behind a word is the    *)
(* table of its postings.                                                  *)
DocAt(f, p, e) ==
  /\ OnFile(f, Record(p, "doc", 10, [doc_id |-> e.key, file_name_bytes |-> Length[e.name]]))
  /\ OnFile(f, Record(p + 10, "name", Length[e.name], [name |-> e.name]))
PostingAt(f, p, e) ==
  /\ OnFile(f, Record(p, "docid", 12, [doc_id |-> e.key, num_positions |-> Len(e.positions)]))
  /\ OnFile(f, Record(p + 12, "positions", Len(e.positions) * 4, [positions |-> e.positions]))
AllPostings(m) == UNION {Elements(e.postings) : e \in Elements(m)}
StoredDocs(f, d) == {x \in (DOMAIN f) \X Elements(d) : DocAt(f, x[1], x[2])}
StoredPostings(f, m) == {x \in (DOMAIN f) \X AllPostings(m) : PostingAt(f, x[1], x[2])}
WordAt(f, m, p, e) ==
  /\ Typed(f, p, "word_header") /\ f[p].data.word_bytes = Length[e.word]
  /\ OnFile(f, Record(p + 6, "word", Length[e.word], [word |-> e.word]))
  /\ Laid(f, StoredPostings(f, m), p + 6 + Length[e.word], e.postings)
StoredWords(f, m) == {x \in (DOMAIN f) \X Elements(m) : WordAt(f, m, x[1], x[2])}
Stored(kind, f, d, m) ==
  IF kind = "doctable" THEN StoredDocs(f, d)
  ELSE IF kind = "docids" THEN StoredPostings(f, m) ELSE StoredWords(f, m)

(* What a call has laid: the buckets before the one it is at, and of that  *)
(* one its record and the elements before the one it is at.                *)
Progress(f, S, c) ==
  /\ OnFile(f, BucketListHeader(c.table, c.offset))
  /\ \A b \in 1..c.bucket - 1 : BucketLaid(f, S, c.offset, c.table, b)
  /\ c.step = "element" =>
       /\ RecordLaid(f, c.offset, c.table, c.bucket)
       /\ f[c.offset + 4 + 8 * (c.bucket - 1)].data.position = c.bucket_pos
       /\ \A k \in 1..c.elt - 1 : ElementLaid(f, S, c.bucket_pos, c.table[c.bucket], k)

PositionLaid(f, c) ==
  Typed(f, c.elt_record_pos, "element_pos") /\ f[c.elt_record_pos].data.position = c.element_pos

ContentInv ==
  /\ \A n \in DOMAIN stack : Progress(file, Stored(stack[n].kind, file, dt, mi), stack[n])
  /\ Len(stack) = 2 => PositionLaid(file, stack[1])
  /\ phase \in {"index", "header", "written"} => Laid(file, StoredDocs(file, dt), 16, dt)
  /\ phase \in {"header", "written"} => Laid(file, StoredWords(file, mi), 16 + dt_bytes, mi)
  /\ phase = "written" =>
       OnFile(file, Record(0, "file_header", 16, [doctable_bytes |-> dt_bytes, index_bytes |-> mi_bytes]))

-----------------------------------------------------------------------------
Frame == UNCHANGED <<dt, mi, phase, cur_pos, dt_bytes, mi_bytes>>

LEMMA SizesAre ==
  /\ SizeofIndexFileHeader = 16 /\ SizeofBucketListHeader = 4 /\ SizeofBucketRecord = 8
  /\ SizeofElementPositionRecord = 4 /\ SizeofDoctableElementHeader = 10 /\ SizeofWordPostingsHeader = 6
  /\ SizeofDocIDElementHeader = 12 /\ SizeofDocIDElementPosition = 4
BY DEF SizeofIndexFileHeader, SizeofBucketListHeader, SizeofBucketRecord, SizeofElementPositionRecord,
       SizeofDoctableElementHeader, SizeofWordPostingsHeader, SizeofDocIDElementHeader, SizeofDocIDElementPosition

(* The lengths that occur fit into an int16_t.                             *)
LEMMA Fits ==
  ASSUME NEW n \in Words \cup Names
  PROVE  Int16(Length[n]) = Length[n] /\ Length[n] \in Nat \ {0}
<1>1. Length[n] \in Nat \ {0} /\ Length[n] <= 32767
  BY LengthsAssumption
<1>2. Length[n] % 65536 = Length[n]
  BY <1>1
<1> QED BY <1>1, <1>2 DEF Int16

LEMMA TableIs ==
  ASSUME NEW t, IsTable(t)
  PROVE  /\ Len(t) \in Nat \ {0} /\ DOMAIN t = 1..Len(t)
         /\ \A b \in 1..Len(t) : Len(t[b]) \in Nat /\ DOMAIN t[b] = 1..Len(t[b]) /\ (t[b] = <<>> <=> Len(t[b]) = 0)
         /\ \A b \in 1..Len(t) : \A k \in 1..Len(t[b]) : t[b][k] \in Elements(t)
<1>1. t \in Seq(Range(t)) /\ t # <<>> /\ \A b \in DOMAIN t : t[b] \in Seq(Range(t[b]))
  BY DEF IsTable
<1>2. Len(t) \in Nat \ {0} /\ DOMAIN t = 1..Len(t)
  BY <1>1, EmptySeq
<1>3. ASSUME NEW b \in 1..Len(t)
      PROVE  Len(t[b]) \in Nat /\ DOMAIN t[b] = 1..Len(t[b]) /\ (t[b] = <<>> <=> Len(t[b]) = 0)
  <2>1. t[b] \in Seq(Range(t[b]))
    BY <1>1, <1>2
  <2> QED BY <2>1, EmptySeq
<1>4. ASSUME NEW b \in 1..Len(t), NEW k \in 1..Len(t[b]) PROVE t[b][k] \in Elements(t)
  BY <1>2, <1>3 DEF Elements, Range
<1> QED BY <1>2, <1>3, <1>4

(* Records that are written where none begins become pieces.               *)
LEMMA Written ==
  ASSUME \A o \in DOMAIN file : o \in Nat /\ file[o].size \in Nat \ {0},
         NEW R, Write(R), \A r \in R : r.at \in Nat /\ r.size \in Nat \ {0},
         \A r, s \in R : r.at = s.at => r = s, \A r \in R : \A s \in Pieces : s[1] # r.at
  PROVE  /\ Pieces' = Pieces \cup {<<r.at, r.at + r.size>> : r \in R}
         /\ \A o \in DOMAIN file' : o \in Nat /\ file'[o].size \in Nat \ {0}
         /\ DOMAIN file' = DOMAIN file \cup {r.at : r \in R}
         /\ Grows(file, file') /\ \A r \in R : OnFile(file', r)
<1>1. DOMAIN file' = DOMAIN file \cup {r.at : r \in R}
  BY DEF Write
<1>2. ASSUME NEW o \in DOMAIN file PROVE file'[o] = file[o] /\ Ends(o)' = Ends(o)
  <2>1. <<o, Ends(o)>> \in Pieces /\ <<o, Ends(o)>>[1] = o
    BY DEF Pieces
  <2>2. ~ \E r \in R : r.at = o
    BY <2>1
  <2> QED BY <1>1, <2>2 DEF Write, Ends
<1>3. ASSUME NEW r \in R PROVE file'[r.at] = r /\ Ends(r.at)' = r.at + r.size
  <2>1. (CHOOSE s \in R : s.at = r.at) = r
    OBVIOUS
  <2> QED BY <1>1, <2>1 DEF Write, Ends
<1>4. Pieces' = Pieces \cup {<<r.at, r.at + r.size>> : r \in R}
  <2>1. Pieces' = {<<o, Ends(o)'>> : o \in DOMAIN file'}
    BY DEF Pieces
  <2>2. \A x \in Pieces' : x \in Pieces \/ x \in {<<r.at, r.at + r.size>> : r \in R}
    BY <1>1, <1>2, <1>3, <2>1 DEF Pieces
  <2>3. \A x \in Pieces : x \in Pieces'
    BY <1>1, <1>2, <2>1 DEF Pieces
  <2>4. \A x \in {<<r.at, r.at + r.size>> : r \in R} : x \in Pieces'
    BY <1>1, <1>3, <2>1
  <2> QED BY <2>2, <2>3, <2>4
<1>5. \A o \in DOMAIN file' : o \in Nat /\ file'[o].size \in Nat \ {0}
  BY <1>1, <1>2, <1>3
<1>6. Grows(file, file') /\ \A r \in R : OnFile(file', r)
  BY <1>1, <1>2, <1>3 DEF Grows, OnFile
<1> QED BY <1>1, <1>4, <1>5, <1>6

-----------------------------------------------------------------------------
(* What the invariant says of the stack.                                   *)
LEMMA StackIs ==
  ASSUME LayoutInv, stack # <<>>
  PROVE  /\ CallInv(Top) /\ CallInv(stack[1]) /\ stack[1].offset = cur_pos /\ phase \in {"doctable", "index"}
         /\ cur_pos \in Nat /\ 16 <= cur_pos
         /\ \/ Len(stack) = 1 /\ stack = <<Top>> /\ Top = stack[1]
            \/ /\ Len(stack) = 2 /\ stack = <<stack[1], Top>> /\ Top = stack[2] /\ CallInv(stack[2])
               /\ phase = "index" /\ Inner(stack[1], Top)
         /\ \/ phase = "doctable" /\ stack[1].kind = "doctable" /\ stack[1].table = dt
            \/ phase = "index" /\ stack[1].kind = "index" /\ stack[1].table = mi
<1>1. /\ \A n \in DOMAIN stack : CallInv(stack[n])
      /\ stack[1].offset = cur_pos
      /\ \/ phase = "doctable" /\ stack[1].kind = "doctable" /\ stack[1].table = dt
         \/ phase = "index" /\ stack[1].kind = "index" /\ stack[1].table = mi
  BY DEF LayoutInv, StackInv
<1>2. cur_pos \in Nat /\ 16 <= cur_pos
  BY SizesAre DEF LayoutInv
<1>3. CASE stack = <<stack[1]>>
  <2>1. Len(stack) = 1 /\ 1 \in DOMAIN stack
    BY <1>3
  <2> QED BY <1>1, <1>2, <1>3, <2>1 DEF Top
<1>4. CASE stack = <<stack[1], stack[2]>> /\ phase = "index" /\ Inner(stack[1], stack[2])
  <2>1. Len(stack) = 2 /\ 1 \in DOMAIN stack /\ 2 \in DOMAIN stack
    BY <1>4
  <2> QED BY <1>1, <1>2, <1>4, <2>1 DEF Top
<1> QED BY <1>3, <1>4 DEF LayoutInv, StackInv

(* The arithmetic of a call.                                               *)
LEMMA CallIs ==
  ASSUME NEW c, CallInv(c)
  PROVE  /\ IsTable(c.table) /\ c.step \in {"record", "element"}
         /\ c.offset \in Nat /\ c.record_pos \in Nat /\ c.bucket_pos \in Nat /\ Len(c.table) \in Nat \ {0}
         /\ c.elt \in Nat /\ c.elt_record_pos \in Nat /\ c.element_pos \in Nat /\ c.bucket \in 1..Len(c.table) + 1
         /\ BucketsStart(c.table, c.offset) \in Nat /\ c.offset + 4 < BucketsStart(c.table, c.offset)
         /\ BucketsStart(c.table, c.offset) <= c.bucket_pos
         /\ c.step = "record" => c.record_pos = c.offset + 4 + 8 * (c.bucket - 1)
         /\ c.step = "record" /\ c.bucket <= Len(c.table) => c.record_pos + 8 <= BucketsStart(c.table, c.offset)
         /\ c.step = "record" /\ c.bucket > Len(c.table) => c.record_pos = BucketsStart(c.table, c.offset)
         /\ c.step = "element" => c.record_pos = c.offset + 4 + 8 * c.bucket
<1>1. /\ IsTable(c.table) /\ c.step \in {"record", "element"}
      /\ c.offset \in Nat /\ c.bucket \in 1..Len(c.table) + 1 /\ c.elt \in Nat
      /\ c.record_pos \in Nat /\ c.bucket_pos \in Nat /\ c.elt_record_pos \in Nat /\ c.element_pos \in Nat
      /\ c.record_pos = c.offset + 4 + 8 * (IF c.step = "record" THEN c.bucket - 1 ELSE c.bucket)
      /\ BucketsStart(c.table, c.offset) <= c.bucket_pos
  BY SizesAre DEF CallInv
<1>2. PICK n \in Nat \ {0} : n = Len(c.table)
  BY <1>1, TableIs
<1>3. BucketsStart(c.table, c.offset) = c.offset + 4 + 8 * n
  BY <1>2, SizesAre DEF BucketsStart
<1>4. c.bucket \in 1..n + 1
  BY <1>1, <1>2
<1>5. c.offset \in Nat /\ (c.step = "record" => c.record_pos = c.offset + 4 + 8 * (c.bucket - 1))
  BY <1>1
<1>6. c.step = "element" => c.record_pos = c.offset + 4 + 8 * c.bucket
  BY <1>1
<1>7. /\ BucketsStart(c.table, c.offset) \in Nat /\ c.offset + 4 < BucketsStart(c.table, c.offset)
      /\ c.step = "record" /\ c.bucket <= n => c.record_pos + 8 <= BucketsStart(c.table, c.offset)
      /\ c.step = "record" /\ c.bucket > n => c.record_pos = BucketsStart(c.table, c.offset)
  BY <1>3, <1>4, <1>5
<1> QED BY <1>1, <1>2, <1>5, <1>6, <1>7

LEMMA ChainIs ==
  ASSUME NEW c, CallInv(c), c.step = "element"
  PROVE  /\ Len(c.table[c.bucket]) \in Nat \ {0} /\ c.bucket \in 1..Len(c.table)
         /\ c.elt \in 1..Len(c.table[c.bucket]) + 1
         /\ PositionsEnd(c) = c.bucket_pos + 4 * Len(c.table[c.bucket]) /\ PositionsEnd(c) \in Nat
         /\ c.elt_record_pos = c.bucket_pos + 4 * (c.elt - 1)
         /\ c.bucket_pos <= c.elt_record_pos
         /\ PositionsEnd(c) <= c.element_pos
         /\ c.elt > 1 => PositionsEnd(c) < c.element_pos
         /\ c.elt <= Len(c.table[c.bucket]) => c.elt_record_pos + 4 <= PositionsEnd(c)
         /\ c.elt > Len(c.table[c.bucket]) => c.elt_record_pos = PositionsEnd(c)
         /\ c.elt <= Len(c.table[c.bucket]) => ElementOf(c) \in Elements(c.table)
<1>1. IsTable(c.table) /\ c.bucket_pos \in Nat /\ Len(c.table) \in Nat \ {0} /\ c.bucket \in 1..Len(c.table) + 1
  BY CallIs
<1>2. /\ c.bucket <= Len(c.table) /\ c.elt \in 1..Len(c.table[c.bucket]) + 1 /\ c.table[c.bucket] # <<>>
      /\ c.elt_record_pos = c.bucket_pos + 4 * (c.elt - 1)
      /\ PositionsEnd(c) <= c.element_pos
      /\ c.elt > 1 => PositionsEnd(c) < c.element_pos
  BY SizesAre DEF CallInv
<1>3. c.bucket \in 1..Len(c.table)
  BY <1>1, <1>2
<1>4. Len(c.table[c.bucket]) \in Nat \ {0}
  BY <1>1, <1>2, <1>3, TableIs
<1> DEFINE length == Len(c.table[c.bucket])
<1>5. length \in Nat \ {0} /\ c.elt \in 1..length + 1 /\ PositionsEnd(c) = c.bucket_pos + 4 * length /\ c.bucket_pos \in Nat
      /\ c.elt_record_pos = c.bucket_pos + 4 * (c.elt - 1)
  BY <1>1, <1>2, <1>4, SizesAre DEF PositionsEnd
<1>6. c.elt <= length => ElementOf(c) \in Elements(c.table)
  <2>1. ASSUME c.elt <= length PROVE c.elt \in 1..length
    <3> HIDE DEF length
    <3> QED BY <1>5, <2>1
  <2> QED BY <1>1, <1>3, <2>1, TableIs DEF ElementOf
<1> HIDE DEF length
<1>7. /\ PositionsEnd(c) \in Nat /\ c.bucket_pos <= c.elt_record_pos
      /\ (c.elt <= length => c.elt_record_pos + 4 <= PositionsEnd(c))
      /\ (c.elt > length => c.elt_record_pos = PositionsEnd(c))
  BY <1>5
<1> QED BY <1>2, <1>3, <1>5, <1>6, <1>7 DEF length

(* The word at which the call for the index stands.                        *)
LEMMA WordIs ==
  ASSUME mi \in MemIndexes, NEW e \in Elements(mi)
  PROVE  /\ Int16(Length[e.word]) = Length[e.word] /\ Length[e.word] \in Nat \ {0}
         /\ IsTable(e.postings)
<1>1. e.word \in Words /\ IsPostings(e.postings)
  BY TablesAssumption DEF IsMemIndex
<1> QED BY <1>1, Fits DEF IsPostings

(* The holes beneath the last call end before it begins.                   *)
LEMMA BelowTop ==
  ASSUME LayoutInv, stack # <<>>
  PROVE  \A h \in Below : h[2] <= Top.offset
<1>1. cur_pos \in Nat /\ 16 <= cur_pos /\ stack[1].offset = cur_pos
  BY StackIs
<1>2. ASSUME Len(stack) = 1, Top = stack[1] PROVE \A h \in Below : h[2] <= Top.offset
  <2>1. Below \subseteq {<<0, 16>>}
    BY <1>2, SizesAre DEF Below
  <2> QED BY <1>1, <1>2, <2>1
<1>3. ASSUME Len(stack) = 2, Top = stack[2], CallInv(stack[1]), Inner(stack[1], Top), phase = "index"
      PROVE  \A h \in Below : h[2] <= Top.offset
  <2>1. PICK c : c = stack[1]
    OBVIOUS
  <2>2. /\ c.step = "element" /\ c.elt <= Len(c.table[c.bucket])
        /\ Top.offset = c.element_pos + 6 + Length[ElementOf(c).word]
    BY <1>3, <2>1, SizesAre DEF Inner
  <2>3. CallInv(c) /\ c.table = mi /\ c.offset = cur_pos /\ mi \in MemIndexes
    BY <1>1, <1>3, <2>1, StackIs DEF LayoutInv
  <2>4. ElementOf(c) \in Elements(mi)
    BY <2>2, <2>3, ChainIs
  <2>5. Length[ElementOf(c).word] \in Nat
    BY <2>3, <2>4, WordIs
  <2>6. /\ c.element_pos \in Nat /\ BucketsStart(c.table, c.offset) \in Nat /\ BucketsStart(c.table, c.offset) <= c.bucket_pos
        /\ c.bucket_pos \in Nat /\ c.offset \in Nat
    BY <2>3, CallIs
  <2>7. PositionsEnd(c) \in Nat /\ c.bucket_pos <= c.elt_record_pos /\ c.elt_record_pos + 4 <= PositionsEnd(c)
        /\ PositionsEnd(c) <= c.element_pos /\ c.elt_record_pos \in Nat
    BY <2>2, <2>3, CallIs, ChainIs
  <2>8. PICK w \in Nat : w = Length[ElementOf(c).word]
    BY <2>5
  <2>11. Top.offset = c.element_pos + 6 + w
    BY <2>2, <2>8
  <2>12. /\ 16 <= Top.offset /\ BucketsStart(c.table, c.offset) <= Top.offset
        /\ PositionsEnd(c) <= Top.offset
    <3>1. c.offset + 4 < BucketsStart(c.table, c.offset) /\ c.offset = cur_pos
      BY <2>3, CallIs
    <3>2. c.element_pos <= Top.offset /\ Top.offset \in Nat
      BY <2>6, <2>11
    <3>3. BucketsStart(c.table, c.offset) <= c.element_pos
      BY <2>6, <2>7
    <3>4. 16 <= BucketsStart(c.table, c.offset)
      BY <1>1, <2>6, <3>1
    <3> QED BY <2>6, <2>7, <3>2, <3>3, <3>4
  <2>9. Top.offset <= Top.offset
    BY <2>2, <2>5, <2>6
  <2>10. \A h \in Below : \/ h = <<0, 16>> \/ h = <<c.record_pos, BucketsStart(c.table, c.offset)>>
                          \/ h = <<c.elt_record_pos + 4, PositionsEnd(c)>> \/ h = <<c.element_pos, Top.offset>>
    BY <1>3, <2>1, SizesAre DEF Below, OuterHoles, Hole
  <2> QED BY <2>9, <2>10, <2>12
<1> QED BY <1>2, <1>3, StackIs

-----------------------------------------------------------------------------
(* A step of the last call changes its position; what lies beneath stays.  *)
LEMMA TopStep ==
  ASSUME LayoutInv, stack # <<>>, NEW d, SetTop(d), Frame, CallInv(d),
         d.kind = Top.kind, d.table = Top.table, d.offset = Top.offset,
         \A o \in DOMAIN file' : o \in Nat /\ file'[o].size \in Nat \ {0},
         Layout(Pieces', Below \cup CallHoles(d), CallEnd(d))
  PROVE  LayoutInv'
<1>1. phase \in {"doctable", "index"} /\ stack[1].offset = cur_pos
      /\ \/ phase = "doctable" /\ stack[1].kind = "doctable" /\ stack[1].table = dt
         \/ phase = "index" /\ stack[1].kind = "index" /\ stack[1].table = mi
  BY StackIs
<1>2. ASSUME Len(stack) = 1, stack = <<Top>>, Top = stack[1] 
      PROVE  StackInv' /\ Below' = Below /\ stack' = <<d>> /\ Top' = d
  <2>1. stack' = <<d>> /\ Len(stack') = 1 /\ stack'[1] = d /\ DOMAIN stack' = {1}
    BY <1>2 DEF SetTop
  <2>2. Top' = d
    BY <2>1 DEF Top
  <2>3. StackInv'
    BY <1>1, <1>2, <2>1 DEF StackInv, Frame
  <2>4. Below' = Below
    BY <1>1, <1>2, <2>1 DEF Below, Frame
  <2> QED BY <2>1, <2>2, <2>3, <2>4
<1>3. ASSUME Len(stack) = 2, stack = <<stack[1], Top>>, CallInv(stack[1]), phase = "index", Inner(stack[1], Top)
      PROVE  StackInv' /\ Below' = Below /\ stack' = <<stack[1], d>> /\ Top' = d
  <2>1. stack' = <<stack[1], d>> /\ Len(stack') = 2 /\ stack'[1] = stack[1] /\ stack'[2] = d /\ DOMAIN stack' = {1, 2}
    BY <1>3 DEF SetTop
  <2>2. Top' = d
    BY <2>1 DEF Top
  <2>3. Inner(stack[1], d)
    BY <1>3 DEF Inner
  <2>4. StackInv'
    BY <1>1, <1>3, <2>1, <2>3 DEF StackInv, Frame
  <2>5. stack[2].offset = d.offset
    BY <1>3
  <2>6. Below' = Below
    BY <1>1, <1>3, <2>1, <2>5 DEF Below, Frame
  <2> QED BY <2>1, <2>2, <2>4, <2>6
<1>4. StackInv' /\ Below' = Below /\ stack' # <<>> /\ Top' = d
  BY <1>2, <1>3, StackIs
<1>5. Holes' = Below \cup CallHoles(d) /\ End' = CallEnd(d)
  BY <1>4 DEF Holes, End
<1>6. Layout(Pieces', Holes', End')
  BY <1>5
<1> QED BY <1>1, <1>4, <1>6 DEF LayoutInv, Frame

(* A hole of the last call is none of those beneath it.                    *)
LEMMA NotBelow ==
  ASSUME LayoutInv, stack # <<>>, NEW a, NEW b, b \in Nat, Top.offset < b
  PROVE  <<a, b>> \notin Below
<1>1. \A h \in Below : h[2] <= Top.offset
  BY BelowTop
<1>2. <<a, b>>[2] = b /\ Top.offset \in Nat
  BY StackIs, CallIs
<1>3. ASSUME <<a, b>> \in Below PROVE FALSE
  <2>1. b <= Top.offset
    BY <1>1, <1>2, <1>3
  <2> QED BY <1>2, <2>1
<1> QED BY <1>3

LEMMA BucketRecordStep ==
  ASSUME LayoutInv, WriteHTBucketRecord
  PROVE  /\ LayoutInv' /\ Grows(file, file') /\ RecordLaid(file', Top.offset, Top.table, Top.bucket)
         /\ file'[Top.offset + 4 + 8 * (Top.bucket - 1)].data.position = Top.bucket_pos
<1> DEFINE r == Record(Top.record_pos, "bucket_rec", SizeofBucketRecord,
                       [chain_num_elements |-> Len(Chain), position |-> Top.bucket_pos])
           rp == Top.record_pos
           start == BucketsStart(Top.table, Top.offset)
<1>1. /\ stack # <<>> /\ Top.step = "record" /\ Top.bucket <= Len(Top.table) /\ Write({r}) /\ Frame
      /\ phase # "failed"
  BY StackIs DEF WriteHTBucketRecord, Frame
<1>2. CallInv(Top)
  BY <1>1, StackIs
<1>3. /\ Top.offset \in Nat /\ rp \in Nat /\ Top.bucket_pos \in Nat /\ start \in Nat
      /\ start <= Top.bucket_pos /\ Top.offset + 4 < start /\ rp + 8 <= start
      /\ rp = Top.offset + 4 + 8 * (Top.bucket - 1)
  BY <1>1, <1>2, CallIs
<1> HIDE DEF rp, start
<1>4. rp < start /\ Top.offset < start
  BY <1>3
<1>5. Top.bucket \in 1..Len(Top.table) /\ Top.bucket + 1 \in 1..Len(Top.table) + 1
  <2>1. PICK n \in Nat : n = Len(Top.table)
    BY <1>2, CallIs
  <2>2. Top.bucket \in 1..n + 1 /\ Top.bucket <= n
    BY <1>1, <1>2, <2>1, CallIs
  <2>3. Top.bucket \in 1..n /\ Top.bucket + 1 \in 1..n + 1
    BY <2>2
  <2> QED BY <2>1, <2>3
<1>6. Holes = Below \cup {<<rp, start>>} /\ <<rp, start>> \notin Below /\ End = Top.bucket_pos
  <2>1. <<rp, start>> \notin Below
    BY <1>1, <1>3, <1>4, NotBelow
  <2>2. CallHoles(Top) = {<<rp, start>>}
    BY <1>1, <1>4 DEF CallHoles, Hole, rp, start
  <2> QED BY <1>1, <2>1, <2>2 DEF Holes, End, CallEnd
<1>7. Layout(Pieces, Holes, Top.bucket_pos)
  BY <1>1, <1>6 DEF LayoutInv
<1>8. /\ Layout(Pieces \cup {<<rp, rp + 8>>}, (Holes \ {<<rp, start>>}) \cup Hole(rp + 8, start), Top.bucket_pos)
      /\ \A s \in Pieces : s[1] # rp
  <2>1. rp + 8 \in Nat /\ rp < rp + 8 /\ <<rp, start>> \in Holes
    BY <1>3, <1>6
  <2> QED BY <1>3, <1>7, <2>1, FillHole
<1>9. Layout(Pieces \cup {<<rp, rp + 8>>}, Below \cup Hole(rp + 8, start), Top.bucket_pos)
  <2>1. Holes \ {<<rp, start>>} = Below
    BY <1>6
  <2> QED BY <1>8, <2>1
<1>10. /\ Pieces' = Pieces \cup {<<rp, rp + 8>>}
       /\ \A o \in DOMAIN file' : o \in Nat /\ file'[o].size \in Nat \ {0}
       /\ Grows(file, file') /\ OnFile(file', r)
  <2>1. r.at = rp /\ r.size = 8
    BY SizesAre DEF Record, rp
  <2> HIDE DEF r
  <2>2. \A o \in DOMAIN file : o \in Nat /\ file[o].size \in Nat \ {0}
    BY DEF LayoutInv
  <2>3. r.at \in Nat /\ r.size \in Nat \ {0} /\ \A s \in Pieces : s[1] # r.at
    BY <1>3, <1>8, <2>1
  <2>4. {<<x.at, x.at + x.size>> : x \in {r}} = {<<rp, rp + 8>>}
    BY <2>1
  <2>5. /\ Pieces' = Pieces \cup {<<x.at, x.at + x.size>> : x \in {r}}
        /\ \A o \in DOMAIN file' : o \in Nat /\ file'[o].size \in Nat \ {0}
        /\ Grows(file, file') /\ \A z \in {r} : OnFile(file', z)
    BY <1>1, <2>2, <2>3, Written
  <2> QED BY <2>4, <2>5
<1>13. /\ RecordLaid(file', Top.offset, Top.table, Top.bucket)
       /\ file'[Top.offset + 4 + 8 * (Top.bucket - 1)].data.position = Top.bucket_pos
  <2>1. r.at = rp /\ r.type = "bucket_rec" /\ r.data.position = Top.bucket_pos
        /\ r.data.chain_num_elements = Len(Top.table[Top.bucket])
    BY DEF Record, rp, Chain
  <2> HIDE DEF r
  <2> QED BY <1>3, <1>10, <2>1 DEF OnFile, RecordLaid, Typed
<1>11. ASSUME Chain = <<>> PROVE LayoutInv'
  <2>1. PICK d : d = [Top EXCEPT !.bucket = @ + 1, !.record_pos = @ + RecordStep(Chain)]
    OBVIOUS
  <2>2. SetTop(d)
    BY <1>11, <2>1 DEF WriteHTBucketRecord
  <2>3. d = [Top EXCEPT !.bucket = @ + 1, !.record_pos = @ + 8]
    BY <2>1, SizesAre DEF RecordStep
  <2>4. CallInv(d) /\ d.step = "record" /\ d.kind = Top.kind /\ d.table = Top.table /\ d.offset = Top.offset
        /\ d.record_pos = rp + 8 /\ d.bucket_pos = Top.bucket_pos
    <3>1. /\ d = [kind |-> Top.kind, table |-> Top.table, offset |-> Top.offset, step |-> "record", bucket |-> Top.bucket + 1,
                  record_pos |-> rp + 8, bucket_pos |-> Top.bucket_pos,
                  elt |-> Top.elt, elt_record_pos |-> Top.elt_record_pos, element_pos |-> Top.element_pos]
      BY <1>1, <1>2, <2>3 DEF CallInv, rp
    <3>2. rp + 8 \in Nat /\ rp + 8 = Top.offset + 4 + 8 * (Top.bucket + 1 - 1)
      <4>1. Top.bucket \in Int
        BY <1>5
      <4> QED BY <1>3, <4>1
    <3>3. start <= Top.bucket_pos
      BY <1>3
    <3> QED BY <1>2, <1>5, <3>1, <3>2, <3>3, SizesAre DEF CallInv, start
  <2>5. CallHoles(d) = Hole(rp + 8, start) /\ CallEnd(d) = Top.bucket_pos
    BY <2>4 DEF CallHoles, CallEnd, start
  <2>6. Layout(Pieces', Below \cup CallHoles(d), CallEnd(d))
    BY <1>9, <1>10, <2>5
  <2> QED BY <1>1, <1>10, <2>2, <2>4, <2>6, TopStep
<1>12. ASSUME Chain # <<>> PROVE LayoutInv'
  <2>1. PICK d : d = [Top EXCEPT !.record_pos = @ + RecordStep(Chain), !.step = "element", !.elt = 1,
                             !.elt_record_pos = Top.bucket_pos,
                             !.element_pos = Top.bucket_pos + SizeofElementPositionRecord * Len(Chain)]
    OBVIOUS
  <2>2. SetTop(d)
    BY <1>12, <2>1 DEF WriteHTBucketRecord
  <2>3. PICK length : length = Len(Chain)
    OBVIOUS
  <2>4. length \in Nat \ {0}
    <3>1. IsTable(Top.table) /\ Top.bucket \in 1..Len(Top.table)
      BY <1>2, <1>5, CallIs
    <3> QED BY <1>12, <2>3, <3>1, TableIs DEF Chain
  <2>5. /\ d = [kind |-> Top.kind, table |-> Top.table, offset |-> Top.offset, step |-> "element", bucket |-> Top.bucket,
                record_pos |-> rp + 8, bucket_pos |-> Top.bucket_pos,
                elt |-> 1, elt_record_pos |-> Top.bucket_pos, element_pos |-> Top.bucket_pos + 4 * length]
    BY <1>1, <1>2, <2>1, <2>3, SizesAre DEF CallInv, rp, RecordStep
  <2>6. CallInv(d) /\ PositionsEnd(d) = Top.bucket_pos + 4 * length
    <3>1. rp + 8 \in Nat /\ rp + 8 = Top.offset + 4 + 8 * Top.bucket
      <4>1. Top.bucket \in Int
        BY <1>5
      <4> QED BY <1>3, <4>1
    <3>2. start <= Top.bucket_pos /\ Top.bucket_pos + 4 * length \in Nat /\ 1 \in 1..length + 1
          /\ Top.bucket_pos = Top.bucket_pos + 4 * (1 - 1)
      BY <1>3, <2>4
    <3>7. Top.bucket \in 1..Len(Top.table) + 1 /\ Top.bucket <= Len(Top.table)
      BY <1>1, <1>2, CallIs
    <3>3. d.table[d.bucket] = Chain /\ Len(d.table[d.bucket]) = length
      BY <2>3, <2>5 DEF Chain
    <3>4. PositionsEnd(d) = Top.bucket_pos + 4 * length
      BY <2>5, <3>3, SizesAre DEF PositionsEnd
    <3>5. PositionsEnd(d) <= d.element_pos /\ ~(d.elt > 1)
      BY <1>3, <2>4, <2>5, <3>4
    <3>6. IsTable(Top.table)
      BY <1>2, CallIs
    <3> QED BY <1>3, <1>12, <2>5, <3>1, <3>2, <3>3, <3>4, <3>5, <3>6, <3>7, SizesAre DEF CallInv, start
  <2>7. CallHoles(d) = Hole(rp + 8, start) \cup Hole(Top.bucket_pos, Top.bucket_pos + 4 * length)
        /\ CallEnd(d) = Top.bucket_pos + 4 * length
    BY <2>5, <2>6 DEF CallHoles, CallEnd, start
  <2>8. Layout(Pieces', (Below \cup Hole(rp + 8, start)) \cup Hole(Top.bucket_pos, Top.bucket_pos + 4 * length),
               Top.bucket_pos + 4 * length)
    <3>1. Top.bucket_pos + 4 * length \in Nat /\ Top.bucket_pos <= Top.bucket_pos + 4 * length
      BY <1>3, <2>4
    <3> QED BY <1>9, <1>10, <3>1, AddHole
  <2>9. Layout(Pieces', Below \cup CallHoles(d), CallEnd(d))
    <3>1. (Below \cup Hole(rp + 8, start)) \cup Hole(Top.bucket_pos, Top.bucket_pos + 4 * length) = Below \cup CallHoles(d)
      BY <2>7
    <3> QED BY <2>7, <2>8, <3>1
  <2>10. d.kind = Top.kind /\ d.table = Top.table /\ d.offset = Top.offset
    BY <2>5
  <2> QED BY <1>1, <1>10, <2>2, <2>6, <2>9, <2>10, TopStep
<1> QED BY <1>10, <1>11, <1>12, <1>13

LEMMA EndOfBucketStep == LayoutInv /\ EndOfBucket => LayoutInv'
<1> SUFFICES ASSUME LayoutInv, EndOfBucket PROVE LayoutInv'
  OBVIOUS
<1> DEFINE rp == Top.record_pos
           start == BucketsStart(Top.table, Top.offset)
<1>1. /\ stack # <<>> /\ Top.step = "element" /\ Top.elt > Len(Top.table[Top.bucket]) /\ Frame
      /\ phase # "failed" /\ file' = file /\ CallInv(Top)
  BY StackIs DEF EndOfBucket, Frame, Chain
<1>2. /\ Top.offset \in Nat /\ rp \in Nat /\ Top.bucket_pos \in Nat /\ start \in Nat /\ Top.element_pos \in Nat
      /\ start <= Top.bucket_pos /\ rp = Top.offset + 4 + 8 * Top.bucket
  BY <1>1, CallIs
<1>3. /\ Top.bucket \in 1..Len(Top.table) /\ Len(Top.table) \in Nat
      /\ Top.elt_record_pos = PositionsEnd(Top) /\ PositionsEnd(Top) \in Nat
      /\ Top.bucket_pos <= Top.elt_record_pos /\ PositionsEnd(Top) <= Top.element_pos
  BY <1>1, CallIs, ChainIs
<1> HIDE DEF rp, start
<1>4. start <= Top.element_pos /\ ~(Top.elt_record_pos < PositionsEnd(Top))
  BY <1>2, <1>3
<1>5. PICK d : d = [Top EXCEPT !.step = "record", !.bucket = @ + 1, !.bucket_pos = Top.element_pos]
  OBVIOUS
<1>6. SetTop(d)
  BY <1>5 DEF EndOfBucket
<1>7. d = [kind |-> Top.kind, table |-> Top.table, offset |-> Top.offset, step |-> "record", bucket |-> Top.bucket + 1,
           record_pos |-> rp, bucket_pos |-> Top.element_pos,
           elt |-> Top.elt, elt_record_pos |-> Top.elt_record_pos, element_pos |-> Top.element_pos]
  BY <1>1, <1>5 DEF CallInv, rp
<1>8. CallInv(d)
  <2>1. Top.bucket + 1 \in 1..Len(Top.table) + 1
    BY <1>3
  <2>2. rp = Top.offset + 4 + 8 * (Top.bucket + 1 - 1)
    <3>1. Top.bucket \in Int
      BY <1>3
    <3> QED BY <1>2, <3>1
  <2> QED BY <1>1, <1>2, <1>4, <1>7, <2>1, <2>2, SizesAre DEF CallInv, start
<1>9. CallHoles(d) = CallHoles(Top) /\ CallEnd(d) = CallEnd(Top)
  BY <1>1, <1>4, <1>7 DEF CallHoles, CallEnd, Hole, rp
<1>10. Layout(Pieces, Below \cup CallHoles(Top), CallEnd(Top))
  BY <1>1 DEF LayoutInv, Holes, End
<1>11. Pieces' = Pieces
  BY <1>1 DEF Pieces, Ends
<1>12. Layout(Pieces', Below \cup CallHoles(d), CallEnd(d))
  BY <1>9, <1>10, <1>11
<1>13. \A o \in DOMAIN file' : o \in Nat /\ file'[o].size \in Nat \ {0}
  BY <1>1 DEF LayoutInv
<1> QED BY <1>1, <1>6, <1>7, <1>8, <1>12, <1>13, TopStep

(* The holes at the element where the last call stands.                    *)
LEMMA ElementHoles ==
  ASSUME LayoutInv, stack # <<>>, Top.step = "element", Top.elt <= Len(Chain)
  PROVE  LET start == BucketsStart(Top.table, Top.offset)
             rest == Below \cup Hole(Top.record_pos, start)
         IN /\ Layout(Pieces, rest \cup {<<Top.elt_record_pos, PositionsEnd(Top)>>}, Top.element_pos)
            /\ <<Top.elt_record_pos, PositionsEnd(Top)>> \notin rest
<1> DEFINE start == BucketsStart(Top.table, Top.offset)
           erp == Top.elt_record_pos
           pe == PositionsEnd(Top)
           rest == Below \cup Hole(Top.record_pos, start)
<1>1. phase # "failed" /\ CallInv(Top)
  BY StackIs
<1>2. /\ Top.offset \in Nat /\ Top.bucket_pos \in Nat /\ start \in Nat /\ erp \in Nat /\ pe \in Nat
      /\ start <= Top.bucket_pos /\ Top.offset + 4 < start
      /\ erp + 4 <= pe /\ Top.bucket_pos <= erp
  BY <1>1, CallIs, ChainIs DEF Chain
<1>3. CallHoles(Top) = Hole(Top.record_pos, start) \cup Hole(erp, pe) /\ CallEnd(Top) = Top.element_pos
  BY DEF CallHoles, CallEnd
<1>4. Layout(Pieces, Below \cup CallHoles(Top), CallEnd(Top))
  BY <1>1 DEF LayoutInv, Holes, End
<1> HIDE DEF start, erp, pe
<1>5. erp < pe /\ start < pe /\ Top.offset < pe
  BY <1>2
<1>6. <<erp, pe>> \notin Below
  BY <1>2, <1>5, NotBelow
<1>7. <<erp, pe>> \notin Hole(Top.record_pos, start)
  BY <1>2, <1>5 DEF Hole
<1>8. Below \cup CallHoles(Top) = rest \cup {<<erp, pe>>}
  BY <1>3, <1>5 DEF Hole
<1>9. Layout(Pieces, rest \cup {<<erp, pe>>}, Top.element_pos)
  BY <1>3, <1>4, <1>8
<1>10. <<erp, pe>> \notin rest
  BY <1>6, <1>7
<1> QED BY <1>9, <1>10 DEF start, erp, pe

(* The position of an element, and what follows.                           *)
LEMMA PositionWritten ==
  ASSUME NEW W, NEW H, NEW e, NEW a \in Nat, NEW b \in Nat, a + 4 <= b,
         Layout(W, H \cup {<<a, b>>}, e), <<a, b>> \notin H
  PROVE  Layout(W \cup {<<a, a + 4>>}, H \cup Hole(a + 4, b), e) /\ \A s \in W : s[1] # a
<1>1. a + 4 \in Nat /\ a < a + 4 /\ <<a, b>> \in H \cup {<<a, b>>}
  OBVIOUS
<1>2. /\ Layout(W \cup {<<a, a + 4>>}, ((H \cup {<<a, b>>}) \ {<<a, b>>}) \cup Hole(a + 4, b), e)
      /\ \A s \in W : s[1] # a
  BY <1>1, FillHole
<1>3. (H \cup {<<a, b>>}) \ {<<a, b>>} = H
  OBVIOUS
<1> QED BY <1>2, <1>3

(* The call goes on to the next element.                                   *)
LEMMA AdvancedIs ==
  ASSUME NEW c, CallInv(c), c.step = "element", c.elt <= Len(c.table[c.bucket]), NEW bytes \in Nat \ {0}
  PROVE  LET d == Advanced(c, bytes) IN
         /\ CallInv(d) /\ d.kind = c.kind /\ d.table = c.table /\ d.offset = c.offset
         /\ CallEnd(d) = c.element_pos + bytes /\ d.step = "element"
         /\ CallHoles(d) = Hole(c.record_pos, BucketsStart(c.table, c.offset))
                             \cup Hole(c.elt_record_pos + 4, PositionsEnd(c))
<1>10. PICK d : d = Advanced(c, bytes)
  OBVIOUS
<1>0. /\ c = [kind |-> c.kind, table |-> c.table, offset |-> c.offset, step |-> c.step, bucket |-> c.bucket,
               record_pos |-> c.record_pos, bucket_pos |-> c.bucket_pos,
               elt |-> c.elt, elt_record_pos |-> c.elt_record_pos, element_pos |-> c.element_pos]
  BY DEF CallInv
<1>1. d = [kind |-> c.kind, table |-> c.table, offset |-> c.offset, step |-> "element", bucket |-> c.bucket,
           record_pos |-> c.record_pos, bucket_pos |-> c.bucket_pos,
           elt |-> c.elt + 1, elt_record_pos |-> c.elt_record_pos + 4, element_pos |-> c.element_pos + bytes]
  <2>1. d = [c EXCEPT !.elt = @ + 1, !.elt_record_pos = @ + 4, !.element_pos = @ + bytes]
    BY <1>10, SizesAre DEF Advanced
  <2> QED BY <1>0, <2>1
<1>2. PositionsEnd(d) = PositionsEnd(c)
  BY <1>1 DEF PositionsEnd
<1>3. /\ c.bucket_pos \in Nat /\ c.elt_record_pos \in Nat /\ c.element_pos \in Nat /\ PositionsEnd(c) \in Nat
      /\ PositionsEnd(c) <= c.element_pos /\ c.elt \in Nat
  BY CallIs, ChainIs
<1>4. c.elt + 1 \in 1..Len(c.table[c.bucket]) + 1
  <2>1. PICK length : length = Len(c.table[c.bucket])
    OBVIOUS
  <2>2. c.elt \in Nat /\ length \in Nat /\ c.elt <= length
    BY <2>1, ChainIs, CallIs
  <2>3. c.elt + 1 \in 1..length + 1
    BY <2>2
  <2> QED BY <2>1, <2>3
<1>5. /\ c.elt_record_pos + 4 \in Nat /\ PositionsEnd(c) < c.element_pos + bytes
      /\ c.element_pos + bytes \in Nat /\ c.elt + 1 \in Nat /\ PositionsEnd(c) <= c.element_pos + bytes
  BY <1>3
<1>9. c.elt_record_pos + 4 = c.bucket_pos + 4 * (c.elt + 1 - 1)
  <2>1. c.elt_record_pos = c.bucket_pos + 4 * (c.elt - 1)
    BY ChainIs
  <2> QED BY <1>3, <2>1
<1>6. CallInv(d)
  <2>1. /\ IsTable(c.table) /\ c.offset \in Nat /\ c.bucket \in 1..Len(c.table) + 1 /\ c.bucket <= Len(c.table)
        /\ c.record_pos \in Nat /\ c.bucket_pos \in Nat /\ BucketsStart(c.table, c.offset) <= c.bucket_pos
        /\ c.record_pos = c.offset + 4 + 8 * c.bucket /\ c.table[c.bucket] # <<>>
    BY SizesAre DEF CallInv
  <2>2. /\ d.kind = c.kind /\ d.table = c.table /\ d.offset = c.offset /\ d.step = "element" /\ d.bucket = c.bucket
        /\ d.record_pos = c.record_pos /\ d.bucket_pos = c.bucket_pos
        /\ d.elt = c.elt + 1 /\ d.elt_record_pos = c.elt_record_pos + 4 /\ d.element_pos = c.element_pos + bytes
    BY <1>1
  <2>3. d = [kind |-> d.kind, table |-> d.table, offset |-> d.offset, step |-> d.step, bucket |-> d.bucket,
             record_pos |-> d.record_pos, bucket_pos |-> d.bucket_pos,
             elt |-> d.elt, elt_record_pos |-> d.elt_record_pos, element_pos |-> d.element_pos]
    BY <1>1
  <2> QED BY <1>2, <1>4, <1>5, <1>9, <2>1, <2>2, <2>3, SizesAre DEF CallInv
<1>7. CallEnd(d) = c.element_pos + bytes
  BY <1>1 DEF CallEnd
<1>8. CallHoles(d) = Hole(c.record_pos, BucketsStart(c.table, c.offset))
                             \cup Hole(c.elt_record_pos + 4, PositionsEnd(c))
  BY <1>1, <1>2 DEF CallHoles
<1> QED BY <1>10, <1>1, <1>6, <1>7, <1>8

(* An element that is a header and a body of fixed sizes.                  *)
LEMMA ElementStep ==
  ASSUME LayoutInv, stack # <<>>, Top.step = "element", Top.elt <= Len(Chain), Frame,
         NEW x, NEW y, NEW h \in Nat \ {0}, NEW b \in Nat \ {0},
         x.at = Top.element_pos, x.size = h, y.at = Top.element_pos + h, y.size = b,
         Write({ElementPosition, x, y}), SetTop(Advanced(Top, h + b))
  PROVE  LayoutInv' /\ Grows(file, file') /\ PositionLaid(file', Top) /\ OnFile(file', x) /\ OnFile(file', y)
<1>1. PICK r : r = ElementPosition
  OBVIOUS
<1>2. PICK start : start = BucketsStart(Top.table, Top.offset)
  OBVIOUS
<1>3. PICK erp : erp = Top.elt_record_pos
  OBVIOUS
<1>4. PICK ep : ep = Top.element_pos
  OBVIOUS
<1>5. PICK pe : pe = PositionsEnd(Top)
  OBVIOUS
<1>6. PICK rest : rest = Below \cup Hole(Top.record_pos, start)
  OBVIOUS
<1>7. phase # "failed" /\ CallInv(Top) /\ Top.elt <= Len(Top.table[Top.bucket])
  BY StackIs DEF Chain
<1>8. erp \in Nat /\ ep \in Nat /\ pe \in Nat /\ erp + 4 <= pe /\ pe <= ep
  BY <1>3, <1>4, <1>5, <1>7, CallIs, ChainIs
<1>9. Layout(Pieces, rest \cup {<<erp, pe>>}, ep) /\ <<erp, pe>> \notin rest
  BY <1>2, <1>3, <1>4, <1>5, <1>6, ElementHoles
<1>10. Layout(Pieces \cup {<<erp, erp + 4>>}, rest \cup Hole(erp + 4, pe), ep) /\ \A s \in Pieces : s[1] # erp
  BY <1>8, <1>9, PositionWritten
<1>11. PICK W : W = Pieces \cup {<<erp, erp + 4>>}
  OBVIOUS
<1>12. PICK H : H = rest \cup Hole(erp + 4, pe)
  OBVIOUS
<1>13. Layout(W \cup {<<ep, ep + h>>}, H, ep + h) /\ \A s \in W : s[1] # ep
  <2>1. ep + h \in Nat /\ ep < ep + h /\ Layout(W, H, ep)
    BY <1>8, <1>10, <1>11, <1>12
  <2> QED BY <2>1, AddPiece
<1>14. PICK V : V = W \cup {<<ep, ep + h>>}
  OBVIOUS
<1>15. Layout(V \cup {<<ep + h, ep + h + b>>}, H, ep + h + b) /\ \A s \in V : s[1] # ep + h
  <2>1. ep + h + b \in Nat /\ ep + h < ep + h + b /\ Layout(V, H, ep + h)
    BY <1>8, <1>13, <1>14
  <2> QED BY <2>1, AddPiece
<1>16. /\ r.at = erp /\ r.size = 4
  BY <1>1, <1>3, SizesAre DEF ElementPosition, Record
<1>17. /\ \A z \in {r, x, y} : z.at \in Nat /\ z.size \in Nat \ {0} /\ \A s \in Pieces : s[1] # z.at
       /\ \A z, w \in {r, x, y} : z.at = w.at => z = w
  <2>1. Pieces \subseteq W /\ Pieces \subseteq V
    BY <1>11, <1>14
  <2>2. r.at # x.at /\ x.at # y.at /\ r.at # y.at
    BY <1>4, <1>8, <1>16
  <2>3. r.at \in Nat /\ r.size \in Nat \ {0} /\ \A s \in Pieces : s[1] # r.at
    BY <1>8, <1>10, <1>16
  <2>4. x.at \in Nat /\ x.size \in Nat \ {0} /\ \A s \in Pieces : s[1] # x.at
    BY <1>4, <1>8, <1>13, <2>1
  <2>5. y.at \in Nat /\ y.size \in Nat \ {0} /\ \A s \in Pieces : s[1] # y.at
    BY <1>4, <1>8, <1>15, <2>1
  <2> QED BY <2>2, <2>3, <2>4, <2>5
<1>18. /\ Pieces' = Pieces \cup {<<z.at, z.at + z.size>> : z \in {r, x, y}}
       /\ \A o \in DOMAIN file' : o \in Nat /\ file'[o].size \in Nat \ {0}
       /\ Grows(file, file') /\ OnFile(file', r) /\ OnFile(file', x) /\ OnFile(file', y)
  <2>1. Write({r, x, y})
    BY <1>1
  <2>2. \A o \in DOMAIN file : o \in Nat /\ file[o].size \in Nat \ {0}
    BY DEF LayoutInv
  <2>9. /\ Pieces' = Pieces \cup {<<z.at, z.at + z.size>> : z \in {r, x, y}}
        /\ \A o \in DOMAIN file' : o \in Nat /\ file'[o].size \in Nat \ {0}
        /\ Grows(file, file') /\ \A z \in {r, x, y} : OnFile(file', z)
    BY <1>17, <2>1, <2>2, Written
  <2> QED BY <2>9
<1>19. Pieces' = V \cup {<<ep + h, ep + h + b>>}
  <2>1. {<<z.at, z.at + z.size>> : z \in {r, x, y}}
          = {<<r.at, r.at + r.size>>, <<x.at, x.at + x.size>>, <<y.at, y.at + y.size>>}
    OBVIOUS
  <2>2. {<<r.at, r.at + r.size>>, <<x.at, x.at + x.size>>, <<y.at, y.at + y.size>>}
          = {<<erp, erp + 4>>, <<ep, ep + h>>, <<ep + h, ep + h + b>>}
    BY <1>4, <1>16
  <2> QED BY <1>11, <1>14, <1>18, <2>1, <2>2
<1>20. PICK d : d = Advanced(Top, h + b)
  OBVIOUS
<1>21. /\ CallInv(d) /\ d.kind = Top.kind /\ d.table = Top.table /\ d.offset = Top.offset
       /\ CallEnd(d) = ep + (h + b) /\ CallHoles(d) = Hole(Top.record_pos, start) \cup Hole(erp + 4, pe)
  <2>1. h + b \in Nat \ {0}
    OBVIOUS
  <2> QED BY <1>2, <1>3, <1>4, <1>5, <1>7, <1>20, <2>1, AdvancedIs
<1>22. Layout(Pieces', Below \cup CallHoles(d), CallEnd(d))
  <2>1. H = Below \cup CallHoles(d)
    BY <1>6, <1>12, <1>21
  <2>2. ep + (h + b) = ep + h + b
    BY <1>8
  <2> QED BY <1>15, <1>19, <1>21, <2>1, <2>2
<1>23. LayoutInv'
  BY <1>18, <1>20, <1>21, <1>22, TopStep
<1>24. PositionLaid(file', Top)
  BY <1>1, <1>18 DEF ElementPosition, Record, OnFile, PositionLaid, Typed
<1> QED BY <1>18, <1>23, <1>24

LEMMA WriteDocidToDocnameStep ==
  ASSUME LayoutInv, WriteDocidToDocnameFn
  PROVE  /\ LayoutInv' /\ Grows(file, file') /\ PositionLaid(file', Top)
         /\ DocAt(file', Top.element_pos, Element) /\ Element \in Elements(dt)
<1>1. stack # <<>> /\ Top.step = "element" /\ Top.elt <= Len(Chain) /\ Top.kind = "doctable" /\ Frame
  BY DEF WriteDocidToDocnameFn, Frame
<1>2. PICK h : h = SizeofDoctableElementHeader
  OBVIOUS
<1>3. PICK b : b = Int16(Length[Element.name])
  OBVIOUS
<1>4. PICK x : x = Record(Top.element_pos, "doc", h, [doc_id |-> Element.key, file_name_bytes |-> b])
  OBVIOUS
<1>5. PICK y : y = Record(Top.element_pos + h, "name", b, [name |-> Element.name])
  OBVIOUS
<1>6. Write({ElementPosition, x, y}) /\ SetTop(Advanced(Top, h + b))
  BY <1>2, <1>3, <1>4, <1>5 DEF WriteDocidToDocnameFn
<1>7. h \in Nat \ {0}
  BY <1>2, SizesAre
<1>8. b \in Nat \ {0} /\ b = Length[Element.name] /\ Element \in Elements(dt)
  <2>1. Top.table = dt /\ dt \in DocTables /\ CallInv(Top)
    <3>1. Len(stack) # 2
      BY <1>1, StackIs DEF Inner
    <3> QED BY <1>1, <3>1, StackIs DEF LayoutInv
  <2>2. Element \in Elements(dt)
    BY <1>1, <2>1, ChainIs DEF ElementOf, Element, Chain
  <2>3. Element.name \in Names
    BY <2>1, <2>2, TablesAssumption DEF IsDocTable
  <2> QED BY <1>3, <2>2, <2>3, Fits
<1>9. x.at = Top.element_pos /\ x.size = h /\ y.at = Top.element_pos + h /\ y.size = b
  BY <1>4, <1>5 DEF Record
<1>10. LayoutInv' /\ Grows(file, file') /\ PositionLaid(file', Top) /\ OnFile(file', x) /\ OnFile(file', y)
  BY <1>1, <1>6, <1>7, <1>8, <1>9, ElementStep
<1>11. DocAt(file', Top.element_pos, Element)
  BY <1>2, <1>4, <1>5, <1>8, <1>10, SizesAre DEF DocAt
<1> QED BY <1>8, <1>10, <1>11

LEMMA WriteDocIDToPositionListStep ==
  ASSUME LayoutInv, WriteDocIDToPositionListFn
  PROVE  /\ LayoutInv' /\ Grows(file, file') /\ PositionLaid(file', Top)
         /\ PostingAt(file', Top.element_pos, Element) /\ Element \in AllPostings(mi)
<1>1. stack # <<>> /\ Top.step = "element" /\ Top.elt <= Len(Chain) /\ Top.kind = "docids" /\ Frame
  BY DEF WriteDocIDToPositionListFn, Frame
<1>2. PICK h : h = SizeofDocIDElementHeader
  OBVIOUS
<1>3. PICK b : b = Len(Element.positions) * SizeofDocIDElementPosition
  OBVIOUS
<1>4. PICK x : x = Record(Top.element_pos, "docid", h, [doc_id |-> Element.key, num_positions |-> Len(Element.positions)])
  OBVIOUS
<1>5. PICK y : y = Record(Top.element_pos + h, "positions", b, [positions |-> Element.positions])
  OBVIOUS
<1>6. Write({ElementPosition, x, y}) /\ SetTop(Advanced(Top, h + b))
  BY <1>2, <1>3, <1>4, <1>5 DEF WriteDocIDToPositionListFn
<1>7. h \in Nat \ {0}
  BY <1>2, SizesAre
<1>8. b \in Nat \ {0} /\ Element \in AllPostings(mi)
  <2>1. /\ CallInv(Top) /\ CallInv(stack[1]) /\ Inner(stack[1], Top) /\ stack[1].table = mi /\ mi \in MemIndexes
    BY <1>1, StackIs DEF LayoutInv
  <2>2. Top.table = ElementOf(stack[1]).postings /\ ElementOf(stack[1]) \in Elements(mi)
    BY <2>1, ChainIs DEF Inner
  <2>3. IsPostings(Top.table)
    BY <2>1, <2>2, TablesAssumption DEF IsMemIndex
  <2>4. Element \in Elements(Top.table)
    BY <1>1, <2>1, ChainIs DEF ElementOf, Element, Chain
  <2>5. Element.positions \in Seq(Nat) /\ Element.positions # <<>>
    BY <2>3, <2>4 DEF IsPostings
  <2>6. Len(Element.positions) \in Nat /\ Len(Element.positions) # 0
    BY <2>5, EmptySeq
  <2>7. PICK n \in Nat : n = Len(Element.positions)
    BY <2>6
  <2>8. b = n * 4 /\ n # 0
    BY <1>3, <2>6, <2>7, SizesAre
  <2>9. Element \in AllPostings(mi)
    BY <2>2, <2>4 DEF AllPostings
  <2> QED BY <2>8, <2>9
<1>9. x.at = Top.element_pos /\ x.size = h /\ y.at = Top.element_pos + h /\ y.size = b
  BY <1>4, <1>5 DEF Record
<1>10. LayoutInv' /\ Grows(file, file') /\ PositionLaid(file', Top) /\ OnFile(file', x) /\ OnFile(file', y)
  BY <1>1, <1>6, <1>7, <1>8, <1>9, ElementStep
<1>11. PostingAt(file', Top.element_pos, Element)
  BY <1>2, <1>3, <1>4, <1>5, <1>10, SizesAre DEF PostingAt
<1> QED BY <1>8, <1>10, <1>11

(* A call of WriteHashTable that has written its header.                   *)
LEMMA CallStarts ==
  ASSUME NEW kind, NEW t, IsTable(t), NEW offset \in Nat
  PROVE  LET d == Call(kind, t, offset)
             start == BucketsStart(t, offset)
         IN /\ CallInv(d) /\ d.kind = kind /\ d.table = t /\ d.offset = offset
            /\ CallHoles(d) = Hole(offset + 4, start) /\ CallEnd(d) = start
            /\ start \in Nat /\ offset + 4 <= start
<1>1. PICK d : d = Call(kind, t, offset)
  OBVIOUS
<1>2. PICK start : start = BucketsStart(t, offset)
  OBVIOUS
<1>3. d = [kind |-> kind, table |-> t, offset |-> offset, step |-> "record", bucket |-> 1,
           record_pos |-> offset + 4, bucket_pos |-> start, elt |-> 0, elt_record_pos |-> 0, element_pos |-> 0]
  BY <1>1, <1>2, SizesAre DEF Call
<1>4. PICK n \in Nat \ {0} : n = Len(t)
  BY TableIs
<1>5. start = offset + 4 + 8 * n
  BY <1>2, <1>4, SizesAre DEF BucketsStart
<1>6. start \in Nat /\ offset + 4 <= start /\ 1 \in 1..n + 1 /\ offset + 4 \in Nat /\ offset + 4 = offset + 4 + 8 * (1 - 1)
  BY <1>5
<1>7. CallInv(d)
  <2>1. /\ d.kind = kind /\ d.table = t /\ d.offset = offset /\ d.step = "record" /\ d.bucket = 1
        /\ d.record_pos = offset + 4 /\ d.bucket_pos = start /\ d.elt = 0 /\ d.elt_record_pos = 0 /\ d.element_pos = 0
    BY <1>3
  <2>2. d = [kind |-> d.kind, table |-> d.table, offset |-> d.offset, step |-> d.step, bucket |-> d.bucket,
             record_pos |-> d.record_pos, bucket_pos |-> d.bucket_pos,
             elt |-> d.elt, elt_record_pos |-> d.elt_record_pos, element_pos |-> d.element_pos]
    BY <1>3
  <2>3. BucketsStart(d.table, d.offset) <= d.bucket_pos
    BY <1>2, <1>6, <2>1
  <2> QED BY <1>4, <1>6, <2>1, <2>2, <2>3, SizesAre DEF CallInv
<1>8. CallHoles(d) = Hole(offset + 4, start) /\ CallEnd(d) = start /\ d.kind = kind /\ d.table = t /\ d.offset = offset
  BY <1>2, <1>3 DEF CallHoles, CallEnd
<1> QED BY <1>1, <1>2, <1>6, <1>7, <1>8

LEMMA AppendIsPair == ASSUME NEW c, NEW d PROVE Append(<<c>>, d) = <<c, d>>
<1>1. PICK s : s = Append(<<c>>, d)
  OBVIOUS
<1>2. <<c>> \in Seq({c, d}) /\ <<c, d>> \in Seq({c, d}) /\ d \in {c, d}
  OBVIOUS
<1>3. s \in Seq({c, d}) /\ Len(s) = 2 /\ s[1] = c /\ s[2] = d
  BY <1>1, <1>2
<1>4. \A i \in 1..Len(s) : s[i] = <<c, d>>[i]
  BY <1>3
<1> QED BY <1>1, <1>2, <1>3, <1>4, SeqEqual

LEMMA WriteWordToPostingsStep ==
  ASSUME LayoutInv, WriteWordToPostingsFn
  PROVE  /\ LayoutInv' /\ Grows(file, file') /\ PositionLaid(file', Top) /\ Len(stack) = 1
         /\ \E e \in Elements(mi), offset \in Nat :
              /\ OnFile(file', BucketListHeader(e.postings, offset))
              /\ stack' = <<Top, Call("docids", e.postings, offset)>>
<1>1. /\ stack # <<>> /\ Top.step = "element" /\ Top.elt <= Len(Chain) /\ Top.kind = "index" /\ Frame
  BY DEF WriteWordToPostingsFn, Frame
<1>2. PICK c : c = Top
  OBVIOUS
<1>3. PICK e : e = ElementOf(c)
  OBVIOUS
<1>4. PICK start : start = BucketsStart(c.table, c.offset)
  OBVIOUS
<1>5. PICK erp : erp = c.elt_record_pos
  OBVIOUS
<1>6. PICK ep : ep = c.element_pos
  OBVIOUS
<1>7. PICK pe : pe = PositionsEnd(c)
  OBVIOUS
<1>8. PICK rest : rest = Below \cup Hole(c.record_pos, start)
  OBVIOUS
<1>9. /\ stack = <<c>> /\ stack[1] = c /\ Len(stack) = 1 /\ phase = "index" /\ c.table = mi /\ mi \in MemIndexes
      /\ CallInv(c) /\ c.elt <= Len(c.table[c.bucket]) /\ c.step = "element" /\ c.offset = cur_pos /\ c.kind = "index"
  <2>1. Len(stack) # 2
    BY <1>1, StackIs DEF Inner
  <2> QED BY <1>1, <1>2, <2>1, StackIs DEF LayoutInv, Chain
<1>10. e \in Elements(mi)
  BY <1>3, <1>9, ChainIs
<1>11. PICK length \in Nat \ {0} : length = Length[e.word] /\ length = Int16(Length[e.word])
  BY <1>9, <1>10, WordIs
<1>12. IsTable(e.postings)
  BY <1>9, <1>10, WordIs
<1>13. erp \in Nat /\ ep \in Nat /\ pe \in Nat /\ erp + 4 <= pe /\ pe <= ep
  BY <1>5, <1>6, <1>7, <1>9, CallIs, ChainIs
<1>14. PICK offset : offset = ep + 6 + length
  OBVIOUS
<1>15. offset \in Nat /\ ep < offset
  BY <1>13, <1>14
<1>16. PICK d : d = Call("docids", e.postings, offset)
  OBVIOUS
<1>17. PICK inner : inner = BucketsStart(e.postings, offset)
  OBVIOUS
<1>18. PICK r : r = ElementPosition
  OBVIOUS
<1>19. PICK x : x = BucketListHeader(e.postings, offset)
  OBVIOUS
<1>20. Write({r, x}) /\ stack' = <<c, d>>
  <2>1. e = Element
    BY <1>2, <1>3 DEF Element, ElementOf, Chain
  <2>2. offset = Top.element_pos + SizeofWordPostingsHeader + Int16(Length[Element.word])
    BY <1>2, <1>6, <1>11, <1>14, <2>1, SizesAre
  <2>3. stack' = Append(stack, d) /\ Write({r, x})
    BY <1>16, <1>18, <1>19, <2>1, <2>2 DEF WriteWordToPostingsFn
  <2>4. Append(<<c>>, d) = <<c, d>>
    BY AppendIsPair
  <2>5. stack = <<c>>
    BY <1>9
  <2> QED BY <2>3, <2>4, <2>5
<1>21. /\ CallInv(d) /\ d.kind = "docids" /\ d.table = e.postings /\ d.offset = offset
       /\ CallHoles(d) = Hole(offset + 4, inner) /\ CallEnd(d) = inner
       /\ inner \in Nat /\ offset + 4 <= inner
  BY <1>12, <1>15, <1>16, <1>17, CallStarts
<1>22. Layout(Pieces, rest \cup {<<erp, pe>>}, ep) /\ <<erp, pe>> \notin rest
  BY <1>1, <1>2, <1>4, <1>5, <1>6, <1>7, <1>8, ElementHoles
<1>23. Layout(Pieces \cup {<<erp, erp + 4>>}, rest \cup Hole(erp + 4, pe), ep) /\ \A s \in Pieces : s[1] # erp
  BY <1>13, <1>22, PositionWritten
<1>24. PICK W : W = Pieces \cup {<<erp, erp + 4>>}
  OBVIOUS
<1>25. PICK H : H = (rest \cup Hole(erp + 4, pe)) \cup Hole(ep, offset)
  OBVIOUS
<1>26. Layout(W, H, offset)
  <2>1. ep <= offset
    BY <1>13, <1>15
  <2> QED BY <1>15, <1>23, <1>24, <1>25, <2>1, AddHole
<1>27. Layout(W \cup {<<offset, offset + 4>>}, H, offset + 4) /\ \A s \in W : s[1] # offset
  <2>1. offset + 4 \in Nat /\ offset < offset + 4
    BY <1>15
  <2> QED BY <1>26, <2>1, AddPiece
<1>28. Layout(W \cup {<<offset, offset + 4>>}, H \cup Hole(offset + 4, inner), inner)
  BY <1>21, <1>27, AddHole
<1>29. r.at = erp /\ r.size = 4 /\ x.at = offset /\ x.size = 4
  BY <1>2, <1>5, <1>18, <1>19, SizesAre DEF ElementPosition, BucketListHeader, Record
<1>30. /\ Pieces' = Pieces \cup {<<z.at, z.at + z.size>> : z \in {r, x}}
       /\ \A o \in DOMAIN file' : o \in Nat /\ file'[o].size \in Nat \ {0}
       /\ Grows(file, file') /\ OnFile(file', r) /\ OnFile(file', x)
  <2>1. \A o \in DOMAIN file : o \in Nat /\ file[o].size \in Nat \ {0}
    BY DEF LayoutInv
  <2>2. \A z \in {r, x} : z.at \in Nat /\ z.size \in Nat \ {0} /\ \A s \in Pieces : s[1] # z.at
    BY <1>13, <1>15, <1>23, <1>24, <1>27, <1>29
  <2>3. r.at # x.at
    BY <1>13, <1>15, <1>29
  <2>4. \A z, w \in {r, x} : z.at = w.at => z = w
    BY <2>3
  <2>9. /\ Pieces' = Pieces \cup {<<z.at, z.at + z.size>> : z \in {r, x}}
        /\ \A o \in DOMAIN file' : o \in Nat /\ file'[o].size \in Nat \ {0}
        /\ Grows(file, file') /\ \A z \in {r, x} : OnFile(file', z)
    BY <1>20, <2>1, <2>2, <2>4, Written
  <2> QED BY <2>9
<1>31. Pieces' = W \cup {<<offset, offset + 4>>}
  <2>1. {<<z.at, z.at + z.size>> : z \in {r, x}} = {<<r.at, r.at + r.size>>, <<x.at, x.at + x.size>>}
    OBVIOUS
  <2>2. {<<r.at, r.at + r.size>>, <<x.at, x.at + x.size>>} = {<<erp, erp + 4>>, <<offset, offset + 4>>}
    BY <1>29
  <2> QED BY <1>24, <1>30, <2>1, <2>2
<1>32. stack' # <<>> /\ Len(stack') = 2 /\ stack'[1] = c /\ stack'[2] = d /\ Top' = d /\ DOMAIN stack' = {1, 2}
  BY <1>20 DEF Top
<1>33. Below' = Below \cup OuterHoles(c, offset)
  BY <1>1, <1>9, <1>21, <1>32 DEF Below, Frame
<1>34. Holes' = H \cup Hole(offset + 4, inner) /\ End' = inner
  <2>1. OuterHoles(c, offset) = Hole(c.record_pos, start) \cup Hole(erp + 4, pe) \cup Hole(ep, offset)
    BY <1>4, <1>5, <1>6, <1>7, <1>15, SizesAre DEF OuterHoles, Hole
  <2>2. Holes' = Below' \cup CallHoles(d) /\ End' = CallEnd(d)
    BY <1>32 DEF Holes, End
  <2> QED BY <1>8, <1>21, <1>25, <1>33, <2>1, <2>2
<1>35. StackInv'
  <2>1. Inner(c, d)
    BY <1>3, <1>6, <1>9, <1>11, <1>14, <1>21, SizesAre DEF Inner
  <2> QED BY <1>1, <1>9, <1>20, <1>21, <1>32, <2>1 DEF StackInv, Frame
<1>36. Layout(Pieces', Holes', End')
  BY <1>28, <1>31, <1>34
<1>37. LayoutInv'
  BY <1>1, <1>9, <1>30, <1>35, <1>36 DEF LayoutInv, Frame
<1>38. PositionLaid(file', Top)
  BY <1>18, <1>30 DEF ElementPosition, Record, OnFile, PositionLaid, Typed
<1>39. OnFile(file', BucketListHeader(e.postings, offset)) /\ stack' = <<Top, Call("docids", e.postings, offset)>>
  BY <1>2, <1>16, <1>19, <1>20, <1>30
<1> QED BY <1>9, <1>10, <1>15, <1>30, <1>37, <1>38, <1>39

LEMMA PostingsWrittenStep ==
  ASSUME LayoutInv, PostingsWritten
  PROVE  LET c == stack[1]
             e == ElementOf(c)
         IN /\ LayoutInv' /\ Grows(file, file') /\ e \in Elements(mi)
            /\ Typed(file', c.element_pos, "word_header") /\ file'[c.element_pos].data.word_bytes = Length[e.word]
            /\ OnFile(file', Record(c.element_pos + 6, "word", Length[e.word], [word |-> e.word]))
            /\ \E bytes \in Nat \ {0} : stack' = <<Advanced(c, bytes)>>
<1>1. /\ stack # <<>> /\ Len(stack) = 2 /\ Top.step = "record" /\ Top.bucket > Len(Top.table) /\ Frame
  BY DEF PostingsWritten, TableWritten, Frame
<1>2. PICK c : c = stack[1]
  OBVIOUS
<1>3. PICK d : d = Top
  OBVIOUS
<1>4. PICK e : e = ElementOf(c)
  OBVIOUS
<1>5. PICK start : start = BucketsStart(c.table, c.offset)
  OBVIOUS
<1>6. PICK erp : erp = c.elt_record_pos
  OBVIOUS
<1>7. PICK ep : ep = c.element_pos
  OBVIOUS
<1>8. PICK pe : pe = PositionsEnd(c)
  OBVIOUS
<1>9. PICK offset : offset = d.offset
  OBVIOUS
<1>10. PICK end : end = d.bucket_pos
  OBVIOUS
<1>11. /\ stack[2] = d /\ phase = "index" /\ c.table = mi /\ mi \in MemIndexes /\ c.kind = "index"
       /\ CallInv(c) /\ CallInv(d) /\ c.elt <= Len(c.table[c.bucket]) /\ c.step = "element" /\ c.offset = cur_pos
       /\ offset = ep + 6 + Length[e.word]
  BY <1>1, <1>2, <1>3, <1>4, <1>7, <1>9, StackIs, SizesAre DEF LayoutInv, Inner
<1>12. e \in Elements(mi)
  BY <1>4, <1>11, ChainIs
<1>13. PICK length \in Nat \ {0} : length = Length[e.word] /\ length = Int16(Length[e.word])
  BY <1>11, <1>12, WordIs
<1>14. /\ erp \in Nat /\ ep \in Nat /\ pe \in Nat /\ erp + 4 <= pe /\ pe <= ep /\ c.bucket_pos <= erp
       /\ c.bucket_pos \in Nat /\ start \in Nat /\ start <= c.bucket_pos
  BY <1>5, <1>6, <1>7, <1>8, <1>11, CallIs, ChainIs
<1>15. offset = ep + 6 + length /\ offset \in Nat /\ 16 <= start
  <2>1. offset = ep + 6 + length
    BY <1>11, <1>13
  <2>2. c.offset + 4 < start /\ c.offset \in Nat
    BY <1>5, <1>11, CallIs
  <2>3. 16 <= c.offset
    BY <1>1, <1>11, StackIs
  <2> QED BY <1>14, <2>1, <2>2, <2>3
<1>16. end \in Nat /\ offset < end /\ CallHoles(d) = {} /\ CallEnd(d) = end
  <2>1. /\ BucketsStart(d.table, d.offset) \in Nat /\ offset + 4 < BucketsStart(d.table, d.offset)
        /\ BucketsStart(d.table, d.offset) <= end /\ end \in Nat
        /\ d.record_pos = BucketsStart(d.table, d.offset) /\ d.step = "record"
    BY <1>1, <1>3, <1>9, <1>10, <1>11, CallIs
  <2>2. ~(d.record_pos < BucketsStart(d.table, d.offset))
    BY <2>1
  <2>3. CallHoles(d) = {} /\ CallEnd(d) = end
    BY <1>10, <2>1, <2>2 DEF CallHoles, CallEnd, Hole
  <2> QED BY <1>15, <2>1, <2>3
<1>17. PICK rest : rest = {<<0, 16>>} \cup Hole(c.record_pos, start) \cup Hole(erp + 4, pe)
  OBVIOUS
<1>18. Holes = rest \cup {<<ep, offset>>} /\ End = end
  <2>1. Below = rest \cup {<<ep, offset>>}
    BY <1>1, <1>2, <1>3, <1>5, <1>6, <1>7, <1>8, <1>9, <1>11, <1>17, SizesAre DEF Below, OuterHoles
  <2> QED BY <1>1, <1>3, <1>16, <2>1 DEF Holes, End
<1>19. <<ep, offset>> \notin rest
  <2>1. offset # 16 /\ offset # start /\ offset # pe
    BY <1>14, <1>15
  <2> QED BY <1>17, <2>1 DEF Hole
<1>20. Layout(Pieces, rest \cup {<<ep, offset>>}, end)
  BY <1>11, <1>18 DEF LayoutInv
<1>21. Layout(Pieces \cup {<<ep, ep + 6>>}, rest \cup {<<ep + 6, offset>>}, end) /\ \A s \in Pieces : s[1] # ep
  <2>1. ep + 6 \in Nat /\ ep < ep + 6 /\ ep + 6 <= offset /\ ep + 6 < offset
    BY <1>14, <1>15
  <2>4. <<ep, offset>> \in rest \cup {<<ep, offset>>}
    OBVIOUS
  <2>2. /\ Layout(Pieces \cup {<<ep, ep + 6>>}, ((rest \cup {<<ep, offset>>}) \ {<<ep, offset>>}) \cup Hole(ep + 6, offset), end)
        /\ \A s \in Pieces : s[1] # ep
    BY <1>20, <2>1, <2>4, FillHole
  <2>3. ((rest \cup {<<ep, offset>>}) \ {<<ep, offset>>}) \cup Hole(ep + 6, offset) = rest \cup {<<ep + 6, offset>>}
    BY <1>19, <2>1 DEF Hole
  <2> QED BY <2>2, <2>3
<1>22. PICK W : W = Pieces \cup {<<ep, ep + 6>>}
  OBVIOUS
<1>23. Layout(W \cup {<<ep + 6, offset>>}, rest, end) /\ \A s \in W : s[1] # ep + 6
  <2>1. offset \in Nat /\ ep + 6 < offset /\ offset <= offset
    BY <1>14, <1>15
  <2>5. <<ep + 6, offset>> \in rest \cup {<<ep + 6, offset>>} /\ ep + 6 \in Nat
    BY <1>14
  <2>2. /\ Layout(W \cup {<<ep + 6, offset>>}, ((rest \cup {<<ep + 6, offset>>}) \ {<<ep + 6, offset>>}) \cup Hole(offset, offset), end)
        /\ \A s \in W : s[1] # ep + 6
    BY <1>21, <1>22, <2>1, <2>5, FillHole
  <2>3. <<ep + 6, offset>> \notin rest
    <3>1. offset # 16 /\ offset # start /\ offset # pe
      BY <1>14, <1>15
    <3> QED BY <1>17, <3>1 DEF Hole
  <2>4. ((rest \cup {<<ep + 6, offset>>}) \ {<<ep + 6, offset>>}) \cup Hole(offset, offset) = rest
    <3>1. ~(offset < offset)
      BY <1>15
    <3> QED BY <2>3, <3>1 DEF Hole
  <2> QED BY <2>2, <2>4
<1>24. PICK x : x = Record(ep, "word_header", SizeofWordPostingsHeader,
                           [word_bytes |-> length, postings_bytes |-> TableBytes])
  OBVIOUS
<1>25. PICK y : y = Record(ep + SizeofWordPostingsHeader, "word", length, [word |-> e.word])
  OBVIOUS
<1>26. PICK f : f = Advanced(c, SizeofWordPostingsHeader + length + TableBytes)
  OBVIOUS
<1>27. Write({x, y}) /\ stack' = <<f>>
  <2>1. stack[1].table[stack[1].bucket][stack[1].elt] = e
    BY <1>2, <1>4 DEF ElementOf
  <2> QED BY <1>2, <1>7, <1>13, <1>24, <1>25, <1>26, <2>1 DEF PostingsWritten
<1>28. x.at = ep /\ x.size = 6 /\ y.at = ep + 6 /\ y.size = length
  BY <1>24, <1>25, SizesAre DEF Record
<1>29. /\ Pieces' = Pieces \cup {<<z.at, z.at + z.size>> : z \in {x, y}}
       /\ \A o \in DOMAIN file' : o \in Nat /\ file'[o].size \in Nat \ {0}
       /\ Grows(file, file') /\ OnFile(file', x) /\ OnFile(file', y)
  <2>1. \A o \in DOMAIN file : o \in Nat /\ file[o].size \in Nat \ {0}
    BY DEF LayoutInv
  <2>2. \A z \in {x, y} : z.at \in Nat /\ z.size \in Nat \ {0} /\ \A s \in Pieces : s[1] # z.at
    BY <1>14, <1>21, <1>22, <1>23, <1>28
  <2>3. x.at # y.at
    BY <1>14, <1>28
  <2>4. \A z, w \in {x, y} : z.at = w.at => z = w
    BY <2>3
  <2>9. /\ Pieces' = Pieces \cup {<<z.at, z.at + z.size>> : z \in {x, y}}
        /\ \A o \in DOMAIN file' : o \in Nat /\ file'[o].size \in Nat \ {0}
        /\ Grows(file, file') /\ \A z \in {x, y} : OnFile(file', z)
    BY <1>27, <2>1, <2>2, <2>4, Written
  <2> QED BY <2>9
<1>30. Pieces' = W \cup {<<ep + 6, offset>>}
  <2>1. {<<z.at, z.at + z.size>> : z \in {x, y}} = {<<x.at, x.at + x.size>>, <<y.at, y.at + y.size>>}
    OBVIOUS
  <2>2. {<<x.at, x.at + x.size>>, <<y.at, y.at + y.size>>} = {<<ep, ep + 6>>, <<ep + 6, offset>>}
    BY <1>15, <1>28
  <2> QED BY <1>22, <1>29, <2>1, <2>2
<1>31. PICK bytes : bytes = SizeofWordPostingsHeader + length + TableBytes
  OBVIOUS
<1>32. bytes \in Nat \ {0} /\ ep + bytes = end
  <2>1. TableBytes = end - offset
    BY <1>3, <1>9, <1>10 DEF TableBytes
  <2>2. bytes = 6 + length + (end - offset)
    BY <1>31, <2>1, SizesAre
  <2> QED BY <1>14, <1>15, <1>16, <2>2
<1>33. /\ CallInv(f) /\ f.kind = "index" /\ f.table = mi /\ f.offset = cur_pos
       /\ CallEnd(f) = end /\ CallHoles(f) = Hole(c.record_pos, start) \cup Hole(erp + 4, pe)
  BY <1>5, <1>6, <1>7, <1>8, <1>11, <1>26, <1>31, <1>32, AdvancedIs
<1>34. stack' # <<>> /\ Len(stack') = 1 /\ stack'[1] = f /\ Top' = f /\ DOMAIN stack' = {1}
  BY <1>27 DEF Top
<1>35. Holes' = rest /\ End' = end
  <2>1. Below' = {<<0, 16>>}
    BY <1>1, <1>11, <1>34, SizesAre DEF Below, Frame
  <2>2. Holes' = Below' \cup CallHoles(f) /\ End' = CallEnd(f)
    BY <1>34 DEF Holes, End
  <2> QED BY <1>17, <1>33, <2>1, <2>2
<1>36. StackInv'
  BY <1>1, <1>11, <1>27, <1>33, <1>34 DEF StackInv, Frame
<1>37. Layout(Pieces', Holes', End')
  BY <1>23, <1>30, <1>35
<1>38. LayoutInv'
  BY <1>1, <1>11, <1>29, <1>36, <1>37 DEF LayoutInv, Frame
<1>39. Typed(file', ep, "word_header") /\ file'[ep].data.word_bytes = Length[e.word]
  BY <1>13, <1>24, <1>29 DEF Record, OnFile, Typed
<1>40. OnFile(file', Record(ep + 6, "word", Length[e.word], [word |-> e.word]))
  BY <1>13, <1>25, <1>29, SizesAre
<1>41. bytes \in Nat \ {0} /\ stack' = <<Advanced(c, bytes)>>
  BY <1>26, <1>27, <1>31, <1>32
<1> QED BY <1>2, <1>4, <1>7, <1>12, <1>29, <1>38, <1>39, <1>40, <1>41

(* WriteIndex calls WriteHashTable for one of its tables.                  *)
LEMMA TableStarts ==
  ASSUME LayoutInv, stack = <<>>, Frame, NEW kind, NEW t, IsTable(t),
         \/ phase = "doctable" /\ kind = "doctable" /\ t = dt
         \/ phase = "index" /\ kind = "index" /\ t = mi,
         Write({BucketListHeader(t, cur_pos)}), stack' = <<Call(kind, t, cur_pos)>>
  PROVE  LayoutInv' /\ Grows(file, file') /\ OnFile(file', BucketListHeader(t, cur_pos))
<1>1. PICK d : d = Call(kind, t, cur_pos)
  OBVIOUS
<1>2. PICK x : x = BucketListHeader(t, cur_pos)
  OBVIOUS
<1>3. PICK start : start = BucketsStart(t, cur_pos)
  OBVIOUS
<1>4. cur_pos \in Nat /\ phase # "failed" /\ phase # "written"
  BY DEF LayoutInv
<1>5. /\ CallInv(d) /\ d.kind = kind /\ d.table = t /\ d.offset = cur_pos
      /\ CallHoles(d) = Hole(cur_pos + 4, start) /\ CallEnd(d) = start /\ start \in Nat /\ cur_pos + 4 <= start
  BY <1>1, <1>3, <1>4, CallStarts
<1>6. Holes = {<<0, 16>>} /\ End = cur_pos
  <2>1. Len(stack) # 2
    OBVIOUS
  <2> QED BY <1>4, <2>1, SizesAre DEF Holes, Below, End
<1>7. Layout(Pieces, {<<0, 16>>}, cur_pos)
  BY <1>4, <1>6 DEF LayoutInv
<1>8. Layout(Pieces \cup {<<cur_pos, cur_pos + 4>>}, {<<0, 16>>}, cur_pos + 4) /\ \A s \in Pieces : s[1] # cur_pos
  <2>1. cur_pos + 4 \in Nat /\ cur_pos < cur_pos + 4
    BY <1>4
  <2> QED BY <1>7, <2>1, AddPiece
<1>9. Layout(Pieces \cup {<<cur_pos, cur_pos + 4>>}, {<<0, 16>>} \cup Hole(cur_pos + 4, start), start)
  BY <1>5, <1>8, AddHole
<1>10. x.at = cur_pos /\ x.size = 4
  BY <1>2, SizesAre DEF BucketListHeader, Record
<1>11. /\ Pieces' = Pieces \cup {<<z.at, z.at + z.size>> : z \in {x}}
       /\ \A o \in DOMAIN file' : o \in Nat /\ file'[o].size \in Nat \ {0}
       /\ Grows(file, file') /\ OnFile(file', x)
  <2>1. \A o \in DOMAIN file : o \in Nat /\ file[o].size \in Nat \ {0}
    BY DEF LayoutInv
  <2>2. \A z \in {x} : z.at \in Nat /\ z.size \in Nat \ {0} /\ \A s \in Pieces : s[1] # z.at
    BY <1>4, <1>8, <1>10
  <2>3. \A z, w \in {x} : z.at = w.at => z = w
    OBVIOUS
  <2>4. Write({x})
    BY <1>2
  <2>9. /\ Pieces' = Pieces \cup {<<z.at, z.at + z.size>> : z \in {x}}
        /\ \A o \in DOMAIN file' : o \in Nat /\ file'[o].size \in Nat \ {0}
        /\ Grows(file, file') /\ \A z \in {x} : OnFile(file', z)
    BY <2>1, <2>2, <2>3, <2>4, Written
  <2> QED BY <2>9
<1>12. Pieces' = Pieces \cup {<<cur_pos, cur_pos + 4>>}
  <2>1. {<<z.at, z.at + z.size>> : z \in {x}} = {<<cur_pos, cur_pos + 4>>}
    BY <1>10
  <2> QED BY <1>11, <2>1
<1>13. stack' = <<d>> /\ stack' # <<>> /\ Len(stack') = 1 /\ stack'[1] = d /\ Top' = d /\ DOMAIN stack' = {1}
  BY <1>1 DEF Top
<1>14. Holes' = {<<0, 16>>} \cup Hole(cur_pos + 4, start) /\ End' = start
  BY <1>4, <1>5, <1>13, SizesAre DEF Holes, Below, End, Frame
<1>15. StackInv'
  BY <1>5, <1>13 DEF StackInv, Frame
<1>16. Layout(Pieces', Holes', End')
  BY <1>9, <1>12, <1>14
<1>17. LayoutInv'
  BY <1>4, <1>11, <1>15, <1>16 DEF LayoutInv, Frame
<1> QED BY <1>2, <1>11, <1>17

(* WriteHashTable returns to WriteIndex: every record of the table is      *)
(* written.                                                                *)
LEMMA TableEnds ==
  ASSUME LayoutInv, TableWritten, Len(stack) = 1
  PROVE  /\ Layout(Pieces, {<<0, 16>>}, cur_pos + TableBytes) /\ TableBytes \in Nat /\ cur_pos \in Nat
         /\ cur_pos + TableBytes \in Nat
<1>1. stack # <<>> /\ Top.step = "record" /\ Top.bucket > Len(Top.table)
  BY DEF TableWritten
<1>2. Top = stack[1] /\ Top.offset = cur_pos /\ CallInv(Top) /\ cur_pos \in Nat /\ phase \in {"doctable", "index"}
  BY <1>1, StackIs
<1>3. /\ BucketsStart(Top.table, Top.offset) \in Nat /\ cur_pos + 4 < BucketsStart(Top.table, Top.offset)
      /\ BucketsStart(Top.table, Top.offset) <= Top.bucket_pos /\ Top.bucket_pos \in Nat
      /\ Top.record_pos = BucketsStart(Top.table, Top.offset)
  BY <1>1, <1>2, CallIs
<1>4. ~(Top.record_pos < BucketsStart(Top.table, Top.offset))
  BY <1>3
<1>5. CallHoles(Top) = {} /\ CallEnd(Top) = Top.bucket_pos
  BY <1>1, <1>4 DEF CallHoles, CallEnd, Hole
<1>6. Holes = {<<0, 16>>} /\ End = Top.bucket_pos
  BY <1>1, <1>2, <1>5, SizesAre DEF Holes, Below, End
<1>7. TableBytes \in Nat /\ cur_pos + TableBytes = Top.bucket_pos
  BY <1>2, <1>3 DEF TableBytes
<1> QED BY <1>2, <1>3, <1>6, <1>7 DEF LayoutInv

LEMMA TablesStep ==
  ASSUME LayoutInv, WriteDocTable \/ WriteMemIndex
  PROVE  /\ LayoutInv' /\ Grows(file, file')
         /\ \E kind \in {"doctable", "index"} : \E t :
              /\ OnFile(file', BucketListHeader(t, cur_pos))
              /\ stack' = <<Call(kind, t, cur_pos)>>
<1>1. IsTable(dt) /\ IsTable(mi)
  BY TablesAssumption DEF LayoutInv, IsDocTable, IsMemIndex
<1>2. CASE WriteDocTable
  BY <1>1, <1>2, TableStarts DEF WriteDocTable, Frame
<1>3. CASE WriteMemIndex
  BY <1>1, <1>3, TableStarts DEF WriteMemIndex, Frame
<1> QED BY <1>2, <1>3

LEMMA TablesWrittenStep == LayoutInv /\ (DocTableWritten \/ MemIndexWritten) => LayoutInv'
<1> SUFFICES ASSUME LayoutInv, DocTableWritten \/ MemIndexWritten PROVE LayoutInv'
  OBVIOUS
<1>1. /\ TableWritten /\ stack' = <<>> /\ file' = file /\ UNCHANGED <<dt, mi>> /\ cur_pos' = cur_pos + TableBytes
      /\ \/ phase = "doctable" /\ phase' = "index" /\ dt_bytes' = TableBytes /\ mi_bytes' = mi_bytes
         \/ phase = "index" /\ phase' = "header" /\ mi_bytes' = TableBytes /\ dt_bytes' = dt_bytes /\ Len(stack) = 1
  BY DEF DocTableWritten, MemIndexWritten
<1>2. Len(stack) = 1
  <2>1. CASE phase = "doctable"
    BY <1>1, <2>1, StackIs DEF TableWritten
  <2> QED BY <1>1, <2>1
<1>3. PICK bytes : bytes = TableBytes
  OBVIOUS
<1>4. Layout(Pieces, {<<0, 16>>}, cur_pos + bytes) /\ bytes \in Nat /\ cur_pos \in Nat /\ cur_pos + bytes \in Nat
  BY <1>1, <1>2, <1>3, TableEnds
<1>5. Pieces' = Pieces
  BY <1>1 DEF Pieces, Ends
<1>6. Holes' = {<<0, 16>>} /\ End' = cur_pos + bytes
  <2>1. Len(stack') # 2
    BY <1>1
  <2> QED BY <1>1, <1>3, <2>1, SizesAre DEF Holes, Below, End
<1>7. StackInv'
  BY <1>1 DEF StackInv
<1>8. /\ cur_pos' = 16 + dt_bytes' + mi_bytes' /\ dt_bytes' \in Nat /\ mi_bytes' \in Nat
      /\ (phase' = "doctable" => dt_bytes' = 0) /\ (phase' \in {"doctable", "index"} => mi_bytes' = 0)
  <2>1. /\ cur_pos = 16 + dt_bytes + mi_bytes /\ dt_bytes \in Nat /\ mi_bytes \in Nat
        /\ (phase = "doctable" => dt_bytes = 0) /\ (phase \in {"doctable", "index"} => mi_bytes = 0)
    BY SizesAre DEF LayoutInv
  <2> QED BY <1>1, <1>3, <1>4, <2>1
<1>9. Layout(Pieces', Holes', End')
  BY <1>4, <1>5, <1>6
<1> QED BY <1>1, <1>3, <1>4, <1>7, <1>8, <1>9, SizesAre DEF LayoutInv

LEMMA HeaderStep ==
  ASSUME LayoutInv, WriteFileHeader
  PROVE  /\ LayoutInv' /\ Grows(file, file')
         /\ OnFile(file', Record(0, "file_header", 16, [doctable_bytes |-> dt_bytes, index_bytes |-> mi_bytes]))
<1>1. PICK x : x = Record(0, "file_header", SizeofIndexFileHeader, [doctable_bytes |-> dt_bytes, index_bytes |-> mi_bytes])
  OBVIOUS
<1>2. Write({x}) /\ phase = "header" /\ phase' = "written" /\ UNCHANGED <<dt, mi, stack, cur_pos, dt_bytes, mi_bytes>>
  BY <1>1 DEF WriteFileHeader
<1>3. stack = <<>> /\ cur_pos \in Nat
  BY <1>2, StackIs DEF LayoutInv
<1>4. Holes = {<<0, 16>>} /\ End = cur_pos /\ Holes' = {} /\ End' = cur_pos
  <2>1. Len(stack) # 2
    BY <1>3
  <2> QED BY <1>2, <1>3, <2>1, SizesAre DEF Holes, Below, End
<1>5. Layout(Pieces \cup {<<0, 16>>}, {}, cur_pos) /\ \A s \in Pieces : s[1] # 0
  <2>1. Layout(Pieces, {<<0, 16>>}, cur_pos)
    BY <1>2, <1>4 DEF LayoutInv
  <2>4. PICK b \in Nat : b = 16
    OBVIOUS
  <2>5. PICK H : H = {<<0, b>>}
    OBVIOUS
  <2>6. Layout(Pieces, H, cur_pos) /\ <<0, b>> \in H /\ 0 < b /\ b <= b
    BY <2>1, <2>4, <2>5
  <2>7. /\ Layout(Pieces \cup {<<0, b>>}, (H \ {<<0, b>>}) \cup Hole(b, b), cur_pos)
        /\ \A s \in Pieces : s[1] # 0
    BY <2>6, FillHole
  <2>2. /\ Layout(Pieces \cup {<<0, 16>>}, ({<<0, 16>>} \ {<<0, 16>>}) \cup Hole(16, 16), cur_pos)
        /\ \A s \in Pieces : s[1] # 0
    BY <2>4, <2>5, <2>7
  <2>3. ({<<0, 16>>} \ {<<0, 16>>}) \cup Hole(16, 16) = {}
    BY DEF Hole
  <2> QED BY <2>2, <2>3
<1>6. x.at = 0 /\ x.size = 16
  BY <1>1, SizesAre DEF Record
<1>7. /\ Pieces' = Pieces \cup {<<z.at, z.at + z.size>> : z \in {x}}
      /\ \A o \in DOMAIN file' : o \in Nat /\ file'[o].size \in Nat \ {0}
      /\ DOMAIN file' = DOMAIN file \cup {z.at : z \in {x}}
      /\ Grows(file, file') /\ OnFile(file', x)
  <2>1. \A o \in DOMAIN file : o \in Nat /\ file[o].size \in Nat \ {0}
    BY DEF LayoutInv
  <2>2. \A z \in {x} : z.at \in Nat /\ z.size \in Nat \ {0} /\ \A s \in Pieces : s[1] # z.at
    BY <1>5, <1>6
  <2>3. \A z, w \in {x} : z.at = w.at => z = w
    OBVIOUS
  <2>9. /\ Pieces' = Pieces \cup {<<z.at, z.at + z.size>> : z \in {x}} /\ DOMAIN file' = DOMAIN file \cup {z.at : z \in {x}}
        /\ \A o \in DOMAIN file' : o \in Nat /\ file'[o].size \in Nat \ {0}
        /\ Grows(file, file') /\ \A z \in {x} : OnFile(file', z)
    BY <1>2, <2>1, <2>2, <2>3, Written
  <2> QED BY <2>9
<1>8. Pieces' = Pieces \cup {<<0, 16>>} /\ 0 \in DOMAIN file'
  <2>1. {<<z.at, z.at + z.size>> : z \in {x}} = {<<0, 16>>} /\ 0 \in {z.at : z \in {x}}
    BY <1>6
  <2> QED BY <1>7, <2>1
<1>9. StackInv'
  BY <1>2, <1>3 DEF StackInv
<1>10. Layout(Pieces', Holes', End')
  BY <1>4, <1>5, <1>8
<1>11. LayoutInv'
  BY <1>2, <1>7, <1>8, <1>9, <1>10 DEF LayoutInv
<1> QED BY <1>1, <1>7, <1>11, SizesAre

LEMMA LayoutInitHolds == LayoutInit => LayoutInv
<1> SUFFICES ASSUME LayoutInit PROVE LayoutInv
  OBVIOUS
<1>1. /\ dt \in DocTables /\ mi \in MemIndexes /\ phase = "doctable" /\ stack = <<>> /\ cur_pos = 16 
      /\ dt_bytes = 0 /\ mi_bytes = 0 /\ DOMAIN file = {}
  BY SizesAre DEF LayoutInit, NoFile
<1>2. Pieces = {} /\ Holes = {<<0, 16>>} /\ End = 16
  <2>1. Len(stack) # 2
    BY <1>1
  <2> QED BY <1>1, <2>1, SizesAre DEF Pieces, Holes, Below, End
<1>3. Layout({}, {<<0, 16>>}, 16)
  <2>1. <<0, 16>>[1] = 0 /\ <<0, 16>>[2] = 16
    OBVIOUS
  <2> QED BY <2>1 DEF Layout, Tiles
<1>4. Layout(Pieces, Holes, End)
  BY <1>2, <1>3
<1>5. StackInv
  BY <1>1 DEF StackInv
<1> QED BY <1>1, <1>4, <1>5, SizesAre DEF LayoutInv

LEMMA FailsStep == LayoutInv /\ WriteFails => LayoutInv'
<1> SUFFICES ASSUME LayoutInv, WriteFails PROVE LayoutInv'
  OBVIOUS
<1>1. DOMAIN file' = {} /\ stack' = <<>> /\ phase' = "failed" /\ UNCHANGED <<dt, mi, cur_pos, dt_bytes, mi_bytes>>
  BY DEF WriteFails, NoFile
<1>2. StackInv'
  BY <1>1 DEF StackInv
<1> QED BY <1>1, <1>2 DEF LayoutInv

LEMMA LayoutStuttering == LayoutInv /\ UNCHANGED layoutVars => LayoutInv'
<1> SUFFICES ASSUME LayoutInv, UNCHANGED layoutVars PROVE LayoutInv'
  OBVIOUS
<1>1. /\ dt' = dt /\ mi' = mi /\ file' = file /\ phase' = phase /\ stack' = stack
      /\ cur_pos' = cur_pos /\ dt_bytes' = dt_bytes /\ mi_bytes' = mi_bytes
  BY DEF layoutVars
<1>2. StackInv' <=> StackInv
  BY <1>1 DEF StackInv
<1>3. Pieces' = Pieces /\ Holes' = Holes /\ End' = End
  BY <1>1 DEF Pieces, Ends, Holes, Below, Top, End
<1> QED BY <1>1, <1>2, <1>3 DEF LayoutInv

LEMMA LayoutStep == LayoutInv /\ [LayoutNext]_layoutVars => LayoutInv'
  BY TablesStep, TablesWrittenStep, HeaderStep, BucketRecordStep, WriteDocidToDocnameStep,
     WriteDocIDToPositionListStep, WriteWordToPostingsStep, EndOfBucketStep, PostingsWrittenStep,
     FailsStep, LayoutStuttering DEF LayoutNext, Returned

LEMMA LayoutInvHolds == LayoutSpec => []LayoutInv
  BY LayoutStep, LayoutInitHolds, PTL DEF LayoutSpec

(* The variables of the layout hold values of their types, and a call      *)
(* writes each record at the place that the header promises.               *)
THEOREM LayoutTypes == LayoutSpec => []LayoutTypeOK
<1>1. ASSUME LayoutInv PROVE LayoutTypeOK
  <2>1. Len(stack) \in 0..2
    BY <1>1 DEF LayoutInv, StackInv
  <2>2. ASSUME NEW n \in DOMAIN stack
        PROVE  LET call == stack[n] IN
               /\ call.step \in {"record", "element"}
               /\ call.bucket \in 1..Len(call.table) + 1
               /\ call.record_pos = call.offset + SizeofBucketListHeader
                    + SizeofBucketRecord * (IF call.step = "record" THEN call.bucket - 1 ELSE call.bucket)
               /\ call.step = "element" =>
                    /\ call.elt \in 1..Len(call.table[call.bucket]) + 1
                    /\ call.elt_record_pos = call.bucket_pos + SizeofElementPositionRecord * (call.elt - 1)
                    /\ call.elt_record_pos < call.element_pos
    <3>1. PICK c : c = stack[n]
      OBVIOUS
    <3>2. CallInv(c)
      BY <1>1, <3>1 DEF LayoutInv, StackInv
    <3>3. ASSUME c.step = "element" PROVE c.elt_record_pos < c.element_pos
      <4>1. /\ PositionsEnd(c) <= c.element_pos /\ PositionsEnd(c) \in Nat /\ c.element_pos \in Nat /\ c.elt_record_pos \in Nat
            /\ c.elt > 1 => PositionsEnd(c) < c.element_pos
            /\ c.elt <= Len(c.table[c.bucket]) => c.elt_record_pos + 4 <= PositionsEnd(c)
            /\ c.elt > Len(c.table[c.bucket]) => c.elt_record_pos = PositionsEnd(c)
        BY <3>2, <3>3, CallIs, ChainIs
      <4>2. PICK length \in Nat \ {0} : length = Len(c.table[c.bucket])
        BY <3>2, <3>3, ChainIs
      <4>3. c.elt \in 1..length + 1
        BY <3>2, <3>3, <4>2, ChainIs
      <4> QED BY <4>1, <4>2, <4>3
    <3> QED BY <3>1, <3>2, <3>3 DEF CallInv
  <2> QED BY <1>1, <2>1, <2>2 DEF LayoutInv, LayoutTypeOK
<1> QED BY <1>1, LayoutInvHolds, PTL

(* No record of an index file is written over another, and when the file   *)
(* is complete they leave no byte of it out.                               *)
THEOREM LayoutTiles == LayoutSpec => []FileIsTiled
<1>1. ASSUME LayoutInv PROVE FileIsTiled
  <2>1. CASE phase = "failed"
    BY <1>1, <2>1 DEF LayoutInv, FileIsTiled
  <2>2. CASE phase # "failed"
    <3>1. Tiles(Pieces \cup Holes, End) /\ \A o \in DOMAIN file : o \in Nat /\ file[o].size \in Nat \ {0}
      BY <1>1, <2>2 DEF LayoutInv, Layout
    <3>2. ASSUME NEW o \in DOMAIN file
          PROVE  <<o, Ends(o)>> \in Pieces /\ <<o, Ends(o)>>[1] = o /\ <<o, Ends(o)>>[2] = Ends(o)
                 /\ o \in Nat /\ Ends(o) \in Nat /\ o < Ends(o)
      BY <3>1 DEF Pieces, Ends
    <3>3. ASSUME NEW o \in DOMAIN file, NEW p \in DOMAIN file, o < p PROVE Ends(o) <= p
      <4>1. PICK s \in Pieces : s = <<o, Ends(o)>> /\ s[1] = o /\ s[2] = Ends(o)
        BY <3>2
      <4>2. PICK t \in Pieces : t = <<p, Ends(p)>> /\ t[1] = p /\ t[2] = Ends(p)
        BY <3>2
      <4>3. s = t \/ s[2] <= t[1] \/ t[2] <= s[1]
        BY <3>1 DEF Tiles
      <4>4. o \in Nat /\ p \in Nat /\ Ends(o) \in Nat /\ Ends(p) \in Nat /\ p < Ends(p)
        BY <3>2
      <4>5. CASE s = t
        <5>1. o = p
          BY <4>1, <4>2, <4>5
        <5> QED BY <3>3, <4>4, <5>1
      <4>6. CASE s[2] <= t[1]
        BY <4>1, <4>2, <4>6
      <4>7. CASE t[2] <= s[1]
        BY <3>3, <4>1, <4>2, <4>4, <4>7
      <4> QED BY <4>3, <4>5, <4>6, <4>7
    <3>4. ASSUME phase = "written", NEW o \in DOMAIN file PROVE Ends(o) \in DOMAIN file \cup {cur_pos}
      <4>1. stack = <<>>
        BY <1>1, <3>4, StackIs
      <4>2. Holes = {} /\ End = cur_pos
        <5>1. Len(stack) # 2
          BY <4>1
        <5> QED BY <3>4, <4>1, <5>1 DEF Holes, Below, End
      <4>3. Tiles(Pieces, cur_pos)
        <5>1. Pieces \cup Holes = Pieces
          BY <4>2
        <5> QED BY <3>1, <4>2, <5>1
      <4>4. Ends(o) = cur_pos \/ \E t \in Pieces : t[1] = Ends(o)
        BY <3>2, <4>3 DEF Tiles
      <4>5. ASSUME NEW t \in Pieces, t[1] = Ends(o) PROVE Ends(o) \in DOMAIN file
        BY <4>5 DEF Pieces
      <4> QED BY <4>4, <4>5
    <3> QED BY <1>1, <3>3, <3>4 DEF LayoutInv, FileIsTiled
  <2> QED BY <2>1, <2>2
<1> QED BY <1>1, LayoutInvHolds, PTL
-----------------------------------------------------------------------------
(* A file that grows keeps what it holds.                                  *)
LEMMA LaidGrows ==
  ASSUME NEW f, NEW g, Grows(f, g), NEW S, NEW Z, S \subseteq Z, NEW offset, NEW t
  PROVE  /\ \A pos, chain, k : ElementLaid(f, S, pos, chain, k) => ElementLaid(g, Z, pos, chain, k)
         /\ \A b : RecordLaid(f, offset, t, b) =>
              RecordLaid(g, offset, t, b) /\ g[offset + 4 + 8 * (b - 1)] = f[offset + 4 + 8 * (b - 1)]
         /\ \A b : BucketLaid(f, S, offset, t, b) => BucketLaid(g, Z, offset, t, b)
         /\ Laid(f, S, offset, t) => Laid(g, Z, offset, t)
<1>1. \A pos, chain, k : ElementLaid(f, S, pos, chain, k) => ElementLaid(g, Z, pos, chain, k)
  BY DEF ElementLaid, Grows, Typed
<1>2. \A b : RecordLaid(f, offset, t, b) =>
        RecordLaid(g, offset, t, b) /\ g[offset + 4 + 8 * (b - 1)] = f[offset + 4 + 8 * (b - 1)]
  BY DEF RecordLaid, Grows, Typed
<1>3. \A b : BucketLaid(f, S, offset, t, b) => BucketLaid(g, Z, offset, t, b)
  BY <1>1, <1>2 DEF BucketLaid
<1>4. Laid(f, S, offset, t) => Laid(g, Z, offset, t)
  BY <1>3 DEF Laid, OnFile, Grows
<1> QED BY <1>1, <1>2, <1>3, <1>4

LEMMA StoredGrows ==
  ASSUME NEW f, NEW g, Grows(f, g), NEW d, NEW m
  PROVE  /\ StoredDocs(f, d) \subseteq StoredDocs(g, d) /\ StoredPostings(f, m) \subseteq StoredPostings(g, m)
         /\ StoredWords(f, m) \subseteq StoredWords(g, m)
         /\ \A kind : Stored(kind, f, d, m) \subseteq Stored(kind, g, d, m)
<1>1. StoredDocs(f, d) \subseteq StoredDocs(g, d)
  BY DEF StoredDocs, DocAt, OnFile, Grows
<1>2. StoredPostings(f, m) \subseteq StoredPostings(g, m)
  BY DEF StoredPostings, PostingAt, OnFile, Grows
<1>3. ASSUME NEW p, NEW e, WordAt(f, m, p, e) PROVE WordAt(g, m, p, e)
  <2>1. Laid(g, StoredPostings(g, m), p + 6 + Length[e.word], e.postings)
    BY <1>2, <1>3, LaidGrows DEF WordAt
  <2> QED BY <1>3, <2>1 DEF WordAt, OnFile, Typed, Grows
<1>4. StoredWords(f, m) \subseteq StoredWords(g, m)
  BY <1>3 DEF StoredWords, Grows
<1> QED BY <1>1, <1>2, <1>4 DEF Stored

LEMMA ProgressGrows ==
  ASSUME NEW f, NEW g, Grows(f, g), NEW S, NEW Z, S \subseteq Z, NEW c, Progress(f, S, c)
  PROVE  Progress(g, Z, c)
<1>1. OnFile(g, BucketListHeader(c.table, c.offset))
  BY DEF Progress, OnFile, Grows
<1>2. \A b \in 1..c.bucket - 1 : BucketLaid(g, Z, c.offset, c.table, b)
  BY LaidGrows DEF Progress
<1>3. ASSUME c.step = "element"
      PROVE  /\ RecordLaid(g, c.offset, c.table, c.bucket)
             /\ g[c.offset + 4 + 8 * (c.bucket - 1)].data.position = c.bucket_pos
             /\ \A k \in 1..c.elt - 1 : ElementLaid(g, Z, c.bucket_pos, c.table[c.bucket], k)
  BY <1>3, LaidGrows DEF Progress
<1> QED BY <1>1, <1>2, <1>3 DEF Progress

LEMMA PositionGrows ==
  ASSUME NEW f, NEW g, Grows(f, g), NEW c, PositionLaid(f, c)
  PROVE  PositionLaid(g, c)
BY DEF PositionLaid, Typed, Grows

-----------------------------------------------------------------------------
(* The progress of a call, step by step.                                   *)
LEMMA ProgressStarts ==
  ASSUME NEW f, NEW S, NEW kind, NEW t, NEW offset, OnFile(f, BucketListHeader(t, offset))
  PROVE  Progress(f, S, Call(kind, t, offset)) /\ Call(kind, t, offset).kind = kind
<1>1. PICK d : d = Call(kind, t, offset)
  OBVIOUS
<1>2. d.kind = kind /\ d.table = t /\ d.offset = offset /\ d.step = "record" /\ d.bucket = 1
  BY <1>1 DEF Call
<1>3. 1..d.bucket - 1 = {}
  BY <1>2
<1> QED BY <1>1, <1>2, <1>3 DEF Progress

LEMMA ProgressOfElement ==
  ASSUME NEW f, NEW S, NEW c, CallInv(c), c.step = "element", c.elt <= Len(c.table[c.bucket]), Progress(f, S, c),
         PositionLaid(f, c), <<c.element_pos, ElementOf(c)>> \in S, NEW bytes
  PROVE  Progress(f, S, Advanced(c, bytes)) /\ Advanced(c, bytes).kind = c.kind
<1>1. PICK d : d = Advanced(c, bytes)
  OBVIOUS
<1>2. /\ d.table = c.table /\ d.offset = c.offset /\ d.step = "element" /\ d.bucket = c.bucket
      /\ d.bucket_pos = c.bucket_pos /\ d.elt = c.elt + 1 /\ d.kind = c.kind
  BY <1>1 DEF Advanced, CallInv
<1>3. c.elt \in Nat \ {0} /\ c.elt_record_pos = c.bucket_pos + 4 * (c.elt - 1) /\ c.bucket_pos \in Nat
  <2>1. PICK length \in Nat : length = Len(c.table[c.bucket])
    BY ChainIs
  <2>2. c.elt \in 1..length + 1
    BY <2>1, ChainIs
  <2> QED BY <2>2, CallIs, ChainIs
<1>4. ElementLaid(f, S, c.bucket_pos, c.table[c.bucket], c.elt)
  BY <1>3 DEF PositionLaid, ElementLaid, ElementOf
<1>5. \A k \in 1..d.elt - 1 : k \in 1..c.elt - 1 \/ k = c.elt
  BY <1>2, <1>3
<1>6. \A k \in 1..d.elt - 1 : ElementLaid(f, S, c.bucket_pos, c.table[c.bucket], k)
  BY <1>4, <1>5 DEF Progress
<1> QED BY <1>1, <1>2, <1>6 DEF Progress

(* A bucket that is done.                                                  *)
LEMMA ProgressOfBucket ==
  ASSUME NEW f, NEW S, NEW c, CallInv(c), OnFile(f, BucketListHeader(c.table, c.offset)),
         \A b \in 1..c.bucket - 1 : BucketLaid(f, S, c.offset, c.table, b),
         BucketLaid(f, S, c.offset, c.table, c.bucket),
         NEW d, d.table = c.table, d.offset = c.offset, d.step = "record", d.bucket = c.bucket + 1
  PROVE  Progress(f, S, d)
<1>1. c.bucket \in Nat \ {0}
  <2>1. PICK n \in Nat : n = Len(c.table)
    BY CallIs
  <2>2. c.bucket \in 1..n + 1
    BY <2>1, CallIs
  <2> QED BY <2>2
<1>2. \A b \in 1..d.bucket - 1 : b \in 1..c.bucket - 1 \/ b = c.bucket
  BY <1>1
<1> QED BY <1>2 DEF Progress

LEMMA ProgressIsComplete ==
  ASSUME NEW f, NEW S, NEW c, CallInv(c), Progress(f, S, c), c.step = "record", c.bucket > Len(c.table)
  PROVE  Laid(f, S, c.offset, c.table)
<1>1. PICK n \in Nat : n = Len(c.table)
  BY CallIs
<1>2. c.bucket \in 1..n + 1 /\ c.bucket > n
  BY <1>1, CallIs
<1>3. c.bucket - 1 = n
  BY <1>2
<1> QED BY <1>1, <1>3 DEF Progress, Laid

-----------------------------------------------------------------------------
(* ContentInv holds after every step.                                      *)
LEMMA TablesStay ==
  ASSUME LayoutInv, ContentInv, Grows(file, file'), UNCHANGED <<dt, mi, phase>>, phase \in {"doctable", "index"}
  PROVE  phase' = "index" => Laid(file', StoredDocs(file', dt'), 16, dt')
<1>1. StoredDocs(file, dt) \subseteq StoredDocs(file', dt)
  BY StoredGrows
<1>2. phase = "index" => Laid(file, StoredDocs(file, dt), 16, dt)
  BY DEF ContentInv
<1>3. phase = "index" => Laid(file', StoredDocs(file', dt), 16, dt)
  BY <1>1, <1>2, LaidGrows
<1> QED BY <1>3

LEMMA ContentOfTop ==
  ASSUME LayoutInv, ContentInv, stack # <<>>, Grows(file, file'), Frame, NEW d, SetTop(d),
         Progress(file', Stored(d.kind, file', dt, mi), d)
  PROVE  ContentInv'
<1>1. phase' \in {"doctable", "index"} /\ dt' = dt /\ mi' = mi /\ phase' = phase
  BY StackIs DEF Frame
<1>2. phase' = "index" => Laid(file', StoredDocs(file', dt'), 16, dt')
  BY <1>1, StackIs, TablesStay
<1>3. ASSUME Len(stack) = 1, stack = <<Top>>
      PROVE  /\ \A n \in DOMAIN stack' : Progress(file', Stored(stack'[n].kind, file', dt', mi'), stack'[n])
             /\ Len(stack') # 2
  <2>1. stack' = <<d>> /\ Len(stack') = 1 /\ stack'[1] = d /\ DOMAIN stack' = {1}
    BY <1>3 DEF SetTop
  <2> QED BY <1>1, <2>1
<1>4. ASSUME Len(stack) = 2, stack = <<stack[1], Top>>
      PROVE  /\ \A n \in DOMAIN stack' : Progress(file', Stored(stack'[n].kind, file', dt', mi'), stack'[n])
             /\ PositionLaid(file', stack'[1])
  <2>1. stack' = <<stack[1], d>> /\ stack'[1] = stack[1] /\ stack'[2] = d /\ DOMAIN stack' = {1, 2} /\ 1 \in DOMAIN stack
    BY <1>4 DEF SetTop
  <2>2. PICK c : c = stack[1]
    OBVIOUS
  <2>3. Progress(file, Stored(c.kind, file, dt, mi), c) /\ PositionLaid(file, c)
    BY <1>4, <2>1, <2>2 DEF ContentInv
  <2>4. Stored(c.kind, file, dt, mi) \subseteq Stored(c.kind, file', dt, mi)
    BY StoredGrows
  <2>5. Progress(file', Stored(c.kind, file', dt, mi), c) /\ PositionLaid(file', c)
    BY <2>3, <2>4, ProgressGrows, PositionGrows
  <2> QED BY <1>1, <2>1, <2>2, <2>5
<1> QED BY <1>1, <1>2, <1>3, <1>4, StackIs DEF ContentInv

(* The progress of the last call, in the file as a step leaves it.         *)
LEMMA TopProgress ==
  ASSUME LayoutInv, ContentInv, stack # <<>>, Grows(file, file')
  PROVE  Progress(file', Stored(Top.kind, file', dt, mi), Top) /\ CallInv(Top)
<1>1. Len(stack) \in DOMAIN stack
  BY StackIs
<1>2. Progress(file, Stored(Top.kind, file, dt, mi), Top)
  BY <1>1 DEF ContentInv, Top
<1>3. Stored(Top.kind, file, dt, mi) \subseteq Stored(Top.kind, file', dt, mi)
  BY StoredGrows
<1> QED BY <1>2, <1>3, ProgressGrows, StackIs

LEMMA ContentOfRecord == LayoutInv /\ ContentInv /\ WriteHTBucketRecord => ContentInv'
<1> SUFFICES ASSUME LayoutInv, ContentInv, WriteHTBucketRecord PROVE ContentInv'
  OBVIOUS
<1>1. /\ stack # <<>> /\ Top.step = "record" /\ Top.bucket <= Len(Top.table) /\ Frame
  BY DEF WriteHTBucketRecord, Frame
<1>2. /\ Grows(file, file') /\ RecordLaid(file', Top.offset, Top.table, Top.bucket)
      /\ file'[Top.offset + 4 + 8 * (Top.bucket - 1)].data.position = Top.bucket_pos
  BY BucketRecordStep
<1>3. PICK S : S = Stored(Top.kind, file', dt, mi)
  OBVIOUS
<1>4. Progress(file', S, Top) /\ CallInv(Top)
  BY <1>1, <1>2, <1>3, TopProgress
<1>5. CASE Chain = <<>>
  <2>1. PICK d : d = [Top EXCEPT !.bucket = @ + 1, !.record_pos = @ + RecordStep(Chain)]
    OBVIOUS
  <2>2. SetTop(d)
    BY <1>5, <2>1 DEF WriteHTBucketRecord
  <2>3. d.table = Top.table /\ d.offset = Top.offset /\ d.step = "record" /\ d.bucket = Top.bucket + 1 /\ d.kind = Top.kind
    BY <1>1, <1>4, <2>1 DEF CallInv
  <2>4. BucketLaid(file', S, Top.offset, Top.table, Top.bucket)
    <3>1. Len(Top.table[Top.bucket]) = 0
      BY <1>5 DEF Chain
    <3>2. 1..Len(Top.table[Top.bucket]) = {}
      BY <3>1
    <3> QED BY <1>2, <3>2 DEF BucketLaid
  <2>5. Progress(file', S, d)
    BY <1>4, <2>3, <2>4, ProgressOfBucket DEF Progress
  <2> QED BY <1>1, <1>2, <1>3, <2>2, <2>3, <2>5, ContentOfTop
<1>6. CASE Chain # <<>>
  <2>1. PICK d : d = [Top EXCEPT !.record_pos = @ + RecordStep(Chain), !.step = "element", !.elt = 1,
                             !.elt_record_pos = Top.bucket_pos,
                             !.element_pos = Top.bucket_pos + SizeofElementPositionRecord * Len(Chain)]
    OBVIOUS
  <2>2. SetTop(d)
    BY <1>6, <2>1 DEF WriteHTBucketRecord
  <2>3. /\ d.table = Top.table /\ d.offset = Top.offset /\ d.step = "element" /\ d.bucket = Top.bucket /\ d.kind = Top.kind
        /\ d.elt = 1 /\ d.bucket_pos = Top.bucket_pos
    BY <1>4, <2>1 DEF CallInv
  <2>4. 1..d.elt - 1 = {}
    BY <2>3
  <2>5. Progress(file', S, d)
    BY <1>2, <1>4, <2>3, <2>4 DEF Progress
  <2> QED BY <1>1, <1>2, <1>3, <2>2, <2>3, <2>5, ContentOfTop
<1> QED BY <1>5, <1>6

LEMMA ContentOfElements ==
  LayoutInv /\ ContentInv /\ (WriteDocidToDocnameFn \/ WriteDocIDToPositionListFn) => ContentInv'
<1> SUFFICES ASSUME LayoutInv, ContentInv, WriteDocidToDocnameFn \/ WriteDocIDToPositionListFn PROVE ContentInv'
  OBVIOUS
<1>1. /\ stack # <<>> /\ Top.step = "element" /\ Top.elt <= Len(Chain) /\ Frame
      /\ \E bytes : SetTop(Advanced(Top, bytes))
  BY DEF WriteDocidToDocnameFn, WriteDocIDToPositionListFn, Frame
<1>2. Grows(file, file') /\ PositionLaid(file', Top)
  BY WriteDocidToDocnameStep, WriteDocIDToPositionListStep
<1>3. PICK S : S = Stored(Top.kind, file', dt, mi)
  OBVIOUS
<1>4. Progress(file', S, Top) /\ CallInv(Top) /\ Element = ElementOf(Top)
  BY <1>1, <1>2, <1>3, TopProgress DEF Element, ElementOf, Chain
<1>5. <<Top.element_pos, Element>> \in S
  <2>1. CASE WriteDocidToDocnameFn
    <3>1. DocAt(file', Top.element_pos, Element) /\ Element \in Elements(dt)
      BY <2>1, WriteDocidToDocnameStep
    <3>2. Top.element_pos \in DOMAIN file'
      BY <3>1 DEF DocAt, OnFile, Record
    <3>3. S = StoredDocs(file', dt)
      BY <1>3, <2>1 DEF WriteDocidToDocnameFn, Stored
    <3> QED BY <3>1, <3>2, <3>3 DEF StoredDocs
  <2>2. CASE WriteDocIDToPositionListFn
    <3>1. PostingAt(file', Top.element_pos, Element) /\ Element \in AllPostings(mi)
      BY <2>2, WriteDocIDToPositionListStep
    <3>2. Top.element_pos \in DOMAIN file'
      BY <3>1 DEF PostingAt, OnFile, Record
    <3>3. S = StoredPostings(file', mi)
      BY <1>3, <2>2 DEF WriteDocIDToPositionListFn, Stored
    <3> QED BY <3>1, <3>2, <3>3 DEF StoredPostings
  <2> QED BY <2>1, <2>2
<1>6. PICK bytes : SetTop(Advanced(Top, bytes))
  BY <1>1
<1>7. PICK d : d = Advanced(Top, bytes)
  OBVIOUS
<1>8. Progress(file', S, d) /\ d.kind = Top.kind
  BY <1>1, <1>2, <1>4, <1>5, <1>7, ProgressOfElement DEF Chain
<1> QED BY <1>1, <1>2, <1>3, <1>6, <1>7, <1>8, ContentOfTop

LEMMA ContentOfBucket == LayoutInv /\ ContentInv /\ EndOfBucket => ContentInv'
<1> SUFFICES ASSUME LayoutInv, ContentInv, EndOfBucket PROVE ContentInv'
  OBVIOUS
<1>1. stack # <<>> /\ Top.step = "element" /\ Top.elt > Len(Top.table[Top.bucket]) /\ Frame /\ file' = file
  BY DEF EndOfBucket, Frame, Chain
<1>2. Grows(file, file')
  BY <1>1 DEF Grows
<1>3. PICK S : S = Stored(Top.kind, file', dt, mi)
  OBVIOUS
<1>4. Progress(file', S, Top) /\ CallInv(Top)
  BY <1>1, <1>2, <1>3, TopProgress
<1>5. PICK d : d = [Top EXCEPT !.step = "record", !.bucket = @ + 1, !.bucket_pos = Top.element_pos]
  OBVIOUS
<1>6. SetTop(d)
  BY <1>5 DEF EndOfBucket
<1>7. d.table = Top.table /\ d.offset = Top.offset /\ d.step = "record" /\ d.bucket = Top.bucket + 1 /\ d.kind = Top.kind
  BY <1>4, <1>5 DEF CallInv
<1>8. Top.elt - 1 = Len(Top.table[Top.bucket])
  <2>1. PICK length \in Nat : length = Len(Top.table[Top.bucket])
    BY <1>1, <1>4, ChainIs
  <2>2. Top.elt \in 1..length + 1 /\ Top.elt > length
    BY <1>1, <1>4, <2>1, ChainIs
  <2>3. Top.elt - 1 = length
    BY <2>2
  <2> QED BY <2>1, <2>3
<1>9. BucketLaid(file', S, Top.offset, Top.table, Top.bucket)
  BY <1>1, <1>4, <1>8 DEF BucketLaid, Progress
<1>10. Progress(file', S, d)
  BY <1>4, <1>7, <1>9, ProgressOfBucket DEF Progress
<1> QED BY <1>1, <1>2, <1>3, <1>6, <1>7, <1>10, ContentOfTop

LEMMA ContentOfWord == LayoutInv /\ ContentInv /\ WriteWordToPostingsFn => ContentInv'
<1> SUFFICES ASSUME LayoutInv, ContentInv, WriteWordToPostingsFn PROVE ContentInv'
  OBVIOUS
<1>1. stack # <<>> /\ Frame
  BY DEF WriteWordToPostingsFn, Frame
<1>2. /\ Grows(file, file') /\ PositionLaid(file', Top) /\ Len(stack) = 1
      /\ \E e \in Elements(mi), offset \in Nat :
           /\ OnFile(file', BucketListHeader(e.postings, offset))
           /\ stack' = <<Top, Call("docids", e.postings, offset)>>
  BY WriteWordToPostingsStep
<1>3. PICK e, offset : /\ OnFile(file', BucketListHeader(e.postings, offset))
                       /\ stack' = <<Top, Call("docids", e.postings, offset)>>
  BY <1>2
<1>4. PICK d : d = Call("docids", e.postings, offset)
  OBVIOUS
<1>5. stack' = <<Top, d>> /\ stack'[1] = Top /\ stack'[2] = d /\ DOMAIN stack' = {1, 2}
  BY <1>3, <1>4
<1>6. Progress(file', Stored(Top.kind, file', dt, mi), Top)
  BY <1>1, <1>2, TopProgress
<1>7. Progress(file', Stored(d.kind, file', dt, mi), d)
  BY <1>3, <1>4, ProgressStarts
<1>8. phase' \in {"doctable", "index"} /\ dt' = dt /\ mi' = mi /\ phase' = phase
  BY <1>1, StackIs DEF Frame
<1>9. phase' = "index" => Laid(file', StoredDocs(file', dt'), 16, dt')
  BY <1>2, <1>8, TablesStay
<1> QED BY <1>2, <1>5, <1>6, <1>7, <1>8, <1>9 DEF ContentInv

LEMMA ContentOfPostings == LayoutInv /\ ContentInv /\ PostingsWritten => ContentInv'
<1> SUFFICES ASSUME LayoutInv, ContentInv, PostingsWritten PROVE ContentInv'
  OBVIOUS
<1>1. /\ stack # <<>> /\ Len(stack) = 2 /\ Top.step = "record" /\ Top.bucket > Len(Top.table) /\ Frame
  BY DEF PostingsWritten, TableWritten, Frame
<1>2. PICK c : c = stack[1]
  OBVIOUS
<1>3. PICK e : e = ElementOf(c)
  OBVIOUS
<1>4. /\ Grows(file, file') /\ e \in Elements(mi)
      /\ Typed(file', c.element_pos, "word_header") /\ file'[c.element_pos].data.word_bytes = Length[e.word]
      /\ OnFile(file', Record(c.element_pos + 6, "word", Length[e.word], [word |-> e.word]))
      /\ \E bytes \in Nat \ {0} : stack' = <<Advanced(c, bytes)>>
  BY <1>2, <1>3, PostingsWrittenStep
<1>5. /\ CallInv(c) /\ Inner(c, Top) /\ c.kind = "index" /\ c.table = mi /\ 1 \in DOMAIN stack /\ phase = "index"
  BY <1>1, <1>2, StackIs
<1>6. Laid(file', StoredPostings(file', mi), c.element_pos + 6 + Length[e.word], e.postings)
  <2>1. Progress(file', Stored("docids", file', dt, mi), Top) /\ CallInv(Top)
    BY <1>1, <1>4, <1>5, TopProgress DEF Inner
  <2>2. Laid(file', Stored("docids", file', dt, mi), Top.offset, Top.table)
    BY <1>1, <2>1, ProgressIsComplete
  <2>3. Top.table = e.postings /\ Top.offset = c.element_pos + 6 + Length[e.word]
    BY <1>3, <1>5, SizesAre DEF Inner
  <2>4. Stored("docids", file', dt, mi) = StoredPostings(file', mi)
    BY DEF Stored
  <2> QED BY <2>2, <2>3, <2>4
<1>7. PICK S : S = Stored("index", file', dt, mi)
  OBVIOUS
<1>8. <<c.element_pos, e>> \in S
  <2>1. WordAt(file', mi, c.element_pos, e) /\ c.element_pos \in DOMAIN file'
    BY <1>4, <1>6 DEF WordAt, Typed
  <2>2. S = StoredWords(file', mi)
    BY <1>7 DEF Stored
  <2> QED BY <1>4, <2>1, <2>2 DEF StoredWords
<1>9. Progress(file', S, c) /\ PositionLaid(file', c)
  <2>1. Progress(file, Stored(c.kind, file, dt, mi), c) /\ PositionLaid(file, c)
    BY <1>1, <1>2, <1>5 DEF ContentInv
  <2>2. Stored(c.kind, file, dt, mi) \subseteq S
    BY <1>4, <1>5, <1>7, StoredGrows
  <2> QED BY <1>4, <2>1, <2>2, ProgressGrows, PositionGrows
<1>10. PICK bytes : stack' = <<Advanced(c, bytes)>>
  BY <1>4
<1>11. PICK d : d = Advanced(c, bytes)
  OBVIOUS
<1>12. Progress(file', S, d) /\ d.kind = "index"
  BY <1>3, <1>5, <1>8, <1>9, <1>11, ProgressOfElement DEF Inner
<1>13. stack' = <<d>> /\ stack'[1] = d /\ DOMAIN stack' = {1} /\ Len(stack') # 2
  BY <1>10, <1>11
<1>14. phase' = "index" /\ dt' = dt /\ mi' = mi /\ phase' = phase
  BY <1>1, <1>5 DEF Frame
<1>15. Laid(file', StoredDocs(file', dt'), 16, dt')
  BY <1>4, <1>14, TablesStay
<1> QED BY <1>7, <1>12, <1>13, <1>14, <1>15 DEF ContentInv

LEMMA ContentOfTables == LayoutInv /\ ContentInv /\ (WriteDocTable \/ WriteMemIndex) => ContentInv'
<1> SUFFICES ASSUME LayoutInv, ContentInv, WriteDocTable \/ WriteMemIndex PROVE ContentInv'
  OBVIOUS
<1>1. Frame /\ phase \in {"doctable", "index"}
  BY DEF WriteDocTable, WriteMemIndex, Frame
<1>2. /\ Grows(file, file')
      /\ \E kind \in {"doctable", "index"} : \E t :
           /\ OnFile(file', BucketListHeader(t, cur_pos))
           /\ stack' = <<Call(kind, t, cur_pos)>>
  BY TablesStep
<1>3. PICK kind, t : /\ OnFile(file', BucketListHeader(t, cur_pos))
                     /\ stack' = <<Call(kind, t, cur_pos)>>
  BY <1>2
<1>4. PICK d : d = Call(kind, t, cur_pos)
  OBVIOUS
<1>5. stack' = <<d>> /\ stack'[1] = d /\ DOMAIN stack' = {1} /\ Len(stack') # 2
  BY <1>3, <1>4
<1>6. PICK S : S = Stored(d.kind, file', dt, mi)
  OBVIOUS
<1>7. Progress(file', S, d)
  BY <1>3, <1>4, ProgressStarts
<1>8. phase' \in {"doctable", "index"} /\ dt' = dt /\ mi' = mi /\ phase' = phase
  BY <1>1 DEF Frame
<1>9. phase' = "index" => Laid(file', StoredDocs(file', dt'), 16, dt')
  BY <1>1, <1>2, <1>8, TablesStay
<1> QED BY <1>5, <1>6, <1>7, <1>8, <1>9 DEF ContentInv

LEMMA ContentOfTablesWritten == LayoutInv /\ ContentInv /\ (DocTableWritten \/ MemIndexWritten) => ContentInv'
<1> SUFFICES ASSUME LayoutInv, ContentInv, DocTableWritten \/ MemIndexWritten PROVE ContentInv'
  OBVIOUS
<1>1. /\ stack # <<>> /\ Top.step = "record" /\ Top.bucket > Len(Top.table)
      /\ stack' = <<>> /\ file' = file /\ UNCHANGED <<dt, mi>>
      /\ \/ phase = "doctable" /\ phase' = "index"
         \/ phase = "index" /\ phase' = "header" /\ dt_bytes' = dt_bytes /\ Len(stack) = 1
  BY DEF DocTableWritten, MemIndexWritten, TableWritten
<1>2. /\ Len(stack) = 1 /\ Top = stack[1] /\ Top.offset = cur_pos
      /\ \/ phase = "doctable" /\ Top.kind = "doctable" /\ Top.table = dt
         \/ phase = "index" /\ Top.kind = "index" /\ Top.table = mi
  BY <1>1, StackIs
<1>3. Grows(file, file)
  BY DEF Grows
<1>4. Laid(file, Stored(Top.kind, file, dt, mi), cur_pos, Top.table)
  <2>1. Progress(file, Stored(Top.kind, file, dt, mi), Top) /\ CallInv(Top)
    BY <1>1, <1>3, TopProgress
  <2> QED BY <1>1, <1>2, <2>1, ProgressIsComplete
<1>5. DOMAIN stack' = {} /\ Len(stack') # 2
  BY <1>1
<1>6. CASE phase = "doctable"
  <2>1. phase' = "index" /\ Top.kind = "doctable" /\ Top.table = dt
    BY <1>1, <1>2, <1>6
  <2>2. cur_pos = 16
    BY <1>6, SizesAre DEF LayoutInv
  <2>3. Laid(file, StoredDocs(file, dt), 16, dt)
    BY <1>4, <2>1, <2>2 DEF Stored
  <2> QED BY <1>1, <1>5, <2>1, <2>3 DEF ContentInv
<1>7. CASE phase = "index"
  <2>1. phase' = "header" /\ Top.kind = "index" /\ Top.table = mi /\ dt_bytes' = dt_bytes
    BY <1>1, <1>2, <1>7
  <2>2. cur_pos = 16 + dt_bytes
    BY <1>7, SizesAre DEF LayoutInv
  <2>3. Laid(file, StoredWords(file, mi), 16 + dt_bytes, mi)
    BY <1>4, <2>1, <2>2 DEF Stored
  <2>4. Laid(file, StoredDocs(file, dt), 16, dt)
    BY <1>7 DEF ContentInv
  <2> QED BY <1>1, <1>5, <2>1, <2>3, <2>4 DEF ContentInv
<1> QED BY <1>1, <1>6, <1>7

LEMMA ContentOfHeader == LayoutInv /\ ContentInv /\ WriteFileHeader => ContentInv'
<1> SUFFICES ASSUME LayoutInv, ContentInv, WriteFileHeader PROVE ContentInv'
  OBVIOUS
<1>1. phase = "header" /\ phase' = "written" /\ UNCHANGED <<dt, mi, stack, cur_pos, dt_bytes, mi_bytes>>
  BY DEF WriteFileHeader
<1>2. /\ Grows(file, file')
      /\ OnFile(file', Record(0, "file_header", 16, [doctable_bytes |-> dt_bytes, index_bytes |-> mi_bytes]))
  BY HeaderStep
<1>3. stack = <<>>
  BY <1>1, StackIs
<1>4. DOMAIN stack' = {} /\ Len(stack') # 2
  BY <1>1, <1>3
<1>5. /\ StoredDocs(file, dt) \subseteq StoredDocs(file', dt) /\ StoredWords(file, mi) \subseteq StoredWords(file', mi)
  BY <1>2, StoredGrows
<1>6. Laid(file, StoredDocs(file, dt), 16, dt) /\ Laid(file, StoredWords(file, mi), 16 + dt_bytes, mi)
  BY <1>1 DEF ContentInv
<1>7. Laid(file', StoredDocs(file', dt), 16, dt) /\ Laid(file', StoredWords(file', mi), 16 + dt_bytes, mi)
  BY <1>2, <1>5, <1>6, LaidGrows
<1> QED BY <1>1, <1>2, <1>4, <1>7 DEF ContentInv

LEMMA ContentInvHolds == LayoutSpec => [](LayoutInv /\ ContentInv)
<1>1. LayoutInit => ContentInv
  <2> SUFFICES ASSUME LayoutInit PROVE ContentInv
    OBVIOUS
  <2>1. phase = "doctable" /\ stack = <<>> /\ DOMAIN stack = {} /\ Len(stack) # 2
    BY DEF LayoutInit
  <2> QED BY <2>1 DEF ContentInv
<1>2. LayoutInv /\ ContentInv /\ [LayoutNext]_layoutVars => ContentInv'
  <2> SUFFICES ASSUME LayoutInv, ContentInv, [LayoutNext]_layoutVars PROVE ContentInv'
    OBVIOUS
  <2>1. CASE WriteFails
    <3>1. phase' = "failed" /\ stack' = <<>> /\ DOMAIN stack' = {} /\ Len(stack') # 2
      BY <2>1 DEF WriteFails
    <3> QED BY <3>1 DEF ContentInv
  <2>2. CASE UNCHANGED layoutVars
    BY <2>2 DEF ContentInv, layoutVars
  <2> QED BY <2>1, <2>2, ContentOfRecord, ContentOfElements, ContentOfBucket, ContentOfWord, ContentOfPostings,
             ContentOfTables, ContentOfTablesWritten, ContentOfHeader DEF LayoutNext, Returned
<1>3. LayoutInv /\ [LayoutNext]_layoutVars => LayoutInv'
  BY LayoutStep
<1> QED BY <1>1, <1>2, <1>3, LayoutInitHolds, PTL DEF LayoutSpec

-----------------------------------------------------------------------------
(* What the readers find in a table that is laid.                          *)
LEMMA ChainIsRead ==
  ASSUME NEW S, NEW offset, NEW t, IsTable(t), Laid(file, S, offset, t), NEW b \in 1..Len(t)
  PROVE  LET elements == ElementsOf(BucketRecordAt(offset, b - 1)) IN
         /\ DOMAIN elements = 1..Len(t[b])
         /\ \A k \in 1..Len(t[b]) : <<elements[k], t[b][k]>> \in S
         /\ \A k \in 1..Len(t[b]) :
              Typed(file, BucketRecordAt(offset, b - 1).position + (k - 1) * SizeofElementPositionRecord, "element_pos")
<1>1. PICK rec : rec = BucketRecordAt(offset, b - 1)
  OBVIOUS
<1>2. rec = file[offset + 4 + 8 * (b - 1)].data
  BY <1>1, SizesAre DEF BucketRecordAt, At
<1>3. PICK elements : elements = ElementsOf(rec)
  OBVIOUS
<1>4. PICK length \in Nat : length = Len(t[b])
  BY TableIs
<1>5. rec.chain_num_elements = length /\ \A k \in 1..length : ElementLaid(file, S, rec.position, t[b], k)
  BY <1>2, <1>4 DEF Laid, BucketLaid, RecordLaid
<1>6. elements = [k \in 1..length |-> file[rec.position + (k - 1) * 4].data.position]
  BY <1>3, <1>5, SizesAre DEF ElementsOf, At
<1>7. ASSUME NEW k \in 1..length
      PROVE  <<elements[k], t[b][k]>> \in S /\ Typed(file, rec.position + (k - 1) * 4, "element_pos")
  <2>1. ElementLaid(file, S, rec.position, t[b], k)
    BY <1>5
  <2>2. (k - 1) * 4 = 4 * (k - 1)
    OBVIOUS
  <2> QED BY <1>6, <2>1, <2>2 DEF ElementLaid
<1> QED BY <1>1, <1>3, <1>4, <1>6, <1>7, SizesAre

LEMMA TableIsReadable ==
  ASSUME NEW S, NEW offset, NEW t, IsTable(t), Laid(file, S, offset, t)
  PROVE  Readable(offset, t) /\ At(offset).num_buckets = Len(t)
<1>1. Holds(offset, "buckets") /\ At(offset).num_buckets = Len(t)
  BY DEF Laid, OnFile, BucketListHeader, Record, Holds, At
<1>2. DOMAIN t = 1..Len(t)
  BY TableIs
<1>3. ASSUME NEW b \in 1..Len(t)
      PROVE  /\ Holds(offset + SizeofBucketListHeader + SizeofBucketRecord * (b - 1), "bucket_rec")
             /\ BucketRecordAt(offset, b - 1).chain_num_elements = Len(t[b])
             /\ \A k \in DOMAIN t[b] :
                  Holds(BucketRecordAt(offset, b - 1).position + (k - 1) * SizeofElementPositionRecord, "element_pos")
  <2>1. RecordLaid(file, offset, t, b)
    BY DEF Laid, BucketLaid
  <2>2. DOMAIN t[b] = 1..Len(t[b])
    BY TableIs
  <2>3. \A k \in 1..Len(t[b]) :
          Holds(BucketRecordAt(offset, b - 1).position + (k - 1) * SizeofElementPositionRecord, "element_pos")
    BY ChainIsRead DEF Typed, Holds
  <2> QED BY <2>1, <2>2, <2>3, SizesAre DEF RecordLaid, Typed, Holds, BucketRecordAt, At
<1> QED BY <1>1, <1>2, <1>3 DEF Readable

(* A lookup finds one of the wanted elements, if there is one: all have    *)
(* the key that is looked up, and the hits are the places of wanted ones.  *)
Searched(S, t, key, wanted, elements, hits) ==
  /\ wanted \subseteq Elements(t) /\ \A e \in wanted : e.key = key
  /\ hits \subseteq DOMAIN elements
  /\ \A k \in DOMAIN elements : \A e \in Elements(t) : <<elements[k], e>> \in S => (k \in hits <=> e \in wanted)
Finds(S, found, wanted) ==
  \/ found = <<>> /\ wanted = {}
  \/ \E p : \E e \in wanted : found = <<p>> /\ <<p, e>> \in S
LEMMA LookupFinds ==
  ASSUME NEW S, NEW offset, NEW t, IsTable(t), Laid(file, S, offset, t), NEW key \in Nat, NEW wanted,
         NEW elements, elements = LookupElementPositions(offset, key), NEW hits,
         Searched(S, t, key, wanted, elements, hits)
  PROVE  Finds(S, FirstElement(elements, hits), wanted)
<1>1. /\ wanted \subseteq Elements(t) /\ \A e \in wanted : e.key = key
      /\ hits \subseteq DOMAIN elements
      /\ \A k \in DOMAIN elements : \A e \in Elements(t) : <<elements[k], e>> \in S => (k \in hits <=> e \in wanted)
  BY DEF Searched
<1>2. PICK n \in Nat \ {0} : n = Len(t)
  BY TableIs
<1>3. PICK b : b = (key % n) + 1
  OBVIOUS
<1>4. b \in 1..n /\ b - 1 = key % n
  BY <1>2, <1>3
<1>5. elements = ElementsOf(BucketRecordAt(offset, b - 1))
  BY <1>2, <1>4, TableIsReadable DEF LookupElementPositions
<1>6. DOMAIN elements = 1..Len(t[b]) /\ \A k \in 1..Len(t[b]) : <<elements[k], t[b][k]>> \in S
  BY <1>2, <1>4, <1>5, ChainIsRead
<1>7. \A k \in 1..Len(t[b]) : t[b][k] \in Elements(t) /\ (k \in hits <=> t[b][k] \in wanted)
  <2>1. \A k \in 1..Len(t[b]) : t[b][k] \in Elements(t)
    BY <1>2, <1>4, TableIs
  <2> QED BY <1>1, <1>6, <2>1
<1>8. hits \subseteq 1..Len(t[b]) /\ hits \subseteq Nat
  <2>1. Len(t[b]) \in Nat
    BY <1>2, <1>4, TableIs
  <2> QED BY <1>1, <1>6, <2>1
<1>9. CASE hits # {}
  <2>1. Min(hits) \in hits
    BY <1>8, <1>9, LeastNatural
  <2>2. FirstElement(elements, hits) = <<elements[Min(hits)]>>
    BY <1>9 DEF FirstElement
  <2>3. t[b][Min(hits)] \in wanted /\ <<elements[Min(hits)], t[b][Min(hits)]>> \in S
    BY <1>6, <1>7, <1>8, <2>1
  <2> QED BY <2>2, <2>3 DEF Finds
<1>10. CASE hits = {}
  <2>1. ASSUME NEW e \in wanted PROVE FALSE
    <3>1. PICK c \in DOMAIN t : e \in Range(t[c])
      BY <1>1, <2>1 DEF Elements
    <3>2. c \in 1..n /\ e.key % n = c - 1 /\ e.key = key
      BY <1>1, <1>2, <2>1, <3>1, TableIs DEF IsTable
    <3>3. c = b
      BY <1>4, <3>2
    <3>4. PICK k \in DOMAIN t[c] : e = t[c][k]
      BY <3>1 DEF Range
    <3>5. k \in 1..Len(t[b])
      BY <1>2, <1>4, <3>3, <3>4, TableIs
    <3> QED BY <1>7, <1>10, <2>1, <3>3, <3>4, <3>5
  <2>2. FirstElement(elements, hits) = <<>>
    BY <1>10 DEF FirstElement
  <2> QED BY <2>1, <2>2 DEF Finds
<1> QED BY <1>9, <1>10

(* The size of a complete file.                                            *)
LEMMA FileSizeIs ==
  ASSUME LayoutInv, phase = "written"
  PROVE  FileSize = cur_pos
<1>1. stack = <<>> /\ Len(stack) # 2
  BY StackIs
<1>2. Tiles(Pieces, cur_pos) /\ 0 \in DOMAIN file /\ cur_pos \in Nat
  <2>1. Holes = {} /\ End = cur_pos
    BY <1>1 DEF Holes, Below, End
  <2>2. Pieces \cup Holes = Pieces
    BY <2>1
  <2>3. Tiles(Pieces \cup Holes, End)
    BY DEF LayoutInv, Layout
  <2> QED BY <2>1, <2>2, <2>3 DEF LayoutInv
<1>3. ASSUME NEW o \in DOMAIN file
      PROVE  /\ o \in Nat /\ Ends(o) \in Nat /\ o < Ends(o) /\ Ends(o) <= cur_pos
             /\ Ends(o) = cur_pos \/ Ends(o) \in DOMAIN file
  <2>1. <<o, Ends(o)>> \in Pieces /\ <<o, Ends(o)>>[1] = o /\ <<o, Ends(o)>>[2] = Ends(o)
    BY DEF Pieces
  <2>2. Ends(o) = cur_pos \/ \E s \in Pieces : s[1] = Ends(o)
    BY <1>2, <2>1 DEF Tiles
  <2>3. \A s \in Pieces : s[1] \in DOMAIN file
    BY DEF Pieces
  <2> QED BY <1>2, <2>1, <2>2, <2>3 DEF Tiles
<1>4. \E o \in DOMAIN file : Ends(o) = cur_pos
  <2> SUFFICES ASSUME \A o \in DOMAIN file : Ends(o) # cur_pos PROVE FALSE
    OBVIOUS
  <2>1. PICK left : left = {n \in Nat : \E o \in DOMAIN file : n = cur_pos - o}
    OBVIOUS
  <2>7. cur_pos = cur_pos - 0 /\ cur_pos \in Nat /\ 0 \in DOMAIN file
    BY <1>2
  <2>2. left \subseteq Nat /\ cur_pos \in left
    BY <2>1, <2>7
  <2>3. Min(left) \in left /\ \A n \in left : Min(left) <= n
    BY <2>2, LeastNatural
  <2>4. PICK o \in DOMAIN file : Min(left) = cur_pos - o
    BY <2>1, <2>3
  <2>5. Ends(o) \in DOMAIN file /\ o < Ends(o) /\ Ends(o) <= cur_pos /\ o \in Nat /\ Ends(o) \in Nat
    BY <1>3
  <2>6. cur_pos - Ends(o) \in left
    BY <1>2, <2>1, <2>5
  <2> QED BY <1>2, <2>3, <2>4, <2>5, <2>6
<1>5. PICK ends : ends = {o + file[o].size : o \in DOMAIN file}
  OBVIOUS
<1>6. cur_pos \in ends /\ \A o \in DOMAIN file : o + file[o].size <= cur_pos
  BY <1>3, <1>4, <1>5 DEF Ends
<1>7. \A n \in ends : n \in Nat /\ n <= cur_pos
  BY <1>3, <1>5 DEF Ends
<1>8. ASSUME NEW n \in ends, \A o \in DOMAIN file : o + file[o].size <= n PROVE n = cur_pos
  <2>1. cur_pos <= n
    BY <1>5, <1>6, <1>8
  <2> QED BY <1>2, <1>7, <2>1
<1>9. FileSize = CHOOSE n \in ends : \A o \in DOMAIN file : o + file[o].size <= n
  BY <1>5 DEF FileSize
<1> QED BY <1>6, <1>8, <1>9

(* The records of the elements say what they are.                          *)
LEMMA StoredSays ==
  ASSUME NEW p, NEW e
  PROVE  /\ <<p, e>> \in StoredDocs(file, dt) => At(p).doc_id = e.key /\ At(p + 10).name = e.name
         /\ <<p, e>> \in StoredPostings(file, mi) =>
              /\ At(p) = [doc_id |-> e.key, num_positions |-> Len(e.positions)]
              /\ At(p + 12).positions = e.positions
         /\ <<p, e>> \in StoredWords(file, mi) =>
              /\ At(p).word_bytes = Length[e.word] /\ At(p + 6).word = e.word
              /\ Laid(file, StoredPostings(file, mi), p + 6 + Length[e.word], e.postings)
<1>1. <<p, e>>[1] = p /\ <<p, e>>[2] = e
  OBVIOUS
<1>2. <<p, e>> \in StoredDocs(file, dt) => DocAt(file, p, e)
  BY <1>1 DEF StoredDocs
<1>3. <<p, e>> \in StoredPostings(file, mi) => PostingAt(file, p, e)
  BY <1>1 DEF StoredPostings
<1>4. <<p, e>> \in StoredWords(file, mi) => WordAt(file, mi, p, e)
  BY <1>1 DEF StoredWords
<1>5. DocAt(file, p, e) => At(p).doc_id = e.key /\ At(p + 10).name = e.name
  BY DEF DocAt, OnFile, Record, At
<1>6. PostingAt(file, p, e) =>
        /\ At(p) = [doc_id |-> e.key, num_positions |-> Len(e.positions)]
        /\ At(p + 12).positions = e.positions
  BY DEF PostingAt, OnFile, Record, At
<1>7. WordAt(file, mi, p, e) =>
        /\ At(p).word_bytes = Length[e.word] /\ At(p + 6).word = e.word
        /\ Laid(file, StoredPostings(file, mi), p + 6 + Length[e.word], e.postings)
  BY DEF WordAt, OnFile, Record, At
<1> QED BY <1>2, <1>3, <1>4, <1>5, <1>6, <1>7

(* Found on the one hand, wanted on the other.                             *)
LEMMA DocsAreFound ==
  ASSUME Laid(file, StoredDocs(file, dt), NewDocTableReader, dt), dt \in DocTables, NEW d \in Nat
  PROVE  Range(LookupDocName(NewDocTableReader, d)) = NameOf(d)
<1>1. IsTable(dt) /\ \A x, y \in Elements(dt) : x.key = y.key => x = y
  BY TablesAssumption DEF IsDocTable, KeysAreUnique
<1>2. PICK wanted : wanted = {e \in Elements(dt) : e.key = d}
  OBVIOUS
<1>3. PICK elements : elements = LookupElementPositions(NewDocTableReader, d)
  OBVIOUS
<1>4. PICK hits : hits = {k \in DOMAIN elements : At(elements[k]).doc_id = d}
  OBVIOUS
<1>5. \A k \in DOMAIN elements : \A e \in Elements(dt) :
        <<elements[k], e>> \in StoredDocs(file, dt) => (k \in hits <=> e \in wanted)
  BY <1>2, <1>4, StoredSays
<1>6. PICK found : found = FirstElement(elements, hits)
  OBVIOUS
<1>7. \/ found = <<>> /\ wanted = {}
      \/ \E p : \E e \in wanted : found = <<p>> /\ <<p, e>> \in StoredDocs(file, dt)
  <2>1. wanted \subseteq Elements(dt) /\ (\A e \in wanted : e.key = d) /\ hits \subseteq DOMAIN elements
    BY <1>2, <1>4
  <2>2. Searched(StoredDocs(file, dt), dt, d, wanted, elements, hits)
    BY <1>5, <2>1 DEF Searched
  <2>3. Finds(StoredDocs(file, dt), FirstElement(elements, hits), wanted)
    BY <1>1, <1>3, <2>1, <2>2, LookupFinds
  <2> QED BY <1>6, <2>3 DEF Finds
<1>8. LookupDocName(NewDocTableReader, d) = [k \in DOMAIN found |-> At(found[k] + 10).name]
  BY <1>3, <1>4, <1>6, SizesAre DEF LookupDocName
<1>9. NameOf(d) = {e.name : e \in wanted}
  BY <1>2 DEF NameOf
<1>10. ASSUME found = <<>>, wanted = {} PROVE Range(LookupDocName(NewDocTableReader, d)) = NameOf(d)
  BY <1>8, <1>9, <1>10 DEF Range
<1>11. ASSUME NEW p, NEW e \in wanted, found = <<p>>, <<p, e>> \in StoredDocs(file, dt)
       PROVE  Range(LookupDocName(NewDocTableReader, d)) = NameOf(d)
  <2>1. At(p + 10).name = e.name
    BY <1>11, StoredSays
  <2>2. DOMAIN found = {1} /\ found[1] = p
    BY <1>11
  <2>3. Range(LookupDocName(NewDocTableReader, d)) = {e.name}
    BY <1>8, <2>1, <2>2 DEF Range
  <2>4. \A x \in wanted : x = e
    BY <1>1, <1>2
  <2> QED BY <1>9, <2>3, <2>4
<1> QED BY <1>7, <1>10, <1>11

LEMMA PostingsAreFound ==
  ASSUME NEW offset, NEW t, IsPostings(t), KeysAreUnique(t), Laid(file, StoredPostings(file, mi), offset, t), NEW d \in Nat
  PROVE  Range(LookupDocID(offset, d)) = PositionsIn(t, d)
<1>1. IsTable(t) /\ \A x, y \in Elements(t) : x.key = y.key => x = y
  BY DEF IsPostings, KeysAreUnique
<1>2. PICK wanted : wanted = {e \in Elements(t) : e.key = d}
  OBVIOUS
<1>3. PICK elements : elements = LookupElementPositions(offset, d)
  OBVIOUS
<1>4. PICK hits : hits = {k \in DOMAIN elements : At(elements[k]).doc_id = d}
  OBVIOUS
<1>5. \A k \in DOMAIN elements : \A e \in Elements(t) :
        <<elements[k], e>> \in StoredPostings(file, mi) => (k \in hits <=> e \in wanted)
  BY <1>2, <1>4, StoredSays
<1>6. PICK found : found = FirstElement(elements, hits)
  OBVIOUS
<1>7. \/ found = <<>> /\ wanted = {}
      \/ \E p : \E e \in wanted : found = <<p>> /\ <<p, e>> \in StoredPostings(file, mi)
  <2>1. wanted \subseteq Elements(t) /\ (\A e \in wanted : e.key = d) /\ hits \subseteq DOMAIN elements
    BY <1>2, <1>4
  <2>2. Searched(StoredPostings(file, mi), t, d, wanted, elements, hits)
    BY <1>5, <2>1 DEF Searched
  <2>3. Finds(StoredPostings(file, mi), FirstElement(elements, hits), wanted)
    BY <1>1, <1>3, <2>1, <2>2, LookupFinds
  <2> QED BY <1>6, <2>3 DEF Finds
<1>8. LookupDocID(offset, d) =
        [k \in DOMAIN found |-> SubSeq(At(found[k] + 12).positions, 1, At(found[k]).num_positions)]
  BY <1>3, <1>4, <1>6, SizesAre DEF LookupDocID
<1>9. PositionsIn(t, d) = {e.positions : e \in wanted}
  BY <1>2 DEF PositionsIn
<1>10. ASSUME found = <<>>, wanted = {} PROVE Range(LookupDocID(offset, d)) = PositionsIn(t, d)
  BY <1>8, <1>9, <1>10 DEF Range
<1>11. ASSUME NEW p, NEW e \in wanted, found = <<p>>, <<p, e>> \in StoredPostings(file, mi)
       PROVE  Range(LookupDocID(offset, d)) = PositionsIn(t, d)
  <2>1. At(p + 12).positions = e.positions /\ At(p).num_positions = Len(e.positions)
    BY <1>11, StoredSays
  <2>2. DOMAIN found = {1} /\ found[1] = p
    BY <1>11
  <2>5. SubSeq(e.positions, 1, Len(e.positions)) = e.positions
    <3>1. e.positions \in Seq(Nat)
      BY <1>2 DEF IsPostings
    <3> QED BY <3>1, SubSeqFull
  <2>6. LookupDocID(offset, d) = [k \in {1} |-> e.positions]
    BY <1>8, <2>1, <2>2, <2>5
  <2>3. Range(LookupDocID(offset, d)) = {e.positions}
    BY <2>6 DEF Range
  <2>4. \A x \in wanted : x = e
    BY <1>1, <1>2
  <2> QED BY <1>9, <2>3, <2>4
<1> QED BY <1>7, <1>10, <1>11

LEMMA HeadersAreRead ==
  ASSUME NEW offset, NEW t, IsTable(t), Laid(file, StoredPostings(file, mi), offset, t)
  PROVE  GetDocIDList(offset) = Headers(t)
<1>1. PICK n \in Nat : n = Len(t) /\ DOMAIN t = 1..n /\ At(offset).num_buckets = n
  BY TableIs, TableIsReadable
<1>2. PICK f : f = [b \in 1..n |-> LET elements == ElementsOf(BucketRecordAt(offset, b - 1))
                                   IN [k \in DOMAIN elements |-> At(elements[k])]]
  OBVIOUS
<1>3. PICK g : g = [b \in 1..n |-> [k \in DOMAIN t[b] |->
                     [doc_id |-> t[b][k].key, num_positions |-> Len(t[b][k].positions)]]]
  OBVIOUS
<1>4. ASSUME NEW b \in 1..n PROVE f[b] = g[b]
  <2>1. PICK elements : elements = ElementsOf(BucketRecordAt(offset, b - 1))
    OBVIOUS
  <2>2. /\ DOMAIN elements = 1..Len(t[b]) /\ DOMAIN t[b] = 1..Len(t[b])
        /\ \A k \in 1..Len(t[b]) : <<elements[k], t[b][k]>> \in StoredPostings(file, mi)
    BY <1>1, <2>1, TableIs, ChainIsRead
  <2>3. \A k \in DOMAIN t[b] : At(elements[k]) = [doc_id |-> t[b][k].key, num_positions |-> Len(t[b][k].positions)]
    BY <2>2, StoredSays
  <2>4. f[b] = [k \in DOMAIN elements |-> At(elements[k])]
    BY <1>2, <2>1
  <2>5. g[b] = [k \in DOMAIN t[b] |-> [doc_id |-> t[b][k].key, num_positions |-> Len(t[b][k].positions)]]
    BY <1>3
  <2> QED BY <2>2, <2>3, <2>4, <2>5
<1>5. f = g
  BY <1>2, <1>3, <1>4
<1>6. GetDocIDList(offset) = FlattenSeq(f) /\ Headers(t) = FlattenSeq(g)
  BY <1>1, <1>2, <1>3 DEF GetDocIDList, Headers
<1> QED BY <1>5, <1>6

LEMMA WordsAreFound ==
  ASSUME Laid(file, StoredWords(file, mi), NewIndexTableReader, mi), mi \in MemIndexes, NEW w \in Words
  PROVE  LET found == LookupWord(NewIndexTableReader, w) IN
         \/ found = <<>> /\ PostingsOf(w) = {}
         \/ \E offset, t : /\ found = <<offset>> /\ PostingsOf(w) = {t}
                           /\ IsPostings(t) /\ KeysAreUnique(t) /\ Laid(file, StoredPostings(file, mi), offset, t)
<1>1. /\ IsTable(mi) /\ (\A x, y \in Elements(mi) : x.key = y.key => x = y)
      /\ \A e \in Elements(mi) : e.word \in Words /\ e.key = Hash[e.word] /\ IsPostings(e.postings) /\ KeysAreUnique(e.postings)
  BY TablesAssumption DEF IsMemIndex, KeysAreUnique
<1>2. PICK wanted : wanted = {e \in Elements(mi) : e.word = w}
  OBVIOUS
<1>3. PICK elements : elements = LookupElementPositions(NewIndexTableReader, Hash[w])
  OBVIOUS
<1>4. PICK hits : hits = {k \in DOMAIN elements : SameWord(elements[k], w)}
  OBVIOUS
<1>5. ASSUME NEW p, NEW e, <<p, e>> \in StoredWords(file, mi) PROVE SameWord(p, w) <=> e.word = w
  BY <1>5, StoredSays, SizesAre DEF SameWord
<1>6. \A k \in DOMAIN elements : \A e \in Elements(mi) :
        <<elements[k], e>> \in StoredWords(file, mi) => (k \in hits <=> e \in wanted)
  BY <1>2, <1>4, <1>5
<1>7. PICK first : first = FirstElement(elements, hits)
  OBVIOUS
<1>8. \/ first = <<>> /\ wanted = {}
      \/ \E p : \E e \in wanted : first = <<p>> /\ <<p, e>> \in StoredWords(file, mi)
  <2>1. wanted \subseteq Elements(mi) /\ (\A e \in wanted : e.key = Hash[w]) /\ hits \subseteq DOMAIN elements
        /\ Hash[w] \in Nat
    BY <1>1, <1>2, <1>4, HashAssumption
  <2>2. Searched(StoredWords(file, mi), mi, Hash[w], wanted, elements, hits)
    BY <1>6, <2>1 DEF Searched
  <2>3. Finds(StoredWords(file, mi), FirstElement(elements, hits), wanted)
    BY <1>1, <1>3, <2>1, <2>2, LookupFinds
  <2> QED BY <1>7, <2>3 DEF Finds
<1>9. PICK found : found = LookupWord(NewIndexTableReader, w)
  OBVIOUS
<1>10. found = [k \in DOMAIN first |-> first[k] + 6 + At(first[k]).word_bytes]
  BY <1>3, <1>4, <1>7, <1>9, SizesAre DEF LookupWord
<1>11. PostingsOf(w) = {e.postings : e \in wanted}
  BY <1>2 DEF PostingsOf
<1>12. ASSUME first = <<>>, wanted = {} PROVE found = <<>> /\ PostingsOf(w) = {}
  BY <1>10, <1>11, <1>12
<1>13. ASSUME NEW p, NEW e \in wanted, first = <<p>>, <<p, e>> \in StoredWords(file, mi)
       PROVE  \E offset, t : /\ found = <<offset>> /\ PostingsOf(w) = {t}
                             /\ IsPostings(t) /\ KeysAreUnique(t) /\ Laid(file, StoredPostings(file, mi), offset, t)
  <2>1. PICK offset : offset = p + 6 + Length[e.word]
    OBVIOUS
  <2>2. At(p).word_bytes = Length[e.word] /\ Laid(file, StoredPostings(file, mi), offset, e.postings)
    BY <1>13, <2>1, StoredSays
  <2>3. DOMAIN first = {1} /\ first[1] = p
    BY <1>13
  <2>4. found = [k \in {1} |-> offset]
    BY <1>10, <2>1, <2>2, <2>3
  <2>5. found = <<offset>>
    BY <2>4
  <2>6. \A x \in wanted : x = e
    BY <1>1, <1>2
  <2>7. PostingsOf(w) = {e.postings}
    BY <1>11, <2>6
  <2>8. IsPostings(e.postings) /\ KeysAreUnique(e.postings)
    BY <1>1, <1>2
  <2> QED BY <2>2, <2>5, <2>7, <2>8
<1> QED BY <1>8, <1>9, <1>12, <1>13

(* In every complete file the readers find each name, word, document and   *)
(* position of the tables that were written, and nothing else.             *)
THEOREM ReadersAgree == LayoutSpec => []ReadersFindTheTables
<1>1. ASSUME LayoutInv, ContentInv PROVE ReadersFindTheTables
  <2> SUFFICES ASSUME phase = "written"
               PROVE  /\ HeaderIsValid
                      /\ Readable(NewDocTableReader, dt) /\ Readable(NewIndexTableReader, mi)
                      /\ \A d \in DocIds \cup {Len(dt) + 1, 2 * Len(dt) + 1} :
                           Range(LookupDocName(NewDocTableReader, d)) = NameOf(d)
                      /\ \A w \in Words :
                           LET found == LookupWord(NewIndexTableReader, w)
                           IN /\ (found = <<>>) = (PostingsOf(w) = {})
                              /\ found # <<>> => \A t \in PostingsOf(w) :
                                   /\ Readable(found[1], t)
                                   /\ GetDocIDList(found[1]) = Headers(t)
                                   /\ \A d \in DocIds : Range(LookupDocID(found[1], d)) = PositionsIn(t, d)
    BY DEF ReadersFindTheTables
  <2>1. dt \in DocTables /\ mi \in MemIndexes /\ IsTable(dt) /\ IsTable(mi)
    BY <1>1, TablesAssumption DEF LayoutInv, IsDocTable, IsMemIndex
  <2>2. At(0) = [doctable_bytes |-> dt_bytes, index_bytes |-> mi_bytes] /\ Holds(0, "file_header")
    BY <1>1 DEF ContentInv, OnFile, Record, At, Holds
  <2>3. HeaderIsValid
    <3>1. FileSize = 16 + dt_bytes + mi_bytes
      BY <1>1, FileSizeIs, SizesAre DEF LayoutInv
    <3> QED BY <2>2, <3>1, SizesAre DEF HeaderIsValid
  <2>4. /\ Laid(file, StoredDocs(file, dt), NewDocTableReader, dt)
        /\ Laid(file, StoredWords(file, mi), NewIndexTableReader, mi)
    BY <1>1, <2>2, SizesAre DEF ContentInv, NewDocTableReader, NewIndexTableReader
  <2>5. Readable(NewDocTableReader, dt) /\ Readable(NewIndexTableReader, mi)
    BY <2>1, <2>4, TableIsReadable
  <2>6. DocIds \cup {Len(dt) + 1, 2 * Len(dt) + 1} \subseteq Nat
    <3>1. DocIds \subseteq Nat
      BY <2>1, TablesAssumption DEF DocIds, IsDocTable
    <3>2. PICK n \in Nat : n = Len(dt)
      BY <2>1, TableIs
    <3>3. n + 1 \in Nat /\ 2 * n + 1 \in Nat
      OBVIOUS
    <3> QED BY <3>1, <3>2, <3>3
  <2>7. \A d \in DocIds \cup {Len(dt) + 1, 2 * Len(dt) + 1} : Range(LookupDocName(NewDocTableReader, d)) = NameOf(d)
    BY <2>1, <2>4, <2>6, DocsAreFound
  <2>8. ASSUME NEW w \in Words
        PROVE  LET found == LookupWord(NewIndexTableReader, w)
               IN /\ (found = <<>>) = (PostingsOf(w) = {})
                  /\ found # <<>> => \A t \in PostingsOf(w) :
                       /\ Readable(found[1], t)
                       /\ GetDocIDList(found[1]) = Headers(t)
                       /\ \A d \in DocIds : Range(LookupDocID(found[1], d)) = PositionsIn(t, d)
    <3>1. PICK found : found = LookupWord(NewIndexTableReader, w)
      OBVIOUS
    <3>2. ASSUME NEW offset, NEW t, found = <<offset>>, PostingsOf(w) = {t},
                 IsPostings(t), KeysAreUnique(t), Laid(file, StoredPostings(file, mi), offset, t)
          PROVE  /\ found # <<>> /\ PostingsOf(w) # {} /\ found[1] = offset
                 /\ Readable(offset, t) /\ GetDocIDList(offset) = Headers(t)
                 /\ \A d \in DocIds : Range(LookupDocID(offset, d)) = PositionsIn(t, d)
      <4>1. found # <<>> /\ PostingsOf(w) # {} /\ found[1] = offset
        BY <3>2
      <4>2. Readable(offset, t) /\ GetDocIDList(offset) = Headers(t)
        BY <3>2, TableIsReadable, HeadersAreRead DEF IsPostings
      <4>3. \A d \in DocIds : Range(LookupDocID(offset, d)) = PositionsIn(t, d)
        BY <2>6, <3>2, PostingsAreFound
      <4> QED BY <4>1, <4>2, <4>3
    <3>3. \/ found = <<>> /\ PostingsOf(w) = {}
          \/ \E offset, t : /\ found = <<offset>> /\ PostingsOf(w) = {t}
                            /\ IsPostings(t) /\ KeysAreUnique(t) /\ Laid(file, StoredPostings(file, mi), offset, t)
      BY <2>1, <2>4, <3>1, WordsAreFound
    <3>4. CASE found = <<>> /\ PostingsOf(w) = {}
      BY <3>1, <3>4
    <3>5. CASE \E offset, t : /\ found = <<offset>> /\ PostingsOf(w) = {t}
                              /\ IsPostings(t) /\ KeysAreUnique(t) /\ Laid(file, StoredPostings(file, mi), offset, t)
      <4>1. PICK offset, t : /\ found = <<offset>> /\ PostingsOf(w) = {t}
                             /\ IsPostings(t) /\ KeysAreUnique(t) /\ Laid(file, StoredPostings(file, mi), offset, t)
        BY <3>5
      <4>2. /\ found # <<>> /\ PostingsOf(w) # {} /\ found[1] = offset
            /\ Readable(offset, t) /\ GetDocIDList(offset) = Headers(t)
            /\ \A d \in DocIds : Range(LookupDocID(offset, d)) = PositionsIn(t, d)
        BY <3>2, <4>1
      <4> QED BY <3>1, <4>1, <4>2
    <3> QED BY <3>3, <3>4, <3>5
  <2> QED BY <2>3, <2>5, <2>7, <2>8
<1> QED BY <1>1, ContentInvHolds, PTL
=============================================================================
