----------------------------- MODULE FileParser -----------------------------
(***************************************************************************)
(* hw2/FileParser.c: ReadFileToString brings a file into a buffer, and     *)
(* ParseIntoWordPositionsTable turns the buffer, in place, into a table    *)
(* from each word to the offsets where it starts.  A text is a sequence of *)
(* characters of five sorts; a word is a sequence of lowercase letters.    *)
(* tab takes the hash table at its word (KeyMap): words do not collide.    *)
(***************************************************************************)
EXTENDS Integers, SequencesExt

CONSTANTS Letters, tolower,   \* the alphabet and its map to lowercase
          Boundary,           \* a character between words
          NonAscii, NUL,      \* a byte above 0x7F, and the terminator
          Files,              \* the regular files
          Bytes               \* what each of them holds

Characters == Letters \cup {Boundary, NonAscii, NUL}

ASSUME LettersAssumption ==
  /\ tolower \in [Letters -> Letters]
  /\ \A c \in Letters : tolower[tolower[c]] = tolower[c]
ASSUME BoundaryAssumption ==
  /\ Boundary \notin Letters \cup {NUL, NonAscii} /\ NUL \notin Letters \cup {NonAscii}
  /\ NonAscii \notin Letters
ASSUME BytesAssumption == Bytes \in [Files -> Seq(Characters)]

VARIABLES
  pc,            \* where the program is
  exited,        \* the check on which Verify333 ended the process, or "no"
  file,          \* the path HandleFile was called with
  buf,           \* file_buf, then file_contents: the text, changed in place
  left_to_read,  \* ReadFileToString's count
  cur_ptr, word_start,  \* InsertContent's pointers, word_start = 0 for NULL
  tab            \* the words found so far, with their positions

parserVars == <<file, buf, left_to_read, cur_ptr, word_start, tab>>

EmptyTable == [w \in {} |-> <<>>]

ParserInit ==
  /\ file = 0 /\ buf = <<>> /\ left_to_read = 0
  /\ cur_ptr = 1 /\ word_start = 0 /\ tab = EmptyTable

At(label) == exited = "no" /\ pc = label
Exit(why) == exited' = why /\ UNCHANGED pc

-----------------------------------------------------------------------------
(* ReadFileToString.  stat has told the size; open and read may fail, read *)
(* may bring less than asked for, and nothing once the file was truncated. *)
(* A read that is interrupted changes nothing.                             *)
StartReading(f) ==
  /\ file' = f /\ buf' = <<>> /\ left_to_read' = Len(Bytes[f])
  /\ UNCHANGED <<cur_ptr, word_start, tab>>

FaultyReceive(n) == SubSeq(Bytes[file], 1, n)
Receive(n) == buf \o SubSeq(Bytes[file], Len(buf) + 1, Len(buf) + n)

Read ==
  /\ At("reading") /\ left_to_read > 0
  /\ \/ \E n \in 1..left_to_read :
          /\ buf' = Receive(n) /\ left_to_read' = left_to_read - n
          /\ UNCHANGED pc
     \/ pc' = "read" /\ left_to_read' = 0 /\ UNCHANGED buf
  /\ UNCHANGED <<exited, file, cur_ptr, word_start, tab>>

ReadAll ==
  /\ At("reading") /\ left_to_read = 0
  /\ pc' = "read" /\ UNCHANGED <<exited, parserVars>>

-----------------------------------------------------------------------------
(* ParseIntoWordPositionsTable sees the C string, up to the first NUL.     *)
CString(text) ==
  SubSeq(text, 1, IF Contains(text, NUL) THEN SelectInSeq(text, LAMBDA c : c = NUL) - 1 ELSE Len(text))

Rejected(text) == CString(text) = <<>> \/ NonAscii \in Range(CString(text))

StartParsing ==
  /\ buf' = CString(buf)
  /\ cur_ptr' = 1 /\ word_start' = 0 /\ tab' = EmptyTable
  /\ UNCHANGED <<file, left_to_read>>

AddWordPosition(word, pos) ==
  tab' = [w \in DOMAIN tab \cup {word} |->
            (IF w \in DOMAIN tab THEN tab[w] ELSE <<>>) \o (IF w = word THEN <<pos>> ELSE <<>>)]

(* The two branches of InsertContent's loop.                               *)
InsertLetter ==
  /\ At("parsing") /\ cur_ptr <= Len(buf) /\ buf[cur_ptr] \in Letters
  /\ word_start' = IF word_start = 0 THEN cur_ptr ELSE word_start
  /\ buf' = [buf EXCEPT ![cur_ptr] = tolower[@]]
  /\ cur_ptr' = cur_ptr + 1
  /\ UNCHANGED <<pc, exited, file, left_to_read, tab>>

FaultyWordEnds == word_start
WordEnds == 0

InsertBoundary ==
  /\ At("parsing") /\ cur_ptr <= Len(buf) /\ buf[cur_ptr] \notin Letters
  /\ IF word_start = 0
     THEN UNCHANGED <<buf, word_start, tab>>
     ELSE /\ buf' = [buf EXCEPT ![cur_ptr] = NUL]
          /\ AddWordPosition(SubSeq(buf, word_start, cur_ptr - 1), word_start - 1)
          /\ word_start' = WordEnds
  /\ cur_ptr' = cur_ptr + 1
  /\ UNCHANGED <<pc, exited, file, left_to_read>>

Parsed == At("parsing") /\ cur_ptr > Len(buf)

(* The text is freed when the table is returned.                           *)
FreeText ==
  /\ buf' = <<>> /\ cur_ptr' = 1 /\ word_start' = 0
  /\ UNCHANGED <<file, left_to_read>>

-----------------------------------------------------------------------------
(* What the table of a text should be.  A run of letters counts where it   *)
(* ends in a boundary character: the loop never records the word that the  *)
(* end of the text cuts off.                                               *)
Run(s, i, j) ==
  /\ i <= j /\ \A k \in i..j : s[k] \in Letters
  /\ i = 1 \/ s[i - 1] \notin Letters
Ended(s) == {ij \in (DOMAIN s) \X (DOMAIN s) : Run(s, ij[1], ij[2]) /\ ij[2] < Len(s) /\ s[ij[2] + 1] \notin Letters}

Ascending(numbers) == CHOOSE s \in SetToSeqs(numbers) : \A k, l \in DOMAIN s : k < l => s[k] < s[l]
Lowered(s, ij) == [k \in 1..ij[2] - ij[1] + 1 |-> tolower[s[ij[1] + k - 1]]]
WordsAt(s, runs) ==
  LET positions(w) == {ij[1] - 1 : ij \in {r \in runs : Lowered(s, r) = w}}
  IN [w \in {Lowered(s, ij) : ij \in runs} |-> Ascending(positions(w))]

WordTable(text) ==
  IF Rejected(text) THEN EmptyTable ELSE WordsAt(CString(text), Ended(CString(text)))
=============================================================================
