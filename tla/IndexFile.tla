------------------------------ MODULE IndexFile ------------------------------
(***************************************************************************)
(* The layout of an index file: where hw3/WriteIndex.cc puts the records   *)
(* of the two hash tables, one of them with a table inside each of its     *)
(* elements, and how the readers of hw3 find them again.  (WriteIndex.tla  *)
(* has what a crash leaves of the file.)                                   *)
(*                                                                         *)
(* A hash table is the sequence of its buckets' chains; a file is a map    *)
(* from offsets to records.  fwrite is atomic here, and may fail.          *)
(***************************************************************************)
EXTENDS Integers, SequencesExt

CONSTANTS Words, Names,   \* the words, the documents' names
          Hash,           \* FNVHash64 of each word
          Length,         \* the length of each word and name
          DocTables, MemIndexes   \* the tables that may be written

ASSUME LengthsAssumption == \A n \in Words \cup Names : Length[n] \in Nat \ {0} /\ Length[n] <= 32767
ASSUME HashAssumption == Hash \in [Words -> Nat]

(* Chains hold an element in the bucket of its key (HashTable.tla).        *)
Elements(t) == UNION {Range(t[b]) : b \in DOMAIN t}
IsTable(t) ==
  /\ t \in Seq(Range(t)) \ {<<>>}
  /\ \A b \in DOMAIN t : t[b] \in Seq(Range(t[b])) /\ \A e \in Range(t[b]) : e.key % Len(t) = b - 1
IsDocTable(t) == IsTable(t) /\ Elements(t) \subseteq [key : Nat \ {0}, name : Names]
IsPostings(t) == IsTable(t) /\ \A e \in Elements(t) : e.key \in Nat \ {0} /\ e.positions \in Seq(Nat) \ {<<>>}
IsMemIndex(t) ==
  IsTable(t) /\ \A e \in Elements(t) : e.word \in Words /\ e.key = Hash[e.word] /\ IsPostings(e.postings)
KeysAreUnique(t) == \A d, e \in Elements(t) : d.key = e.key => d = e

ASSUME TablesAssumption ==
  /\ \A t \in DocTables : IsDocTable(t) /\ KeysAreUnique(t)
  /\ \A t \in MemIndexes : IsMemIndex(t) /\ KeysAreUnique(t) /\ \A e \in Elements(t) : KeysAreUnique(e.postings)

VARIABLES
  dt, mi,     \* WriteIndex's arguments
  file,       \* the file: a record and its size at each offset written
  phase,         \* what WriteIndex does next
  stack,      \* the calls of WriteHashTable that are open
  cur_pos, dt_bytes, mi_bytes   \* the end of the tables, and their sizes

layoutVars == <<dt, mi, file, phase, stack, cur_pos, dt_bytes, mi_bytes>>

(* The structs of LayoutStructs.h are packed.                              *)
SizeofIndexFileHeader == 16
SizeofBucketListHeader == 4
SizeofBucketRecord == 8
SizeofElementPositionRecord == 4
SizeofDoctableElementHeader == 10
SizeofWordPostingsHeader == 6
SizeofDocIDElementHeader == 12
SizeofDocIDElementPosition == 4

(* The lengths are written as int16_t.                                     *)
Int16(n) == IF n % 65536 < 32768 THEN n % 65536 ELSE (n % 65536) - 65536

Record(offset, type, size, data) == [at |-> offset, type |-> type, size |-> size, data |-> data]
NoFile == [o \in {} |-> Record(o, "", 0, <<>>)]

(* The documents of the index are in the document table (SearchShell.tla). *)
DocIds == {e.key : e \in Elements(dt)}
Consistent == \A e \in Elements(mi) : \A p \in Elements(e.postings) : p.key \in DocIds

LayoutInit ==
  /\ dt \in DocTables /\ mi \in MemIndexes /\ Consistent
  /\ file = NoFile /\ phase = "doctable" /\ stack = <<>>
  /\ cur_pos = SizeofIndexFileHeader /\ dt_bytes = 0 /\ mi_bytes = 0

(* A record that is written again replaces the one at its offset.          *)
Write(records) ==
  file' = [o \in DOMAIN file \cup {r.at : r \in records} |->
             IF \E r \in records : r.at = o THEN CHOOSE r \in records : r.at = o ELSE file[o]]

-----------------------------------------------------------------------------
(* WriteHashTable, called for a table of a kind at an offset: the header,  *)
(* a record for every bucket, and the buckets behind all the records.      *)
FaultyBucketsStart(t, offset) == offset + Len(t) * SizeofBucketRecord
BucketsStart(t, offset) == offset + SizeofBucketListHeader + Len(t) * SizeofBucketRecord

Call(kind, t, offset) ==
  [kind |-> kind, table |-> t, offset |-> offset, step |-> "record", bucket |-> 1,
   record_pos |-> offset + SizeofBucketListHeader, bucket_pos |-> BucketsStart(t, offset),
   elt |-> 0, elt_record_pos |-> 0, element_pos |-> 0]

BucketListHeader(t, offset) ==
  Record(offset, "buckets", SizeofBucketListHeader, [num_buckets |-> Len(t)])

Top == stack[Len(stack)]
Chain == Top.table[Top.bucket]
Element == Chain[Top.elt]
SetTop(call) == stack' = [stack EXCEPT ![Len(stack)] = call]

FaultyRecordStep(chain) == IF chain = <<>> THEN 0 ELSE SizeofBucketRecord
RecordStep(chain) == SizeofBucketRecord

(* A bucket record; no bucket follows where the chain is empty.            *)
WriteHTBucketRecord ==
  /\ stack # <<>> /\ Top.step = "record" /\ Top.bucket <= Len(Top.table)
  /\ Write({Record(Top.record_pos, "bucket_rec", SizeofBucketRecord,
                   [chain_num_elements |-> Len(Chain), position |-> Top.bucket_pos])})
  /\ SetTop(IF Chain = <<>>
            THEN [Top EXCEPT !.bucket = @ + 1, !.record_pos = @ + RecordStep(Chain)]
            ELSE [Top EXCEPT !.record_pos = @ + RecordStep(Chain), !.step = "element", !.elt = 1,
                             !.elt_record_pos = Top.bucket_pos,
                             !.element_pos = Top.bucket_pos + SizeofElementPositionRecord * Len(Chain)])
  /\ UNCHANGED <<dt, mi, phase, cur_pos, dt_bytes, mi_bytes>>

(* WriteHTBucket: the position of an element, then the element.            *)
ElementPosition ==
  Record(Top.elt_record_pos, "element_pos", SizeofElementPositionRecord, [position |-> Top.element_pos])

Advanced(call, bytes) ==
  [call EXCEPT !.elt = @ + 1, !.elt_record_pos = @ + SizeofElementPositionRecord, !.element_pos = @ + bytes]

WriteDocidToDocnameFn ==
  /\ stack # <<>> /\ Top.step = "element" /\ Top.elt <= Len(Chain) /\ Top.kind = "doctable"
  /\ LET header == SizeofDoctableElementHeader
         file_name_bytes == Int16(Length[Element.name])
     IN /\ Write({ElementPosition,
                  Record(Top.element_pos, "doc", header, [doc_id |-> Element.key, file_name_bytes |-> file_name_bytes]),
                  Record(Top.element_pos + header, "name", file_name_bytes, [name |-> Element.name])})
        /\ SetTop(Advanced(Top, header + file_name_bytes))
  /\ UNCHANGED <<dt, mi, phase, cur_pos, dt_bytes, mi_bytes>>

WriteDocIDToPositionListFn ==
  /\ stack # <<>> /\ Top.step = "element" /\ Top.elt <= Len(Chain) /\ Top.kind = "docids"
  /\ LET header == SizeofDocIDElementHeader
         num_positions == Len(Element.positions)
         bytes == num_positions * SizeofDocIDElementPosition
     IN /\ Write({ElementPosition,
                  Record(Top.element_pos, "docid", header, [doc_id |-> Element.key, num_positions |-> num_positions]),
                  Record(Top.element_pos + header, "positions", bytes, [positions |-> Element.positions])})
        /\ SetTop(Advanced(Top, header + bytes))
  /\ UNCHANGED <<dt, mi, phase, cur_pos, dt_bytes, mi_bytes>>

(* A word's postings are written first, behind the place of its header and *)
(* letters, which are known when WriteHashTable has returned.              *)
WriteWordToPostingsFn ==
  /\ stack # <<>> /\ Top.step = "element" /\ Top.elt <= Len(Chain) /\ Top.kind = "index"
  /\ LET offset == Top.element_pos + SizeofWordPostingsHeader + Int16(Length[Element.word])
     IN /\ Write({ElementPosition, BucketListHeader(Element.postings, offset)})
        /\ stack' = Append(stack, Call("docids", Element.postings, offset))
  /\ UNCHANGED <<dt, mi, phase, cur_pos, dt_bytes, mi_bytes>>

EndOfBucket ==
  /\ stack # <<>> /\ Top.step = "element" /\ Top.elt > Len(Chain)
  /\ SetTop([Top EXCEPT !.step = "record", !.bucket = @ + 1, !.bucket_pos = Top.element_pos])
  /\ UNCHANGED <<dt, mi, file, phase, cur_pos, dt_bytes, mi_bytes>>

(* WriteHashTable returns how many bytes it took.                          *)
TableWritten == stack # <<>> /\ Top.step = "record" /\ Top.bucket > Len(Top.table)
TableBytes == Top.bucket_pos - Top.offset

PostingsWritten ==
  /\ TableWritten /\ Len(stack) = 2
  /\ LET call == stack[1]
         word == call.table[call.bucket][call.elt].word
         word_bytes == Int16(Length[word])
     IN /\ Write({Record(call.element_pos, "word_header", SizeofWordPostingsHeader,
                         [word_bytes |-> word_bytes, postings_bytes |-> TableBytes]),
                  Record(call.element_pos + SizeofWordPostingsHeader, "word", word_bytes, [word |-> word])})
        /\ stack' = <<Advanced(call, SizeofWordPostingsHeader + word_bytes + TableBytes)>>
  /\ UNCHANGED <<dt, mi, phase, cur_pos, dt_bytes, mi_bytes>>

-----------------------------------------------------------------------------
(* WriteIndex: the document table behind the place of the header, then the *)
(* index, then the header.                                                 *)
WriteDocTable ==
  /\ phase = "doctable" /\ stack = <<>>
  /\ Write({BucketListHeader(dt, cur_pos)}) /\ stack' = <<Call("doctable", dt, cur_pos)>>
  /\ UNCHANGED <<dt, mi, phase, cur_pos, dt_bytes, mi_bytes>>

DocTableWritten ==
  /\ phase = "doctable" /\ TableWritten
  /\ dt_bytes' = TableBytes /\ cur_pos' = cur_pos + TableBytes
  /\ stack' = <<>> /\ phase' = "index"
  /\ UNCHANGED <<dt, mi, file, mi_bytes>>

WriteMemIndex ==
  /\ phase = "index" /\ stack = <<>>
  /\ Write({BucketListHeader(mi, cur_pos)}) /\ stack' = <<Call("index", mi, cur_pos)>>
  /\ UNCHANGED <<dt, mi, phase, cur_pos, dt_bytes, mi_bytes>>

MemIndexWritten ==
  /\ phase = "index" /\ TableWritten /\ Len(stack) = 1
  /\ mi_bytes' = TableBytes /\ cur_pos' = cur_pos + TableBytes
  /\ stack' = <<>> /\ phase' = "header"
  /\ UNCHANGED <<dt, mi, file, dt_bytes>>

WriteFileHeader ==
  /\ phase = "header"
  /\ Write({Record(0, "file_header", SizeofIndexFileHeader, [doctable_bytes |-> dt_bytes, index_bytes |-> mi_bytes])})
  /\ phase' = "written"
  /\ UNCHANGED <<dt, mi, stack, cur_pos, dt_bytes, mi_bytes>>

(* Any of the writes may fail; every caller hands kFailedWrite on and the  *)
(* file is deleted.                                                        *)
WriteFails ==
  /\ phase \in {"doctable", "index", "header"}
  /\ file' = NoFile /\ stack' = <<>> /\ phase' = "failed"
  /\ UNCHANGED <<dt, mi, cur_pos, dt_bytes, mi_bytes>>

Returned == phase \in {"written", "failed"} /\ UNCHANGED layoutVars

LayoutNext ==
  \/ WriteDocTable \/ DocTableWritten \/ WriteMemIndex \/ MemIndexWritten \/ WriteFileHeader
  \/ WriteHTBucketRecord \/ WriteDocidToDocnameFn \/ WriteDocIDToPositionListFn
  \/ WriteWordToPostingsFn \/ EndOfBucket \/ PostingsWritten
  \/ WriteFails \/ Returned

LayoutSpec == LayoutInit /\ [][LayoutNext]_layoutVars

-----------------------------------------------------------------------------
(* The variables hold values of their types; a call of WriteHashTable      *)
(* writes the record of bucket b at its place, before and while it writes  *)
(* the bucket, and the elements behind their positions.                    *)
LayoutTypeOK ==
  /\ dt \in DocTables /\ mi \in MemIndexes
  /\ phase \in {"doctable", "index", "header", "written", "failed"}
  /\ DOMAIN file \subseteq Nat /\ \A o \in DOMAIN file : file[o].size \in Nat \ {0}
  /\ cur_pos = SizeofIndexFileHeader + dt_bytes + mi_bytes \/ phase = "failed"
  /\ Len(stack) \in 0..2
  /\ \A n \in DOMAIN stack : LET call == stack[n] IN
       /\ call.step \in {"record", "element"}
       /\ call.bucket \in 1..Len(call.table) + 1
       /\ call.record_pos = call.offset + SizeofBucketListHeader
            + SizeofBucketRecord * (IF call.step = "record" THEN call.bucket - 1 ELSE call.bucket)
       /\ call.step = "element" =>
            /\ call.elt \in 1..Len(call.table[call.bucket]) + 1
            /\ call.elt_record_pos = call.bucket_pos + SizeofElementPositionRecord * (call.elt - 1)
            /\ call.elt_record_pos < call.element_pos

(* No record is written over another one, at any moment, though they are   *)
(* not written in the order of the file; and when the file is complete     *)
(* they cover it from its first byte to its last, without a hole.          *)
Ends(o) == o + file[o].size
FileIsTiled ==
  /\ \A o, p \in DOMAIN file : o < p => Ends(o) <= p
  /\ phase = "written" =>
       /\ 0 \in DOMAIN file
       /\ \A o \in DOMAIN file : Ends(o) \in DOMAIN file \cup {cur_pos}
=============================================================================
