---------------------------- MODULE IndexReaders ----------------------------
(***************************************************************************)
(* The readers of an index file (hw3/HashTableReader.cc, DocTableReader.cc,*)
(* DocIDTableReader.cc, IndexTableReader.cc, FileIndexReader.cc), each the *)
(* table at an offset of the file, and what they must find in a file that  *)
(* IndexFile has written.  A result is <<>> for not found, <<x>> for x.    *)
(***************************************************************************)
EXTENDS IndexFile

(* What an fread at an offset brings, which must be a record of its type.  *)
At(o) == file[o].data
Holds(o, type) == o \in DOMAIN file /\ file[o].type = type

BucketRecordAt(offset, b) == At(offset + SizeofBucketListHeader + SizeofBucketRecord * b)
ElementsOf(rec) ==
  [k \in 1..rec.chain_num_elements |-> At(rec.position + (k - 1) * SizeofElementPositionRecord).position]

LookupElementPositions(offset, hash_key) ==
  ElementsOf(BucketRecordAt(offset, hash_key % At(offset).num_buckets))

(* The first of the elements that are hits.                                *)
FirstElement(elements, hits) == IF hits = {} THEN <<>> ELSE <<elements[Min(hits)]>>

(* DocTableReader::LookupDocID.                                            *)
LookupDocName(offset, doc_id) ==
  LET elements == LookupElementPositions(offset, doc_id)
      found == FirstElement(elements, {k \in DOMAIN elements : At(elements[k]).doc_id = doc_id})
  IN [k \in DOMAIN found |-> At(found[k] + SizeofDoctableElementHeader).name]

(* IndexTableReader::LookupWord: the offset of the word's DocIDTableReader.*)
FaultySameWord(o, word) == At(o).word_bytes = Length[word]
SameWord(o, word) ==
  At(o).word_bytes = Length[word] /\ At(o + SizeofWordPostingsHeader).word = word

LookupWord(offset, word) ==
  LET elements == LookupElementPositions(offset, Hash[word])
      found == FirstElement(elements, {k \in DOMAIN elements : SameWord(elements[k], word)})
  IN [k \in DOMAIN found |-> found[k] + SizeofWordPostingsHeader + At(found[k]).word_bytes]

(* DocIDTableReader::LookupDocID and GetDocIDList.                         *)
LookupDocID(offset, doc_id) ==
  LET elements == LookupElementPositions(offset, doc_id)
      found == FirstElement(elements, {k \in DOMAIN elements : At(elements[k]).doc_id = doc_id})
  IN [k \in DOMAIN found |->
        SubSeq(At(found[k] + SizeofDocIDElementHeader).positions, 1, At(found[k]).num_positions)]

GetDocIDList(offset) ==
  FlattenSeq([b \in 1..At(offset).num_buckets |->
    LET elements == ElementsOf(BucketRecordAt(offset, b - 1)) IN [k \in DOMAIN elements |-> At(elements[k])]])

(* FileIndexReader's constructor checks the sizes; its readers' offsets.   *)
FileSize == CHOOSE n \in {o + file[o].size : o \in DOMAIN file} : \A o \in DOMAIN file : o + file[o].size <= n
HeaderIsValid ==
  Holds(0, "file_header") /\ FileSize = SizeofIndexFileHeader + At(0).doctable_bytes + At(0).index_bytes
NewDocTableReader == SizeofIndexFileHeader
NewIndexTableReader == SizeofIndexFileHeader + At(0).doctable_bytes

-----------------------------------------------------------------------------
(* The chains of a table in the file are those of the table in memory.     *)
Readable(offset, t) ==
  /\ Holds(offset, "buckets") /\ At(offset).num_buckets = Len(t)
  /\ \A b \in DOMAIN t :
       /\ Holds(offset + SizeofBucketListHeader + SizeofBucketRecord * (b - 1), "bucket_rec")
       /\ LET rec == BucketRecordAt(offset, b - 1) IN
            /\ rec.chain_num_elements = Len(t[b])
            /\ \A k \in DOMAIN t[b] :
                 Holds(rec.position + (k - 1) * SizeofElementPositionRecord, "element_pos")

NameOf(doc_id) == {e.name : e \in {d \in Elements(dt) : d.key = doc_id}}
PostingsOf(word) == {e.postings : e \in {d \in Elements(mi) : d.word = word}}
PositionsIn(t, doc_id) == {e.positions : e \in {d \in Elements(t) : d.key = doc_id}}
Headers(t) == FlattenSeq([b \in DOMAIN t |-> [k \in DOMAIN t[b] |->
                [doc_id |-> t[b][k].key, num_positions |-> Len(t[b][k].positions)]]])

(* DocTableReader.h:39-49, IndexTableReader.h:37-49, DocIDTableReader.h:   *)
(* 45-66: the readers find in the file every name, word, document and      *)
(* position of the tables that were written, and nothing else: not a word  *)
(* or a document that shares a bucket, a hash or a length with another.    *)
ReadersFindTheTables ==
  phase = "written" =>
    /\ HeaderIsValid
    /\ Readable(NewDocTableReader, dt) /\ Readable(NewIndexTableReader, mi)
    /\ \A d \in DocIds \cup {Len(dt) + 1, 2 * Len(dt) + 1} : Range(LookupDocName(NewDocTableReader, d)) = NameOf(d)
    /\ \A w \in Words :
         LET found == LookupWord(NewIndexTableReader, w)
         IN /\ (found = <<>>) = (PostingsOf(w) = {})
            /\ found # <<>> => \A t \in PostingsOf(w) :
                 /\ Readable(found[1], t)
                 /\ GetDocIDList(found[1]) = Headers(t)
                 /\ \A d \in DocIds : Range(LookupDocID(found[1], d)) = PositionsIn(t, d)
=============================================================================
