------------------------------ MODULE MemIndex ------------------------------
(***************************************************************************)
(* hw2/MemIndex.c: the inverted index, a hash table from each word to a    *)
(* hash table from document ids to lists of positions (both taken as       *)
(* maps), and the search, which thins out a list of results while an       *)
(* iterator walks over it.                                                 *)
(***************************************************************************)
EXTENDS Integers, SequencesExt

VARIABLES
  index,      \* the inverted index
  query,      \* MemIndex_Search's argument
  ret_list,   \* the results so far: records of doc_id and rank
  i,          \* the query word the loop is at
  j, num_docs,   \* the inner loop's counter and bound
  ll_it       \* the iterator's position in ret_list, 0 for none

searchVars == <<query, ret_list, i, j, num_docs, ll_it>>

MemIndexInit ==
  /\ index = [w \in {} |-> [d \in {} |-> <<>>]]
  /\ query = <<>> /\ ret_list = <<>> /\ i = 1 /\ j = 0 /\ num_docs = 0 /\ ll_it = 0

Postings(word) == IF word \in DOMAIN index THEN index[word] ELSE [d \in {} |-> <<>>]

(* MemIndex_AddPostingList verifies that the document is new to the word.  *)
PostingIsNew(word, doc_id) == doc_id \notin DOMAIN Postings(word)

MemIndex_AddPostingList(word, doc_id, positions) ==
  index' = [w \in DOMAIN index \cup {word} |->
              IF w # word THEN index[w]
              ELSE [d \in DOMAIN Postings(word) \cup {doc_id} |->
                      IF d = doc_id THEN positions ELSE Postings(word)[d]]]

-----------------------------------------------------------------------------
Occurs(word) == word \in DOMAIN index
Result(word, d) == [doc_id |-> d, rank |-> Len(index[word][d])]

(* The results of the first word, in the order of its table's buckets.     *)
FirstResults(list) ==
  \E docs \in SetToSeqs(DOMAIN index[query[1]]) :
    list = [k \in DOMAIN docs |-> Result(query[1], docs[k])]

(* A pass over the list for query[i] starts with the iterator at its head. *)
StartPass == j' = 0 /\ num_docs' = Len(ret_list) /\ ll_it' = 1

(* The bound of the loop is the length the list had before the pass.       *)
FaultyPassBound == Len(ret_list)
PassBound == num_docs

(* LLIterator_Next, and LLIterator_Remove: the successor takes the place,  *)
(* at the tail the predecessor does.                                       *)
AfterNext(it, list) == IF it < Len(list) THEN it + 1 ELSE 0
AfterRemove(it, list) == IF it < Len(list) THEN it ELSE it - 1

KeepDocument ==
  /\ ll_it \in DOMAIN ret_list /\ ret_list[ll_it].doc_id \in DOMAIN index[query[i]]
  /\ ret_list' = [ret_list EXCEPT ![ll_it].rank = @ + Len(index[query[i]][ret_list[ll_it].doc_id])]
  /\ ll_it' = AfterNext(ll_it, ret_list)
  /\ j' = j + 1

DropDocument ==
  /\ ll_it \in DOMAIN ret_list /\ ret_list[ll_it].doc_id \notin DOMAIN index[query[i]]
  /\ ret_list' = RemoveAt(ret_list, ll_it)
  /\ ll_it' = AfterRemove(ll_it, ret_list)
  /\ j' = j + 1

(* LinkedList_Sort by descending rank keeps the order of equal results.    *)
Descending(list) == \A k, l \in DOMAIN list : k < l => list[k].rank >= list[l].rank
Stable(s, list) ==
  \A k, l \in DOMAIN s : k < l /\ s[k].rank = s[l].rank =>
    SelectInSeq(list, LAMBDA r : r = s[k]) < SelectInSeq(list, LAMBDA r : r = s[l])
Sorted(list) == CHOOSE s \in SetToSeqs(Range(list)) : Descending(s) /\ Stable(s, list)
=============================================================================
