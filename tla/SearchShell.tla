---------------------------- MODULE SearchShell ----------------------------
(***************************************************************************)
(* hw2/searchshell.c: crawl a directory, then answer the queries typed in. *)
(* A query is the sequence of its words in lowercase; a line is dropped    *)
(* when the input ends before its newline.  A NULL result is <<>>.         *)
(***************************************************************************)
EXTENDS CrawlFileTree

CONSTANTS Queries,     \* the queries that may be typed in
          MaxQueries   \* bound: the number of queries

ASSUME QueriesAssumption == Queries \subseteq Seq(Seq(Letters)) /\ MaxQueries \in Nat

VARIABLES
  asked,    \* how many queries were typed in
  printed   \* the names and ranks shown for the last one

shellVars == <<asked, printed>>
vars == <<pc, exited, parserVars, docTableVars, index, searchVars, crawlVars, shellVars>>

Init ==
  /\ pc = "start" /\ exited = "no"
  /\ ParserInit /\ DocTable_Allocate /\ MemIndexInit /\ CrawlInit
  /\ asked = 0 /\ printed = <<>>

Indexed == <<parserVars, docTableVars, index, crawlVars>>

(* MemIndex_Search returns ret_list, or NULL.                              *)
Return(list) == ret_list' = list /\ pc' = "answered"

ReadQuery(q) ==
  /\ At("prompt") /\ asked < MaxQueries
  /\ query' = q /\ asked' = asked + 1 /\ pc' = "search"
  /\ UNCHANGED <<Indexed, exited, ret_list, i, j, num_docs, ll_it, printed>>

EndOfInput ==
  /\ At("prompt") /\ pc' = "closed"
  /\ UNCHANGED <<Indexed, exited, searchVars, shellVars>>

SearchFirst ==
  /\ At("search")
  /\ IF query = <<>> \/ ~Occurs(query[1])
     THEN Return(<<>>)
     ELSE FirstResults(ret_list') /\ pc' = "word"
  /\ i' = 2
  /\ UNCHANGED <<Indexed, exited, query, j, num_docs, ll_it, shellVars>>

SearchNext ==
  /\ At("word")
  /\ \/ i > Len(query) /\ Return(Sorted(ret_list)) /\ UNCHANGED <<j, num_docs, ll_it>>
     \/ i <= Len(query) /\ ~Occurs(query[i]) /\ Return(<<>>) /\ UNCHANGED <<j, num_docs, ll_it>>
     \/ i <= Len(query) /\ Occurs(query[i]) /\ StartPass /\ pc' = "pass" /\ UNCHANGED ret_list
  /\ UNCHANGED <<Indexed, exited, query, i, shellVars>>

Pass ==
  /\ At("pass") /\ j < PassBound
  /\ KeepDocument \/ DropDocument
  /\ UNCHANGED <<Indexed, pc, exited, query, i, num_docs, shellVars>>

EndOfPass ==
  /\ At("pass") /\ j >= PassBound
  /\ IF ret_list = <<>>
     THEN Return(<<>>) /\ UNCHANGED i
     ELSE i' = i + 1 /\ pc' = "word" /\ UNCHANGED ret_list
  /\ UNCHANGED <<Indexed, exited, query, j, num_docs, ll_it, shellVars>>

ShowResults ==
  /\ At("answered")
  /\ printed' = [k \in DOMAIN ret_list |->
                   [name |-> DocTable_GetDocName(ret_list[k].doc_id), rank |-> ret_list[k].rank]]
  /\ pc' = "prompt"
  /\ UNCHANGED <<Indexed, exited, searchVars, asked>>

(* The program has ended.                                                  *)
Stopped == (pc \in {"failed", "closed"} \/ exited # "no") /\ UNCHANGED vars

Search == SearchFirst \/ SearchNext \/ Pass \/ EndOfPass \/ ShowResults
Next ==
  \/ Crawl /\ UNCHANGED shellVars
  \/ Search \/ EndOfInput
  \/ \E q \in Queries : ReadQuery(q)
  \/ Stopped

(* The program is never kept from its next step but at the prompt; a read  *)
(* is not interrupted for ever.                                            *)
Spec == Init /\ [][Next]_vars /\ WF_vars(Crawl /\ UNCHANGED shellVars) /\ WF_vars(Search)

-----------------------------------------------------------------------------
(* The variables hold values of their types; while a file is read, what is *)
(* in the buffer is what was taken off left_to_read, and a word being read *)
(* starts before cur_ptr.                                                  *)
TypeOK ==
  /\ pc \in {"start", "failed", "entry", "reading", "read", "parsing", "posting",
             "prompt", "search", "word", "pass", "answered", "closed"}
  /\ exited \in {"no", "unreadable", "empty", "posting"}
  /\ file \in Files \cup {0} /\ buf \in Seq(Characters) /\ left_to_read \in Nat
  /\ pc = "reading" => Len(buf) + left_to_read = Len(Bytes[file])
  /\ cur_ptr \in 1..Len(buf) + 1 /\ word_start \in 0..cur_ptr - 1
  /\ DOMAIN tab \subseteq Seq(Letters) /\ \A w \in DOMAIN tab : tab[w] \in Seq(Nat) \ {<<>>}
  /\ max_id \in Nat \ {INVALID_DOCID} /\ doc_id \in 0..max_id - 1
  /\ DOMAIN index \subseteq Seq(Letters)
  /\ query \in Queries \cup {<<>>} /\ ret_list \in Seq([doc_id : DOMAIN id_to_name, rank : Nat])
  /\ ll_it \in 0..Len(ret_list) \/ pc # "pass"
  /\ \A k \in DOMAIN dirs : dirs[k].i \in 1..Len(dirs[k].path_name) + 1

(* DocTable.h:42-100: the two tables are each other's inverse and the ids  *)
(* count up from 1, whatever files are added; every document that the      *)
(* index names has a name to print.                                        *)
TablesAreInverse ==
  /\ DOMAIN id_to_name = 1..max_id - 1
  /\ \A d \in DOMAIN id_to_name : DocTable_GetDocID(DocTable_GetDocName(d)) = d
  /\ \A name \in DOMAIN name_to_id : DocTable_GetDocName(DocTable_GetDocID(name)) = name
  /\ \A w \in DOMAIN index : DOMAIN index[w] \subseteq DOMAIN id_to_name

(* What a crawl over the files in seen should leave behind.                *)
Indexable == {f \in DOMAIN seen : DOMAIN WordTable(seen[f]) # {}}
HoldsWord(w) == {f \in Indexable : w \in DOMAIN WordTable(seen[f])}
IndexOfSeen ==
  [w \in UNION {DOMAIN WordTable(seen[f]) : f \in Indexable} |->
     [d \in {name_to_id[f] : f \in HoldsWord(w)} |-> WordTable(seen[id_to_name[d]])[w]]]
Listed == UNION {tree[d] : d \in opened}
NothingCut == \A d \in opened : Cardinality(tree[d]) <= MAX_NUM_DIR_ENTRIES

(* CrawlFileTree.h:27-36: when the crawl has returned, the document table  *)
(* holds every file of the opened directories that has words, in the order *)
(* of the paths however readdir ordered them, and the index holds exactly  *)
(* their words, with the offsets in the text that was read, a prefix of    *)
(* the file.  Directories beyond MAX_NUM_DIR_ENTRIES are cut short, and a  *)
(* word that the text ends in is not recorded, although FileParser.c:241   *)
(* means to "handle last word".  The check of AddPostingList, that no      *)
(* document is posted twice to a word, never ends the process.             *)
IndexIsTheTree ==
  /\ exited # "posting"
  /\ pc = "prompt" =>
       /\ DOMAIN name_to_id = Indexable
       /\ \A f, g \in Indexable : f < g => name_to_id[f] < name_to_id[g]
       /\ index = IndexOfSeen
       /\ DOMAIN seen \subseteq Listed \cap Files
       /\ NothingCut => DOMAIN seen = Listed \cap Files
       /\ \A f \in DOMAIN seen : seen[f] = SubSeq(Bytes[f], 1, Len(seen[f]))

(* MemIndex.h:92-109: the search finds every document that has all the     *)
(* words, once, ranked by how often they occur (a word asked twice counts  *)
(* twice), in descending order, although it removes documents from the     *)
(* list it is walking over.                                                *)
Matches ==
  IF query = <<>> THEN {}
  ELSE {[doc_id |-> d, rank |-> SumFunction([k \in DOMAIN query |-> Len(index[query[k]][d])])] :
          d \in {e \in DOMAIN id_to_name : \A w \in Range(query) : e \in DOMAIN Postings(w)}}
SearchIsConjunction ==
  pc = "answered" => Range(ret_list) = Matches /\ IsInjective(ret_list) /\ Descending(ret_list)

(* The crawl comes to its end, and every query is answered, unless the     *)
(* process ends: whatever the tree, the texts and the query.               *)
ShellComesBack == []<>(pc \in {"prompt", "failed", "closed"} \/ exited # "no")
=============================================================================
