--------------------------- MODULE QueryProcessor ---------------------------
(***************************************************************************)
(* hw3/QueryProcessor.cc: the queries that filesearchshell and the threads *)
(* of hw4's server run over index files.  Each client constructs a         *)
(* QueryProcessor, asks it queries and deletes it.  The clients share      *)
(* nothing but the descriptors of their process: every reader has one of   *)
(* its own, from FileDup, and the process exits when there is none left.   *)
(*                                                                         *)
(* An index file is what its tables hold: for every word the documents,    *)
(* in the order of the buckets of the word's table, with their number of   *)
(* positions.  The files are well formed and do not change.                *)
(***************************************************************************)
EXTENDS Integers, SequencesExt

CONSTANTS Clients,     \* filesearchshell, or the server's threads
          NumIndexes,  \* the number of index files
          Words, Docs,
          Contents,    \* what an index file may hold
          Queries,     \* the queries that are asked
          MaxFds,      \* the descriptors the process may have open for this
          MaxQueries   \* bound: the queries asked in all

ASSUME CountsAssumption == NumIndexes \in Nat \ {0} /\ MaxFds \in Nat /\ MaxQueries \in Nat
ASSUME QueriesAssumption == Queries \subseteq Seq(Words)
ASSUME ClientsAssumption == IsFiniteSet(Clients)

Header == [doc_id : Docs, num_positions : Nat]
ASSUME ContentsAssumption ==
  /\ Contents \subseteq [Words -> Seq(Header)]
  /\ \A x \in Contents : \A w \in Words : \A k, l \in DOMAIN x[w] : x[w][k].doc_id = x[w][l].doc_id => k = l

VARIABLES
  files,     \* the index files
  fds,       \* the descriptors open for readers
  exited,    \* why Verify333 ended the process, or "no"
  pc,        \* where each client is
  index,     \* i of the loop over the files, in the constructor and the query
  query, word,  \* ProcessQuery's argument and j
  id_list, isValid, final_result,
  answered   \* history: the queries that have been answered

queryVars == <<query, word, id_list, isValid, final_result>>
vars == <<files, fds, exited, pc, index, queryVars, answered>>

Init ==
  /\ files \in [1..NumIndexes -> Contents]
  /\ fds = 0 /\ exited = "no" /\ answered = <<>>
  /\ pc = [c \in Clients |-> "none"]
  /\ index = [c \in Clients |-> 1]
  /\ query = [c \in Clients |-> <<>>]
  /\ word = [c \in Clients |-> 1]
  /\ id_list = [c \in Clients |-> <<>>]
  /\ isValid = [c \in Clients |-> TRUE]
  /\ final_result = [c \in Clients |-> <<>>]

At(c, label) == exited = "no" /\ pc[c] = label
Goto(c, label) == pc' = [pc EXCEPT ![c] = label]

(* Opening n descriptors: the process ends when they are not to be had.  A *)
(* descriptor that a step both opens and closes does not outlive the step. *)
Available(n) == fds + n <= MaxFds
Exit(why) == exited' = why /\ UNCHANGED <<files, fds, pc, index, queryVars, answered>>
RunsOut(n) == ~Available(n) /\ Exit("descriptors")

-----------------------------------------------------------------------------
(* The constructor: for each file a FileIndexReader, two dup'ed readers.   *)
New(c) ==
  /\ At(c, "none")
  /\ Goto(c, "opening") /\ index' = [index EXCEPT ![c] = 1]
  /\ UNCHANGED <<files, fds, exited, queryVars, answered>>

OpenIndexFile(c) ==
  /\ At(c, "opening")
  /\ \/ /\ Available(1)
        /\ fds' = fds + 1 /\ Goto(c, "opened")
        /\ UNCHANGED <<files, exited, index, queryVars, answered>>
     \/ RunsOut(1)

(* ~FileIndexReader closes its file once the readers have theirs.          *)
ClosedByFileIndexReader == 1

NewReaders(c) ==
  /\ At(c, "opened")
  /\ \/ /\ Available(2)
        /\ fds' = fds + 2 - ClosedByFileIndexReader
        /\ index' = [index EXCEPT ![c] = @ + 1]
        /\ Goto(c, IF index[c] = NumIndexes THEN "ready" ELSE "opening")
        /\ UNCHANGED <<files, exited, queryVars, answered>>
     \/ RunsOut(2)

ClosedByDelete == 2 * NumIndexes

Delete(c) ==
  /\ At(c, "ready")
  /\ fds' = fds - ClosedByDelete
  /\ Goto(c, "none")
  /\ query' = [query EXCEPT ![c] = <<>>]
  /\ final_result' = [final_result EXCEPT ![c] = <<>>]
  /\ UNCHANGED <<files, exited, index, word, id_list, isValid, answered>>

-----------------------------------------------------------------------------
(* ProcessQuery, with a step for every table it looks into.                *)
Busy == {c \in Clients : pc[c] \in {"first", "following", "collect"}}

ProcessQuery(c, q) ==
  /\ At(c, "ready") /\ Len(answered) + Cardinality(Busy) < MaxQueries
  /\ \/ /\ q # <<>>
        /\ query' = [query EXCEPT ![c] = q]
        /\ final_result' = [final_result EXCEPT ![c] = <<>>]
        /\ index' = [index EXCEPT ![c] = 1]
        /\ Goto(c, "first")
        /\ UNCHANGED <<files, fds, exited, word, id_list, isValid, answered>>
     \/ q = <<>> /\ Exit("empty query")

(* LookupWord: the table of a word, which is never empty.                  *)
GetDocIDList(c, j) == files[index[c]][query[c][j]]
Found(c, j) == GetDocIDList(c, j) # <<>>

(* The headers of list1 that list2 has one of the same document for, in    *)
(* the order of list1.                                                     *)
InOrder(places) == CHOOSE s \in SetToSeqs(places) : \A k, l \in DOMAIN s : k < l => s[k] < s[l]

MergeResult(list1, list2) ==
  LET Same(h) == SelectInSeq(list2, LAMBDA g : g.doc_id = h.doc_id)
      both == InOrder({k \in DOMAIN list1 : Same(list1[k]) # 0})
  IN [n \in DOMAIN both |->
        [list1[both[n]] EXCEPT !.num_positions = @ + list2[Same(list1[both[n]])].num_positions]]

LookupFirst(c) ==
  /\ At(c, "first") /\ index[c] <= NumIndexes
  /\ \/ /\ ~Found(c, 1)
        /\ index' = [index EXCEPT ![c] = @ + 1]
        /\ UNCHANGED <<files, fds, exited, pc, queryVars, answered>>
     \/ /\ Found(c, 1) /\ Available(1)
        /\ fds' = fds + 1
        /\ id_list' = [id_list EXCEPT ![c] = GetDocIDList(c, 1)]
        /\ isValid' = [isValid EXCEPT ![c] = TRUE]
        /\ word' = [word EXCEPT ![c] = 2]
        /\ Goto(c, "following")
        /\ UNCHANGED <<files, exited, index, query, final_result, answered>>
     \/ Found(c, 1) /\ RunsOut(1)

(* A reader of a following word is deleted when documents are left, and    *)
(* not when the loop ends because there are none.                          *)
FaultyKeepsReader(list) == TRUE
KeepsReader(list) == list = <<>>

FaultyNotFound(c) ==
  /\ Goto(c, "collect")
  /\ UNCHANGED <<files, fds, exited, index, queryVars, answered>>

NotFound(c) ==
  /\ isValid' = [isValid EXCEPT ![c] = FALSE]
  /\ Goto(c, "collect")
  /\ UNCHANGED <<files, fds, exited, index, query, word, id_list, final_result, answered>>

LookupFollowing(c) ==
  /\ At(c, "following") /\ word[c] <= Len(query[c])
  /\ \/ ~Found(c, word[c]) /\ NotFound(c)
     \/ /\ Found(c, word[c]) /\ Available(1)
        /\ LET merged == MergeResult(id_list[c], GetDocIDList(c, word[c]))
           IN /\ id_list' = [id_list EXCEPT ![c] = merged]
              /\ IF merged = <<>>
                 THEN Goto(c, "collect") /\ UNCHANGED word
                 ELSE word' = [word EXCEPT ![c] = @ + 1] /\ UNCHANGED pc
              /\ fds' = IF KeepsReader(merged) THEN fds + 1 ELSE fds
        /\ UNCHANGED <<files, exited, index, query, isValid, final_result, answered>>
     \/ Found(c, word[c]) /\ RunsOut(1)

Hits(c) == [k \in DOMAIN id_list[c] |->
              [index |-> index[c], doc |-> id_list[c][k].doc_id, rank |-> id_list[c][k].num_positions]]

Collect(c) ==
  /\ At(c, "collect") \/ (At(c, "following") /\ word[c] > Len(query[c]))
  /\ final_result' = IF isValid[c] THEN [final_result EXCEPT ![c] = @ \o Hits(c)] ELSE final_result
  /\ fds' = fds - 1
  /\ index' = [index EXCEPT ![c] = @ + 1]
  /\ Goto(c, "first")
  /\ UNCHANGED <<files, exited, query, word, id_list, isValid, answered>>

(* std::sort may order hits of equal rank either way.                      *)
Descending(s) == \A k, l \in DOMAIN s : k < l => s[k].rank >= s[l].rank
Arrangements(s) == {[k \in DOMAIN s |-> s[p[k]]] : p \in Bijection(DOMAIN s, DOMAIN s)}

SortResult(c) ==
  /\ At(c, "first") /\ index[c] > NumIndexes
  /\ \E s \in Arrangements(final_result[c]) :
       Descending(s) /\ final_result' = [final_result EXCEPT ![c] = s]
  /\ answered' = Append(answered, query[c])
  /\ Goto(c, "ready")
  /\ UNCHANGED <<files, fds, exited, index, query, word, id_list, isValid>>

Next ==
  \E c \in Clients :
    \/ New(c) \/ OpenIndexFile(c) \/ NewReaders(c) \/ Delete(c)
    \/ \E q \in Queries : ProcessQuery(c, q)
    \/ LookupFirst(c) \/ LookupFollowing(c) \/ Collect(c) \/ SortResult(c)

Spec == Init /\ [][Next]_vars

-----------------------------------------------------------------------------
(* The variables hold values of their types; index[c] runs one past the    *)
(* files and word[c] one past the query.                                   *)
TypeOK ==
  /\ files \in [1..NumIndexes -> Contents]
  /\ fds \in 0..MaxFds /\ exited \in {"no", "descriptors", "empty query"}
  /\ pc \in [Clients -> {"none", "opening", "opened", "ready", "first", "following", "collect"}]
  /\ index \in [Clients -> 1..NumIndexes + 1]
  /\ query \in [Clients -> Queries \cup {<<>>}]
  /\ word \in [Clients -> Nat] /\ \A c \in Clients : word[c] \in 1..Len(query[c]) + 1 \/ pc[c] # "following"
  /\ id_list \in [Clients -> Seq(Header)]
  /\ isValid \in [Clients -> BOOLEAN]
  /\ final_result \in [Clients -> Seq([index : 1..NumIndexes, doc : Docs, rank : Nat])]
  /\ answered \in Seq(Queries)

(* What a query should find: in every file the documents that hold all its *)
(* words, ranked by how often they hold them (a word asked twice counts    *)
(* twice).  x is what one index file holds.                                *)
DocsOf(x, w) == {h.doc_id : h \in Range(x[w])}
DocsOfAll(x, q) == {d \in Docs : \A w \in Range(q) : d \in DocsOf(x, w)}
Occurrences(x, w, d) == (CHOOSE h \in Range(x[w]) : h.doc_id = d).num_positions
Rank(x, d, q) == SumFunction([j \in DOMAIN q |-> Occurrences(x, q[j], d)])
Matches(q) ==
  UNION {{[index |-> i, doc |-> d, rank |-> Rank(files[i], d, q)] : d \in DocsOfAll(files[i], q)} : i \in 1..NumIndexes}

(* QueryProcessor.h:44-60: when ProcessQuery returns, its result holds     *)
(* every document that has all the words, once, with the sum of the words' *)
(* occurrences, in descending order, whatever the same processor and       *)
(* others were asked before.                                               *)
ResultIsConjunction ==
  \A c \in Clients : pc[c] = "ready" /\ query[c] # <<>> =>
    /\ Range(final_result[c]) = Matches(query[c])
    /\ IsInjective(final_result[c])
    /\ Descending(final_result[c])

(* The queries that leave a reader behind in a file: all their words up to *)
(* some one have tables there, and no document has all of these.           *)
LeavesReader(x, q) ==
  \E k \in 2..Len(q) :
    /\ \A j \in 1..k : x[q[j]] # <<>>
    /\ DocsOfAll(x, SubSeq(q, 1, k)) = {}

(* How many readers the answered queries have left open, those being       *)
(* answered have left so far, and the clients hold.                        *)
LeftBy(q, indexes) == Cardinality({i \in indexes : LeavesReader(files[i], q)})
LeftSoFar(c) ==
  CASE c \notin Busy -> 0
    [] pc[c] = "collect" -> LeftBy(query[c], 1..index[c])
    [] OTHER -> LeftBy(query[c], 1..index[c] - 1)
Left == SumFunction([k \in DOMAIN answered |-> LeftBy(answered[k], 1..NumIndexes)])
        + SumFunction([c \in Clients |-> LeftSoFar(c)])
Held(c) ==
  CASE pc[c] = "none" -> 0
    [] pc[c] = "opening" -> 2 * (index[c] - 1)
    [] pc[c] = "opened" -> 2 * (index[c] - 1) + 1
    [] pc[c] \in {"ready", "first"} -> 2 * NumIndexes
    [] OTHER -> 2 * NumIndexes + 1

(* Every descriptor is held by a client or was left open by a query whose  *)
(* words all have tables in a file but share no document there: no other   *)
(* query, answer or deletion loses a reader or closes one twice.  What     *)
(* IndexTableReader.h:44-46 asks for, that the caller of LookupWord "must  *)
(* call delete on it when done with the object", is Left = 0.              *)
DescriptorsAccountedFor ==
  TypeOK /\ fds = SumFunction([c \in Clients |-> Held(c)]) + Left
=============================================================================
