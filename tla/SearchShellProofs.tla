-------------------------- MODULE SearchShellProofs --------------------------
(***************************************************************************)
(* Safety of SearchShell for every alphabet, every set of files and texts, *)
(* every directory tree and every set of queries.                          *)
(***************************************************************************)
EXTENDS SearchShell, OperatorLemmas, SequenceTheorems

Working == {"reading", "read", "parsing", "posting"}
Crawling == {"start", "failed", "entry"} \cup Working

PlacesOK ==
  /\ pc \in {"start", "failed", "entry", "reading", "read", "parsing", "posting",
             "prompt", "search", "word", "pass", "answered", "closed"}
  /\ exited \in {"no", "unreadable", "empty", "posting"}

(* The text that is read and parsed is a file's, and what lies between     *)
(* word_start and cur_ptr is a word.                                       *)
TextInv ==
  /\ file \in Files \cup {0} /\ buf \in Seq(Characters) /\ left_to_read \in Nat
  /\ pc = "reading" => Len(buf) + left_to_read = Len(Bytes[file])
  /\ cur_ptr \in 1..Len(buf) + 1 /\ word_start \in 0..cur_ptr - 1
  /\ DOMAIN tab \subseteq Seq(Letters) /\ \A w \in DOMAIN tab : tab[w] \in Seq(Nat) \ {<<>>}
  /\ pc \in Working => file \in Files
  /\ pc # "parsing" => cur_ptr = 1
  /\ word_start # 0 => \A k \in word_start..cur_ptr - 1 : buf[k] \in Letters

(* The two tables of the document table, and what the index names.         *)
DocsInv ==
  /\ max_id \in Nat \ {0} /\ doc_id \in 0..max_id - 1
  /\ DOMAIN id_to_name = 1..max_id - 1
  /\ \A d \in 1..max_id - 1 : id_to_name[d] \in DOMAIN name_to_id /\ name_to_id[id_to_name[d]] = d
  /\ \A f \in DOMAIN name_to_id : name_to_id[f] \in 1..max_id - 1 /\ id_to_name[name_to_id[f]] = f
  /\ pc = "posting" => doc_id \in 1..max_id - 1
IndexInv ==
  /\ DOMAIN index \subseteq Seq(Letters)
  /\ \A w \in DOMAIN index :
       /\ DOMAIN index[w] # {} /\ DOMAIN index[w] \subseteq 1..max_id - 1
       /\ \A d \in DOMAIN index[w] : index[w][d] \in Seq(Nat)

(* Every open call of HandleDir stands at an entry; only the last one may  *)
(* have come to its end, and not while a file of it is being handled.      *)
Calls == [path_name : Seq(Nat), is_dir : UNION {[K -> BOOLEAN] : K \in SUBSET Nat}, i : Nat \ {0}]
Within(c) == c.i <= Len(c.path_name)
StackInv ==
  /\ tree \in Trees /\ dirs \in Seq(Calls)
  /\ \A k \in 1..Len(dirs) : dirs[k].i <= Len(dirs[k].path_name) + 1
  /\ \A k \in 1..Len(dirs) - 1 : Within(dirs[k])
  /\ pc = "start" => dirs = <<>>
  /\ pc \in {"entry"} \cup Working => dirs # <<>>
  /\ pc \in Working => Within(Top)

(* There are results only while a query is answered; the loop over its     *)
(* words begins with results, and is at a word that occurs.                *)
Results == [doc_id : DOMAIN id_to_name, rank : Nat]
SearchInv ==
  /\ query \in Queries \cup {<<>>} /\ ret_list \in Seq(Results)
  /\ ll_it \in 0..Len(ret_list) \/ pc # "pass"
  /\ i \in Nat \ {0} /\ j \in Nat /\ num_docs \in Nat
  /\ pc \in Crawling => ret_list = <<>>
  /\ pc = "word" => ret_list # <<>>
  /\ pc = "pass" => i \in DOMAIN query /\ Occurs(query[i])

IInv == PlacesOK /\ TextInv /\ DocsInv /\ IndexInv /\ StackInv /\ SearchInv

LEMMA IInvImplies == IInv => TypeOK /\ TablesAreInverse
<1> SUFFICES ASSUME IInv PROVE TypeOK /\ TablesAreInverse
  OBVIOUS
<1>1. TypeOK
  <2>1. \A k \in DOMAIN dirs : dirs[k].i \in 1..Len(dirs[k].path_name) + 1
    <3> SUFFICES ASSUME NEW k \in DOMAIN dirs PROVE dirs[k].i \in 1..Len(dirs[k].path_name) + 1
      OBVIOUS
    <3>1. k \in 1..Len(dirs) /\ dirs[k] \in Calls
      BY DEF IInv, StackInv
    <3>2. dirs[k].i \in Nat \ {0} /\ Len(dirs[k].path_name) \in Nat
      BY <3>1 DEF Calls
    <3> QED BY <3>1, <3>2 DEF IInv, StackInv
  <2> QED BY <2>1 DEF IInv, PlacesOK, TextInv, DocsInv, IndexInv, SearchInv, Results, TypeOK, INVALID_DOCID
<1>2. TablesAreInverse
  BY DEF IInv, DocsInv, IndexInv, TablesAreInverse, DocTable_GetDocID, DocTable_GetDocName
<1> QED BY <1>1, <1>2

LEMMA InitIInv == Init => IInv
<1> SUFFICES ASSUME Init PROVE IInv
  OBVIOUS
<1>1. \A S : <<>> \in Seq(S)
  OBVIOUS
<1> USE DEF Init, ParserInit, DocTable_Allocate, MemIndexInit, CrawlInit, INVALID_DOCID
<1>2. PlacesOK
  BY DEF PlacesOK
<1>3. TextInv
  BY <1>1 DEF TextInv, EmptyTable, Working
<1>4. DocsInv
  BY DEF DocsInv
<1>5. IndexInv
  BY DEF IndexInv
<1>6. StackInv
  BY <1>1 DEF StackInv, Working
<1>7. SearchInv
  BY <1>1 DEF SearchInv
<1> QED BY <1>2, <1>3, <1>4, <1>5, <1>6, <1>7 DEF IInv

-----------------------------------------------------------------------------
(* What the operators of the model return.                                 *)

(* qsort puts the entries of a directory in ascending order.               *)
LEMMA InOrderSorts ==
  \A S : S \subseteq Nat /\ IsFiniteSet(S) =>
    /\ InOrder(S) \in SetToSeqs(S)
    /\ \A k, l \in DOMAIN InOrder(S) : k < l => InOrder(S)[k] < InOrder(S)[l]
  BY AscendingRow, Zenon DEF InOrder, Ascending

(* The string ends within the text.                                        *)
LEMMA CStringIsText ==
  ASSUME NEW text \in Seq(Characters)
  PROVE  CString(text) \in Seq(Characters)
<1> DEFINE I == {k \in 1..Len(text) : text[k] = NUL}
           n == IF Contains(text, NUL) THEN (IF I # {} THEN Min(I) ELSE 0) - 1 ELSE Len(text)
<1>1. CString(text) = SubSeq(text, 1, n)
  BY Zenon DEF CString, SelectInSeq
<1>2. I \in SUBSET Nat /\ Len(text) \in Nat
  OBVIOUS
<1>3. I # {} => Min(I) \in I
  <2> HIDE DEF I
  <2> QED BY <1>2, LeastNatural
<1>4. Contains(text, NUL) => I # {}
  BY DEF Contains
<1>5. n \in 0..Len(text)
  <2>1. CASE Contains(text, NUL)
    <3>1. n = Min(I) - 1 /\ Min(I) \in 1..Len(text)
      BY <1>3, <1>4, <2>1
    <3> HIDE DEF n, I
    <3> QED BY <1>2, <3>1
  <2>2. CASE ~ Contains(text, NUL)
    BY <1>2, <2>2
  <2> QED BY <2>1, <2>2
<1> HIDE DEF n
<1>6. 1 \in 1..Len(text) + 1 /\ n \in 1 - 1..Len(text)
  BY <1>2, <1>5
<1> QED BY <1>1, <1>6, SubSeqProperties

(* LinkedList_Sort returns the results, in descending order.               *)
LEMMA SortedSorts ==
  ASSUME NEW A, NEW list \in Seq(A), \A r \in A : r.rank \in Nat
  PROVE  Sorted(list) \in SetToSeqs(Range(list)) /\ Descending(Sorted(list)) /\ Stable(Sorted(list), list)
<1> DEFINE S == Range(list)
           At1(r) == {k \in 1..Len(list) : list[k] = r}
           first == [r \in S |-> Min(At1(r))]
           R == {xy \in S \X S : xy[1].rank > xy[2].rank \/ (xy[1].rank = xy[2].rank /\ first[xy[1]] < first[xy[2]])}
<1>1. Len(list) \in Nat /\ DOMAIN list = 1..Len(list) /\ \A k \in 1..Len(list) : list[k] \in A
  OBVIOUS
<1>2. S \subseteq A /\ \A r \in S : \E k \in 1..Len(list) : list[k] = r
  BY <1>1 DEF Range
<1>3. IsFiniteSet(S)
  <2>1. list \in Surjection(1..Len(list), S)
    BY <1>1 DEF Surjection, Range
  <2>2. IsFiniteSet(1..Len(list))
    BY <1>1, FS_Interval
  <2> HIDE DEF S
  <2> QED BY <2>1, <2>2, FS_Surjection
<1>4. ASSUME NEW r \in S PROVE first[r] \in Nat /\ first[r] \in 1..Len(list) /\ list[first[r]] = r
  <2>1. At1(r) \in SUBSET Nat /\ At1(r) # {}
    BY <1>2, <1>1
  <2>2. Min(At1(r)) \in At1(r)
    <3> HIDE DEF At1
    <3> QED BY <2>1, LeastNatural
  <2>3. first[r] = Min(At1(r))
    OBVIOUS
  <2> HIDE DEF first
  <2> QED BY <2>2, <2>3, <1>1
<1>5. \A x, y \in S : <<x, y>> \in R <=> x.rank > y.rank \/ (x.rank = y.rank /\ first[x] < first[y])
  <2> HIDE DEF S, first
  <2> QED OBVIOUS
<1>6. \A x \in S : x.rank \in Nat /\ first[x] \in Nat
  <2> HIDE DEF first
  <2> QED BY <1>2, <1>4
<1>7. \A x, y \in S : first[x] = first[y] => x = y
  <2> HIDE DEF first, S
  <2> QED BY <1>4, Zenon
<1> HIDE DEF R, first, S
<1>8. /\ \A x, y \in S : x # y => <<x, y>> \in R \/ <<y, x>> \in R
      /\ \A x \in S : <<x, x>> \notin R
      /\ \A x, y, z \in S : <<x, y>> \in R /\ <<y, z>> \in R => <<x, z>> \in R
  <2>1. ASSUME NEW x \in S, NEW y \in S, x # y PROVE <<x, y>> \in R \/ <<y, x>> \in R
    <3>1. first[x] # first[y] /\ x.rank \in Nat /\ y.rank \in Nat /\ first[x] \in Nat /\ first[y] \in Nat
      BY <1>6, <1>7, <2>1
    <3>2. x.rank > y.rank \/ (x.rank = y.rank /\ first[x] < first[y]) \/ y.rank > x.rank \/ (y.rank = x.rank /\ first[y] < first[x])
      BY <3>1
    <3> QED BY <1>5, <3>2, Zenon
  <2>2. ASSUME NEW x \in S PROVE <<x, x>> \notin R
    BY <1>5, <1>6
  <2>3. ASSUME NEW x \in S, NEW y \in S, NEW z \in S, <<x, y>> \in R, <<y, z>> \in R PROVE <<x, z>> \in R
    <3>1. /\ x.rank > y.rank \/ (x.rank = y.rank /\ first[x] < first[y])
          /\ y.rank > z.rank \/ (y.rank = z.rank /\ first[y] < first[z])
      BY <1>5, <2>3, Zenon
    <3>2. x.rank > z.rank \/ (x.rank = z.rank /\ first[x] < first[z])
      BY <1>6, <3>1
    <3> QED BY <1>5, <3>2, Zenon
  <2> QED BY <2>1, <2>2, <2>3
<1>9. PICK s \in SetToSeqs(S) : \A k, l \in DOMAIN s : k < l => <<s[k], s[l]>> \in R
  BY <1>3, <1>8, RowExists
<1>10. \A k \in DOMAIN s : s[k] \in S
  BY <1>3, <1>9, RowIsSequence
<1>11. Descending(s)
  <2> SUFFICES ASSUME NEW k \in DOMAIN s, NEW l \in DOMAIN s, k < l PROVE s[k].rank >= s[l].rank
    BY DEF Descending
  <2>1. s[k].rank > s[l].rank \/ s[k].rank = s[l].rank
    BY <1>5, <1>9, <1>10
  <2> QED BY <1>6, <1>10, <2>1
<1>12. Stable(s, list)
  <2>1. \A k \in DOMAIN s : SelectInSeq(list, LAMBDA r : r = s[k]) = first[s[k]]
    <3> SUFFICES ASSUME NEW k \in DOMAIN s PROVE SelectInSeq(list, LAMBDA r : r = s[k]) = first[s[k]]
      OBVIOUS
    <3>1. first[s[k]] = Min(At1(s[k]))
      BY <1>10 DEF first
    <3>2. At1(s[k]) # {}
      BY <1>2, <1>10
    <3> QED BY <3>1, <3>2, Zenon DEF SelectInSeq
  <2>2. \A k, l \in DOMAIN s : k < l /\ s[k].rank = s[l].rank => first[s[k]] < first[s[l]]
    <3> SUFFICES ASSUME NEW k \in DOMAIN s, NEW l \in DOMAIN s, k < l, s[k].rank = s[l].rank
                 PROVE  first[s[k]] < first[s[l]]
      OBVIOUS
    <3>1. s[k].rank > s[l].rank \/ first[s[k]] < first[s[l]]
      BY <1>5, <1>9, <1>10
    <3> QED BY <1>6, <1>10, <3>1
  <2> QED BY <2>1, <2>2, Zenon DEF Stable
<1> QED BY <1>9, <1>11, <1>12, Zenon DEF Sorted, S

(* A pass over a row of results: the row of what was found first.          *)
LEMMA FirstResultsFound ==
  ASSUME DocsInv, IndexInv, NEW list, query # <<>>, Occurs(query[1]), FirstResults(list)
  PROVE  list \in Seq(Results) /\ list # <<>>
<1> DEFINE D == DOMAIN index[query[1]]
<1>1. D # {} /\ D \subseteq 1..max_id - 1 /\ \A d \in D : index[query[1]][d] \in Seq(Nat)
  BY DEF IndexInv, Occurs
<1>2. IsFiniteSet(D)
  <2>1. IsFiniteSet(1..max_id - 1)
    BY FS_Interval DEF DocsInv
  <2> HIDE DEF D
  <2> QED BY <1>1, <2>1, FS_Subset
<1>3. PICK docs \in SetToSeqs(D) : list = [k \in DOMAIN docs |-> Result(query[1], docs[k])]
  BY Zenon DEF FirstResults
<1> HIDE DEF D
<1>4. docs \in Seq(D) /\ Len(docs) = Cardinality(D) /\ Cardinality(D) \in Nat /\ DOMAIN docs = 1..Len(docs)
  BY <1>2, RowIsSequence
<1>5. Cardinality(D) # 0
  BY <1>1, <1>2, FS_EmptySet
<1>6. \A k \in 1..Len(docs) : Result(query[1], docs[k]) \in Results
  <2> SUFFICES ASSUME NEW k \in 1..Len(docs) PROVE Result(query[1], docs[k]) \in Results
    OBVIOUS
  <2>1. docs[k] \in D
    BY <1>4
  <2>2. docs[k] \in DOMAIN id_to_name /\ Len(index[query[1]][docs[k]]) \in Nat
    BY <1>1, <2>1, LenProperties DEF DocsInv
  <2> QED BY <2>2 DEF Result, Results
<1>7. list = [k \in 1..Len(docs) |-> Result(query[1], docs[k])]
  BY <1>3, <1>4
<1>8. list \in Seq(Results) /\ Len(list) = Len(docs)
  BY <1>4, <1>6, <1>7
<1>9. Len(<<>>) = 0
  OBVIOUS
<1> QED BY <1>4, <1>5, <1>8, <1>9, Zenon

(* A new call of HandleDir stands at its first entry.                      *)
LEMMA HandleDirCalls ==
  ASSUME StackInv, NEW d \in DOMAIN tree, HandleDir(d)
  PROVE  \E c \in Calls : dirs' = Append(dirs, c) /\ c.i = 1
<1>1. PICK kept \in Kept(d) : \E is_dir \in [kept -> BOOLEAN] :
         dirs' = Append(dirs, [path_name |-> InOrder(kept), is_dir |-> is_dir, i |-> 1])
  BY DEF HandleDir
<1>2. PICK is_dir \in [kept -> BOOLEAN] :
         dirs' = Append(dirs, [path_name |-> InOrder(kept), is_dir |-> is_dir, i |-> 1])
  BY <1>1
<1>3. IsFiniteSet(tree[d]) /\ tree[d] \subseteq Nat
  BY TreesAssumption DEF StackInv
<1>4. kept \subseteq tree[d]
  BY DEF Kept, kSubset
<1>5. kept \subseteq Nat /\ IsFiniteSet(kept)
  BY <1>3, <1>4, FS_Subset
<1>6. InOrder(kept) \in Seq(kept)
  BY <1>5, InOrderSorts, RowIsSequence
<1>7. InOrder(kept) \in Seq(Nat)
  BY <1>5, <1>6, SeqMonotonic
<1>8. [path_name |-> InOrder(kept), is_dir |-> is_dir, i |-> 1] \in Calls
  BY <1>5, <1>7 DEF Calls
<1> QED BY <1>2, <1>8

LEMMA AdvancedStack ==
  ASSUME NEW stack \in Seq(Calls), stack # <<>>, \A k \in 1..Len(stack) : Within(stack[k])
  PROVE  /\ Advanced(stack) \in Seq(Calls) /\ Len(Advanced(stack)) = Len(stack)
         /\ Advanced(stack) # <<>>
         /\ \A k \in 1..Len(stack) : Advanced(stack)[k].i <= Len(Advanced(stack)[k].path_name) + 1
         /\ \A k \in 1..Len(stack) - 1 : Within(Advanced(stack)[k])
<1> DEFINE n == Len(stack)
           c == [stack[n] EXCEPT !.i = @ + 1]
<1>1. n \in Nat /\ n \in 1..n
  BY EmptySeq
<1>2. stack[n] \in Calls
  BY <1>1
<1>3. c \in Calls /\ c.i = stack[n].i + 1 /\ c.path_name = stack[n].path_name
  <2>1. PICK r \in Calls : r = stack[n]
    BY <1>2
  <2>2. PICK p \in Seq(Nat), f \in UNION {[K -> BOOLEAN] : K \in SUBSET Nat}, m \in Nat \ {0} :
          r = [path_name |-> p, is_dir |-> f, i |-> m]
    BY <2>1 DEF Calls
  <2>3. [r EXCEPT !.i = @ + 1] = [path_name |-> p, is_dir |-> f, i |-> m + 1]
    BY <2>2
  <2>4. c = [path_name |-> p, is_dir |-> f, i |-> m + 1]
    BY <2>1, <2>3
  <2>5. c \in Calls
    <3>1. m + 1 \in Nat \ {0}
      OBVIOUS
    <3>2. [path_name |-> p, is_dir |-> f, i |-> m + 1] \in Calls
      BY <2>2, <3>1, Zenon DEF Calls
    <3> QED BY <2>4, <3>2, Zenon
  <2> HIDE DEF c
  <2> QED BY <2>1, <2>2, <2>4, <2>5
<1>4. Advanced(stack) = [stack EXCEPT ![n] = c]
  BY Zenon DEF Advanced
<1> HIDE DEF c
<1>5. Advanced(stack) \in Seq(Calls) /\ Len(Advanced(stack)) = n
  BY <1>1, <1>3, <1>4
<1>6. \A k \in 1..n : Advanced(stack)[k] = IF k = n THEN c ELSE stack[k]
  BY <1>1, <1>4
<1>7. stack[n].i \in Nat /\ Len(stack[n].path_name) \in Nat /\ stack[n].i <= Len(stack[n].path_name)
  BY <1>1, <1>2 DEF Calls, Within
<1>8. ASSUME NEW k \in 1..n PROVE Advanced(stack)[k].i <= Len(Advanced(stack)[k].path_name) + 1
  <2>1. CASE k = n
    BY <1>3, <1>6, <1>7, <2>1
  <2>2. CASE k # n
    <3>1. stack[k] \in Calls /\ Within(stack[k])
      OBVIOUS
    <3> QED BY <1>6, <2>2, <3>1 DEF Calls, Within
  <2> QED BY <2>1, <2>2
<1>9. ASSUME NEW k \in 1..n - 1 PROVE Within(Advanced(stack)[k])
  BY <1>1, <1>6
<1> QED BY <1>1, <1>5, <1>8, <1>9, EmptySeq

-----------------------------------------------------------------------------
(* The parts of the invariant that a step does not touch.                  *)
LEMMA TextFrame ==
  ASSUME TextInv, UNCHANGED parserVars, pc # "parsing", pc' \notin Working
  PROVE  TextInv'
<1>1. UNCHANGED <<file, buf, left_to_read, cur_ptr, word_start, tab>> /\ cur_ptr = 1 /\ word_start = 0
  BY DEF TextInv, parserVars
<1> QED BY <1>1 DEF TextInv, Working

LEMMA DocsFrame ==
  ASSUME DocsInv, UNCHANGED <<docTableVars, doc_id>>, pc' = "posting" => pc = "posting"
  PROVE  DocsInv'
<1>1. UNCHANGED <<id_to_name, name_to_id, max_id, doc_id>>
  BY DEF docTableVars
<1> QED BY <1>1 DEF DocsInv

LEMMA IndexFrame ==
  ASSUME IndexInv, UNCHANGED <<docTableVars, index>>
  PROVE  IndexInv'
<1>1. UNCHANGED <<max_id, index>>
  BY DEF docTableVars
<1> QED BY <1>1 DEF IndexInv

LEMMA StackFrame ==
  ASSUME StackInv, UNCHANGED <<tree, dirs>>, pc' # "start", pc' = "entry" => pc = "entry",
         pc' \in Working => pc \in Working \/ (pc = "entry" /\ Within(Top))
  PROVE  StackInv'
<1>1. Top' = Top
  BY DEF Top
<1>2. pc' \in Working => dirs # <<>> /\ Within(Top)
  BY DEF StackInv
<1>3. \A k \in 1..Len(dirs) - 1 : Within(dirs[k])' <=> Within(dirs[k])
  BY DEF Within
<1>4. Within(Top)' <=> Within(Top)
  BY <1>1 DEF Within
<1>5. UNCHANGED <<tree, dirs>>
  OBVIOUS
<1>6. tree' \in Trees /\ dirs' \in Seq(Calls)
  BY <1>5 DEF StackInv
<1>7. \A k \in 1..Len(dirs') : dirs'[k].i <= Len(dirs'[k].path_name) + 1
  BY <1>5 DEF StackInv
<1>8. \A k \in 1..Len(dirs') - 1 : Within(dirs'[k])
  BY <1>5 DEF StackInv
<1>9. pc' \in {"entry"} \cup Working => dirs' # <<>>
  BY <1>2, <1>5 DEF StackInv
<1> QED BY <1>2, <1>4, <1>6, <1>7, <1>8, <1>9 DEF StackInv, Working

LEMMA SearchFrame ==
  ASSUME SearchInv, UNCHANGED searchVars, pc \in Crawling, pc' \in Crawling \cup {"prompt"}
  PROVE  SearchInv'
<1>1. UNCHANGED <<query, ret_list, i, j, num_docs, ll_it>> /\ ret_list = <<>> /\ pc' \notin {"word", "pass"}
  BY DEF searchVars, SearchInv, Crawling, Working
<1>2. <<>> \in Seq(Results')
  OBVIOUS
<1> QED BY <1>1, <1>2 DEF SearchInv

(* A call of HandleDir is pushed, and one that returns is popped; the one  *)
(* below goes on with its next entry.                                      *)
LEMMA PushKeepsStack ==
  ASSUME StackInv, NEW d \in DOMAIN tree, HandleDir(d), tree' = tree, pc' = "entry",
         \A k \in 1..Len(dirs) : Within(dirs[k])
  PROVE  StackInv'
<1>1. PICK c \in Calls : dirs' = Append(dirs, c) /\ c.i = 1
  BY HandleDirCalls
<1>2. dirs \in Seq(Calls) /\ Len(dirs) \in Nat
  BY DEF StackInv
<1>3. dirs' \in Seq(Calls) /\ Len(dirs') = Len(dirs) + 1 /\ dirs' # <<>>
      /\ \A k \in 1..Len(dirs) : dirs'[k] = dirs[k] 
  BY <1>1, <1>2, AppendProperties
<1>4. dirs'[Len(dirs) + 1] = c /\ Len(c.path_name) \in Nat
  BY <1>1, <1>2, AppendProperties DEF Calls
<1>5. \A k \in 1..Len(dirs') : dirs'[k].i <= Len(dirs'[k].path_name) + 1
  <2> SUFFICES ASSUME NEW k \in 1..Len(dirs') PROVE dirs'[k].i <= Len(dirs'[k].path_name) + 1
    OBVIOUS
  <2>1. CASE k = Len(dirs) + 1
    BY <1>1, <1>4, <2>1
  <2>2. CASE k # Len(dirs) + 1
    <3>1. k \in 1..Len(dirs)
      BY <1>2, <1>3, <2>2
    <3> QED BY <1>3, <3>1 DEF StackInv
  <2> QED BY <2>1, <2>2
<1>6. \A k \in 1..Len(dirs') - 1 : Within(dirs'[k])
  <2>1. Len(dirs') - 1 = Len(dirs)
    BY <1>2, <1>3
  <2> QED BY <1>3, <2>1
<1> QED BY <1>3, <1>5, <1>6 DEF StackInv, Working

LEMMA AdvanceKeepsStack ==
  ASSUME StackInv, NEW stack \in Seq(Calls), stack # <<>>, \A k \in 1..Len(stack) : Within(stack[k]),
         dirs' = Advanced(stack), tree' = tree, pc' = "entry"
  PROVE  StackInv'
<1>1. /\ dirs' \in Seq(Calls) /\ Len(dirs') = Len(stack) /\ dirs' # <<>>
      /\ \A k \in 1..Len(stack) : dirs'[k].i <= Len(dirs'[k].path_name) + 1
      /\ \A k \in 1..Len(stack) - 1 : Within(dirs'[k])
  BY AdvancedStack
<1> QED BY <1>1 DEF StackInv, Working

LEMMA AllWithin ==
  ASSUME StackInv, dirs # <<>>, Within(Top)
  PROVE  \A k \in 1..Len(dirs) : Within(dirs[k])
<1>1. Len(dirs) \in Nat
  BY DEF StackInv
<1>2. \A k \in 1..Len(dirs) : k = Len(dirs) \/ k \in 1..Len(dirs) - 1
  BY <1>1
<1> QED BY <1>2 DEF StackInv, Top

-----------------------------------------------------------------------------
(* The steps of the crawl.                                                 *)
LEMMA OpenStep == IInv /\ (CrawlFileTree \/ Subdirectory \/ EndOfDirectory) => IInv'
<1> SUFFICES ASSUME IInv, CrawlFileTree \/ Subdirectory \/ EndOfDirectory PROVE IInv'
  OBVIOUS
<1>0. PlacesOK /\ TextInv /\ DocsInv /\ IndexInv /\ StackInv /\ SearchInv
  BY DEF IInv
<1>1. /\ pc \in {"start", "entry"} /\ pc' \in {"failed", "entry", "prompt"}
      /\ UNCHANGED <<exited, parserVars, docTableVars, index, searchVars, tree, doc_id>>
  BY DEF CrawlFileTree, Subdirectory, EndOfDirectory, AtEntry, NextEntry, At
<1>2. PlacesOK'
  BY <1>0, <1>1 DEF PlacesOK
<1>3. TextInv'
  BY <1>0, <1>1, TextFrame DEF Working
<1>4. DocsInv' /\ IndexInv'
  BY <1>0, <1>1, DocsFrame, IndexFrame
<1>5. SearchInv'
  BY <1>0, <1>1, SearchFrame DEF Crawling
<1>6. StackInv'
  <2>1. CASE CrawlFileTree
    <3>1. pc = "start" /\ tree' = tree /\ Root \in DOMAIN tree /\ dirs = <<>> /\ \A k \in 1..Len(dirs) : Within(dirs[k])
      BY <1>0, <2>1, TreesAssumption DEF CrawlFileTree, At, StackInv
    <3>2. CASE pc' = "failed" /\ UNCHANGED dirs
      BY <1>0, <3>1, <3>2, StackFrame DEF Working
    <3>3. CASE pc' = "entry" /\ HandleDir(Root)
      BY <1>0, <3>1, <3>3, PushKeepsStack
    <3> QED BY <2>1, <3>2, <3>3 DEF CrawlFileTree
  <2>2. CASE Subdirectory
    <3>1. pc = "entry" /\ tree' = tree /\ dirs # <<>> /\ Within(Top) /\ dirs \in Seq(Calls)
      BY <1>0, <2>2 DEF Subdirectory, AtEntry, At, StackInv, Within
    <3>2. \A k \in 1..Len(dirs) : Within(dirs[k])
      BY <1>0, <3>1, AllWithin
    <3>3. CASE Entry \in DOMAIN tree /\ HandleDir(Entry) /\ UNCHANGED <<pc, exited>>
      BY <1>0, <3>1, <3>2, <3>3, PushKeepsStack
    <3>4. CASE NextEntry
      BY <1>0, <3>1, <3>2, <3>4, AdvanceKeepsStack DEF NextEntry
    <3> QED BY <2>2, <3>3, <3>4 DEF Subdirectory
  <2>3. CASE EndOfDirectory
    <3>1. pc = "entry" /\ tree' = tree /\ dirs # <<>> /\ dirs \in Seq(Calls) /\ Len(dirs) \in Nat
      BY <1>0, <2>3 DEF EndOfDirectory, At, StackInv
    <3>2. CASE Len(dirs) = 1
      <4>1. dirs' = <<>> /\ pc' = "prompt"
        BY <2>3, <3>2 DEF EndOfDirectory
      <4>2. dirs' \in Seq(Calls) /\ Len(dirs') = 0
        BY <4>1
      <4> QED BY <1>0, <3>1, <4>1, <4>2 DEF StackInv, Working
    <3>3. CASE Len(dirs) # 1
      <4>1. dirs' = Advanced(Front(dirs)) /\ pc' = "entry"
        BY <2>3, <3>1, <3>3 DEF EndOfDirectory
      <4>2. Len(dirs) >= 2
        <5>1. Len(dirs) # 0
          BY <3>1, EmptySeq
        <5>2. \A n \in Nat : n # 0 /\ n # 1 => n >= 2
          OBVIOUS
        <5> QED BY <3>1, <3>3, <5>1, <5>2, Zenon
      <4>3. 1 \in 1..Len(dirs) + 1 /\ Len(dirs) - 1 \in 1 - 1..Len(dirs)
        BY <3>1, <4>2
      <4>4. /\ Front(dirs) \in Seq(Calls) /\ Len(Front(dirs)) = Len(dirs) - 1
            /\ \A k \in 1..Len(dirs) - 1 : Front(dirs)[k] = dirs[k]
        <5>1. Len(dirs) - 1 - 1 + 1 = Len(dirs) - 1 /\ \A k \in 1..Len(dirs) - 1 : 1 + k - 1 = k
          BY <3>1
        <5> QED BY <3>1, <4>2, <4>3, <5>1, SubSeqProperties DEF Front
      <4>5. Front(dirs) # <<>>
        BY <3>1, <4>2, <4>4, EmptySeq
      <4>6. \A k \in 1..Len(Front(dirs)) : Within(Front(dirs)[k])
        BY <1>0, <4>4 DEF StackInv
      <4> HIDE DEF Front
      <4> QED BY <1>0, <3>1, <4>1, <4>4, <4>5, <4>6, AdvanceKeepsStack
    <3> QED BY <3>2, <3>3
  <2> QED BY <2>1, <2>2, <2>3
<1> QED BY <1>2, <1>3, <1>4, <1>5, <1>6 DEF IInv

(* HandleFile and the reading of the file.                                 *)
LEMMA ReadingStep == IInv /\ (HandleFile \/ ReadFileToString \/ ReadFails) => IInv'
<1> SUFFICES ASSUME IInv, HandleFile \/ ReadFileToString \/ ReadFails PROVE IInv'
  OBVIOUS
<1>0. PlacesOK /\ TextInv /\ DocsInv /\ IndexInv /\ StackInv /\ SearchInv
  BY DEF IInv
<1>1. /\ \/ pc = "reading" /\ pc' \in {"reading", "read"}
         \/ pc = "entry" /\ Within(Top) /\ pc' \in {"entry", "reading"}
      /\ exited' \in {exited, "unreadable"}
      /\ UNCHANGED <<docTableVars, index, searchVars, tree, dirs, doc_id, cur_ptr, word_start, tab>>
  <2>1. CASE HandleFile
    <3>1. pc = "entry" /\ Within(Top) /\ UNCHANGED <<docTableVars, index, searchVars, tree, dirs, doc_id>>
      BY <2>1 DEF HandleFile, AtEntry, At, Within, crawlVars
    <3>2. \/ StartReading(Entry) /\ pc' = "reading" /\ UNCHANGED exited
          \/ Exit("unreadable") /\ UNCHANGED parserVars
      BY <2>1 DEF HandleFile
    <3>3. CASE StartReading(Entry) /\ pc' = "reading" /\ UNCHANGED exited
      BY <3>1, <3>3 DEF StartReading
    <3>4. CASE Exit("unreadable") /\ UNCHANGED parserVars
      BY <3>1, <3>4 DEF Exit, parserVars
    <3> QED BY <3>2, <3>3, <3>4
  <2>2. CASE Read /\ UNCHANGED <<docTableVars, index, searchVars, crawlVars>>
    BY <2>2 DEF Read, At, crawlVars
  <2>3. CASE ReadAll /\ UNCHANGED <<docTableVars, index, searchVars, crawlVars>>
    BY <2>3 DEF ReadAll, At, parserVars, crawlVars
  <2>4. CASE ReadFails
    BY <2>4 DEF ReadFails, Exit, At, parserVars, crawlVars
  <2> QED BY <2>1, <2>2, <2>3, <2>4 DEF ReadFileToString
<1>2. PlacesOK'
  BY <1>0, <1>1 DEF PlacesOK
<1>3. TextInv'
  <2>0. cur_ptr = 1 /\ word_start = 0
    BY <1>0, <1>1 DEF TextInv
  <2>1. file' \in Files \cup {0} /\ (pc' \in Working => file' \in Files)
        /\ buf' \in Seq(Characters) /\ left_to_read' \in Nat
        /\ (pc' = "reading" => Len(buf') + left_to_read' = Len(Bytes[file']))
    <3>1. CASE HandleFile /\ pc' = "reading"
      <4>1. CASE StartReading(Entry) /\ Entry \in Files
        <5>1. Bytes[Entry] \in Seq(Characters) /\ Len(Bytes[Entry]) \in Nat
          BY <4>1, BytesAssumption
        <5>2. file' = Entry /\ buf' = <<>> /\ left_to_read' = Len(Bytes[Entry])
          BY <4>1 DEF StartReading
        <5>3. Len(<<>>) = 0 /\ <<>> \in Seq(Characters)
          OBVIOUS
        <5> QED BY <4>1, <5>1, <5>2, <5>3
      <4>2. CASE Exit("unreadable")
        BY <3>1, <4>2 DEF Exit, HandleFile, AtEntry, At
      <4> QED BY <3>1, <4>1, <4>2 DEF HandleFile
    <3>2. CASE HandleFile /\ pc' # "reading"
      <4>1. UNCHANGED parserVars /\ pc' = "entry"
        BY <3>2, <1>1 DEF HandleFile, Exit, AtEntry, At
      <4> QED BY <1>0, <4>1 DEF TextInv, parserVars, Working
    <3>3. CASE Read
      <4>1. file \in Files /\ file' = file /\ Bytes[file] \in Seq(Characters) /\ Len(Bytes[file]) \in Nat
            /\ buf \in Seq(Characters) /\ Len(buf) \in Nat /\ left_to_read \in Nat
            /\ Len(buf) + left_to_read = Len(Bytes[file])
        BY <1>0, <3>3, BytesAssumption DEF Read, At, TextInv, Working
      <4>2. CASE pc' = "read" /\ left_to_read' = 0 /\ UNCHANGED buf
        BY <4>1, <4>2
      <4>3. ASSUME NEW n \in 1..left_to_read, buf' = Receive(n), left_to_read' = left_to_read - n, UNCHANGED pc
            PROVE  buf' \in Seq(Characters) /\ left_to_read' \in Nat /\ Len(buf') + left_to_read' = Len(Bytes[file'])
        <5> DEFINE more == SubSeq(Bytes[file], Len(buf) + 1, Len(buf) + n)
        <5>1. Len(buf) + 1 \in 1..Len(Bytes[file]) + 1 /\ Len(buf) + n \in Len(buf) + 1 - 1..Len(Bytes[file])
          BY <4>1
        <5>2. more \in Seq(Characters) /\ Len(more) = Len(buf) + n - (Len(buf) + 1) + 1
          BY <4>1, <5>1, SubSeqProperties
        <5>3. Len(more) = n
          BY <4>1, <5>2
        <5> HIDE DEF more
        <5>4. buf' = buf \o more
          BY <4>3 DEF Receive, more
        <5>5. buf' \in Seq(Characters) /\ Len(buf') = Len(buf) + n
          BY <4>1, <5>2, <5>3, <5>4, ConcatProperties
        <5> QED BY <4>1, <4>3, <5>5
      <4> QED BY <3>3, <4>1, <4>2, <4>3 DEF Read
    <3>4. CASE ReadAll
      BY <1>0, <3>4 DEF ReadAll, At, parserVars, TextInv, Working
    <3>5. CASE ReadFails
      BY <1>0, <3>5 DEF ReadFails, Exit, At, parserVars, TextInv, Working
    <3> QED BY <3>1, <3>2, <3>3, <3>4, <3>5 DEF ReadFileToString
  <2>2. Len(buf') \in Nat
    BY <2>1
  <2>3. cur_ptr' = 1 /\ word_start' = 0 /\ tab' = tab
    BY <1>1, <2>0
  <2> QED BY <1>0, <2>1, <2>2, <2>3 DEF TextInv
<1>4. DocsInv' /\ IndexInv'
  <2>1. pc' = "posting" => pc = "posting"
    BY <1>1
  <2> QED BY <1>0, <1>1, <2>1, DocsFrame, IndexFrame
<1>5. SearchInv'
  BY <1>0, <1>1, SearchFrame DEF Crawling, Working
<1>6. StackInv'
  BY <1>0, <1>1, StackFrame DEF Working
<1> QED BY <1>2, <1>3, <1>4, <1>5, <1>6 DEF IInv

(* The text becomes a C string, and the file goes on or is left.           *)
LEMMA TextStep == IInv /\ ParseIntoWordPositionsTable => IInv'
<1> SUFFICES ASSUME IInv, ParseIntoWordPositionsTable PROVE IInv'
  OBVIOUS
<1>0. PlacesOK /\ TextInv /\ DocsInv /\ IndexInv /\ StackInv /\ SearchInv
  BY DEF IInv
<1>1. pc = "read" /\ UNCHANGED <<docTableVars, index, searchVars, tree, doc_id>>
  BY DEF ParseIntoWordPositionsTable, At
<1>2. /\ buf \in Seq(Characters) /\ file \in Files /\ left_to_read \in Nat /\ cur_ptr = 1 /\ word_start = 0
      /\ dirs # <<>> /\ Within(Top) /\ dirs \in Seq(Calls)
  BY <1>0, <1>1 DEF TextInv, StackInv, Working
<1>3. \/ Exit("empty") /\ UNCHANGED <<parserVars, dirs>>
      \/ NextEntry /\ FreeText /\ UNCHANGED tab
      \/ StartParsing /\ pc' = "parsing" /\ UNCHANGED <<exited, dirs>>
  BY DEF ParseIntoWordPositionsTable
<1>4. PlacesOK' /\ pc' \in {"read", "entry", "parsing"}
  BY <1>0, <1>1, <1>3 DEF PlacesOK, Exit, NextEntry
<1>5. DocsInv' /\ IndexInv'
  BY <1>0, <1>1, <1>4, DocsFrame, IndexFrame
<1>6. SearchInv'
  BY <1>0, <1>1, <1>4, SearchFrame DEF Crawling, Working
<1>7. StackInv'
  <2>1. CASE NextEntry
    <3>1. \A k \in 1..Len(dirs) : Within(dirs[k])
      BY <1>0, <1>2, AllWithin
    <3> QED BY <1>0, <1>1, <1>2, <2>1, <3>1, AdvanceKeepsStack DEF NextEntry
  <2>2. CASE UNCHANGED dirs /\ pc' # "entry"
    BY <1>0, <1>1, <1>4, <2>2, StackFrame DEF Working
  <2> QED BY <1>1, <1>3, <2>1, <2>2 DEF Exit
<1>8. TextInv'
  <2>1. CASE Exit("empty") /\ UNCHANGED <<parserVars, dirs>>
    <3>1. UNCHANGED <<pc, file, buf, left_to_read, cur_ptr, word_start, tab>>
      BY <2>1 DEF Exit, parserVars
    <3> QED BY <1>0, <3>1 DEF TextInv
  <2>2. CASE NextEntry /\ FreeText /\ UNCHANGED tab
    <3>1. /\ pc' = "entry" /\ buf' = <<>> /\ cur_ptr' = 1 /\ word_start' = 0
          /\ UNCHANGED <<file, left_to_read, tab>>
      BY <2>2 DEF NextEntry, FreeText
    <3>2. <<>> \in Seq(Characters) /\ Len(<<>>) = 0
      OBVIOUS
    <3> QED BY <1>0, <3>1, <3>2 DEF TextInv, Working
  <2>3. CASE StartParsing /\ pc' = "parsing"
    <3>1. CString(buf) \in Seq(Characters)
      BY <1>2, CStringIsText
    <3>2. /\ buf' = CString(buf) /\ cur_ptr' = 1 /\ word_start' = 0 /\ tab' = EmptyTable
          /\ UNCHANGED <<file, left_to_read>>
      BY <2>3 DEF StartParsing
    <3>3. Len(buf') \in Nat /\ buf' \in Seq(Characters)
      BY <3>1, <3>2, LenProperties
    <3>4. DOMAIN tab' = {}
      BY <3>2 DEF EmptyTable
    <3> QED BY <1>2, <2>3, <3>2, <3>3, <3>4 DEF TextInv
  <2> QED BY <1>3, <2>1, <2>2, <2>3
<1> QED BY <1>4, <1>5, <1>6, <1>7, <1>8 DEF IInv

(* InsertContent: a letter lengthens the word, another character ends it.  *)
LEMMA InsertStep == IInv /\ InsertContent => IInv'
<1> SUFFICES ASSUME IInv, InsertContent PROVE IInv'
  OBVIOUS
<1>0. PlacesOK /\ TextInv /\ DocsInv /\ IndexInv /\ StackInv /\ SearchInv
  BY DEF IInv
<1>1. /\ pc = "parsing" /\ pc' = pc /\ cur_ptr <= Len(buf) /\ cur_ptr' = cur_ptr + 1
      /\ UNCHANGED <<exited, file, left_to_read, docTableVars, index, searchVars, tree, dirs, doc_id>>
  BY DEF InsertContent, InsertLetter, InsertBoundary, At, crawlVars
<1>2. /\ buf \in Seq(Characters) /\ Len(buf) \in Nat /\ cur_ptr \in 1..Len(buf) /\ word_start \in 0..cur_ptr - 1
      /\ file \in Files /\ left_to_read \in Nat
      /\ word_start # 0 => \A k \in word_start..cur_ptr - 1 : buf[k] \in Letters
  BY <1>0, <1>1 DEF TextInv, Working
<1>3. PlacesOK'
  BY <1>0, <1>1 DEF PlacesOK
<1>4. DocsInv' /\ IndexInv'
  BY <1>0, <1>1, DocsFrame, IndexFrame
<1>5. SearchInv'
  BY <1>0, <1>1, SearchFrame DEF Crawling, Working
<1>6. StackInv'
  BY <1>0, <1>1, StackFrame DEF Working
<1>7. ASSUME buf' \in Seq(Characters), Len(buf') = Len(buf), word_start' \in 0..cur_ptr,
             word_start' # 0 => \A k \in word_start'..cur_ptr : buf'[k] \in Letters,
             DOMAIN tab' \subseteq Seq(Letters), \A w \in DOMAIN tab' : tab'[w] \in Seq(Nat) \ {<<>>}
      PROVE  TextInv'
  <2>1. cur_ptr' \in 1..Len(buf') + 1 /\ cur_ptr' - 1 = cur_ptr
    BY <1>1, <1>2, <1>7
  <2> QED BY <1>1, <1>2, <1>7, <2>1 DEF TextInv
<1>8. CASE InsertLetter
  <2>1. /\ buf[cur_ptr] \in Letters /\ buf' = [buf EXCEPT ![cur_ptr] = tolower[buf[cur_ptr]]]
        /\ word_start' = IF word_start = 0 THEN cur_ptr ELSE word_start
        /\ tab' = tab
    BY <1>8 DEF InsertLetter
  <2>2. tolower[buf[cur_ptr]] \in Letters /\ Letters \subseteq Characters
    BY <2>1, LettersAssumption DEF Characters
  <2>3. /\ buf' \in Seq(Characters) /\ Len(buf') = Len(buf)
        /\ \A k \in 1..Len(buf) : buf'[k] = IF k = cur_ptr THEN tolower[buf[cur_ptr]] ELSE buf[k]
    BY <1>2, <2>1, <2>2
  <2>4. word_start' \in 0..cur_ptr
    BY <1>2, <2>1
  <2>5. word_start' # 0 => \A k \in word_start'..cur_ptr : buf'[k] \in Letters
    <3> SUFFICES ASSUME word_start' # 0, NEW k \in word_start'..cur_ptr PROVE buf'[k] \in Letters
      OBVIOUS
    <3>1. k \in 1..Len(buf)
      BY <1>2, <2>4
    <3>2. CASE k = cur_ptr
      BY <2>2, <2>3, <3>1, <3>2
    <3>3. CASE k # cur_ptr
      <4>1. word_start # 0 /\ word_start' = word_start
        BY <1>2, <2>1, <3>3
      <4>2. k \in word_start..cur_ptr - 1
        BY <1>2, <3>3, <4>1
      <4> QED BY <1>2, <2>3, <3>1, <3>3, <4>1, <4>2
    <3> QED BY <3>2, <3>3
  <2>6. DOMAIN tab' \subseteq Seq(Letters) /\ \A w \in DOMAIN tab' : tab'[w] \in Seq(Nat) \ {<<>>}
    BY <1>0, <2>1 DEF TextInv
  <2>7. TextInv'
    BY <1>7, <2>3, <2>4, <2>5, <2>6
  <2> QED BY <1>3, <1>4, <1>5, <1>6, <2>7 DEF IInv
<1>9. CASE InsertBoundary
  <2>1. CASE word_start = 0
    <3>1. UNCHANGED <<buf, word_start, tab>>
      BY <1>9, <2>1 DEF InsertBoundary
    <3>2. TextInv'
      <4>1. word_start' \in 0..cur_ptr /\ word_start' = 0
        BY <1>2, <2>1, <3>1
      <4>2. DOMAIN tab' \subseteq Seq(Letters) /\ \A w \in DOMAIN tab' : tab'[w] \in Seq(Nat) \ {<<>>}
        BY <1>0, <3>1 DEF TextInv
      <4> QED BY <1>2, <1>7, <3>1, <4>1, <4>2
    <3> QED BY <1>3, <1>4, <1>5, <1>6, <3>2 DEF IInv
  <2>2. CASE word_start # 0
    <3> DEFINE word == SubSeq(buf, word_start, cur_ptr - 1)
    <3>1. /\ buf' = [buf EXCEPT ![cur_ptr] = NUL] /\ word_start' = 0
          /\ AddWordPosition(word, word_start - 1)
      BY <1>9, <2>2 DEF InsertBoundary, WordEnds
    <3>2. buf' \in Seq(Characters) /\ Len(buf') = Len(buf)
      <4>1. NUL \in Characters
        BY DEF Characters
      <4> QED BY <1>2, <3>1, <4>1
    <3>3. word \in Seq(Letters)
      <4>1. word_start \in Int /\ cur_ptr - 1 \in Int /\ \A k \in word_start..cur_ptr - 1 : buf[k] \in Letters
        BY <1>2, <2>2
      <4> QED BY <4>1, SubSeqProperties
    <3>4. word_start - 1 \in Nat
      BY <1>2, <2>2
    <3> HIDE DEF word
    <3>5. DOMAIN tab' \subseteq Seq(Letters) /\ \A w \in DOMAIN tab' : tab'[w] \in Seq(Nat) \ {<<>>}
      <4>1. DOMAIN tab' = DOMAIN tab \cup {word}
        BY <3>1 DEF AddWordPosition
      <4>2. ASSUME NEW w \in DOMAIN tab' PROVE tab'[w] \in Seq(Nat) \ {<<>>}
        <5> DEFINE before == IF w \in DOMAIN tab THEN tab[w] ELSE <<>>
                   after == IF w = word THEN <<word_start - 1>> ELSE <<>>
        <5>1. tab'[w] = before \o after
          BY <3>1, <4>1, <4>2 DEF AddWordPosition
        <5>2. before \in Seq(Nat) /\ after \in Seq(Nat)
          BY <1>0, <3>4 DEF TextInv
        <5>3. Len(before) # 0 \/ Len(after) # 0
          <6>1. CASE w \in DOMAIN tab
            <7>1. before \in Seq(Nat) /\ before # <<>>
              BY <1>0, <6>1 DEF TextInv
            <7> QED BY <7>1, EmptySeq
          <6>2. CASE w = word
            BY <3>4, <6>2
          <6> QED BY <4>1, <6>1, <6>2
        <5> HIDE DEF before, after
        <5>4. tab'[w] \in Seq(Nat) /\ Len(tab'[w]) = Len(before) + Len(after) /\ Len(before) \in Nat /\ Len(after) \in Nat
          BY <5>1, <5>2, ConcatProperties, LenProperties
        <5>5. Len(tab'[w]) # 0
          BY <5>3, <5>4
        <5> QED BY <5>4, <5>5, EmptySeq
      <4> QED BY <1>0, <3>3, <4>1, <4>2 DEF TextInv
    <3>6. word_start' \in 0..cur_ptr
      BY <1>2, <3>1
    <3>7. TextInv'
      BY <1>7, <3>1, <3>2, <3>5, <3>6
    <3> QED BY <1>3, <1>4, <1>5, <1>6, <3>7 DEF IInv
  <2> QED BY <2>1, <2>2
<1> QED BY <1>8, <1>9 DEF InsertContent

(* The words of a file go into the index.                                  *)
LEMMA ParsedStep == IInv /\ FileParsed => IInv'
<1> SUFFICES ASSUME IInv, FileParsed PROVE IInv'
  OBVIOUS
<1>0. PlacesOK /\ TextInv /\ DocsInv /\ IndexInv /\ StackInv /\ SearchInv
  BY DEF IInv
<1>1. /\ pc = "parsing" /\ pc' \in {"entry", "posting"} /\ UNCHANGED <<exited, index, searchVars, tree>>
      /\ buf' = <<>> /\ cur_ptr' = 1 /\ word_start' = 0 /\ UNCHANGED <<file, left_to_read, tab>>
  BY DEF FileParsed, Parsed, At, FreeText, NextEntry
<1>2. file \in Files /\ dirs # <<>> /\ Within(Top) /\ dirs \in Seq(Calls)
  BY <1>0, <1>1 DEF TextInv, StackInv, Working
<1>3. PlacesOK'
  BY <1>0, <1>1 DEF PlacesOK
<1>4. TextInv'
  <2>1. <<>> \in Seq(Characters) /\ Len(<<>>) = 0
    OBVIOUS
  <2> QED BY <1>0, <1>1, <1>2, <2>1 DEF TextInv
<1>5. SearchInv'
  BY <1>0, <1>1, SearchFrame DEF Crawling, Working
<1>6. CASE NextEntry /\ UNCHANGED <<docTableVars, doc_id>>
  <2>1. \A k \in 1..Len(dirs) : Within(dirs[k])
    BY <1>0, <1>2, AllWithin
  <2>2. StackInv'
    BY <1>0, <1>1, <1>2, <1>6, <2>1, AdvanceKeepsStack DEF NextEntry
  <2>3. DocsInv' /\ IndexInv'
    BY <1>0, <1>1, <1>6, DocsFrame, IndexFrame DEF NextEntry
  <2> QED BY <1>3, <1>4, <1>5, <2>2, <2>3 DEF IInv
<1>7. CASE DocTable_Add(file) /\ doc_id' = AddedId(file) /\ pc' = "posting" /\ UNCHANGED dirs
  <2>1. StackInv'
    BY <1>0, <1>1, <1>7, StackFrame DEF Working
  <2>2. DocsInv' /\ max_id' \in {max_id, max_id + 1} /\ max_id \in Nat
    <3>1. CASE file \in DOMAIN name_to_id /\ UNCHANGED docTableVars
      <4>1. UNCHANGED <<id_to_name, name_to_id, max_id>> /\ doc_id' = name_to_id[file]
        BY <1>7, <3>1 DEF docTableVars, AddedId
      <4> QED BY <1>0, <3>1, <4>1 DEF DocsInv
    <3>2. CASE /\ file \notin DOMAIN name_to_id
               /\ max_id' = NextId
               /\ id_to_name' = Inserted(id_to_name, max_id, file)
               /\ name_to_id' = Inserted(name_to_id, file, max_id)
      <4>1. max_id \in Nat \ {0} /\ max_id' = max_id + 1 /\ doc_id' = max_id /\ DOMAIN id_to_name = 1..max_id - 1
        BY <1>0, <1>7, <3>2 DEF DocsInv, NextId, AddedId
      <4>2. /\ DOMAIN id_to_name' = 1..max_id'- 1
            /\ \A d \in 1..max_id' - 1 : id_to_name'[d] = IF d = max_id THEN file ELSE id_to_name[d]
            /\ DOMAIN name_to_id' = DOMAIN name_to_id \cup {file}
            /\ \A f \in DOMAIN name_to_id' : name_to_id'[f] = IF f = file THEN max_id ELSE name_to_id[f]
        <5>1. 1..max_id' - 1 = (1..max_id - 1) \cup {max_id}
          BY <4>1
        <5> QED BY <3>2, <4>1, <5>1, Zenon DEF Inserted
      <4>3. ASSUME NEW d \in 1..max_id' - 1
            PROVE  id_to_name'[d] \in DOMAIN name_to_id' /\ name_to_id'[id_to_name'[d]] = d
        <5>1. CASE d = max_id
          BY <4>2, <5>1
        <5>2. CASE d # max_id
          <6>1. d \in 1..max_id - 1
            BY <4>1, <5>2
          <6>2. id_to_name[d] \in DOMAIN name_to_id /\ name_to_id[id_to_name[d]] = d
            BY <1>0, <6>1 DEF DocsInv
          <6> QED BY <3>2, <4>2, <5>2, <6>2
        <5> QED BY <5>1, <5>2
      <4>4. ASSUME NEW f \in DOMAIN name_to_id'
            PROVE  name_to_id'[f] \in 1..max_id' - 1 /\ id_to_name'[name_to_id'[f]] = f
        <5>1. CASE f = file
          BY <4>1, <4>2, <5>1
        <5>2. CASE f # file
          <6>1. name_to_id[f] \in 1..max_id - 1 /\ id_to_name[name_to_id[f]] = f
            BY <1>0, <4>2, <5>2 DEF DocsInv
          <6> QED BY <4>1, <4>2, <5>2, <6>1
        <5> QED BY <5>1, <5>2
      <4> QED BY <4>1, <4>2, <4>3, <4>4 DEF DocsInv
    <3> QED BY <1>7, <3>1, <3>2 DEF DocTable_Add
  <2>3. IndexInv'
    BY <1>0, <1>1, <2>2 DEF IndexInv
  <2> QED BY <1>3, <1>4, <1>5, <2>1, <2>2, <2>3 DEF IInv
<1> QED BY <1>6, <1>7 DEF FileParsed

LEMMA PostingStep == IInv /\ (PostWord \/ FilePosted) => IInv'
<1> SUFFICES ASSUME IInv, PostWord \/ FilePosted PROVE IInv'
  OBVIOUS
<1>0. PlacesOK /\ TextInv /\ DocsInv /\ IndexInv /\ StackInv /\ SearchInv
  BY DEF IInv
<1>1. /\ pc = "posting" /\ pc' \in {"entry", "posting"} /\ exited' \in {exited, "posting"}
      /\ UNCHANGED <<file, buf, left_to_read, cur_ptr, word_start, docTableVars, searchVars, tree, doc_id>>
  BY DEF PostWord, FilePosted, At, Exit, NextEntry, parserVars, crawlVars
<1>2. PlacesOK' /\ DocsInv' /\ SearchInv'
  <2>1. PlacesOK'
    BY <1>0, <1>1 DEF PlacesOK
  <2> QED BY <1>0, <1>1, <2>1, DocsFrame, SearchFrame DEF Crawling, Working
<1>3. CASE FilePosted
  <2>1. NextEntry /\ UNCHANGED <<parserVars, index>> /\ dirs # <<>> /\ Within(Top) /\ dirs \in Seq(Calls)
    BY <1>0, <1>1, <1>3 DEF FilePosted, StackInv, Working
  <2>2. \A k \in 1..Len(dirs) : Within(dirs[k])
    BY <1>0, <2>1, AllWithin
  <2>3. StackInv'
    BY <1>0, <1>1, <2>1, <2>2, AdvanceKeepsStack DEF NextEntry
  <2>4. TextInv'
    BY <1>0, <1>1, <2>1, TextFrame DEF NextEntry, Working
  <2>5. IndexInv'
    BY <1>0, <1>1, <2>1, IndexFrame
  <2> QED BY <1>2, <2>3, <2>4, <2>5 DEF IInv
<1>4. CASE PostWord
  <2>1. pc' = pc /\ UNCHANGED dirs
    BY <1>4 DEF PostWord, Exit, crawlVars
  <2>2. StackInv'
    BY <1>0, <1>1, <2>1, StackFrame DEF Working
  <2>3. CASE UNCHANGED <<index, tab>>
    <3>1. TextInv'
      BY <1>0, <1>1, <2>1, <2>3 DEF TextInv
    <3>2. IndexInv'
      BY <1>0, <1>1, <2>3, IndexFrame
    <3> QED BY <1>2, <2>2, <3>1, <3>2 DEF IInv
  <2>4. ASSUME NEW word \in DOMAIN tab, MemIndex_AddPostingList(word, doc_id, tab[word]),
               tab' = [w \in DOMAIN tab \ {word} |-> tab[w]]
        PROVE  TextInv' /\ IndexInv'
    <3>1. TextInv'
      <4>1. DOMAIN tab' \subseteq DOMAIN tab /\ \A w \in DOMAIN tab' : tab'[w] = tab[w]
        BY <2>4
      <4>2. DOMAIN tab' \subseteq Seq(Letters) /\ \A w \in DOMAIN tab' : tab'[w] \in Seq(Nat) \ {<<>>}
        BY <1>0, <4>1 DEF TextInv
      <4> QED BY <1>0, <1>1, <2>1, <4>2 DEF TextInv
    <3>2. word \in Seq(Letters) /\ tab[word] \in Seq(Nat) /\ doc_id \in 1..max_id - 1 /\ max_id' = max_id
      BY <1>0, <1>1, <2>4 DEF TextInv, DocsInv, docTableVars
    <3>3. /\ DOMAIN Postings(word) \subseteq 1..max_id - 1
          /\ \A d \in DOMAIN Postings(word) : Postings(word)[d] \in Seq(Nat)
      BY <1>0 DEF IndexInv, Postings
    <3> HIDE DEF Postings
    <3>4. /\ DOMAIN index' = DOMAIN index \cup {word}
          /\ \A w \in DOMAIN index' : w # word => index'[w] = index[w]
          /\ DOMAIN index'[word] = DOMAIN Postings(word) \cup {doc_id}
          /\ \A d \in DOMAIN index'[word] :
                index'[word][d] = IF d = doc_id THEN tab[word] ELSE Postings(word)[d]
      BY <2>4 DEF MemIndex_AddPostingList
    <3>5. IndexInv'
      <4>1. DOMAIN index' \subseteq Seq(Letters)
        BY <1>0, <3>2, <3>4 DEF IndexInv
      <4>2. ASSUME NEW w \in DOMAIN index'
            PROVE  /\ DOMAIN index'[w] # {} /\ DOMAIN index'[w] \subseteq 1..max_id' - 1
                   /\ \A d \in DOMAIN index'[w] : index'[w][d] \in Seq(Nat)
        <5>1. CASE w = word
          BY <3>2, <3>3, <3>4, <5>1
        <5>2. CASE w # word
          BY <1>0, <3>2, <3>4, <5>2 DEF IndexInv
        <5> QED BY <5>1, <5>2
      <4> QED BY <4>1, <4>2 DEF IndexInv
    <3> QED BY <3>1, <3>5
  <2> QED BY <1>2, <1>4, <2>2, <2>3, <2>4 DEF PostWord, IInv
<1> QED BY <1>3, <1>4

-----------------------------------------------------------------------------
(* The steps of a query leave everything of the crawl alone.               *)
Searching == {"prompt", "search", "word", "pass", "answered", "closed"}

LEMMA CrawlFrame ==
  ASSUME IInv, UNCHANGED <<Indexed, exited>>, pc \in Searching, pc' \in Searching
  PROVE  PlacesOK' /\ TextInv' /\ DocsInv' /\ IndexInv' /\ StackInv'
<1>0. PlacesOK /\ TextInv /\ DocsInv /\ IndexInv /\ StackInv
  BY DEF IInv
<1>1. UNCHANGED <<parserVars, docTableVars, index, tree, dirs, doc_id, exited>>
  BY DEF Indexed, crawlVars
<1>2. PlacesOK'
  BY <1>0, <1>1 DEF PlacesOK, Searching
<1>3. TextInv'
  BY <1>0, <1>1, TextFrame DEF Searching, Working
<1>4. DocsInv'
  BY <1>0, <1>1, DocsFrame DEF Searching
<1>5. IndexInv'
  BY <1>0, <1>1, IndexFrame
<1>6. StackInv'
  BY <1>0, <1>1, StackFrame DEF Searching, Working
<1> QED BY <1>2, <1>3, <1>4, <1>5, <1>6

LEMMA QueryIsWords == ASSUME SearchInv PROVE query \in Seq(Seq(Letters))
<1>1. <<>> \in Seq(Seq(Letters))
  BY EmptySeq
<1> QED BY <1>1, QueriesAssumption DEF SearchInv

LEMMA SortedIsList ==
  ASSUME NEW A, NEW list \in Seq(A), \A r \in A : r.rank \in Nat
  PROVE  Sorted(list) \in Seq(A)
<1>1. IsFiniteSet(Range(list)) /\ Range(list) \subseteq A
  <2>1. Len(list) \in Nat /\ DOMAIN list = 1..Len(list) /\ \A k \in 1..Len(list) : list[k] \in A
    OBVIOUS
  <2>2. list \in Surjection(1..Len(list), Range(list))
    BY <2>1 DEF Surjection, Range
  <2>3. IsFiniteSet(1..Len(list))
    BY <2>1, FS_Interval
  <2>4. Range(list) \subseteq A
    BY <2>1 DEF Range
  <2> QED BY <2>2, <2>3, <2>4, FS_Surjection
<1>2. Sorted(list) \in SetToSeqs(Range(list))
  BY SortedSorts
<1>3. Sorted(list) \in Seq(Range(list))
  BY <1>1, <1>2, RowIsSequence
<1> QED BY <1>1, <1>3, SeqMonotonic

LEMMA QueryStep == IInv /\ (EndOfInput \/ \E q \in Queries : ReadQuery(q)) => IInv'
<1> SUFFICES ASSUME IInv, EndOfInput \/ \E q \in Queries : ReadQuery(q) PROVE IInv'
  OBVIOUS
<1>1. /\ pc = "prompt" /\ pc' \in {"closed", "search"} /\ UNCHANGED <<Indexed, exited>>
      /\ query' \in Queries \cup {query} /\ UNCHANGED <<ret_list, i, j, num_docs, ll_it>>
  BY DEF EndOfInput, ReadQuery, At, searchVars
<1>2. UNCHANGED id_to_name
  BY <1>1 DEF Indexed, docTableVars
<1>3. SearchInv'
  BY <1>1, <1>2 DEF IInv, SearchInv, Results, Crawling, Working
<1>4. PlacesOK' /\ TextInv' /\ DocsInv' /\ IndexInv' /\ StackInv'
  BY <1>1, CrawlFrame DEF Searching
<1> QED BY <1>3, <1>4 DEF IInv

(* MemIndex_Search.                                                        *)
LEMMA SearchStep == IInv /\ Search => IInv'
<1> SUFFICES ASSUME IInv, Search PROVE IInv'
  OBVIOUS
<1>0. SearchInv /\ DocsInv /\ IndexInv
  BY DEF IInv
<1>1. /\ pc \in {"search", "word", "pass", "answered"} /\ pc' \in {"word", "pass", "answered", "prompt"}
      /\ UNCHANGED <<Indexed, exited, query>>
  BY DEF Search, SearchFirst, SearchNext, Pass, EndOfPass, ShowResults, At, Return, searchVars
<1>2. UNCHANGED <<id_to_name, index, query>> /\ Results' = Results
  BY <1>1 DEF Indexed, docTableVars, Results
<1>3. PlacesOK' /\ TextInv' /\ DocsInv' /\ IndexInv' /\ StackInv'
  BY <1>1, CrawlFrame DEF Searching
<1>4. /\ query \in Queries \cup {<<>>} /\ ret_list \in Seq(Results) /\ i \in Nat \ {0} /\ j \in Nat /\ num_docs \in Nat
      /\ Len(ret_list) \in Nat /\ \A r \in Results : r.rank \in Nat
  BY <1>0 DEF SearchInv, Results
<1>5. <<>> \in Seq(Results) /\ Len(<<>>) = 0
  OBVIOUS
<1>6. pc' \notin Crawling
  BY <1>1 DEF Crawling, Working
<1>7. CASE SearchFirst
  <2>1. i' = 2 /\ UNCHANGED <<j, num_docs, ll_it>> /\ pc' \in {"answered", "word"}
    BY <1>7 DEF SearchFirst, Return
  <2>2. CASE query = <<>> \/ ~Occurs(query[1])
    <3>1. ret_list' = <<>> /\ pc' = "answered"
      BY <1>7, <2>2 DEF SearchFirst, Return
    <3>2. SearchInv'
      BY <1>2, <1>4, <1>5, <1>6, <2>1, <3>1 DEF SearchInv
    <3> QED BY <1>3, <3>2 DEF IInv
  <2>3. CASE ~ (query = <<>> \/ ~Occurs(query[1]))
    <3>1. FirstResults(ret_list') /\ pc' = "word"
      BY <1>7, <2>3, Zenon DEF SearchFirst
    <3>2. ret_list' \in Seq(Results) /\ ret_list' # <<>>
      BY <1>0, <2>3, <3>1, FirstResultsFound
    <3>3. SearchInv'
      BY <1>2, <1>4, <1>6, <2>1, <3>1, <3>2 DEF SearchInv
    <3> QED BY <1>3, <3>3 DEF IInv
  <2> QED BY <2>2, <2>3
<1>8. CASE SearchNext
  <2>1. pc = "word" /\ ret_list # <<>> /\ UNCHANGED i
    BY <1>0, <1>8 DEF SearchNext, At, SearchInv
  <2>2. CASE Return(Sorted(ret_list)) /\ UNCHANGED <<j, num_docs, ll_it>>
    <3>1. Sorted(ret_list) \in Seq(Results)
      BY <1>4, SortedIsList
    <3>2. SearchInv'
      BY <1>2, <1>4, <1>6, <2>1, <2>2, <3>1 DEF SearchInv, Return
    <3> QED BY <1>3, <3>2 DEF IInv
  <2>3. CASE Return(<<>>) /\ UNCHANGED <<j, num_docs, ll_it>>
    <3>1. SearchInv'
      BY <1>2, <1>4, <1>5, <1>6, <2>1, <2>3 DEF SearchInv, Return
    <3> QED BY <1>3, <3>1 DEF IInv
  <2>4. CASE i <= Len(query) /\ Occurs(query[i]) /\ StartPass /\ pc' = "pass" /\ UNCHANGED ret_list
    <3>1. query \in Seq(Seq(Letters))
      BY <1>0, QueryIsWords
    <3>2. i \in DOMAIN query
      BY <1>4, <2>4, <3>1
    <3>3. Len(ret_list) # 0
      BY <1>4, <2>1, EmptySeq
    <3>4. j' = 0 /\ num_docs' = Len(ret_list) /\ ll_it' = 1 /\ ll_it' \in 0..Len(ret_list)
      BY <1>4, <2>4, <3>3 DEF StartPass
    <3>5. Occurs(query[i])'
      BY <1>2, <2>1, <2>4 DEF Occurs
    <3>6. SearchInv'
      BY <1>2, <1>4, <1>6, <2>1, <2>4, <3>2, <3>4, <3>5 DEF SearchInv
    <3> QED BY <1>3, <3>6 DEF IInv
  <2> QED BY <1>8, <2>2, <2>3, <2>4 DEF SearchNext
<1>9. CASE Pass
  <2>1. /\ pc = "pass" /\ pc' = pc /\ UNCHANGED <<i, num_docs>> /\ j' = j + 1 /\ ll_it \in DOMAIN ret_list
        /\ i \in DOMAIN query /\ Occurs(query[i])
    BY <1>0, <1>9 DEF Pass, At, KeepDocument, DropDocument, SearchInv
  <2>2. ll_it \in 1..Len(ret_list) /\ ll_it \in Nat
    BY <1>4, <2>1
  <2>3. Occurs(query[i])'
    BY <1>2, <2>1 DEF Occurs
  <2>4. ret_list' \in Seq(Results) /\ ll_it' \in 0..Len(ret_list')
    <3>1. CASE KeepDocument
      <4> DEFINE more == Len(index[query[i]][ret_list[ll_it].doc_id])
                 r == [ret_list[ll_it] EXCEPT !.rank = @ + more]
      <4>1. more \in Nat
        BY <1>0, <2>1, <3>1 DEF KeepDocument, IndexInv, Occurs
      <4>2. r \in Results
        <5> HIDE DEF more
        <5>1. PICK d \in DOMAIN id_to_name, m \in Nat : ret_list[ll_it] = [doc_id |-> d, rank |-> m]
          <6>1. ret_list[ll_it] \in Results
            BY <1>4, <2>2, ElementOfSeq
          <6> QED BY <6>1 DEF Results
        <5>2. r = [doc_id |-> d, rank |-> m + more] /\ m + more \in Nat
          BY <4>1, <5>1
        <5> QED BY <5>2 DEF Results
      <4>3. ret_list' = [ret_list EXCEPT ![ll_it] = r]
        BY <3>1, Zenon DEF KeepDocument
      <4> HIDE DEF r
      <4>4. ret_list' \in Seq(Results) /\ Len(ret_list') = Len(ret_list)
        BY <1>4, <2>2, <4>2, <4>3
      <4>5. ll_it' \in 0..Len(ret_list)
        BY <1>4, <2>2, <3>1 DEF KeepDocument, AfterNext
      <4> QED BY <4>4, <4>5
    <3>2. CASE DropDocument
      <4> DEFINE before == SubSeq(ret_list, 1, ll_it - 1)
                 after == SubSeq(ret_list, ll_it + 1, Len(ret_list))
      <4>1. before \in Seq(Results) /\ Len(before) = ll_it - 1
        BY <1>4, <2>2, SubSeqProperties
      <4>2. after \in Seq(Results) /\ Len(after) = Len(ret_list) - ll_it
        BY <1>4, <2>2, SubSeqProperties
      <4>3. ret_list' = before \o after /\ ll_it' = AfterRemove(ll_it, ret_list)
        BY <3>2 DEF DropDocument, RemoveAt
      <4> HIDE DEF before, after
      <4>4. ret_list' \in Seq(Results) /\ Len(ret_list') = Len(ret_list) - 1
        <5>1. ret_list' \in Seq(Results) /\ Len(ret_list') = Len(before) + Len(after)
          BY <4>1, <4>2, <4>3, ConcatProperties
        <5> QED BY <1>4, <2>2, <4>1, <4>2, <5>1
      <4>5. ll_it' \in 0..Len(ret_list) - 1
        BY <1>4, <2>2, <4>3 DEF AfterRemove
      <4> QED BY <4>4, <4>5
    <3> QED BY <1>9, <3>1, <3>2 DEF Pass
  <2>5. SearchInv'
    BY <1>2, <1>4, <1>6, <2>1, <2>3, <2>4 DEF SearchInv
  <2> QED BY <1>3, <2>5 DEF IInv
<1>10. CASE EndOfPass
  <2>1. UNCHANGED <<j, num_docs, ll_it>>
        /\ \/ ret_list' = <<>> /\ pc' = "answered" /\ UNCHANGED i
           \/ ret_list # <<>> /\ i' = i + 1 /\ pc' = "word" /\ UNCHANGED ret_list
    BY <1>10 DEF EndOfPass, Return
  <2>2. i' \in Nat \ {0}
    BY <1>4, <2>1
  <2>3. SearchInv'
    BY <1>2, <1>4, <1>5, <1>6, <2>1, <2>2 DEF SearchInv
  <2> QED BY <1>3, <2>3 DEF IInv
<1>11. CASE ShowResults
  <2>1. pc' = "prompt" /\ UNCHANGED <<ret_list, i, j, num_docs, ll_it>>
    BY <1>11 DEF ShowResults, searchVars
  <2>2. SearchInv'
    BY <1>2, <1>4, <1>6, <2>1 DEF SearchInv
  <2> QED BY <1>3, <2>2 DEF IInv
<1> QED BY <1>7, <1>8, <1>9, <1>10, <1>11 DEF Search

LEMMA Stutter == IInv /\ UNCHANGED vars => IInv'
<1> SUFFICES ASSUME IInv, UNCHANGED vars PROVE IInv'
  OBVIOUS
<1>1. UNCHANGED <<pc, exited, file, buf, left_to_read, cur_ptr, word_start, tab, id_to_name, name_to_id, max_id, index,
                  query, ret_list, i, j, num_docs, ll_it, tree, dirs, doc_id>>
  BY DEF vars, parserVars, docTableVars, searchVars, crawlVars
<1>2. PlacesOK' /\ TextInv' /\ DocsInv' /\ IndexInv'
  BY <1>1 DEF IInv, PlacesOK, TextInv, DocsInv, IndexInv
<1>3. StackInv'
  BY <1>1 DEF IInv, StackInv, Top, Within
<1>4. SearchInv'
  BY <1>1 DEF IInv, SearchInv, Results, Occurs
<1> QED BY <1>2, <1>3, <1>4 DEF IInv

LEMMA StepIInv == IInv /\ [Next]_vars => IInv'
<1> SUFFICES ASSUME IInv, [Next]_vars PROVE IInv'
  OBVIOUS
<1>1. CASE Crawl
  BY <1>1, OpenStep, ReadingStep, TextStep, InsertStep, ParsedStep, PostingStep, Zenon DEF Crawl
<1>2. CASE Search \/ EndOfInput \/ \E q \in Queries : ReadQuery(q)
  BY <1>2, SearchStep, QueryStep, Zenon
<1>3. CASE UNCHANGED vars
  BY <1>3, Stutter
<1> QED BY <1>1, <1>2, <1>3, Zenon DEF Next, Stopped

THEOREM Invariance == Spec => []IInv
  BY InitIInv, StepIInv, PTL DEF Spec

(* Every step of the crawl and of a search finds its variables in their    *)
(* types: the cursors are within the text, the directories and the list    *)
(* of results, for all texts, trees and queries.                           *)
THEOREM TypeCorrect == Spec => []TypeOK
  BY Invariance, IInvImplies, PTL

(* The document table's two tables stay each other's inverse, and the      *)
(* index names no document that the table does not, whatever the tree.     *)
THEOREM TablesMatch == Spec => []TablesAreInverse
  BY Invariance, IInvImplies, PTL

-----------------------------------------------------------------------------
(* What a search has found so far.  In the index x, document d has the     *)
(* first k words of the query q, and has them so many times.               *)
HasWords(x, q, d, k) == \A m \in 1..k : q[m] \in DOMAIN x /\ d \in DOMAIN x[q[m]]
RankTo(x, q, d, k) == SumFunctionOnSet([m \in DOMAIN q |-> Len(x[q[m]][d])], 1..k)

(* The pass for word k has come to the p-th of the results in list.        *)
Thinned(x, q, docs, list, k, p) ==
  /\ \A m \in DOMAIN list : LET n == IF m <= p THEN k ELSE k - 1
                            IN HasWords(x, q, list[m].doc_id, n) /\ list[m].rank = RankTo(x, q, list[m].doc_id, n)
  /\ \A m, n \in DOMAIN list : list[m].doc_id = list[n].doc_id => m = n
  /\ \A d \in docs : HasWords(x, q, d, k) => \E m \in DOMAIN list : list[m].doc_id = d

(* The iterator stands behind the results the pass is done with.           *)
PassedBy == Len(ret_list) - (num_docs - j)
FoundInv ==
  /\ pc = "word" => i \in 2..Len(query) + 1 /\ Thinned(index, query, DOMAIN id_to_name, ret_list, i - 1, Len(ret_list))
  /\ pc = "pass" => /\ i >= 2 /\ j <= num_docs /\ PassedBy >= 0 /\ Thinned(index, query, DOMAIN id_to_name, ret_list, i, PassedBy)
                    /\ j < num_docs => ll_it = PassedBy + 1
  /\ SearchIsConjunction

LEMMA RankGrows ==
  ASSUME IndexInv, query \in Seq(Seq(Letters)), NEW k \in Nat, NEW d, k + 1 <= Len(query), HasWords(index, query, d, k + 1)
  PROVE  /\ HasWords(index, query, d, k) /\ RankTo(index, query, d, k) \in Nat /\ Len(index[query[k + 1]][d]) \in Nat
         /\ RankTo(index, query, d, k + 1) = RankTo(index, query, d, k) + Len(index[query[k + 1]][d])
         /\ k = 0 => RankTo(index, query, d, k) = 0
<1> DEFINE f == [m \in DOMAIN query |-> Len(index[query[m]][d])]
           S == 1..k + 1
<1>1. S \subseteq DOMAIN query /\ IsFiniteSet(S) /\ k + 1 \in S /\ S \ {k + 1} = 1..k
  <2>1. IsFiniteSet(S)
    BY FS_Interval
  <2>2. DOMAIN query = 1..Len(query) /\ Len(query) \in Nat
    OBVIOUS
  <2> QED BY <2>1, <2>2
<1>2. \A m \in S : f[m] = Len(index[query[m]][d]) /\ f[m] \in Nat
  <2> SUFFICES ASSUME NEW m \in S PROVE f[m] = Len(index[query[m]][d]) /\ f[m] \in Nat
    OBVIOUS
  <2>1. query[m] \in DOMAIN index /\ d \in DOMAIN index[query[m]]
    BY DEF HasWords
  <2>2. index[query[m]][d] \in Seq(Nat)
    BY <2>1 DEF IndexInv
  <2>3. Len(index[query[m]][d]) \in Nat
    BY <2>2
  <2> QED BY <1>1, <2>3
<1>3. IsFiniteSet(1..k) /\ (k = 0 => 1..k = {}) /\ \A m \in 1..k : f[m] \in Nat
  <2> HIDE DEF f
  <2> QED BY <1>2, FS_Interval
<1> HIDE DEF f, S
<1>4. SumFunctionOnSet(f, S) = f[k + 1] + SumFunctionOnSet(f, 1..k) /\ SumFunctionOnSet(f, 1..k) \in Nat
  <2>1. \A m \in S : f[m] \in Nat
    BY <1>2
  <2>2. \A a \in S : /\ SumFunctionOnSet(f, S \ {a}) \in Nat
                     /\ SumFunctionOnSet(f, S) = f[a] + SumFunctionOnSet(f, S \ {a})
    <3>1. IsFiniteSet(S)
      BY <1>1
    <3> QED BY <2>1, <3>1, SumSplits
  <2> QED BY <1>1, <2>2
<1>5. k = 0 => SumFunctionOnSet(f, 1..k) = 0
  BY <1>3, SumSplits
<1>6. RankTo(index, query, d, k + 1) = SumFunctionOnSet(f, S) /\ RankTo(index, query, d, k) = SumFunctionOnSet(f, 1..k)
  BY DEF RankTo, f, S
<1>7. HasWords(index, query, d, k)
  BY DEF HasWords
<1> QED BY <1>1, <1>2, <1>4, <1>5, <1>6, <1>7

LEMMA MatchesAre ==
  ASSUME query \in Seq(Seq(Letters)), query # <<>>
  PROVE  Matches = {[doc_id |-> d, rank |-> RankTo(index, query, d, Len(query))] : d \in {e \in DOMAIN id_to_name : HasWords(index, query, e, Len(query))}}
<1>1. DOMAIN query = 1..Len(query)
  OBVIOUS
<1>2. \A d : HasWords(index, query, d, Len(query)) <=> \A w \in Range(query) : d \in DOMAIN Postings(w)
  <2>1. \A d, w : d \in DOMAIN Postings(w) <=> Occurs(w) /\ d \in DOMAIN index[w]
    BY DEF Postings, Occurs
  <2>2. \A w : w \in Range(query) <=> \E m \in 1..Len(query) : w = query[m]
    BY <1>1 DEF Range
  <2> QED BY <2>1, <2>2, Zenon DEF HasWords, Occurs
<1>3. \A d : RankTo(index, query, d, Len(query)) = SumFunction([k \in DOMAIN query |-> Len(index[query[k]][d])])
  BY <1>1, Zenon DEF RankTo, SumFunction
<1>4. {e \in DOMAIN id_to_name : HasWords(index, query, e, Len(query))} = {e \in DOMAIN id_to_name : \A w \in Range(query) : e \in DOMAIN Postings(w)}
  BY <1>2, Zenon
<1>5. Matches = {[doc_id |-> d, rank |-> SumFunction([k \in DOMAIN query |-> Len(index[query[k]][d])])] :
                    d \in {e \in DOMAIN id_to_name : \A w \in Range(query) : e \in DOMAIN Postings(w)}}
  BY DEF Matches
<1> DEFINE D == {e \in DOMAIN id_to_name : \A w \in Range(query) : e \in DOMAIN Postings(w)}
           Sum(d) == SumFunction([k \in DOMAIN query |-> Len(index[query[k]][d])])
<1>6. {[doc_id |-> d, rank |-> Sum(d)] : d \in D} = {[doc_id |-> d, rank |-> RankTo(index, query, d, Len(query))] : d \in D}
  <2>1. \A d : Sum(d) = RankTo(index, query, d, Len(query))
    BY <1>3
  <2> HIDE DEF Sum, D
  <2> QED BY <2>1
<1> QED BY <1>4, <1>5, <1>6

LEMMA NoneMatch ==
  ASSUME query \in Seq(Seq(Letters)), NEW k \in 1..Len(query), \A d \in DOMAIN id_to_name : ~ HasWords(index, query, d, k)
  PROVE  Matches = {}
<1>1. query # <<>>
  OBVIOUS
<1>2. \A d \in DOMAIN id_to_name : ~ HasWords(index, query, d, Len(query))
  <2> SUFFICES ASSUME NEW d \in DOMAIN id_to_name, HasWords(index, query, d, Len(query)) PROVE HasWords(index, query, d, k)
    OBVIOUS
  <2>1. 1..k \subseteq 1..Len(query)
    OBVIOUS
  <2> QED BY <2>1, Zenon DEF HasWords
<1> QED BY <1>1, <1>2, MatchesAre

LEMMA AllMatch ==
  ASSUME query \in Seq(Seq(Letters)), query # <<>>, NEW list \in Seq(Results), Thinned(index, query, DOMAIN id_to_name, list, Len(query), Len(list))
  PROVE  Range(list) = Matches /\ IsInjective(list)
<1>1. DOMAIN list = 1..Len(list) /\ \A m \in DOMAIN list : list[m] \in Results
  OBVIOUS
<1>2. \A m \in DOMAIN list : /\ list[m].doc_id \in DOMAIN id_to_name /\ HasWords(index, query, list[m].doc_id, Len(query))
                             /\ list[m] = [doc_id |-> list[m].doc_id, rank |-> RankTo(index, query, list[m].doc_id, Len(query))]
  <2> SUFFICES ASSUME NEW m \in DOMAIN list
               PROVE  /\ list[m].doc_id \in DOMAIN id_to_name /\ HasWords(index, query, list[m].doc_id, Len(query))
                      /\ list[m] = [doc_id |-> list[m].doc_id, rank |-> RankTo(index, query, list[m].doc_id, Len(query))]
    OBVIOUS
  <2>1. m <= Len(list)
    BY <1>1
  <2>2. HasWords(index, query, list[m].doc_id, Len(query)) /\ list[m].rank = RankTo(index, query, list[m].doc_id, Len(query))
    BY <2>1 DEF Thinned
  <2>3. list[m] = [doc_id |-> list[m].doc_id, rank |-> list[m].rank] /\ list[m].doc_id \in DOMAIN id_to_name
    BY <1>1 DEF Results
  <2> QED BY <2>2, <2>3
<1>3. \A d \in DOMAIN id_to_name : HasWords(index, query, d, Len(query)) => \E m \in DOMAIN list : list[m].doc_id = d
  BY DEF Thinned
<1>4. Range(list) = {[doc_id |-> d, rank |-> RankTo(index, query, d, Len(query))] : d \in {e \in DOMAIN id_to_name : HasWords(index, query, e, Len(query))}}
  <2> DEFINE D == {e \in DOMAIN id_to_name : HasWords(index, query, e, Len(query))}
             Found(d) == [doc_id |-> d, rank |-> RankTo(index, query, d, Len(query))]
  <2>1. ASSUME NEW r \in Range(list) PROVE \E d \in D : r = Found(d)
    <3>1. PICK m \in DOMAIN list : r = list[m]
      BY DEF Range
    <3> QED BY <1>2, <3>1
  <2>2. ASSUME NEW d \in D PROVE Found(d) \in Range(list)
    <3>1. PICK m \in DOMAIN list : list[m].doc_id = d
      BY <1>3
    <3>2. Found(d) = list[m]
      BY <1>2, <3>1
    <3> QED BY <3>2 DEF Range
  <2> HIDE DEF Found, D
  <2>3. Range(list) = {Found(d) : d \in D}
    BY <2>1, <2>2
  <2> QED BY <2>3 DEF Found, D
<1>5. IsInjective(list)
  <2>1. \A m, n \in DOMAIN list : list[m].doc_id = list[n].doc_id => m = n
    BY DEF Thinned
  <2> QED BY <2>1, Zenon DEF IsInjective
<1> QED BY <1>4, <1>5, MatchesAre

LEMMA MatchesFrame == ASSUME UNCHANGED <<index, query, id_to_name>> PROVE Matches' = Matches
<1>1. \A w : Postings(w)' = Postings(w)
  BY DEF Postings
<1>2. \A d : SumFunction([k \in DOMAIN query |-> Len(index[query[k]][d])])' = SumFunction([k \in DOMAIN query |-> Len(index[query[k]][d])])
  OBVIOUS
<1> QED BY <1>1, <1>2 DEF Matches

(* The first results have the first word.                                  *)
LEMMA FirstResultsThinned ==
  ASSUME DocsInv, IndexInv, query \in Seq(Seq(Letters)), NEW list, query # <<>>, Occurs(query[1]), FirstResults(list)
  PROVE  Thinned(index, query, DOMAIN id_to_name, list, 1, Len(list))
<1> DEFINE D == DOMAIN index[query[1]]
<1>1. IsFiniteSet(D) /\ Len(query) \in Nat /\ Len(query) # 0
  <2>1. D \subseteq 1..max_id - 1
    BY DEF IndexInv, Occurs
  <2>2. IsFiniteSet(1..max_id - 1)
    BY FS_Interval DEF DocsInv
  <2> HIDE DEF D
  <2> QED BY <2>1, <2>2, FS_Subset, EmptySeq
<1>2. PICK docs \in SetToSeqs(D) : list = [k \in DOMAIN docs |-> Result(query[1], docs[k])]
  BY Zenon DEF FirstResults
<1> HIDE DEF D
<1>3. docs \in Seq(D) /\ Len(docs) = Cardinality(D) /\ Cardinality(D) \in Nat /\ DOMAIN docs = 1..Len(docs)
  BY <1>1, RowIsSequence
<1>4. /\ \A k, l \in DOMAIN docs : docs[k] = docs[l] => k = l
      /\ \A d \in D : \E k \in DOMAIN docs : docs[k] = d
  BY <1>1, RowIsBijective
<1>5. /\ DOMAIN list = 1..Len(docs) /\ Len(list) = Len(docs)
      /\ \A k \in 1..Len(docs) : list[k].doc_id = docs[k] /\ list[k].rank = Len(index[query[1]][docs[k]])
  BY <1>2, <1>3 DEF Result
<1>6. ASSUME NEW d \in D PROVE HasWords(index, query, d, 1) /\ RankTo(index, query, d, 1) = Len(index[query[1]][d])
  <2>1. HasWords(index, query, d, 0 + 1)
    BY DEF HasWords, Occurs, D
  <2>2. 0 + 1 <= Len(query) /\ 0 \in Nat
    BY <1>1
  <2>3. /\ RankTo(index, query, d, 0) \in Nat /\ Len(index[query[0 + 1]][d]) \in Nat
        /\ RankTo(index, query, d, 0 + 1) = RankTo(index, query, d, 0) + Len(index[query[0 + 1]][d])
        /\ RankTo(index, query, d, 0) = 0
    BY <2>1, <2>2, RankGrows
  <2> QED BY <2>1, <2>3
<1>7. \A d : HasWords(index, query, d, 1) => d \in D
  BY DEF HasWords, D
<1>8. ASSUME NEW m \in DOMAIN list
      PROVE  /\ m <= Len(list) /\ HasWords(index, query, list[m].doc_id, 1)
             /\ list[m].rank = RankTo(index, query, list[m].doc_id, 1)
  <2>1. m \in 1..Len(docs) /\ docs[m] \in D
    BY <1>3, <1>5
  <2> QED BY <1>3, <1>5, <1>6, <2>1
<1>9. \A m, n \in DOMAIN list : list[m].doc_id = list[n].doc_id => m = n
  BY <1>3, <1>4, <1>5
<1>10. \A d \in DOMAIN id_to_name : HasWords(index, query, d, 1) => \E m \in DOMAIN list : list[m].doc_id = d
  <2> SUFFICES ASSUME NEW d, HasWords(index, query, d, 1) PROVE \E m \in DOMAIN list : list[m].doc_id = d
    OBVIOUS
  <2>1. PICK m \in DOMAIN docs : docs[m] = d
    BY <1>4, <1>7
  <2> QED BY <1>3, <1>5, <2>1
<1> QED BY <1>8, <1>9, <1>10, Zenon DEF Thinned

(* A sorted list has the results of the list.                              *)
LEMMA SortedAnswers ==
  ASSUME query \in Seq(Seq(Letters)), query # <<>>,
         NEW list \in Seq(Results), Thinned(index, query, DOMAIN id_to_name, list, Len(query), Len(list))
  PROVE  Range(Sorted(list)) = Matches /\ IsInjective(Sorted(list)) /\ Descending(Sorted(list))
<1>1. Range(list) = Matches
  BY AllMatch
<1>2. \A r \in Results : r.rank \in Nat
  BY DEF Results
<1>3. Sorted(list) \in SetToSeqs(Range(list)) /\ Descending(Sorted(list))
  BY <1>2, SortedSorts
<1> DEFINE S == Range(list)
           s == Sorted(list)
<1>4. IsFiniteSet(S)
  <2>1. list \in Surjection(DOMAIN list, S)
    BY DEF Surjection, Range
  <2>2. IsFiniteSet(DOMAIN list)
    BY FS_Interval
  <2> HIDE DEF S
  <2> QED BY <2>1, <2>2, FS_Surjection
<1>5. s \in SetToSeqs(S)
  BY <1>3
<1> HIDE DEF S, s
<1>6. Range(s) = S /\ IsInjective(s)
  BY <1>4, <1>5, RowIsBijective DEF IsInjective
<1> QED BY <1>1, <1>3, <1>6 DEF s, S

LEMMA SearchFound == IInv /\ FoundInv /\ Search => FoundInv'
<1> SUFFICES ASSUME IInv, FoundInv, Search PROVE FoundInv'
  OBVIOUS
<1>0. SearchInv /\ DocsInv /\ IndexInv
  BY DEF IInv
<1> DEFINE docs == DOMAIN id_to_name
<1>1. UNCHANGED <<Indexed, query>> /\ pc \in {"search", "word", "pass", "answered"}
  BY DEF Search, SearchFirst, SearchNext, Pass, EndOfPass, ShowResults, At, Return, searchVars
<1>2. UNCHANGED <<index, query, id_to_name>> /\ docs' = docs
  BY <1>1 DEF Indexed, docTableVars
<1>3. Matches' = Matches
  BY <1>2, MatchesFrame
<1>4. /\ query \in Seq(Seq(Letters)) /\ Len(query) \in Nat /\ DOMAIN query = 1..Len(query)
      /\ ret_list \in Seq(Results) /\ Len(ret_list) \in Nat
      /\ i \in Nat \ {0} /\ j \in Nat /\ num_docs \in Nat
  <2>1. query \in Seq(Seq(Letters))
    BY <1>0, QueryIsWords
  <2> QED BY <1>0, <2>1 DEF SearchInv
<1>5. ASSUME Matches = {}, ret_list' = <<>>, pc' = "answered" PROVE FoundInv'
  <2>1. Range(<<>>) = {} /\ IsInjective(<<>>) /\ Descending(<<>>)
    BY DEF Range, IsInjective, Descending
  <2>2. SearchIsConjunction'
    BY <1>3, <1>5, <2>1 DEF SearchIsConjunction, Descending
  <2> QED BY <1>5, <2>2 DEF FoundInv
<1>6. CASE SearchFirst
  <2>1. i' = 2
    BY <1>6 DEF SearchFirst
  <2>2. CASE query = <<>> \/ ~Occurs(query[1])
    <3>1. ret_list' = <<>> /\ pc' = "answered"
      BY <1>6, <2>2 DEF SearchFirst, Return
    <3>2. CASE query = <<>>
      BY <1>5, <3>1, <3>2 DEF Matches
    <3>3. CASE query # <<>>
      <4>1. 1 \in 1..Len(query)
        BY <1>4, <3>3, EmptySeq
      <4>2. \A d : ~ HasWords(index, query, d, 1)
        BY <2>2, <3>3 DEF HasWords, Occurs
      <4>3. Matches = {}
        BY <1>4, <4>1, <4>2, NoneMatch
      <4> QED BY <1>5, <3>1, <4>3
    <3> QED BY <3>2, <3>3
  <2>3. CASE ~ (query = <<>> \/ ~Occurs(query[1]))
    <3>1. FirstResults(ret_list') /\ pc' = "word"
      BY <1>6, <2>3, Zenon DEF SearchFirst
    <3>2. Thinned(index, query, docs, ret_list', 1, Len(ret_list'))
      BY <1>0, <1>4, <2>3, <3>1, FirstResultsThinned
    <3>3. Len(query) # 0
      BY <1>4, <2>3, EmptySeq
    <3>4. i' \in 2..Len(query') + 1 /\ i' - 1 = 1
      BY <1>2, <1>4, <2>1, <3>3
    <3>5. Thinned(index', query', docs', ret_list', i' - 1, Len(ret_list'))
      BY <1>2, <3>2, <3>4, Zenon
    <3> QED BY <3>1, <3>4, <3>5 DEF FoundInv, SearchIsConjunction
  <2> QED BY <2>2, <2>3
<1>7. CASE SearchNext
  <2>1. pc = "word" /\ UNCHANGED i /\ i \in 2..Len(query) + 1 /\ Thinned(index, query, docs, ret_list, i - 1, Len(ret_list))
    BY <1>7 DEF SearchNext, At, FoundInv
  <2>2. CASE i > Len(query) /\ Return(Sorted(ret_list))
    <3>1. i - 1 = Len(query) /\ query # <<>>
      <4>1. i - 1 = Len(query) /\ Len(query) # 0
        BY <1>4, <2>1, <2>2
      <4> QED BY <4>1, EmptySeq
    <3>2. Range(Sorted(ret_list)) = Matches /\ IsInjective(Sorted(ret_list)) /\ Descending(Sorted(ret_list))
      BY <1>4, <2>1, <3>1, SortedAnswers
    <3>3. ret_list' = Sorted(ret_list) /\ pc' = "answered"
      BY <2>2 DEF Return
    <3>4. SearchIsConjunction'
      BY <1>3, <3>2, <3>3 DEF SearchIsConjunction, Descending
    <3> QED BY <3>3, <3>4 DEF FoundInv
  <2>3. CASE i <= Len(query) /\ ~Occurs(query[i]) /\ Return(<<>>)
    <3>1. i \in 1..Len(query) /\ \A d : ~ HasWords(index, query, d, i)
      BY <1>4, <2>1, <2>3 DEF HasWords, Occurs
    <3>2. Matches = {}
      BY <1>4, <3>1, NoneMatch
    <3> QED BY <1>5, <2>3, <3>2 DEF Return
  <2>4. CASE i <= Len(query) /\ Occurs(query[i]) /\ StartPass /\ pc' = "pass" /\ UNCHANGED ret_list
    <3>1. j' = 0 /\ num_docs' = Len(ret_list) /\ ll_it' = 1
      BY <2>4 DEF StartPass
    <3>2. PassedBy' = 0 /\ j' <= num_docs' /\ i' >= 2
      BY <1>4, <2>1, <2>4, <3>1 DEF PassedBy
    <3>3. Thinned(index, query, docs, ret_list, i, 0)
      <4>1. \A m \in DOMAIN ret_list : m <= Len(ret_list) /\ ~ (m <= 0)
        BY <1>4
      <4>2. \A d : HasWords(index, query, d, i) => HasWords(index, query, d, i - 1)
        BY <1>4, <2>1 DEF HasWords
      <4> QED BY <2>1, <4>1, <4>2, Zenon DEF Thinned
    <3>4. Thinned(index', query', docs', ret_list', i', PassedBy')
      BY <1>2, <2>1, <2>4, <3>2, <3>3, Zenon
    <3> QED BY <2>4, <3>1, <3>2, <3>4 DEF FoundInv, SearchIsConjunction
  <2> QED BY <1>7, <2>2, <2>3, <2>4 DEF SearchNext
<1>8. CASE Pass
  <2> DEFINE p == PassedBy
  <2>1. /\ pc = "pass" /\ pc' = pc /\ UNCHANGED <<i, num_docs>> /\ j' = j + 1 /\ ll_it \in DOMAIN ret_list
        /\ j < num_docs /\ i \in DOMAIN query /\ i >= 2
    BY <1>0, <1>8 DEF Pass, At, KeepDocument, DropDocument, SearchInv, PassBound, FoundInv
  <2>2. p >= 0 /\ ll_it = p + 1 /\ Thinned(index, query, docs, ret_list, i, p) /\ p = Len(ret_list) - (num_docs - j)
    BY <2>1 DEF FoundInv, PassedBy
  <2>3. p \in Nat /\ ll_it \in 1..Len(ret_list) /\ i' >= 2 /\ j' <= num_docs'
    BY <1>4, <2>1, <2>2
  <2> HIDE DEF p
  <2>4. CASE KeepDocument
    <3> DEFINE d0 == ret_list[ll_it].doc_id
               more == Len(index[query[i]][d0])
    <3>1. /\ d0 \in DOMAIN index[query[i]] /\ ll_it' = AfterNext(ll_it, ret_list)
          /\ ret_list' = [ret_list EXCEPT ![ll_it].rank = @ + more]
      BY <2>4, Zenon DEF KeepDocument
    <3>2. /\ DOMAIN ret_list' = 1..Len(ret_list) /\ Len(ret_list') = Len(ret_list)
          /\ \A m \in 1..Len(ret_list) : ret_list'[m].doc_id = ret_list[m].doc_id
          /\ \A m \in 1..Len(ret_list) : m # ll_it => ret_list'[m].rank = ret_list[m].rank
          /\ ret_list'[ll_it].rank = ret_list[ll_it].rank + more
      <4>1. \A m \in 1..Len(ret_list) : ret_list[m] \in Results
        BY <1>4
      <4> HIDE DEF more
      <4> QED BY <1>4, <2>3, <3>1, <4>1 DEF Results
    <3>3. HasWords(index, query, d0, i - 1) /\ ret_list[ll_it].rank = RankTo(index, query, d0, i - 1)
      BY <1>4, <2>2, <2>3 DEF Thinned
    <3>4. HasWords(index, query, d0, i) /\ ret_list'[ll_it].rank = RankTo(index, query, d0, i)
      <4>1. HasWords(index, query, d0, i)
        <5>1. \A m \in 1..i : m = i \/ m \in 1..i - 1
          BY <1>4
        <5>2. query[i] \in DOMAIN index
          BY <1>0, <2>1 DEF SearchInv, Occurs
        <5> HIDE DEF d0
        <5> QED BY <3>1, <3>3, <5>1, <5>2, Zenon DEF HasWords
      <4>2. i - 1 \in Nat /\ i - 1 + 1 = i /\ i <= Len(query)
        BY <1>4, <2>1
      <4> DEFINE n == i - 1
      <4> HIDE DEF d0, n
      <4>3. n \in Nat /\ n + 1 <= Len(query) /\ HasWords(index, query, d0, n + 1)
        BY <4>1, <4>2 DEF n
      <4>4. RankTo(index, query, d0, n + 1) = RankTo(index, query, d0, n) + Len(index[query[n + 1]][d0])
        BY <1>0, <1>4, <4>3, RankGrows
      <4> QED BY <3>2, <3>3, <4>1, <4>2, <4>4 DEF n
    <3>5. Thinned(index, query, docs, ret_list', i, p + 1)
      <4>1. ASSUME NEW m \in DOMAIN ret_list'
            PROVE  LET n == IF m <= p + 1 THEN i ELSE i - 1
                   IN  HasWords(index, query, ret_list'[m].doc_id, n) /\ ret_list'[m].rank = RankTo(index, query, ret_list'[m].doc_id, n)
        <5>1. CASE m = ll_it
          BY <2>2, <2>3, <3>2, <3>4, <5>1
        <5>2. CASE m # ll_it
          <6>1. m \in 1..Len(ret_list) /\ (m <= p + 1 <=> m <= p) /\ m \in DOMAIN ret_list
            BY <1>4, <2>2, <2>3, <3>2, <5>2
          <6>2. ret_list'[m].doc_id = ret_list[m].doc_id /\ ret_list'[m].rank = ret_list[m].rank
            BY <3>2, <5>2, <6>1
          <6>3. LET n == IF m <= p THEN i ELSE i - 1
                IN  HasWords(index, query, ret_list[m].doc_id, n) /\ ret_list[m].rank = RankTo(index, query, ret_list[m].doc_id, n)
            BY <2>2, <6>1 DEF Thinned
          <6> QED BY <6>1, <6>2, <6>3
        <5> QED BY <5>1, <5>2
      <4>2. \A m, n \in DOMAIN ret_list' : ret_list'[m].doc_id = ret_list'[n].doc_id => m = n
        <5>1. \A m, n \in DOMAIN ret_list : ret_list[m].doc_id = ret_list[n].doc_id => m = n
          BY <2>2 DEF Thinned
        <5>2. DOMAIN ret_list = 1..Len(ret_list)
          BY <1>4
        <5> QED BY <3>2, <5>1, <5>2
      <4>3. \A d \in docs : HasWords(index, query, d, i) => \E m \in DOMAIN ret_list' : ret_list'[m].doc_id = d
        <5>1. \A d \in docs : HasWords(index, query, d, i) => \E m \in DOMAIN ret_list : ret_list[m].doc_id = d
          BY <2>2 DEF Thinned
        <5>2. DOMAIN ret_list = 1..Len(ret_list)
          BY <1>4
        <5> QED BY <3>2, <5>1, <5>2
      <4> QED BY <4>1, <4>2, <4>3, Zenon DEF Thinned
    <3>6. PassedBy' = p + 1 /\ (j' < num_docs' => ll_it' = p + 1 + 1)
      <4>1. PassedBy' = p + 1
        BY <1>4, <2>1, <2>2, <3>2 DEF PassedBy
      <4> QED BY <1>4, <2>1, <2>2, <2>3, <3>1, <4>1 DEF AfterNext
    <3>7. Thinned(index', query', docs', ret_list', i', PassedBy')
      BY <1>2, <2>1, <3>5, <3>6, Zenon
    <3> QED BY <2>1, <2>3, <3>6, <3>7 DEF FoundInv, SearchIsConjunction
  <2>5. CASE DropDocument
    <3> DEFINE before == SubSeq(ret_list, 1, ll_it - 1)
               after == SubSeq(ret_list, ll_it + 1, Len(ret_list))
               old(m) == IF m < ll_it THEN m ELSE m + 1
    <3>1. /\ ret_list[ll_it].doc_id \notin DOMAIN index[query[i]] /\ ll_it' = AfterRemove(ll_it, ret_list)
          /\ ret_list' = before \o after
      BY <2>5 DEF DropDocument, RemoveAt
    <3>2. /\ DOMAIN ret_list' = 1..Len(ret_list) - 1 /\ Len(ret_list') = Len(ret_list) - 1
          /\ \A m \in 1..Len(ret_list) - 1 : ret_list'[m] = ret_list[old(m)]
      <4>1. /\ before \in Seq(Results) /\ Len(before) = ll_it - 1
            /\ \A m \in 1..ll_it - 1 : before[m] = ret_list[m]
        BY <1>4, <2>3, SubSeqProperties
      <4>2. /\ after \in Seq(Results) /\ Len(after) = Len(ret_list) - ll_it
            /\ \A m \in 1..Len(ret_list) - ll_it : after[m] = ret_list[m + ll_it]
        <5>1. after \in Seq(Results) /\ Len(after) = Len(ret_list) - ll_it
          BY <1>4, <2>3, SubSeqProperties
        <5>2. \A m \in 1..Len(ret_list) - ll_it : after[m] = ret_list[m + ll_it]
          <6>1. \A m \in 1..Len(after) : after[m] = ret_list[ll_it + 1 + m - 1]
            BY <1>4, <2>3, SubSeqProperties
          <6> HIDE DEF after
          <6>2. \A m \in 1..Len(ret_list) - ll_it : m \in 1..Len(after) /\ ll_it + 1 + m - 1 = m + ll_it
            BY <1>4, <2>3, <5>1
          <6> QED BY <6>1, <6>2
        <5> QED BY <5>1, <5>2
      <4> HIDE DEF before, after
      <4>3. ret_list' \in Seq(Results) /\ Len(ret_list') = Len(before) + Len(after)
            /\ \A m \in 1..Len(before) + Len(after) : ret_list'[m] = IF m <= Len(before) THEN before[m] ELSE after[m - Len(before)]
        BY <3>1, <4>1, <4>2, ConcatProperties
      <4>4. Len(ret_list') = Len(ret_list) - 1 /\ DOMAIN ret_list' = 1..Len(ret_list')
        BY <1>4, <2>3, <4>1, <4>2, <4>3
      <4>5. ASSUME NEW m \in 1..Len(ret_list) - 1 PROVE ret_list'[m] = ret_list[old(m)]
        <5>1. m \in 1..Len(before) + Len(after)
          BY <1>4, <2>3, <4>1, <4>2
        <5>2. CASE m < ll_it
          BY <2>3, <4>1, <4>3, <5>1, <5>2
        <5>3. CASE m >= ll_it
          <6>1. m - Len(before) \in 1..Len(ret_list) - ll_it /\ ~ (m <= Len(before)) /\ m - Len(before) + ll_it = m + 1
            BY <1>4, <2>3, <4>1, <5>3
          <6>2. ret_list'[m] = after[m - Len(before)]
            BY <4>3, <5>1, <6>1
          <6>3. after[m - Len(before)] = ret_list[m + 1]
            BY <4>2, <6>1
          <6>4. old(m) = m + 1
            BY <2>3, <5>3
          <6> QED BY <6>2, <6>3, <6>4
        <5> QED BY <2>3, <5>2, <5>3
      <4> QED BY <4>4, <4>5
    <3>3. /\ \A m \in 1..Len(ret_list) - 1 : old(m) \in DOMAIN ret_list /\ (old(m) <= p <=> m <= p)
          /\ \A m, n \in 1..Len(ret_list) - 1 : old(m) = old(n) => m = n
          /\ \A m \in DOMAIN ret_list : m # ll_it => \E n \in 1..Len(ret_list) - 1 : old(n) = m
      <4>1. \A m \in 1..Len(ret_list) - 1 : old(m) \in DOMAIN ret_list /\ (old(m) <= p <=> m <= p)
        BY <1>4, <2>2, <2>3
      <4>2. \A m, n \in 1..Len(ret_list) - 1 : old(m) = old(n) => m = n
        BY <1>4, <2>3
      <4>3. ASSUME NEW m \in DOMAIN ret_list, m # ll_it PROVE \E n \in 1..Len(ret_list) - 1 : old(n) = m
        <5>1. CASE m < ll_it
          BY <1>4, <2>3, <5>1
        <5>2. CASE m > ll_it
          <6>1. m - 1 \in 1..Len(ret_list) - 1 /\ old(m - 1) = m
            BY <1>4, <2>3, <5>2
          <6> QED BY <6>1
        <5> QED BY <1>4, <2>3, <4>3, <5>1, <5>2
      <4> QED BY <4>1, <4>2, <4>3
    <3> HIDE DEF old
    <3>4. Thinned(index, query, docs, ret_list', i, p)
      <4>1. ASSUME NEW m \in DOMAIN ret_list'
            PROVE  LET n == IF m <= p THEN i ELSE i - 1
                   IN  HasWords(index, query, ret_list'[m].doc_id, n) /\ ret_list'[m].rank = RankTo(index, query, ret_list'[m].doc_id, n)
        <5>1. LET n == IF old(m) <= p THEN i ELSE i - 1
              IN  HasWords(index, query, ret_list[old(m)].doc_id, n) /\ ret_list[old(m)].rank = RankTo(index, query, ret_list[old(m)].doc_id, n)
          BY <2>2, <3>2, <3>3 DEF Thinned
        <5> QED BY <3>2, <3>3, <5>1
      <4>2. \A m, n \in DOMAIN ret_list' : ret_list'[m].doc_id = ret_list'[n].doc_id => m = n
        <5>1. \A m, n \in DOMAIN ret_list : ret_list[m].doc_id = ret_list[n].doc_id => m = n
          BY <2>2 DEF Thinned
        <5> QED BY <3>2, <3>3, <5>1
      <4>3. ASSUME NEW d \in docs, HasWords(index, query, d, i) PROVE \E m \in DOMAIN ret_list' : ret_list'[m].doc_id = d
        <5>1. PICK m \in DOMAIN ret_list : ret_list[m].doc_id = d
          BY <2>2, <4>3 DEF Thinned
        <5>2. d \in DOMAIN index[query[i]]
          BY <1>4, <4>3 DEF HasWords
        <5>3. PICK n \in 1..Len(ret_list) - 1 : old(n) = m
          BY <3>1, <3>3, <5>1, <5>2
        <5> QED BY <3>2, <5>1, <5>3
      <4> QED BY <4>1, <4>2, <4>3, Zenon DEF Thinned
    <3>5. PassedBy' = p /\ (j' < num_docs' => ll_it' = p + 1)
      <4>1. PassedBy' = p
        BY <1>4, <2>1, <2>2, <3>2 DEF PassedBy
      <4>2. j + 1 < num_docs => ll_it < Len(ret_list)
        BY <1>4, <2>1, <2>2, <2>3
      <4>3. ll_it < Len(ret_list) => ll_it' = ll_it
        BY <3>1 DEF AfterRemove
      <4>4. j' < num_docs' <=> j + 1 < num_docs
        BY <2>1
      <4> QED BY <2>2, <4>1, <4>2, <4>3, <4>4
    <3>6. Thinned(index', query', docs', ret_list', i', PassedBy')
      BY <1>2, <2>1, <3>4, <3>5, Zenon
    <3> QED BY <2>1, <2>3, <3>5, <3>6 DEF FoundInv, SearchIsConjunction
  <2> QED BY <1>8, <2>4, <2>5 DEF Pass
<1>9. CASE EndOfPass
  <2>1. /\ pc = "pass" /\ j >= num_docs /\ i >= 2 /\ j <= num_docs /\ Thinned(index, query, docs, ret_list, i, PassedBy)
        /\ i \in DOMAIN query
    BY <1>0, <1>9 DEF EndOfPass, At, PassBound, FoundInv, SearchInv
  <2>2. PassedBy = Len(ret_list)
    <3>1. j = num_docs
      BY <1>4, <2>1
    <3> QED BY <1>4, <3>1 DEF PassedBy
  <2>3. Thinned(index, query, docs, ret_list, i, Len(ret_list))
    BY <2>1, <2>2
  <2>4. CASE ret_list = <<>>
    <3>1. \A d \in docs : ~ HasWords(index, query, d, i)
      BY <2>3, <2>4 DEF Thinned
    <3>2. Matches = {}
      BY <1>4, <2>1, <3>1, NoneMatch
    <3> QED BY <1>5, <1>9, <2>4, <3>2 DEF EndOfPass, Return
  <2>5. CASE ret_list # <<>>
    <3>1. i' = i + 1 /\ pc' = "word" /\ UNCHANGED ret_list
      BY <1>9, <2>5 DEF EndOfPass
    <3>2. i' - 1 = i /\ i' \in 2..Len(query') + 1
      BY <1>2, <1>4, <2>1, <3>1
    <3>3. Thinned(index', query', docs', ret_list', i' - 1, Len(ret_list'))
      BY <1>2, <2>3, <3>1, <3>2, Zenon
    <3> QED BY <3>1, <3>2, <3>3 DEF FoundInv, SearchIsConjunction
  <2> QED BY <2>4, <2>5
<1>10. CASE ShowResults
  <2>1. pc' = "prompt"
    BY <1>10 DEF ShowResults
  <2> QED BY <2>1 DEF FoundInv, SearchIsConjunction
<1> QED BY <1>6, <1>7, <1>8, <1>9, <1>10 DEF Search

LEMMA InitFound == Init => FoundInv
  BY DEF Init, FoundInv, SearchIsConjunction

LEMMA StepFound == IInv /\ FoundInv /\ [Next]_vars => FoundInv'
<1> SUFFICES ASSUME IInv, FoundInv, [Next]_vars PROVE FoundInv'
  OBVIOUS
<1>1. CASE Search
  BY <1>1, SearchFound
<1>2. CASE Crawl \/ EndOfInput \/ \E q \in Queries : ReadQuery(q)
  <2>1. pc' \notin {"word", "pass", "answered"}
    <3>1. CASE CrawlFileTree \/ Subdirectory \/ EndOfDirectory
      BY <3>1 DEF CrawlFileTree, Subdirectory, EndOfDirectory, AtEntry, NextEntry, At
    <3>2. CASE HandleFile \/ ReadFileToString \/ ReadFails \/ ParseIntoWordPositionsTable
      BY <3>2 DEF HandleFile, ReadFileToString, Read, ReadAll, ReadFails, ParseIntoWordPositionsTable, AtEntry, NextEntry, Exit, At
    <3>3. CASE InsertContent \/ FileParsed \/ PostWord \/ FilePosted
      BY <3>3 DEF InsertContent, InsertLetter, InsertBoundary, FileParsed, Parsed, PostWord, FilePosted, NextEntry, Exit, At
    <3>4. CASE EndOfInput \/ \E q \in Queries : ReadQuery(q)
      BY <3>4 DEF EndOfInput, ReadQuery
    <3> QED BY <1>2, <3>1, <3>2, <3>3, <3>4 DEF Crawl
  <2> QED BY <2>1 DEF FoundInv, SearchIsConjunction
<1>3. CASE UNCHANGED vars
  <2>1. UNCHANGED <<pc, index, query, id_to_name, ret_list, i, j, num_docs, ll_it>>
    BY <1>3 DEF vars, docTableVars, searchVars
  <2>2. Matches' = Matches
    BY <2>1, MatchesFrame
  <2>3. PassedBy' = PassedBy
    BY <2>1 DEF PassedBy
  <2> QED BY <2>1, <2>2, <2>3, Zenon DEF FoundInv, SearchIsConjunction, Descending
<1> QED BY <1>1, <1>2, <1>3, Zenon DEF Next, Stopped

(* A search finds the documents that have all the words, each once, with   *)
(* their rank and in the order of the ranks, although it removes documents *)
(* from the list that its iterator walks over: for every index and query.  *)
THEOREM SearchFinds == Spec => []SearchIsConjunction
<1>1. FoundInv => SearchIsConjunction
  BY DEF FoundInv
<1>2. IInv /\ FoundInv /\ [Next]_vars => FoundInv'
  BY StepFound
<1> QED BY <1>1, <1>2, Invariance, InitFound, PTL DEF Spec

-----------------------------------------------------------------------------
(* What the crawl leaves behind.                                           *)

(* The directory that the k-th open call of HandleDir walks over.  What    *)
(* has been handled comes before what an open call stands at, and that     *)
(* before what the call, and those below it, have yet to come to.          *)
DirOf(k) == IF k = 1 THEN Root ELSE dirs[k - 1].path_name[dirs[k - 1].i]
Later(k) == dirs[k].i + 1..Len(dirs[k].path_name)
Handled == IF pc \in {"parsing", "posting"} THEN DOMAIN seen \ {file} ELSE DOMAIN seen
RowOK(k) ==
  /\ DirOf(k) \in opened
  /\ \A m \in 1..Len(dirs[k].path_name) :
       /\ dirs[k].path_name[m] \in tree[DirOf(k)]
       /\ dirs[k].is_dir[dirs[k].path_name[m]] \in IsDir(dirs[k].path_name[m])
  /\ \A m, n \in 1..Len(dirs[k].path_name) : m < n => dirs[k].path_name[m] < dirs[k].path_name[n]
Follows(k, paths) == \A m \in Later(k) : \A f \in paths : f < dirs[k].path_name[m]
WalkInv ==
  /\ opened \subseteq DOMAIN tree
  /\ \A k \in 1..Len(dirs) : RowOK(k)
  /\ \A k, l \in 1..Len(dirs) : k <= l => \A f \in Range(dirs[l].path_name) : DirOf(k) < f
  /\ \A k, l \in 1..Len(dirs) : k < l => Follows(k, Range(dirs[l].path_name))
  /\ \A k \in 1..Len(dirs) : Follows(k, DOMAIN seen)
  /\ dirs # <<>> /\ Within(Top) => \A f \in Handled : f < Entry

(* Every file of a directory that was not cut short has been handled or is *)
(* still ahead.                                                            *)
Awaits(f) == \E k \in 1..Len(dirs) : \E m \in dirs[k].i..Len(dirs[k].path_name) : dirs[k].path_name[m] = f
SeenInv ==
  /\ \A f \in DOMAIN seen :
       /\ f \in Files /\ \E d \in opened : f \in tree[d]
       /\ seen[f] \in Seq(Characters) /\ seen[f] = SubSeq(Bytes[f], 1, Len(seen[f]))
  /\ \A d \in opened : Cardinality(tree[d]) <= MAX_NUM_DIR_ENTRIES =>
       \A f \in tree[d] \cap Files : f \in DOMAIN seen \/ Awaits(f)
  /\ pc \in Working => file = Entry
  /\ pc \in {"parsing", "posting"} => file \in DOMAIN seen
  /\ pc \in {"reading", "read"} => Len(buf) <= Len(Bytes[file]) /\ buf = SubSeq(Bytes[file], 1, Len(buf))
  /\ pc \in {"start", "failed"} => opened = {} /\ dirs = <<>> /\ DOMAIN seen = {}
  /\ pc \in Searching => dirs = <<>>

(* The loop of the parser has the words that ended before cur_ptr in the   *)
(* table, and a word being read runs from word_start on.                   *)
EndedBefore(s, c) == {ij \in Ended(s) : ij[2] + 1 < c}
ParsesText(s) ==
  /\ s \in Seq(Characters) /\ Len(buf) = Len(s)
  /\ \A k \in cur_ptr..Len(s) : buf[k] = s[k]
  /\ word_start = 0 => cur_ptr = 1 \/ s[cur_ptr - 1] \notin Letters
  /\ word_start # 0 =>
       /\ Run(s, word_start, cur_ptr - 1)
       /\ \A k \in word_start..cur_ptr - 1 : buf[k] = tolower[s[k]]
  /\ tab = WordsAt(s, EndedBefore(s, cur_ptr))
ParseInv == pc = "parsing" => \E s \in {CString(seen[file])} : ~Rejected(seen[file]) /\ ParsesText(s)

(* The documents are the files that have words, and the words of each are  *)
(* in the index, but for those still in the table that is being posted.    *)
Posted(f, w) == w \in DOMAIN WordTable(seen[f]) /\ ~ (pc = "posting" /\ f = file /\ w \in DOMAIN tab)
DocumentsInv ==
  /\ DOMAIN name_to_id = Indexable \ (IF pc = "parsing" THEN {file} ELSE {})
  /\ \A f, g \in DOMAIN name_to_id : f < g => name_to_id[f] < name_to_id[g]
PostInv ==
  /\ index = [w \in DOMAIN index |-> [d \in DOMAIN index[w] |-> index[w][d]]]
  /\ \A w \in DOMAIN index : \A d \in DOMAIN index[w] : Posted(id_to_name[d], w)
  /\ \A f \in DOMAIN name_to_id : \A w \in DOMAIN WordTable(seen[f]) : Posted(f, w) =>
       /\ w \in DOMAIN index /\ name_to_id[f] \in DOMAIN index[w]
       /\ index[w][name_to_id[f]] = WordTable(seen[f])[w]
  /\ pc = "posting" =>
       /\ file \in DOMAIN name_to_id /\ doc_id = name_to_id[file]
       /\ \A w \in DOMAIN tab : w \in DOMAIN WordTable(seen[file]) /\ tab[w] = WordTable(seen[file])[w]
  /\ exited # "posting"

TreeInv == WalkInv /\ SeenInv /\ ParseInv /\ DocumentsInv /\ PostInv

(* There is one ascending row of a set of numbers: at the first place      *)
(* where two differ, each would have to be below the other.                *)
LEMMA AscendingIsUnique ==
  ASSUME NEW S \in SUBSET Nat, IsFiniteSet(S), NEW s \in SetToSeqs(S), NEW t \in SetToSeqs(S),
         \A k, l \in DOMAIN s : k < l => s[k] < s[l],
         \A k, l \in DOMAIN t : k < l => t[k] < t[l]
  PROVE  s = t
<1> DEFINE n == Len(s)
           D == {k \in 1..n : s[k] # t[k]}
<1>1. n \in Nat /\ Len(t) = n /\ DOMAIN s = 1..n /\ DOMAIN t = 1..n /\ s \in Seq(S) /\ t \in Seq(S)
  BY RowIsSequence
<1>2. \A k \in 1..n : s[k] \in S /\ t[k] \in S /\ s[k] \in Nat /\ t[k] \in Nat
  <2>1. \A A : \A r \in Seq(A) : \A k \in 1..Len(r) : r[k] \in A
    OBVIOUS
  <2> QED BY <1>1, <2>1
<1>3. /\ \A x \in S : \E k \in 1..n : s[k] = x
      /\ \A x \in S : \E k \in 1..n : t[k] = x
      /\ \A k, l \in 1..n : s[k] = s[l] => k = l
      /\ \A k, l \in 1..n : t[k] = t[l] => k = l
  BY <1>1, RowIsBijective
<1> HIDE DEF n
<1>4. ASSUME D # {} PROVE FALSE
  <2>1. PICK m \in 1..n : s[m] # t[m] /\ \A k \in 1..n : k < m => s[k] = t[k]
    <3>1. D \in SUBSET Nat
      OBVIOUS
    <3>2. Min(D) \in D /\ \A y \in D : Min(D) <= y
      <4> HIDE DEF D
      <4> QED BY <1>4, <3>1, LeastNatural
    <3>3. PICK m \in D : \A y \in D : m <= y
      BY <3>2
    <3>4. \A k \in 1..n : k < m => k \notin D
      <4> SUFFICES ASSUME NEW k \in D, k < m PROVE FALSE
        OBVIOUS
      <4>1. m \in Nat /\ k \in Nat /\ m <= k
        BY <3>1, <3>3
      <4> QED BY <4>1
    <3> QED BY <3>3, <3>4
  <2>2. PICK a \in 1..n : t[a] = s[m]
    BY <1>2, <1>3, <2>1
  <2>3. PICK b \in 1..n : s[b] = t[m]
    BY <1>2, <1>3, <2>1
  <2>4. a # m /\ b # m
    BY <2>1, <2>2, <2>3
  <2>5. ~ (a < m) /\ ~ (b < m)
    BY <1>3, <2>1, <2>2, <2>3, <2>4
  <2>6. m < a /\ m < b
    BY <2>1, <2>4, <2>5
  <2>7. t[m] < t[a] /\ s[m] < s[b]
    BY <1>1, <2>6
  <2> QED BY <1>2, <2>1, <2>2, <2>3, <2>7
<1>5. \A k \in 1..n : s[k] = t[k]
  BY <1>4
<1> QED BY <1>1, <1>5, SeqEqual DEF n

LEMMA AscendingOfNone == Ascending({}) = <<>>
<1>1. IsFiniteSet({}) /\ {} \subseteq Nat /\ Cardinality({}) = 0
  BY FS_EmptySet
<1>2. Ascending({}) \in SetToSeqs({})
  BY <1>1, InOrderSorts DEF InOrder
<1>3. Ascending({}) \in Seq({}) /\ Len(Ascending({})) = 0
  BY <1>1, <1>2, RowIsSequence
<1> QED BY <1>3, EmptySeq

(* A number above all others comes last.                                   *)
LEMMA AscendingOfMore ==
  ASSUME NEW S \in SUBSET Nat, IsFiniteSet(S), NEW p \in Nat, \A x \in S : x < p
  PROVE  Ascending(S) \in Seq(Nat) /\ Ascending(S \cup {p}) = Ascending(S) \o <<p>>
<1> DEFINE T == S \cup {p}
           n == Cardinality(S)
<1>1. T \subseteq Nat /\ IsFiniteSet(T) /\ p \notin S /\ Cardinality(T) = n + 1 /\ n \in Nat
  <2>1. p \notin S
    OBVIOUS
  <2> QED BY <2>1, FS_AddElement, FS_CardinalityType
<1>2. PICK s : s = Ascending(S)
  OBVIOUS
<1>3. s \in SetToSeqs(S) /\ \A k, l \in DOMAIN s : k < l => s[k] < s[l]
  BY <1>2, InOrderSorts DEF InOrder
<1>4. s \in Seq(S) /\ Len(s) = n /\ DOMAIN s = 1..n
  BY <1>3, RowIsSequence
<1>5. s \in Seq(T) /\ \A k \in 1..n : s[k] \in S
  BY <1>4
<1>6. PICK r : r = s \o <<p>>
  OBVIOUS
<1> HIDE DEF n, T
<1>7. /\ r \in Seq(T) /\ Len(r) = n + 1
      /\ \A k \in 1..n + 1 : r[k] = IF k <= n THEN s[k] ELSE p
  <2>1. <<p>> \in Seq(T) /\ Len(<<p>>) = 1 /\ <<p>>[1] = p
    BY DEF T
  <2>2. r \in Seq(T) /\ Len(r) = n + 1 /\ \A k \in 1..n + 1 : r[k] = IF k <= n THEN s[k] ELSE <<p>>[k - n]
    BY <1>4, <1>5, <1>6, <2>1, ConcatProperties
  <2>3. \A k \in 1..n + 1 : ~ (k <= n) => k - n = 1
    BY <1>1
  <2> QED BY <2>1, <2>2, <2>3
<1>8. DOMAIN r = 1..n + 1 /\ r \in [1..n + 1 -> T]
  BY <1>1, <1>7
<1>9. \A k, l \in 1..n + 1 : k < l => r[k] < r[l]
  <2> SUFFICES ASSUME NEW k \in 1..n + 1, NEW l \in 1..n + 1, k < l PROVE r[k] < r[l]
    OBVIOUS
  <2>1. k \in 1..n /\ k <= n
    BY <1>1
  <2>2. r[k] = s[k] /\ s[k] \in S
    BY <1>5, <1>7, <2>1
  <2>3. CASE l <= n
    BY <1>3, <1>4, <1>7, <2>1, <2>2, <2>3
  <2>4. CASE ~ (l <= n)
    BY <1>7, <2>2, <2>4
  <2> QED BY <2>3, <2>4
<1>10. r \in SetToSeqs(T)
  <2>1. \A k \in 1..n + 1 : r[k] \in Nat
    BY <1>1, <1>8
  <2>2. \A k, l \in 1..n + 1 : k # l => r[k] # r[l]
    <3> SUFFICES ASSUME NEW k \in 1..n + 1, NEW l \in 1..n + 1, k # l PROVE r[k] # r[l]
      OBVIOUS
    <3>1. k < l \/ l < k
      BY <1>1
    <3> QED BY <1>9, <2>1, <3>1
  <2> QED BY <1>1, <1>8, <2>2 DEF SetToSeqs
<1>11. Ascending(T) \in SetToSeqs(T) /\ \A k, l \in DOMAIN Ascending(T) : k < l => Ascending(T)[k] < Ascending(T)[l]
  BY <1>1, InOrderSorts DEF InOrder
<1>12. Ascending(T) = r
  <2>1. T \in SUBSET Nat
    BY <1>1
  <2>2. \A k, l \in DOMAIN r : k < l => r[k] < r[l]
    BY <1>8, <1>9
  <2> QED BY <1>1, <1>10, <1>11, <2>1, <2>2, AscendingIsUnique
<1>13. s \in Seq(Nat)
  BY <1>4, SeqMonotonic
<1> QED BY <1>2, <1>6, <1>12, <1>13 DEF T

(* The table of no words, and of one word more, that starts after all.     *)
LEMMA WordsAtNone == ASSUME NEW s PROVE WordsAt(s, {}) = EmptyTable
  BY DEF WordsAt, EmptyTable

OneWordMore(s, runs, a, b) ==
  WordsAt(s, runs \cup {<<a, b>>}) =
    [w \in DOMAIN WordsAt(s, runs) \cup {Lowered(s, <<a, b>>)} |->
       (IF w \in DOMAIN WordsAt(s, runs) THEN WordsAt(s, runs)[w] ELSE <<>>)
         \o (IF w = Lowered(s, <<a, b>>) THEN <<a - 1>> ELSE <<>>)]

LEMMA WordsAtMore ==
  ASSUME NEW s, NEW runs \in SUBSET ((Nat \ {0}) \X Nat), IsFiniteSet(runs), NEW a \in Nat \ {0}, NEW b \in Nat,
         \A r \in runs : r[1] < a
  PROVE  OneWordMore(s, runs, a, b)
<1> DEFINE P(R, w) == {ij[1] - 1 : ij \in {r \in R : Lowered(s, r) = w}}
           D(R) == {Lowered(s, ij) : ij \in R}
           W == WordsAt(s, runs)
           v == Lowered(s, <<a, b>>)
           more == runs \cup {<<a, b>>}
<1>1. \A R : WordsAt(s, R) = [w \in D(R) |-> Ascending(P(R, w))]
  BY Zenon DEF WordsAt
<1>2. DOMAIN W = D(runs) /\ \A w \in D(runs) : W[w] = Ascending(P(runs, w))
  BY <1>1
<1>3. D(more) = D(runs) \cup {v}
  OBVIOUS
<1>4. ASSUME NEW w PROVE P(runs, w) \in SUBSET Nat /\ IsFiniteSet(P(runs, w)) /\ \A x \in P(runs, w) : x < a - 1
  <2> DEFINE Q == {r \in runs : Lowered(s, r) = w}
             f == [r \in Q |-> r[1] - 1]
  <2>1. Q \subseteq runs /\ IsFiniteSet(Q)
    <3>1. Q \in SUBSET runs
      OBVIOUS
    <3> HIDE DEF Q
    <3> QED BY <3>1, FS_Subset
  <2>2. \A r \in runs : r[1] \in Nat \ {0} /\ r[1] < a
    OBVIOUS
  <2>3. P(runs, w) = {f[r] : r \in Q}
    OBVIOUS
  <2>4. IsFiniteSet(P(runs, w))
    <3>1. f \in Surjection(Q, P(runs, w))
      BY <2>3 DEF Surjection
    <3> HIDE DEF f, Q, P
    <3> QED BY <2>1, <3>1, FS_Surjection
  <2>5. ASSUME NEW x \in P(runs, w) PROVE x \in Nat /\ x < a - 1
    <3>1. PICK r \in Q : x = r[1] - 1
      OBVIOUS
    <3>2. r[1] \in Nat \ {0} /\ r[1] < a
      BY <2>1, <2>2, <3>1
    <3> QED BY <3>1, <3>2
  <2> QED BY <2>4, <2>5
<1>5. ASSUME NEW w PROVE P(more, w) = IF w = v THEN P(runs, w) \cup {a - 1} ELSE P(runs, w)
  <2>1. CASE w = v
    BY <2>1
  <2>2. CASE w # v
    <3>1. {r \in more : Lowered(s, r) = w} = {r \in runs : Lowered(s, r) = w}
      BY <2>2
    <3> QED BY <2>2, <3>1
  <2> QED BY <2>1, <2>2
<1>6. ASSUME NEW w, w \notin D(runs) PROVE P(runs, w) = {}
  BY <1>6
<1> HIDE DEF P, D, v, more
<1>7. a - 1 \in Nat
  OBVIOUS
<1>8. ASSUME NEW w \in D(runs) \cup {v}
      PROVE  Ascending(P(more, w)) = (IF w \in D(runs) THEN W[w] ELSE <<>>) \o (IF w = v THEN <<a - 1>> ELSE <<>>)
  <2>0. Ascending(P(runs, w)) = IF w \in D(runs) THEN W[w] ELSE <<>>
    BY <1>2, <1>6, AscendingOfNone
  <2>1. /\ Ascending(P(runs, w)) \in Seq(Nat)
        /\ Ascending(P(runs, w) \cup {a - 1}) = Ascending(P(runs, w)) \o <<a - 1>>
    BY <1>4, <1>7, AscendingOfMore
  <2> HIDE DEF W
  <2>2. CASE w = v
    BY <1>5, <2>0, <2>1, <2>2, Zenon
  <2>3. CASE w # v
    <3>1. Ascending(P(runs, w)) \o <<>> = Ascending(P(runs, w))
      BY <2>1, ConcatEmptySeq
    <3> QED BY <1>5, <2>0, <2>3, <3>1, Zenon
  <2> QED BY <2>2, <2>3
<1>9. WordsAt(s, more) = [w \in D(runs) \cup {v} |-> Ascending(P(more, w))]
  BY <1>1, <1>3
<1> HIDE DEF W
<1>10. WordsAt(s, more) = [w \in D(runs) \cup {v} |-> (IF w \in D(runs) THEN W[w] ELSE <<>>) \o (IF w = v THEN <<a - 1>> ELSE <<>>)]
  BY <1>8, <1>9
<1> QED BY <1>2, <1>10, Zenon DEF OneWordMore, W, v, more

(* A character more is read: a run ends before a boundary that a letter    *)
(* precedes, and it is the one that starts at word_start.                  *)
LEMMA NoRunEnds ==
  ASSUME NEW s \in Seq(Characters), NEW c \in 1..Len(s),
         s[c] \in Letters \/ c = 1 \/ s[c - 1] \notin Letters
  PROVE  EndedBefore(s, c + 1) = EndedBefore(s, c)
<1>1. Len(s) \in Nat /\ DOMAIN s = 1..Len(s)
  OBVIOUS
<1>2. ASSUME NEW ij \in Ended(s), ij[2] + 1 < c + 1 PROVE ij[2] + 1 < c
  <2>1. /\ ij[1] \in 1..Len(s) /\ ij[2] \in 1..Len(s) /\ Run(s, ij[1], ij[2]) /\ s[ij[2] + 1] \notin Letters
    BY <1>1 DEF Ended
  <2>2. ij[1] <= ij[2] /\ s[ij[2]] \in Letters
    BY <2>1 DEF Run
  <2>3. ASSUME ij[2] + 1 = c PROVE FALSE
    <3>1. ij[2] = c - 1 /\ c # 1
      BY <2>1, <2>3
    <3> QED BY <2>1, <2>2, <2>3, <3>1
  <2> QED BY <1>1, <1>2, <2>1, <2>3
<1>3. ASSUME NEW ij \in Ended(s), ij[2] + 1 < c PROVE ij[2] + 1 < c + 1
  <2>1. ij[2] \in 1..Len(s)
    BY <1>1 DEF Ended
  <2> QED BY <1>1, <1>3, <2>1
<1> QED BY <1>2, <1>3 DEF EndedBefore

LEMMA EndedAreRuns ==
  ASSUME NEW s \in Seq(Characters), NEW c
  PROVE  EndedBefore(s, c) \in SUBSET ((Nat \ {0}) \X Nat) /\ IsFiniteSet(EndedBefore(s, c))
<1>1. Len(s) \in Nat /\ DOMAIN s = 1..Len(s)
  OBVIOUS
<1>2. EndedBefore(s, c) \in SUBSET ((1..Len(s)) \X (1..Len(s)))
  BY <1>1 DEF EndedBefore, Ended
<1>3. IsFiniteSet((1..Len(s)) \X (1..Len(s)))
  <2>1. IsFiniteSet(1..Len(s))
    BY <1>1, FS_Interval
  <2> QED BY <2>1, FS_Product
<1>4. IsFiniteSet(EndedBefore(s, c))
  BY <1>2, <1>3, FS_Subset
<1>5. 1..Len(s) \subseteq Nat \ {0} /\ 1..Len(s) \subseteq Nat
  BY <1>1
<1> QED BY <1>2, <1>4, <1>5

LEMMA RunEnds ==
  ASSUME NEW s \in Seq(Characters), NEW c \in 1..Len(s), s[c] \notin Letters,
         NEW a \in 1..c - 1, Run(s, a, c - 1)
  PROVE  /\ EndedBefore(s, c + 1) = EndedBefore(s, c) \cup {<<a, c - 1>>}
         /\ \A r \in EndedBefore(s, c) : r[1] < a
<1>1. Len(s) \in Nat /\ DOMAIN s = 1..Len(s) /\ c \in Nat /\ a \in Nat /\ c - 1 \in 1..Len(s) /\ a \in 1..Len(s)
  OBVIOUS
<1>2. \A k \in a..c - 1 : s[k] \in Letters
  BY DEF Run
<1>3. a = 1 \/ s[a - 1] \notin Letters
  BY DEF Run
<1>4. <<a, c - 1>> \in Ended(s)
  <2>1. c - 1 + 1 = c /\ c - 1 < Len(s)
    BY <1>1
  <2>2. PICK ij : ij = <<a, c - 1>>
    OBVIOUS
  <2>3. ij \in (DOMAIN s) \X (DOMAIN s) /\ ij[1] = a /\ ij[2] = c - 1
    BY <1>1, <2>2
  <2> QED BY <2>1, <2>2, <2>3 DEF Ended
<1>5. ASSUME NEW ij \in Ended(s)
      PROVE  /\ ij[1] \in 1..Len(s) /\ ij[2] \in 1..Len(s) /\ ij = <<ij[1], ij[2]>> /\ ij[1] <= ij[2]
             /\ s[ij[2] + 1] \notin Letters
             /\ \A k \in ij[1]..ij[2] : s[k] \in Letters
             /\ ij[1] = 1 \/ s[ij[1] - 1] \notin Letters
  <2>1. ij \in (1..Len(s)) \X (1..Len(s)) /\ Run(s, ij[1], ij[2]) /\ s[ij[2] + 1] \notin Letters
    BY <1>1 DEF Ended
  <2> QED BY <2>1 DEF Run
<1>6. ASSUME NEW ij \in Ended(s), ij[2] = c - 1 PROVE ij[1] = a
  <2>1. PICK x \in 1..Len(s) : x = ij[1]
    BY <1>5
  <2>2. /\ x <= c - 1 /\ \A k \in x..c - 1 : s[k] \in Letters
        /\ x = 1 \/ s[x - 1] \notin Letters
    BY <1>5, <1>6, <2>1
  <2>3. ~ (x < a)
    <3> SUFFICES ASSUME x < a PROVE FALSE
      OBVIOUS
    <3>1. a - 1 \in x..c - 1 /\ a # 1
      BY <1>1, <2>1
    <3> QED BY <1>3, <2>2, <3>1
  <2>4. ~ (a < x)
    <3> SUFFICES ASSUME a < x PROVE FALSE
      OBVIOUS
    <3>1. x - 1 \in a..c - 1 /\ x # 1
      BY <1>1, <2>1, <2>2
    <3> QED BY <1>2, <2>2, <3>1
  <2> QED BY <1>1, <2>1, <2>3, <2>4
<1>7. ASSUME NEW ij \in EndedBefore(s, c) PROVE ij[1] < a
  <2>1. ij \in Ended(s) /\ ij[2] + 1 < c
    BY DEF EndedBefore
  <2>2. ij[1] \in 1..Len(s) /\ ij[2] \in 1..Len(s) /\ ij[1] <= ij[2] /\ s[ij[2] + 1] \notin Letters
    BY <1>5, <2>1
  <2> SUFFICES ASSUME a <= ij[1] PROVE FALSE
    BY <1>1, <2>2
  <2>3. ij[2] + 1 \in a..c - 1
    BY <1>1, <2>1, <2>2
  <2> QED BY <1>2, <2>2, <2>3
<1>8. ASSUME NEW ij \in Ended(s) PROVE ij[2] + 1 < c + 1 <=> ij[2] + 1 < c \/ ij = <<a, c - 1>>
  <2>1. ij[2] \in 1..Len(s) /\ ij = <<ij[1], ij[2]>>
    BY <1>5
  <2>2. ij[2] = c - 1 => ij = <<a, c - 1>>
    BY <1>6, <2>1
  <2>3. ij = <<a, c - 1>> => ij[2] = c - 1
    OBVIOUS
  <2>4. ij[2] + 1 < c + 1 <=> ij[2] + 1 < c \/ ij[2] = c - 1
    BY <1>1, <2>1
  <2> QED BY <2>2, <2>3, <2>4
<1>9. EndedBefore(s, c + 1) = EndedBefore(s, c) \cup {<<a, c - 1>>}
  BY <1>4, <1>8 DEF EndedBefore
<1> QED BY <1>7, <1>9

-----------------------------------------------------------------------------
(* The parser.                                                             *)
LEMMA ParseStarts ==
  ASSUME IInv, pc = "read", StartParsing, ~Rejected(buf), seen' = Inserted(seen, file, buf)
  PROVE  ParseInv'
<1> PICK s : s = CString(buf)
  OBVIOUS
<1>1. seen'[file'] = buf /\ buf' = s /\ cur_ptr' = 1 /\ word_start' = 0 /\ tab' = EmptyTable
  BY DEF StartParsing, Inserted
<1>2. s \in Seq(Characters)
  BY CStringIsText DEF IInv, TextInv
<1>3. EndedBefore(s, 1) = {}
  <2> SUFFICES ASSUME NEW ij \in Ended(s), ij[2] + 1 < 1 PROVE FALSE
    BY DEF EndedBefore
  <2>1. ij[2] \in 1..Len(s) /\ Len(s) \in Nat
    BY <1>2 DEF Ended
  <2> QED BY <2>1
<1>4. tab' = WordsAt(s, EndedBefore(s, 1))
  BY <1>1, <1>3, WordsAtNone
<1>5. ParsesText(s)'
  BY <1>1, <1>2, <1>4 DEF ParsesText
<1> QED BY <1>1, <1>5 DEF ParseInv

LEMMA LetterParsed ==
  ASSUME IInv, InsertLetter, NEW s, ParsesText(s)
  PROVE  ParsesText(s)'
<1>1. /\ cur_ptr <= Len(buf) /\ buf[cur_ptr] \in Letters /\ cur_ptr' = cur_ptr + 1 /\ tab' = tab
      /\ word_start' = IF word_start = 0 THEN cur_ptr ELSE word_start
      /\ buf' = [buf EXCEPT ![cur_ptr] = tolower[buf[cur_ptr]]]
  BY DEF InsertLetter
<1>2. /\ buf \in Seq(Characters) /\ Len(buf) \in Nat /\ cur_ptr \in 1..Len(buf) /\ word_start \in 0..cur_ptr - 1
      /\ s \in Seq(Characters) /\ Len(s) = Len(buf)
  BY <1>1 DEF IInv, TextInv, ParsesText
<1>3. s[cur_ptr] = buf[cur_ptr] /\ s[cur_ptr] \in Letters
  BY <1>1, <1>2 DEF ParsesText
<1>4. Len(buf') = Len(buf) /\ \A k \in 1..Len(s) : buf'[k] = IF k = cur_ptr THEN tolower[s[k]] ELSE buf[k]
  BY <1>1, <1>2, <1>3
<1>5. \A k \in cur_ptr'..Len(s) : buf'[k] = s[k]
  <2> SUFFICES ASSUME NEW k \in cur_ptr + 1..Len(s) PROVE buf'[k] = s[k]
    BY <1>1
  <2>1. k \in cur_ptr..Len(s) /\ k \in 1..Len(s) /\ k # cur_ptr
    BY <1>2
  <2> QED BY <1>4, <2>1 DEF ParsesText
<1>6. word_start' # 0 /\ word_start' \in 1..cur_ptr /\ cur_ptr' - 1 = cur_ptr
  BY <1>1, <1>2
<1>7. Run(s, word_start', cur_ptr)
  <2>1. CASE word_start = 0
    <3>1. cur_ptr = 1 \/ s[cur_ptr - 1] \notin Letters
      BY <2>1 DEF ParsesText
    <3>2. word_start' = cur_ptr /\ cur_ptr..cur_ptr = {cur_ptr} /\ cur_ptr <= cur_ptr
      BY <1>1, <1>2, <2>1
    <3> QED BY <1>3, <3>1, <3>2 DEF Run
  <2>2. CASE word_start # 0
    <3>1. Run(s, word_start, cur_ptr - 1) /\ word_start' = word_start
      BY <1>1, <2>2 DEF ParsesText
    <3>2. \A k \in word_start..cur_ptr : k \in word_start..cur_ptr - 1 \/ k = cur_ptr
      BY <1>2
    <3>3. word_start <= cur_ptr
      BY <1>2
    <3> QED BY <1>3, <3>1, <3>2, <3>3 DEF Run
  <2> QED BY <2>1, <2>2
<1>8. \A k \in word_start'..cur_ptr : buf'[k] = tolower[s[k]]
  <2> SUFFICES ASSUME NEW k \in word_start'..cur_ptr PROVE buf'[k] = tolower[s[k]]
    OBVIOUS
  <2>1. k \in 1..Len(s)
    BY <1>2, <1>6
  <2>2. CASE k = cur_ptr
    BY <1>4, <2>1, <2>2
  <2>3. CASE k # cur_ptr
    <3>1. word_start # 0 /\ k \in word_start..cur_ptr - 1
      BY <1>1, <1>2, <1>6, <2>3
    <3> QED BY <1>4, <2>1, <2>3, <3>1 DEF ParsesText
  <2> QED BY <2>2, <2>3
<1>9. EndedBefore(s, cur_ptr') = EndedBefore(s, cur_ptr)
  <2>1. cur_ptr \in 1..Len(s)
    BY <1>2
  <2> QED BY <1>1, <1>2, <1>3, <2>1, NoRunEnds
<1>10. tab' = WordsAt(s, EndedBefore(s, cur_ptr'))
  BY <1>1, <1>9 DEF ParsesText
<1> QED BY <1>2, <1>4, <1>5, <1>6, <1>7, <1>8, <1>10 DEF ParsesText

LEMMA BoundaryParsed ==
  ASSUME IInv, InsertBoundary, NEW s, ParsesText(s)
  PROVE  ParsesText(s)'
<1>1. cur_ptr <= Len(buf) /\ buf[cur_ptr] \notin Letters /\ cur_ptr' = cur_ptr + 1
  BY DEF InsertBoundary
<1>2. /\ buf \in Seq(Characters) /\ Len(buf) \in Nat /\ cur_ptr \in 1..Len(buf) /\ word_start \in 0..cur_ptr - 1
      /\ s \in Seq(Characters) /\ Len(s) = Len(buf)
  BY <1>1 DEF IInv, TextInv, ParsesText
<1>3. s[cur_ptr] = buf[cur_ptr] /\ s[cur_ptr] \notin Letters /\ cur_ptr' - 1 = cur_ptr /\ cur_ptr \in 1..Len(s)
  BY <1>1, <1>2 DEF ParsesText
<1>4. ASSUME Len(buf') = Len(buf), \A k \in 1..Len(s) : k # cur_ptr => buf'[k] = buf[k],
             word_start' = 0, tab' = WordsAt(s, EndedBefore(s, cur_ptr + 1))
      PROVE  ParsesText(s)'
  <2>1. \A k \in cur_ptr'..Len(s) : buf'[k] = s[k]
    <3> SUFFICES ASSUME NEW k \in cur_ptr + 1..Len(s) PROVE buf'[k] = s[k]
      BY <1>1
    <3>1. k \in cur_ptr..Len(s) /\ k \in 1..Len(s) /\ k # cur_ptr
      BY <1>2
    <3> QED BY <1>4, <3>1 DEF ParsesText
  <2> QED BY <1>1, <1>2, <1>3, <1>4, <2>1 DEF ParsesText
<1>5. CASE word_start = 0
  <2>1. UNCHANGED <<buf, word_start, tab>>
    BY <1>5 DEF InsertBoundary
  <2>2. EndedBefore(s, cur_ptr + 1) = EndedBefore(s, cur_ptr)
    <3>1. cur_ptr = 1 \/ s[cur_ptr - 1] \notin Letters
      BY <1>5 DEF ParsesText
    <3> QED BY <1>2, <1>3, <3>1, NoRunEnds
  <2>3. tab' = WordsAt(s, EndedBefore(s, cur_ptr + 1))
    BY <2>1, <2>2 DEF ParsesText
  <2> QED BY <1>4, <1>5, <2>1, <2>3
<1>6. CASE word_start # 0
  <2> DEFINE word == SubSeq(buf, word_start, cur_ptr - 1)
  <2>1. /\ buf' = [buf EXCEPT ![cur_ptr] = NUL] /\ word_start' = 0
        /\ AddWordPosition(word, word_start - 1)
    BY <1>6 DEF InsertBoundary, WordEnds
  <2>2. Len(buf') = Len(buf) /\ \A k \in 1..Len(s) : k # cur_ptr => buf'[k] = buf[k]
    BY <1>2, <2>1
  <2>3. /\ Run(s, word_start, cur_ptr - 1)
        /\ \A k \in word_start..cur_ptr - 1 : buf[k] = tolower[s[k]]
        /\ tab = WordsAt(s, EndedBefore(s, cur_ptr))
    BY <1>6 DEF ParsesText
  <2>4. word_start \in 1..cur_ptr - 1 /\ word_start \in Nat \ {0} /\ cur_ptr - 1 \in Nat
    BY <1>2, <1>6
  <2>5. word = Lowered(s, <<word_start, cur_ptr - 1>>)
    <3> DEFINE n == cur_ptr - 1 - word_start + 1
               v == [k \in 1..n |-> tolower[s[word_start + k - 1]]]
    <3>1. Lowered(s, <<word_start, cur_ptr - 1>>) = v
      BY DEF Lowered
    <3>2. n \in Nat /\ word_start <= cur_ptr - 1 /\ word_start \in Int /\ cur_ptr - 1 \in Int
          /\ \A k \in 1..n : word_start + k - 1 \in word_start..cur_ptr - 1
      BY <1>2, <2>4
    <3>3. \A k \in word_start..cur_ptr - 1 : buf[k] \in Letters
      BY <1>6 DEF IInv, TextInv
    <3>4. word \in Seq(Letters) /\ Len(word) = n /\ \A k \in 1..n : word[k] = buf[word_start + k - 1]
      BY <3>2, <3>3, SubSeqProperties
    <3> HIDE DEF word, n
    <3>5. word = [k \in 1..n |-> word[k]]
      BY <3>4, LenProperties
    <3>6. \A k \in 1..n : word[k] = tolower[s[word_start + k - 1]]
      BY <2>3, <3>2, <3>4
    <3> QED BY <3>1, <3>5, <3>6
  <2>6. /\ EndedBefore(s, cur_ptr + 1) = EndedBefore(s, cur_ptr) \cup {<<word_start, cur_ptr - 1>>}
        /\ \A r \in EndedBefore(s, cur_ptr) : r[1] < word_start
    BY <1>2, <1>3, <2>3, <2>4, RunEnds
  <2>7. tab' = WordsAt(s, EndedBefore(s, cur_ptr + 1))
    <3> DEFINE runs == EndedBefore(s, cur_ptr)
    <3>1. runs \in SUBSET ((Nat \ {0}) \X Nat) /\ IsFiniteSet(runs)
      BY <1>2, EndedAreRuns
    <3> HIDE DEF word
    <3>2. tab' = [w \in DOMAIN tab \cup {word} |->
                   (IF w \in DOMAIN tab THEN tab[w] ELSE <<>>) \o (IF w = word THEN <<word_start - 1>> ELSE <<>>)]
      BY <2>1 DEF AddWordPosition
    <3> HIDE DEF runs
    <3>3. \A r \in runs : r[1] < word_start
      BY <2>6 DEF runs
    <3>4. WordsAt(s, runs \cup {<<word_start, cur_ptr - 1>>}) =
           [w \in DOMAIN WordsAt(s, runs) \cup {Lowered(s, <<word_start, cur_ptr - 1>>)} |->
              (IF w \in DOMAIN WordsAt(s, runs) THEN WordsAt(s, runs)[w] ELSE <<>>)
                \o (IF w = Lowered(s, <<word_start, cur_ptr - 1>>) THEN <<word_start - 1>> ELSE <<>>)]
      <4>1. OneWordMore(s, runs, word_start, cur_ptr - 1)
        BY <2>4, <3>1, <3>3, WordsAtMore
      <4> QED BY <4>1, Zenon DEF OneWordMore
    <3>5. tab = WordsAt(s, runs)
      BY <2>3 DEF runs
    <3>6. EndedBefore(s, cur_ptr + 1) = runs \cup {<<word_start, cur_ptr - 1>>}
      BY <2>6 DEF runs
    <3> QED BY <2>5, <3>2, <3>4, <3>5, <3>6, Zenon
  <2> QED BY <1>4, <2>1, <2>2, <2>7
<1> QED BY <1>5, <1>6

LEMMA ParseGoesOn == ASSUME IInv, ParseInv, InsertContent PROVE ParseInv'
<1>1. pc = "parsing" /\ UNCHANGED <<pc, file, seen>>
  BY DEF InsertContent, InsertLetter, InsertBoundary, At, crawlVars
<1>2. ~Rejected(seen[file]) /\ ParsesText(CString(seen[file]))
  BY <1>1 DEF ParseInv
<1> PICK s : s = CString(seen[file])
  OBVIOUS
<1>3. ParsesText(s)
  BY <1>2
<1>4. ParsesText(s)'
  BY <1>3, LetterParsed, BoundaryParsed DEF InsertContent
<1> QED BY <1>1, <1>2, <1>4 DEF ParseInv

(* At the end of the text the table is the text's.                         *)
LEMMA TextParsed == ASSUME IInv, ParseInv, Parsed PROVE tab = WordTable(seen[file])
<1>1. pc = "parsing" /\ cur_ptr > Len(buf)
  BY DEF Parsed, At
<1> PICK s : s = CString(seen[file])
  OBVIOUS
<1>2. ~Rejected(seen[file]) /\ ParsesText(s)
  BY <1>1 DEF ParseInv
<1>3. s \in Seq(Characters) /\ Len(s) = Len(buf) /\ cur_ptr \in Nat
  BY <1>2 DEF ParsesText, IInv, TextInv
<1>4. EndedBefore(s, cur_ptr) = Ended(s)
  <2> SUFFICES ASSUME NEW ij \in Ended(s) PROVE ij[2] + 1 < cur_ptr
    BY DEF EndedBefore
  <2>1. ij[2] \in 1..Len(s) /\ ij[2] < Len(s) /\ Len(s) \in Nat
    BY <1>3 DEF Ended
  <2> QED BY <1>1, <1>3, <2>1
<1>5. tab = WordsAt(s, Ended(s))
  BY <1>2, <1>4 DEF ParsesText
<1> QED BY <1>2, <1>5 DEF WordTable

-----------------------------------------------------------------------------
(* The walk.                                                               *)
LEMMA CallTypes ==
  ASSUME IInv
  PROVE  /\ Len(dirs) \in Nat /\ DOMAIN dirs = 1..Len(dirs)
         /\ \A k \in 1..Len(dirs) :
              /\ dirs[k] \in Calls /\ dirs[k].i \in Nat \ {0} /\ dirs[k].i <= Len(dirs[k].path_name) + 1
              /\ Len(dirs[k].path_name) \in Nat
              /\ DOMAIN dirs[k].path_name = 1..Len(dirs[k].path_name)
              /\ \A m \in 1..Len(dirs[k].path_name) : dirs[k].path_name[m] \in Nat
         /\ dirs # <<>> => Len(dirs) \in 1..Len(dirs)
<1>1. dirs \in Seq(Calls) /\ \A k \in 1..Len(dirs) : dirs[k].i <= Len(dirs[k].path_name) + 1
  BY DEF IInv, StackInv
<1>2. ASSUME NEW c \in Calls
      PROVE  /\ c.i \in Nat \ {0} /\ Len(c.path_name) \in Nat /\ DOMAIN c.path_name = 1..Len(c.path_name)
             /\ \A m \in 1..Len(c.path_name) : c.path_name[m] \in Nat
  BY DEF Calls
<1>3. Len(dirs) \in Nat /\ DOMAIN dirs = 1..Len(dirs) /\ \A k \in 1..Len(dirs) : dirs[k] \in Calls
  BY <1>1
<1>4. dirs # <<>> => Len(dirs) # 0
  BY <1>1, EmptySeq
<1> QED BY <1>1, <1>2, <1>3, <1>4

(* The calls above the n-th have returned, and it goes on to its next      *)
(* entry.                                                                  *)
Returns(n) ==
  /\ n \in 1..Len(dirs) /\ Len(dirs') = n
  /\ \A k \in 1..n - 1 : dirs'[k] = dirs[k]
  /\ dirs'[n].path_name = dirs[n].path_name /\ dirs'[n].is_dir = dirs[n].is_dir /\ dirs'[n].i = dirs[n].i + 1

LEMMA AdvancedReturns ==
  ASSUME IInv, NEW stack \in Seq(Calls), NEW n \in 1..Len(dirs), Len(stack) = n,
         \A k \in 1..n : stack[k] = dirs[k], dirs' = Advanced(stack)
  PROVE  Returns(n)
<1> DEFINE c == [dirs[n] EXCEPT !.i = @ + 1]
<1>1. dirs[n] \in Calls /\ stack[n] = dirs[n] /\ n \in Nat /\ n \in 1..n
  BY CallTypes
<1>2. c.path_name = dirs[n].path_name /\ c.is_dir = dirs[n].is_dir /\ c.i = dirs[n].i + 1
  BY <1>1 DEF Calls
<1>3. dirs' = [stack EXCEPT ![n] = c]
  BY <1>1, Zenon DEF Advanced
<1> HIDE DEF c
<1>4. Len(dirs') = n /\ \A k \in 1..n : dirs'[k] = IF k = n THEN c ELSE stack[k]
  BY <1>1, <1>3
<1>5. \A k \in 1..n - 1 : k # n /\ k \in 1..n
  BY <1>1
<1> QED BY <1>1, <1>2, <1>4, <1>5 DEF Returns

LEMMA NextReturns ==
  ASSUME IInv, NextEntry, dirs # <<>>
  PROVE  Returns(Len(dirs))
<1>1. dirs \in Seq(Calls)
  BY DEF IInv, StackInv
<1> QED BY <1>1, CallTypes, AdvancedReturns DEF NextEntry

LEMMA PopReturns ==
  ASSUME IInv, dirs # <<>>, Len(dirs) # 1, dirs' = Advanced(Front(dirs))
  PROVE  Returns(Len(dirs) - 1) /\ Len(dirs) - 1 \in 1..Len(dirs) - 1 /\ Len(dirs) \in 1..Len(dirs)
<1>1. dirs \in Seq(Calls) /\ Len(dirs) \in Nat /\ Len(dirs) \in 1..Len(dirs)
  BY CallTypes DEF IInv, StackInv
<1>2. Len(dirs) - 1 \in 1..Len(dirs) - 1 /\ Len(dirs) - 1 \in Nat /\ Len(dirs) - 1 \in 1..Len(dirs)
  <2>1. PICK n \in Nat : n = Len(dirs)
    BY <1>1
  <2>2. n \in 1..n /\ n # 1
    BY <1>1, <2>1
  <2>3. n - 1 \in 1..n - 1 /\ n - 1 \in Nat /\ n - 1 \in 1..n
    BY <2>2
  <2> QED BY <2>1, <2>3
<1>3. 1 \in 1..Len(dirs) + 1 /\ Len(dirs) - 1 \in 1 - 1..Len(dirs)
  BY <1>1
<1>4. /\ Front(dirs) \in Seq(Calls) /\ Len(Front(dirs)) = Len(dirs) - 1
      /\ \A k \in 1..Len(dirs) - 1 : Front(dirs)[k] = dirs[k]
  <2>1. Len(dirs) - 1 - 1 + 1 = Len(dirs) - 1 /\ \A k \in 1..Len(dirs) - 1 : 1 + k - 1 = k
    BY <1>1
  <2> QED BY <1>1, <1>2, <1>3, <2>1, SubSeqProperties DEF Front
<1> HIDE DEF Front
<1>5. Returns(Len(dirs) - 1)
  BY <1>2, <1>4, AdvancedReturns
<1> QED BY <1>1, <1>2, <1>5

LEMMA ReturnKeepsRows ==
  ASSUME IInv, NEW n, Returns(n)
  PROVE  /\ n \in Nat /\ n \in 1..n /\ 1..n \subseteq 1..Len(dirs)
         /\ \A k \in 1..n : /\ dirs'[k].path_name = dirs[k].path_name /\ dirs'[k].is_dir = dirs[k].is_dir
                            /\ Later(k)' \subseteq Later(k) /\ DirOf(k)' = DirOf(k)
<1>1. Len(dirs) \in Nat /\ n \in Nat /\ n \in 1..n /\ 1..n \subseteq 1..Len(dirs)
  BY CallTypes DEF Returns
<1>2. ASSUME NEW k \in 1..n
      PROVE  /\ dirs'[k].path_name = dirs[k].path_name /\ dirs'[k].is_dir = dirs[k].is_dir
             /\ dirs'[k].i = dirs[k].i \/ dirs'[k].i = dirs[k].i + 1
  <2>1. k = n \/ k \in 1..n - 1
    BY <1>1
  <2> QED BY <2>1 DEF Returns
<1>3. ASSUME NEW k \in 1..n PROVE Later(k)' \subseteq Later(k)
  <2>1. dirs[k].i \in Nat /\ Len(dirs[k].path_name) \in Nat
    BY <1>1, CallTypes
  <2>2. PICK a \in Nat, b \in Nat : a = dirs[k].i /\ b = Len(dirs[k].path_name)
    BY <2>1
  <2>3. a + 1..b \subseteq a + 1..b /\ a + 1 + 1..b \subseteq a + 1..b
    OBVIOUS
  <2>4. Later(k) = a + 1..b /\ (Later(k)' = a + 1..b \/ Later(k)' = a + 1 + 1..b)
    BY <1>2, <2>2 DEF Later
  <2> QED BY <2>3, <2>4
<1>4. ASSUME NEW k \in 1..n PROVE DirOf(k)' = DirOf(k)
  <2>1. CASE k = 1
    BY <2>1 DEF DirOf
  <2>2. CASE k # 1
    <3>1. k - 1 \in 1..n - 1
      BY <1>1, <2>2
    <3> QED BY <2>2, <3>1 DEF DirOf, Returns
  <2> QED BY <2>1, <2>2
<1> QED BY <1>1, <1>2, <1>3, <1>4

LEMMA ReturnWalks ==
  ASSUME IInv, WalkInv, NEW n, Returns(n), opened' = opened, tree' = tree, pc' = "entry",
         \A k \in 1..n : Follows(k, DOMAIN seen')
  PROVE  WalkInv'
<1>0. Len(dirs') = n
  BY DEF Returns
<1>1. /\ n \in Nat /\ n \in 1..n /\ 1..n \subseteq 1..Len(dirs)
      /\ \A k \in 1..n : /\ dirs'[k].path_name = dirs[k].path_name /\ dirs'[k].is_dir = dirs[k].is_dir
                         /\ Later(k)' \subseteq Later(k) /\ DirOf(k)' = DirOf(k)
  BY ReturnKeepsRows
<1>2. ASSUME NEW k \in 1..n PROVE RowOK(k)'
  <2>1. RowOK(k) /\ \A e : IsDir(e)' = IsDir(e)
    BY <1>1 DEF WalkInv, IsDir
  <2> QED BY <1>1, <2>1 DEF RowOK
<1>3. ASSUME NEW k \in 1..n, NEW l \in 1..n, k <= l PROVE \A f \in Range(dirs'[l].path_name) : DirOf(k)' < f
  BY <1>1, <1>3 DEF WalkInv
<1>4. ASSUME NEW k \in 1..n, NEW l \in 1..n, k < l PROVE Follows(k, Range(dirs[l].path_name))'
  <2>1. Follows(k, Range(dirs[l].path_name))
    BY <1>1, <1>4 DEF WalkInv
  <2> QED BY <1>1, <2>1 DEF Follows
<1>5. ASSUME NEW k \in 1..n PROVE Follows(k, DOMAIN seen)'
  BY <1>1 DEF Follows
<1>6. ASSUME Within(Top)' PROVE \A f \in Handled' : f < Entry'
  <2> DEFINE m == dirs[n].i + 1
  <2>1. Top' = dirs'[n] /\ dirs'[n].i = m /\ dirs'[n].path_name = dirs[n].path_name
    BY <1>0 DEF Top, Returns
  <2>2. m \in Later(n)
    <3>1. dirs[n].i \in Nat /\ Len(dirs[n].path_name) \in Nat
      BY <1>1, CallTypes
    <3>2. m <= Len(dirs[n].path_name)
      BY <1>6, <2>1 DEF Within
    <3> QED BY <3>1, <3>2 DEF Later
  <2>3. Entry' = dirs[n].path_name[m]
    BY <2>1 DEF Entry
  <2>4. Handled' = DOMAIN seen'
    BY DEF Handled
  <2>5. Follows(n, DOMAIN seen')
    BY <1>1
  <2> HIDE DEF m
  <2> QED BY <2>2, <2>3, <2>4, <2>5 DEF Follows
<1>7. opened' \subseteq DOMAIN tree'
  BY DEF WalkInv
<1> QED BY <1>0, <1>2, <1>3, <1>4, <1>5, <1>6, <1>7 DEF WalkInv

(* A call of HandleDir for d is pushed, at the first entry of its row.     *)
Opens(d, row, flags) ==
  /\ Len(row) \in Nat /\ DOMAIN row = 1..Len(row)
  /\ \A m \in 1..Len(row) : row[m] \in tree[d] /\ flags[row[m]] \in IsDir(row[m])
  /\ \A k, l \in 1..Len(row) : k < l => row[k] < row[l]
  /\ Cardinality(tree[d]) <= MAX_NUM_DIR_ENTRIES => \A f \in tree[d] : \E m \in 1..Len(row) : row[m] = f
  /\ Len(dirs') = Len(dirs) + 1 /\ \A k \in 1..Len(dirs) : dirs'[k] = dirs[k]
  /\ dirs'[Len(dirs) + 1] = [path_name |-> row, is_dir |-> flags, i |-> 1]
  /\ opened' = opened \cup {d}

LEMMA HandleDirOpens ==
  ASSUME IInv, NEW d, d \in DOMAIN tree, HandleDir(d)
  PROVE  \E row, flags : Opens(d, row, flags)
<1>1. PICK kept \in Kept(d) : \E is_dir \in [kept -> BOOLEAN] :
         /\ \A e \in kept : is_dir[e] \in IsDir(e)
         /\ dirs' = Append(dirs, [path_name |-> InOrder(kept), is_dir |-> is_dir, i |-> 1])
  BY DEF HandleDir
<1>2. PICK is_dir \in [kept -> BOOLEAN] :
         /\ \A e \in kept : is_dir[e] \in IsDir(e)
         /\ dirs' = Append(dirs, [path_name |-> InOrder(kept), is_dir |-> is_dir, i |-> 1])
  BY <1>1
<1>3. kept \subseteq Nat /\ kept \subseteq tree[d] /\ IsFiniteSet(kept)
  <2>1. IsFiniteSet(tree[d]) /\ tree[d] \subseteq Nat
    BY TreesAssumption DEF IInv, StackInv
  <2>2. kept \subseteq tree[d]
    BY DEF Kept, kSubset
  <2> QED BY <2>1, <2>2, FS_Subset
<1>4. PICK row : row = InOrder(kept)
  OBVIOUS
<1>5. row \in SetToSeqs(kept) /\ \A k, l \in DOMAIN row : k < l => row[k] < row[l]
  BY <1>3, <1>4, InOrderSorts
<1>6. row \in Seq(kept) /\ DOMAIN row = 1..Len(row)
  BY <1>3, <1>5, RowIsSequence
<1>7. Len(row) \in Nat /\ \A m \in 1..Len(row) : row[m] \in kept
  BY <1>6
<1>8. Cardinality(tree[d]) <= MAX_NUM_DIR_ENTRIES => \A f \in tree[d] : \E m \in 1..Len(row) : row[m] = f
  <2>1. Cardinality(tree[d]) <= MAX_NUM_DIR_ENTRIES => kept = tree[d]
    BY DEF Kept
  <2>2. \A x \in kept : \E k \in DOMAIN row : row[k] = x
    BY <1>3, <1>5, RowIsBijective
  <2> QED BY <1>6, <2>1, <2>2
<1> DEFINE c == [path_name |-> row, is_dir |-> is_dir, i |-> 1]
           S == Calls \cup {c}
<1>9. Len(dirs') = Len(dirs) + 1 /\ (\A k \in 1..Len(dirs) : dirs'[k] = dirs[k]) /\ dirs'[Len(dirs) + 1] = c
  <2>1. dirs \in Seq(S) /\ c \in S
    BY SeqMonotonic DEF IInv, StackInv
  <2>2. dirs' = Append(dirs, c)
    BY <1>2, <1>4
  <2> HIDE DEF c, S
  <2> QED BY <2>1, <2>2, AppendProperties
<1>10. opened' = opened \cup {d}
  BY DEF HandleDir
<1>11. Opens(d, row, is_dir)
  BY <1>2, <1>3, <1>5, <1>6, <1>7, <1>8, <1>9, <1>10 DEF Opens
<1> QED BY <1>11

LEMMA PushWalks ==
  ASSUME IInv, WalkInv, NEW d, d \in DOMAIN tree, HandleDir(d), tree' = tree, seen' = seen, pc \in {"start", "entry"},
         DOMAIN seen \subseteq Files,
         pc' = "entry", \/ dirs = <<>> /\ d = Root /\ DOMAIN seen = {}
                        \/ dirs # <<>> /\ Within(Top) /\ d = Entry
  PROVE  WalkInv'
<1> PICK n : n = Len(dirs)
  OBVIOUS
<1>1. PICK row, flags : Opens(d, row, flags)
  BY HandleDirOpens
<1>2. PICK kept : kept = Range(row)
  OBVIOUS
<1>3. tree \in Trees /\ tree[d] \subseteq Nat /\ kept \subseteq tree[d]
  <2>1. tree \in Trees
    BY DEF IInv, StackInv
  <2>2. tree[d] \subseteq Nat
    BY <2>1, TreesAssumption
  <2> QED BY <1>1, <1>2, <2>1, <2>2 DEF Range, Opens
<1>5. /\ Len(row) \in Nat /\ DOMAIN row = 1..Len(row) /\ \A m \in 1..Len(row) : row[m] \in kept
      /\ \A k, l \in 1..Len(row) : k < l => row[k] < row[l]
      /\ Range(row) \subseteq kept
  BY <1>1, <1>2 DEF Range, Opens
<1>6. n \in Nat /\ dirs \in Seq(Calls)
  BY CallTypes DEF IInv, StackInv
<1>7. /\ Len(dirs') = n + 1 /\ \A k \in 1..n : dirs'[k] = dirs[k]
      /\ dirs'[n + 1] = [path_name |-> row, is_dir |-> flags, i |-> 1]
  BY <1>1 DEF Opens
<1>8. dirs'[n + 1].path_name = row /\ dirs'[n + 1].is_dir = flags /\ dirs'[n + 1].i = 1
  BY <1>7
<1>9. \A e \in tree[d] : d \in Nat /\ e \in Nat /\ d < e
  BY <1>3, WalkAssumption
<1>10. dirs # <<>> => n \in 1..n /\ Within(Top) /\ d = Entry
  BY CallTypes
<1>11. ASSUME NEW k \in 1..n PROVE DirOf(k)' = DirOf(k) /\ Later(k)' = Later(k)
  <2>1. k = 1 \/ k - 1 \in 1..n
    BY <1>6
  <2> QED BY <1>7, <2>1 DEF DirOf, Later
<1>12. DirOf(n + 1)' = d
  <2>1. CASE dirs = <<>>
    <3>1. n = 0 /\ d = Root
      BY <2>1, <1>10
    <3> QED BY <3>1 DEF DirOf
  <2>2. CASE dirs # <<>>
    <3>1. n \in 1..n /\ d = dirs[n].path_name[dirs[n].i] /\ n + 1 # 1 /\ n + 1 - 1 = n
      BY <1>6, <1>10, <2>2 DEF Entry, Top
    <3> QED BY <1>7, <3>1 DEF DirOf
  <2> QED BY <2>1, <2>2
<1>13. \A k \in 1..n + 1 : k = n + 1 \/ k \in 1..n
  BY <1>6
<1>14. opened' = opened \cup {d}
  BY <1>1 DEF Opens
<1>15. \A e : IsDir(e)' = IsDir(e)
  BY DEF IsDir
<1>16. ASSUME NEW k \in 1..n + 1 PROVE RowOK(k)'
  <2>1. CASE k = n + 1
    BY <1>1, <1>5, <1>8, <1>12, <1>14, <1>15, <2>1 DEF RowOK, Opens
  <2>2. CASE k # n + 1
    <3>1. k \in 1..n /\ RowOK(k)
      BY <1>13, <2>2 DEF WalkInv
    <3> QED BY <1>7, <1>11, <1>14, <1>15, <3>1 DEF RowOK
  <2> QED BY <2>1, <2>2
<1>17. ASSUME NEW k \in 1..n
       PROVE  /\ n \in 1..n /\ d \in Range(dirs[n].path_name) /\ DirOf(k) \in DOMAIN tree
              /\ DirOf(k) < d /\ \A m \in Later(k) : d < dirs[k].path_name[m] /\ dirs[k].path_name[m] \in tree[DirOf(k)]
  <2>1. dirs # <<>>
    <3>1. n # 0
      BY <1>6
    <3>2. Len(<<>>) = 0
      OBVIOUS
    <3> QED BY <3>1, <3>2
  <2>2. n \in 1..n /\ Within(Top) /\ d = Entry /\ Top = dirs[n]
    BY <1>10, <2>1 DEF Top
  <2>3. /\ dirs[n].i \in 1..Len(dirs[n].path_name) /\ DOMAIN dirs[n].path_name = 1..Len(dirs[n].path_name)
        /\ d = dirs[n].path_name[dirs[n].i]
    <3>1. /\ dirs[n].i \in Nat \ {0} /\ Len(dirs[n].path_name) \in Nat
          /\ DOMAIN dirs[n].path_name = 1..Len(dirs[n].path_name)
      BY <2>2, CallTypes
    <3>2. dirs[n].i <= Len(dirs[n].path_name) /\ d = dirs[n].path_name[dirs[n].i]
      BY <2>2 DEF Within, Entry
    <3> QED BY <3>1, <3>2
  <2>4. d \in Range(dirs[n].path_name)
    BY <2>3 DEF Range
  <2>5. RowOK(k) /\ RowOK(n) /\ opened \subseteq DOMAIN tree
    BY <2>2 DEF WalkInv
  <2>6. DirOf(k) < d
    <3>1. k <= n
      BY <1>6
    <3> QED BY <2>2, <2>4, <3>1 DEF WalkInv
  <2>7. ASSUME NEW m \in Later(k) PROVE d < dirs[k].path_name[m] /\ dirs[k].path_name[m] \in tree[DirOf(k)]
    <3>1. m \in 1..Len(dirs[k].path_name) /\ dirs[k].i < m /\ dirs[k].i \in Nat
      <4>1. dirs[k].i \in Nat \ {0} /\ Len(dirs[k].path_name) \in Nat
        BY CallTypes
      <4> QED BY <4>1 DEF Later
    <3>2. dirs[k].path_name[m] \in tree[DirOf(k)]
      BY <2>5, <3>1 DEF RowOK
    <3>3. CASE k = n
      BY <2>3, <2>5, <3>1, <3>3 DEF RowOK
    <3>4. CASE k # n
      <4>1. k < n
        BY <1>6, <3>4
      <4>2. Follows(k, Range(dirs[n].path_name))
        BY <2>2, <4>1 DEF WalkInv
      <4> QED BY <2>4, <3>2, <4>2 DEF Follows
    <3> QED BY <3>2, <3>3, <3>4
  <2> QED BY <2>2, <2>4, <2>5, <2>6, <2>7 DEF RowOK
<1>18. ASSUME NEW k \in 1..n + 1, NEW l \in 1..n + 1, k <= l PROVE \A f \in Range(dirs'[l].path_name) : DirOf(k)' < f
  <2>1. CASE l = n + 1
    <3> SUFFICES ASSUME NEW f \in kept PROVE DirOf(k)' < f
      BY <1>5, <1>8, <2>1
    <3>1. d \in Nat /\ f \in Nat /\ d < f
      BY <1>3, <1>9
    <3>2. CASE k = n + 1
      BY <1>12, <3>1, <3>2
    <3>3. CASE k # n + 1
      <4>1. k \in 1..n
        BY <1>13, <3>3
      <4>2. DirOf(k) < d /\ DirOf(k) \in DOMAIN tree /\ DirOf(k)' = DirOf(k)
        BY <1>11, <1>17, <4>1
      <4>3. DirOf(k) \in Nat
        <5>1. RowOK(k) /\ dirs[k].i \in Nat
          BY <4>1, CallTypes DEF WalkInv
        <5>2. n \in 1..n /\ d \in Range(dirs[n].path_name)
          BY <1>17, <4>1
        <5>3. \E e \in tree[DirOf(k)] : TRUE
          <6>1. Len(dirs[k].path_name) # 0
            <7>1. Within(dirs[k]) /\ dirs[k].i \in Nat \ {0}
              <8>1. dirs # <<>>
                <9>1. n # 0 /\ Len(<<>>) = 0
                  BY <1>6, <4>1
                <9> QED BY <9>1
              <8>2. StackInv /\ Within(Top)
                BY <1>10, <8>1 DEF IInv
              <8>3. \A m \in 1..Len(dirs) : Within(dirs[m])
                BY <8>1, <8>2, AllWithin
              <8> QED BY <4>1, <8>3, CallTypes
            <7> QED BY <7>1 DEF Within
          <6>2. 1 \in 1..Len(dirs[k].path_name)
            BY <4>1, <6>1, CallTypes
          <6> QED BY <5>1, <6>2 DEF RowOK
        <5> QED BY <1>3, <4>2, <5>3, WalkAssumption
      <4> QED BY <3>1, <4>2, <4>3
    <3> QED BY <3>2, <3>3
  <2>2. CASE l # n + 1
    <3>1. l \in 1..n /\ k \in 1..n
      BY <1>6, <1>13, <1>18, <2>2
    <3> QED BY <1>7, <1>11, <1>18, <3>1 DEF WalkInv
  <2> QED BY <2>1, <2>2
<1>19. ASSUME NEW k \in 1..n + 1, NEW l \in 1..n + 1, k < l PROVE Follows(k, Range(dirs[l].path_name))'
  <2>0. k \in 1..n
    BY <1>6, <1>19
  <2>1. CASE l = n + 1
    <3> SUFFICES ASSUME NEW m \in Later(k), NEW f \in kept PROVE f < dirs[k].path_name[m]
      BY <1>5, <1>7, <1>8, <1>11, <2>0, <2>1 DEF Follows
    <3>1. /\ DirOf(k) \in DOMAIN tree /\ DirOf(k) < d
          /\ d < dirs[k].path_name[m] /\ dirs[k].path_name[m] \in tree[DirOf(k)]
      BY <1>17, <2>0
    <3>2. f \in tree[d]
      BY <1>3
    <3> QED BY <1>3, <3>1, <3>2, WalkAssumption
  <2>2. CASE l # n + 1
    <3>1. l \in 1..n
      BY <1>13, <2>2
    <3>2. Follows(k, Range(dirs[l].path_name))
      BY <1>19, <2>0, <3>1 DEF WalkInv
    <3> QED BY <1>7, <1>11, <2>0, <3>1, <3>2 DEF Follows
  <2> QED BY <2>1, <2>2
<1>20. ASSUME NEW f \in DOMAIN seen, NEW e \in kept PROVE f < e
  <2>1. dirs # <<>> /\ Within(Top) /\ d = Entry
    OBVIOUS
  <2>2. f < d
    BY <2>1 DEF WalkInv, Handled
  <2>3. d < e /\ d \in Nat /\ e \in Nat
    BY <1>3, <1>9
  <2>4. f \in Nat
    BY TreesAssumption
  <2> QED BY <2>2, <2>3, <2>4
<1>21. ASSUME NEW k \in 1..n + 1 PROVE Follows(k, DOMAIN seen)'
  <2>1. CASE k = n + 1
    <3>1. \A m \in Later(k)' : m \in 1..Len(row)
      BY <1>5, <1>8, <2>1 DEF Later
    <3> QED BY <1>5, <1>8, <1>20, <2>1, <3>1 DEF Follows
  <2>2. CASE k # n + 1
    <3>1. k \in 1..n /\ Follows(k, DOMAIN seen)
      BY <1>13, <2>2 DEF WalkInv
    <3> QED BY <1>7, <1>11, <3>1 DEF Follows
  <2> QED BY <2>1, <2>2
<1>22. ASSUME Within(Top)' PROVE \A f \in Handled' : f < Entry'
  <2>1. Top' = dirs'[n + 1] /\ 1 <= Len(row)
    BY <1>7, <1>8, <1>22 DEF Top, Within
  <2>2. Entry' = row[1] /\ row[1] \in kept
    BY <1>5, <1>8, <2>1 DEF Entry
  <2>3. Handled' = DOMAIN seen
    BY DEF Handled
  <2> QED BY <1>20, <2>2, <2>3
<1>23. opened' \subseteq DOMAIN tree'
  BY <1>14 DEF WalkInv
<1> QED BY <1>7, <1>16, <1>18, <1>19, <1>21, <1>22, <1>23 DEF WalkInv

LEMMA WalkFrame ==
  ASSUME IInv, WalkInv, UNCHANGED <<tree, dirs, opened, seen>>, dirs = <<>> \/ Handled' \subseteq Handled
  PROVE  WalkInv'
<1>1. Len(dirs) \in Nat /\ Entry' = Entry /\ Top' = Top
  BY CallTypes DEF Entry, Top
<1>2. \A k : DirOf(k)' = DirOf(k) /\ Later(k)' = Later(k)
  BY DEF DirOf, Later
<1>3. \A k : RowOK(k)' = RowOK(k)
  BY <1>2 DEF RowOK, IsDir
<1>4. \A k, l \in 1..Len(dirs) : k < l => Follows(k, Range(dirs[l].path_name))'
  BY <1>2 DEF WalkInv, Follows
<1>5. \A k \in 1..Len(dirs) : Follows(k, DOMAIN seen)'
  BY <1>2 DEF WalkInv, Follows
<1>6. dirs # <<>> /\ Within(Top)' => \A f \in Handled' : f < Entry'
  BY <1>1 DEF WalkInv, Within
<1>7. \A k, l \in 1..Len(dirs) : k <= l => \A f \in Range(dirs[l].path_name) : DirOf(k)' < f
  BY <1>2 DEF WalkInv
<1> QED BY <1>1, <1>3, <1>4, <1>5, <1>6, <1>7 DEF WalkInv

(* What the history of a crawl holds does not depend on where it is.       *)
SeenOK(f) ==
  /\ f \in Files /\ \E d \in opened : f \in tree[d]
  /\ seen[f] \in Seq(Characters) /\ seen[f] = SubSeq(Bytes[f], 1, Len(seen[f]))
CoversOpened ==
  \A d \in opened : Cardinality(tree[d]) <= MAX_NUM_DIR_ENTRIES =>
    \A f \in tree[d] \cap Files : f \in DOMAIN seen \/ Awaits(f)

LEMMA SeenFrame ==
  ASSUME SeenInv, UNCHANGED <<tree, dirs, opened, seen>>
  PROVE  (\A f \in DOMAIN seen : SeenOK(f)') /\ CoversOpened'
<1>1. \A f : Awaits(f)' = Awaits(f)
  BY DEF Awaits
<1> QED BY <1>1 DEF SeenInv, SeenOK, CoversOpened

LEMMA ReturnSees ==
  ASSUME IInv, SeenInv, NEW n, Returns(n), opened' = opened, tree' = tree, pc' = "entry",
         \A k \in n + 1..Len(dirs) : ~ Within(dirs[k]),
         DOMAIN seen \subseteq DOMAIN seen', \A f \in DOMAIN seen' : SeenOK(f)',
         dirs[n].path_name[dirs[n].i] \in Files => dirs[n].path_name[dirs[n].i] \in DOMAIN seen'
  PROVE  SeenInv'
<1>1. n \in Nat /\ n \in 1..n /\ 1..n \subseteq 1..Len(dirs) /\ Len(dirs') = n
  BY ReturnKeepsRows DEF Returns
<1>2. ASSUME NEW f \in Files, Awaits(f) PROVE f \in DOMAIN seen' \/ Awaits(f)'
  <2>1. PICK k \in 1..Len(dirs) : \E m \in dirs[k].i..Len(dirs[k].path_name) : dirs[k].path_name[m] = f
    BY <1>2 DEF Awaits
  <2>0. PICK m \in dirs[k].i..Len(dirs[k].path_name) : dirs[k].path_name[m] = f
    BY <2>1
  <2>2. dirs[k].i \in Nat /\ Len(dirs[k].path_name) \in Nat /\ Len(dirs) \in Nat
    BY CallTypes
  <2>3. k \in 1..n
    <3> SUFFICES ASSUME k \notin 1..n PROVE FALSE
      OBVIOUS
    <3>1. k \in n + 1..Len(dirs)
      BY <1>1, <2>2
    <3>2. dirs[k].i <= Len(dirs[k].path_name)
      BY <2>0, <2>2
    <3> QED BY <3>1, <3>2 DEF Within
  <2>4. CASE k \in 1..n - 1
    <3>1. dirs'[k] = dirs[k]
      BY <2>4 DEF Returns
    <3> QED BY <1>1, <2>0, <2>3, <3>1 DEF Awaits
  <2>5. CASE k = n /\ m = dirs[k].i
    BY <2>0, <2>5
  <2>6. CASE k = n /\ m # dirs[k].i
    <3>1. dirs'[n].path_name = dirs[n].path_name /\ dirs'[n].i = dirs[n].i + 1
      BY DEF Returns
    <3>2. m \in dirs'[n].i..Len(dirs'[n].path_name)
      BY <2>0, <2>2, <2>6, <3>1
    <3> QED BY <1>1, <2>0, <2>6, <3>1, <3>2 DEF Awaits
  <2> QED BY <1>1, <2>3, <2>4, <2>5, <2>6
<1>3. CoversOpened'
  BY <1>2 DEF CoversOpened, SeenInv
<1> QED BY <1>3 DEF SeenInv, SeenOK, CoversOpened, Working, Searching

LEMMA PushSees ==
  ASSUME IInv, SeenInv, NEW d, d \in DOMAIN tree, HandleDir(d), tree' = tree, seen' = seen, pc' = "entry"
  PROVE  SeenInv'
<1>1. PICK row, flags : Opens(d, row, flags)
  BY HandleDirOpens
<1> PICK n : n = Len(dirs)
  OBVIOUS
<1>2. /\ n \in Nat /\ Len(dirs') = n + 1 /\ (\A k \in 1..n : dirs'[k] = dirs[k]) /\ 1..n \subseteq 1..n + 1 /\ n + 1 \in 1..n + 1
      /\ dirs'[n + 1].path_name = row /\ dirs'[n + 1].i = 1 /\ opened' = opened \cup {d}
  BY <1>1, CallTypes DEF Opens
<1>3. ASSUME NEW f, Awaits(f) PROVE Awaits(f)'
  <2>1. PICK k \in 1..n : \E m \in dirs[k].i..Len(dirs[k].path_name) : dirs[k].path_name[m] = f
    BY <1>3 DEF Awaits
  <2> QED BY <1>2, <2>1 DEF Awaits
<1>4. ASSUME Cardinality(tree[d]) <= MAX_NUM_DIR_ENTRIES, NEW f \in tree[d] PROVE Awaits(f)'
  <2>1. PICK m \in 1..Len(row) : row[m] = f
    BY <1>1, <1>4 DEF Opens
  <2> QED BY <1>2, <2>1 DEF Awaits
<1>5. CoversOpened'
  BY <1>2, <1>3, <1>4 DEF CoversOpened, SeenInv
<1>6. \A f \in DOMAIN seen : SeenOK(f)'
  BY <1>2 DEF SeenInv, SeenOK
<1> QED BY <1>5, <1>6 DEF SeenInv, SeenOK, CoversOpened, Working, Searching

LEMMA NothingOpen == ASSUME dirs' = <<>> PROVE WalkInv' <=> (opened \subseteq DOMAIN tree)'
<1>1. Len(dirs') = 0
  OBVIOUS
<1> QED BY <1>1 DEF WalkInv

LEMMA AtTop ==
  ASSUME IInv, WalkInv, dirs # <<>>, Within(Top)
  PROVE  /\ Len(dirs) \in 1..Len(dirs) /\ Top = dirs[Len(dirs)] /\ Entry = Top.path_name[Top.i]
         /\ Top.i \in 1..Len(Top.path_name) /\ RowOK(Len(dirs))
         /\ Entry \in tree[DirOf(Len(dirs))] /\ DirOf(Len(dirs)) \in opened /\ Top.is_dir[Entry] \in IsDir(Entry)
<1>1. Len(dirs) \in 1..Len(dirs) /\ Top = dirs[Len(dirs)] /\ Entry = Top.path_name[Top.i]
  BY CallTypes DEF Top, Entry
<1>2. Top.i \in 1..Len(Top.path_name)
  BY <1>1, CallTypes DEF Within
<1>3. RowOK(Len(dirs))
  BY <1>1 DEF WalkInv
<1> QED BY <1>1, <1>2, <1>3 DEF RowOK

LEMMA OpenWalks ==
  ASSUME IInv, WalkInv, SeenInv, CrawlFileTree \/ Subdirectory \/ EndOfDirectory
  PROVE  WalkInv' /\ SeenInv'
<1>1. pc \in {"start", "entry"} /\ UNCHANGED <<tree, seen>>
  BY DEF CrawlFileTree, Subdirectory, EndOfDirectory, AtEntry, At
<1>2. DOMAIN seen \subseteq Files /\ Handled = DOMAIN seen
  BY <1>1 DEF SeenInv, Handled
<1>3. tree \in Trees /\ DOMAIN tree \cap Files = {} /\ Root \in DOMAIN tree
  BY TreesAssumption DEF IInv, StackInv
<1>4. CASE CrawlFileTree
  <2>1. pc = "start" /\ dirs = <<>> /\ opened = {} /\ DOMAIN seen = {}
    BY <1>4 DEF CrawlFileTree, At, SeenInv
  <2>2. CASE pc' = "failed" /\ UNCHANGED <<dirs, opened>>
    <3>1. WalkInv'
      BY <1>1, <2>1, <2>2, WalkFrame
    <3> QED BY <1>1, <2>1, <2>2, <3>1 DEF SeenInv, Working, Searching
  <2>3. CASE pc' = "entry" /\ HandleDir(Root)
    BY <1>1, <1>2, <1>3, <2>1, <2>3, PushWalks, PushSees
  <2> QED BY <1>4, <2>2, <2>3 DEF CrawlFileTree
<1>5. CASE Subdirectory
  <2>1. pc = "entry" /\ dirs # <<>> /\ Within(Top) /\ Top.is_dir[Entry]
    BY <1>5 DEF Subdirectory, AtEntry, At, Within, IInv, StackInv
  <2>2. CASE Entry \in DOMAIN tree /\ HandleDir(Entry) /\ UNCHANGED <<pc, exited>>
    BY <1>1, <1>2, <2>1, <2>2, PushWalks, PushSees
  <2>3. CASE NextEntry /\ UNCHANGED opened
    <3>1. Returns(Len(dirs)) /\ pc' = "entry"
      BY <2>1, <2>3, NextReturns DEF NextEntry
    <3>2. Entry \notin Files
      <4>1. Top.is_dir[Entry] \in IsDir(Entry)
        BY <2>1, AtTop
      <4> QED BY <1>3, <2>1, <4>1 DEF IsDir
    <3>3. Entry = dirs[Len(dirs)].path_name[dirs[Len(dirs)].i]
      BY DEF Entry, Top
    <3>4. \A k \in 1..Len(dirs) : Follows(k, DOMAIN seen')
      BY <1>1 DEF WalkInv
    <3>5. WalkInv'
      BY <1>1, <2>3, <3>1, <3>4, ReturnWalks
    <3>6. \A k \in Len(dirs) + 1..Len(dirs) : ~ Within(dirs[k])
      BY CallTypes
    <3>7. \A f \in DOMAIN seen' : SeenOK(f)'
      BY <1>1, <2>3 DEF SeenInv, SeenOK
    <3>8. SeenInv'
      BY <1>1, <2>3, <3>1, <3>2, <3>3, <3>6, <3>7, ReturnSees
    <3> QED BY <3>5, <3>8
  <2> QED BY <1>5, <2>2, <2>3 DEF Subdirectory
<1>6. CASE EndOfDirectory
  <2>1. pc = "entry" /\ dirs # <<>> /\ ~ Within(Top) /\ UNCHANGED opened
    <3>1. Top.i > Len(Top.path_name)
      BY <1>6 DEF EndOfDirectory
    <3>2. Top.i \in Nat /\ Len(Top.path_name) \in Nat /\ dirs # <<>>
      BY <1>6, CallTypes DEF EndOfDirectory, At, IInv, StackInv, Top
    <3> QED BY <1>6, <3>1, <3>2 DEF EndOfDirectory, At, Within
  <2>2. CASE Len(dirs) = 1
    <3>1. dirs' = <<>> /\ pc' = "prompt" /\ Len(dirs') = 0
      BY <1>6, <2>2 DEF EndOfDirectory
    <3>2. WalkInv'
      BY <1>1, <2>1, <3>1, NothingOpen DEF WalkInv
    <3>3. ASSUME NEW f PROVE ~ Awaits(f)
      <4>1. Top = dirs[1] /\ dirs[1].i \in Nat /\ Len(dirs[1].path_name) \in Nat
        BY <2>2, CallTypes DEF Top
      <4>2. dirs[1].i..Len(dirs[1].path_name) = {}
        BY <2>1, <4>1 DEF Within
      <4>3. \A k \in 1..Len(dirs) : k = 1
        BY <2>2
      <4> QED BY <4>2, <4>3 DEF Awaits
    <3>4. CoversOpened'
      BY <1>1, <2>1, <3>3 DEF SeenInv, CoversOpened
    <3>5. \A f \in DOMAIN seen' : SeenOK(f)'
      BY <1>1, <2>1 DEF SeenInv, SeenOK
    <3> QED BY <3>1, <3>2, <3>4, <3>5 DEF SeenInv, SeenOK, CoversOpened, Working, Searching
  <2>3. CASE Len(dirs) # 1
    <3>1. dirs' = Advanced(Front(dirs)) /\ pc' = "entry"
      BY <1>6, <2>1, <2>3 DEF EndOfDirectory
    <3> PICK n : n = Len(dirs) - 1
      OBVIOUS
    <3>2. Returns(n) /\ n \in 1..Len(dirs) - 1 /\ Len(dirs) \in 1..Len(dirs) /\ Len(dirs) \in Nat
      BY <2>1, <2>3, <3>1, PopReturns, CallTypes
    <3>3. n \in 1..Len(dirs) /\ n + 1 = Len(dirs) /\ n + 1 # 1 /\ n + 1 - 1 = n /\ n + 1 \in 1..Len(dirs)
      BY <3>2
    <3>4. dirs[n].path_name[dirs[n].i] \notin Files
      <4>1. RowOK(n + 1) /\ opened \subseteq DOMAIN tree
        BY <3>3 DEF WalkInv
      <4>2. DirOf(n + 1) \in DOMAIN tree
        BY <4>1 DEF RowOK
      <4>3. DirOf(n + 1) = dirs[n].path_name[dirs[n].i]
        BY <3>3 DEF DirOf
      <4> QED BY <1>3, <4>2, <4>3
    <3>5. \A k \in 1..n : Follows(k, DOMAIN seen')
      <4>1. \A k \in 1..n : k \in 1..Len(dirs)
        BY <3>2
      <4> QED BY <1>1, <4>1 DEF WalkInv
    <3>6. WalkInv'
      BY <1>1, <2>1, <3>1, <3>2, <3>5, ReturnWalks
    <3>7. \A k \in n + 1..Len(dirs) : ~ Within(dirs[k])
      <4>1. \A k \in n + 1..Len(dirs) : k = Len(dirs)
        BY <3>2, <3>3
      <4> QED BY <2>1, <4>1 DEF Top
    <3>8. \A f \in DOMAIN seen' : SeenOK(f)'
      BY <1>1, <2>1 DEF SeenInv, SeenOK
    <3>9. SeenInv'
      BY <1>1, <2>1, <3>1, <3>2, <3>4, <3>7, <3>8, ReturnSees
    <3> QED BY <3>6, <3>9
  <2> QED BY <2>2, <2>3
<1> QED BY <1>4, <1>5, <1>6

(* What a read brings is the next part of the file.                        *)
LEMMA PrefixGrows ==
  ASSUME NEW S, NEW s \in Seq(S), NEW a \in Nat, NEW n \in Nat, a + n <= Len(s)
  PROVE  /\ SubSeq(s, 1, a) \o SubSeq(s, a + 1, a + n) = SubSeq(s, 1, a + n)
         /\ Len(SubSeq(s, 1, a + n)) = a + n
<1> DEFINE p == SubSeq(s, 1, a)
           q == SubSeq(s, a + 1, a + n)
           r == SubSeq(s, 1, a + n)
<1>1. Len(s) \in Nat /\ \A k \in 1..Len(s) : s[k] \in S
  OBVIOUS
<1>2. p \in Seq(S) /\ Len(p) = a /\ \A k \in 1..a : p[k] = s[k]
  <2>1. \A k \in 1..a : s[k] \in S
    BY <1>1
  <2>2. p \in Seq(S) /\ Len(p) = (IF 1 <= a THEN a - 1 + 1 ELSE 0) /\ \A k \in 1..a - 1 + 1 : p[k] = s[1 + k - 1]
    BY <2>1, SubSeqProperties
  <2>3. (IF 1 <= a THEN a - 1 + 1 ELSE 0) = a /\ a - 1 + 1 = a /\ \A k \in 1..a : 1 + k - 1 = k
    OBVIOUS
  <2> HIDE DEF p
  <2> QED BY <2>2, <2>3
<1>3. q \in Seq(S) /\ Len(q) = n /\ \A k \in 1..n : q[k] = s[a + k]
  <2>1. \A k \in a + 1..a + n : s[k] \in S
    BY <1>1
  <2>2. /\ q \in Seq(S) /\ Len(q) = (IF a + 1 <= a + n THEN a + n - (a + 1) + 1 ELSE 0)
        /\ \A k \in 1..a + n - (a + 1) + 1 : q[k] = s[a + 1 + k - 1]
    <3>1. PICK m \in Int, h \in Int : m = a + 1 /\ h = a + n
      OBVIOUS
    <3>2. \A k \in m..h : s[k] \in S
      BY <2>1, <3>1
    <3>3. /\ SubSeq(s, m, h) \in Seq(S) /\ Len(SubSeq(s, m, h)) = (IF m <= h THEN h - m + 1 ELSE 0)
          /\ \A k \in 1..h - m + 1 : SubSeq(s, m, h)[k] = s[m + k - 1]
      BY <3>2, SubSeqProperties
    <3> QED BY <3>1, <3>3
  <2>3. /\ (IF a + 1 <= a + n THEN a + n - (a + 1) + 1 ELSE 0) = n /\ a + n - (a + 1) + 1 = n
        /\ \A k \in 1..n : a + 1 + k - 1 = a + k
    OBVIOUS
  <2> HIDE DEF q
  <2> QED BY <2>2, <2>3
<1>4. r \in Seq(S) /\ Len(r) = a + n /\ \A k \in 1..a + n : r[k] = s[k]
  <2>1. \A k \in 1..a + n : s[k] \in S
    BY <1>1
  <2>2. /\ r \in Seq(S) /\ Len(r) = (IF 1 <= a + n THEN a + n - 1 + 1 ELSE 0)
        /\ \A k \in 1..a + n - 1 + 1 : r[k] = s[1 + k - 1]
    BY <2>1, SubSeqProperties
  <2>3. (IF 1 <= a + n THEN a + n - 1 + 1 ELSE 0) = a + n /\ a + n - 1 + 1 = a + n /\ \A k \in 1..a + n : 1 + k - 1 = k
    OBVIOUS
  <2> HIDE DEF r
  <2> QED BY <2>2, <2>3
<1> HIDE DEF p, q, r
<1>5. p \o q \in Seq(S) /\ Len(p \o q) = a + n /\ \A k \in 1..a + n : (p \o q)[k] = IF k <= a THEN p[k] ELSE q[k - a]
  BY <1>2, <1>3, ConcatProperties
<1>6. \A k \in 1..a + n : (p \o q)[k] = r[k]
  <2> SUFFICES ASSUME NEW k \in 1..a + n PROVE (p \o q)[k] = r[k]
    OBVIOUS
  <2>1. CASE k <= a
    <3>1. k \in 1..a
      BY <2>1
    <3> QED BY <1>2, <1>4, <1>5, <2>1, <3>1
  <2>2. CASE ~ (k <= a)
    <3>1. k - a \in 1..n /\ a + (k - a) = k
      BY <2>2
    <3> QED BY <1>3, <1>4, <1>5, <2>2, <3>1
  <2> QED BY <2>1, <2>2
<1> QED BY <1>4, <1>5, <1>6, SeqEqual DEF p, q, r

-----------------------------------------------------------------------------
(* The steps on a file leave the walk where it is.                         *)
LEMMA SeenFromParts ==
  ASSUME \A f \in DOMAIN seen' : SeenOK(f)', CoversOpened', pc' \in Working => file' = Entry',
         pc' \in {"parsing", "posting"} => file' \in DOMAIN seen',
         pc' \in {"reading", "read"} => Len(buf') <= Len(Bytes[file']) /\ buf' = SubSeq(Bytes[file'], 1, Len(buf')),
         pc' \notin {"start", "failed"}, pc' \in Searching => dirs' = <<>>
  PROVE  SeenInv'
  BY DEF SeenInv, SeenOK, CoversOpened

LEMMA FileReceived ==
  ASSUME IInv, SeenInv, pc = "reading", NEW n \in 1..left_to_read, buf' = Receive(n), file' = file
  PROVE  Len(buf') <= Len(Bytes[file']) /\ buf' = SubSeq(Bytes[file'], 1, Len(buf'))
<1> PICK a : a = Len(buf)
  OBVIOUS
<1>1. /\ file \in Files /\ Bytes[file] \in Seq(Characters) /\ Len(Bytes[file]) \in Nat
      /\ buf \in Seq(Characters) /\ a \in Nat /\ left_to_read \in Nat /\ a + left_to_read = Len(Bytes[file])
  BY BytesAssumption DEF IInv, TextInv, Working
<1>2. buf = SubSeq(Bytes[file], 1, a)
  BY DEF SeenInv
<1>3. n \in Nat /\ a + n <= Len(Bytes[file])
  BY <1>1
<1>4. buf' = SubSeq(Bytes[file], 1, a) \o SubSeq(Bytes[file], a + 1, a + n)
  BY <1>2 DEF Receive
<1>5. /\ SubSeq(Bytes[file], 1, a) \o SubSeq(Bytes[file], a + 1, a + n) = SubSeq(Bytes[file], 1, a + n)
      /\ Len(SubSeq(Bytes[file], 1, a + n)) = a + n
  BY <1>1, <1>3, PrefixGrows
<1> QED BY <1>3, <1>4, <1>5

LEMMA ReadingWalks ==
  ASSUME IInv, WalkInv, SeenInv, HandleFile \/ ReadFileToString \/ ReadFails
  PROVE  WalkInv' /\ SeenInv'
<1>1. pc \in {"entry", "reading"} /\ UNCHANGED <<tree, dirs, opened, seen>>
  BY DEF HandleFile, AtEntry, ReadFileToString, Read, ReadAll, ReadFails, At, crawlVars
<1>2. pc' \in {"entry", "reading", "read"}
  BY <1>1 DEF HandleFile, Exit, ReadFileToString, Read, ReadAll, ReadFails, At
<1>3. WalkInv'
  <2>1. Handled' = Handled
    BY <1>1, <1>2 DEF Handled
  <2> QED BY <1>1, <2>1, WalkFrame
<1>4. (\A f \in DOMAIN seen' : SeenOK(f)') /\ CoversOpened' /\ Entry' = Entry
  BY <1>1, SeenFrame DEF Entry, Top
<1>5. ASSUME pc' \in {"reading", "read"} => /\ file' = Entry
                                            /\ Len(buf') <= Len(Bytes[file']) /\ buf' = SubSeq(Bytes[file'], 1, Len(buf'))
      PROVE  SeenInv'
  BY <1>2, <1>4, <1>5, SeenFromParts DEF Working, Searching
<1>6. CASE HandleFile
  <2>1. CASE Entry \in Files /\ StartReading(Entry)
    <3>1. file' = Entry /\ buf' = <<>> /\ Bytes[file'] \in Seq(Characters)
      BY <2>1, BytesAssumption DEF StartReading
    <3>2. Len(<<>>) = 0 /\ Len(Bytes[file']) \in Nat
      BY <3>1
    <3>3. SubSeq(Bytes[file'], 1, 0) = <<>>
      BY SubSeqEmpty
    <3> QED BY <1>3, <1>5, <3>1, <3>2, <3>3
  <2>2. CASE Exit("unreadable")
    <3>1. pc' = "entry"
      BY <1>6, <2>2 DEF HandleFile, AtEntry, At, Exit
    <3> QED BY <1>3, <1>5, <3>1
  <2> QED BY <1>6, <2>1, <2>2 DEF HandleFile
<1>7. CASE ReadFileToString \/ ReadFails
  <2>1. pc = "reading" /\ file' = file /\ file = Entry
        /\ Len(buf) <= Len(Bytes[file]) /\ buf = SubSeq(Bytes[file], 1, Len(buf))
    BY <1>7 DEF ReadFileToString, Read, ReadAll, ReadFails, At, parserVars, SeenInv, Working
  <2>2. CASE UNCHANGED buf
    BY <1>3, <1>5, <2>1, <2>2
  <2>3. ASSUME NEW n \in 1..left_to_read, buf' = Receive(n) PROVE WalkInv' /\ SeenInv'
    <3>1. Len(buf') <= Len(Bytes[file']) /\ buf' = SubSeq(Bytes[file'], 1, Len(buf'))
      BY <2>1, <2>3, FileReceived
    <3> QED BY <1>3, <1>5, <2>1, <3>1
  <2> QED BY <1>7, <2>2, <2>3 DEF ReadFileToString, Read, ReadAll, ReadFails, parserVars
<1> QED BY <1>6, <1>7

(* The text of a file is handed to the parser: the walk has not come to    *)
(* this file before.                                                       *)
LEMMA TextWalks ==
  ASSUME IInv, WalkInv, SeenInv, ParseIntoWordPositionsTable
  PROVE  WalkInv' /\ SeenInv'
<1> PICK n : n = Len(dirs)
  OBVIOUS
<1>1. pc = "read" /\ UNCHANGED <<tree, opened>> /\ dirs # <<>> /\ Within(Top)
  BY DEF ParseIntoWordPositionsTable, At, IInv, StackInv, Working
<1>2. /\ file = Entry /\ file \in Files /\ Len(buf) <= Len(Bytes[file]) /\ buf = SubSeq(Bytes[file], 1, Len(buf))
      /\ buf \in Seq(Characters)
  BY <1>1 DEF SeenInv, IInv, TextInv, Working
<1>3. /\ n \in 1..Len(dirs) /\ Top = dirs[n] /\ Entry = Top.path_name[Top.i] /\ Top.i \in 1..Len(Top.path_name)
      /\ Entry \in tree[DirOf(n)] /\ DirOf(n) \in opened /\ RowOK(n)
  BY <1>1, AtTop
<1>4. CASE Exit("empty") /\ UNCHANGED <<parserVars, dirs, seen>>
  <2>1. UNCHANGED <<pc, file, buf>> /\ Entry' = Entry
    BY <1>4 DEF Exit, parserVars, Entry, Top
  <2>2. Handled' = Handled
    BY <1>4, <2>1 DEF Handled
  <2>3. WalkInv'
    BY <1>1, <1>4, <2>2, WalkFrame
  <2>4. (\A f \in DOMAIN seen' : SeenOK(f)') /\ CoversOpened'
    BY <1>1, <1>4, SeenFrame
  <2>5. SeenInv'
    BY <1>1, <1>2, <2>1, <2>4, SeenFromParts DEF Searching, Working
  <2> QED BY <2>3, <2>5
<1>5. CASE seen' = Inserted(seen, file, buf) /\ (NextEntry \/ (pc' = "parsing" /\ file' = file /\ UNCHANGED dirs))
  <2>1. DOMAIN seen' = DOMAIN seen \cup {file} /\ \A f \in DOMAIN seen' : seen'[f] = IF f = file THEN buf ELSE seen[f]
    BY <1>5 DEF Inserted
  <2>2. \A f \in DOMAIN seen' : SeenOK(f)'
    BY <1>1, <1>2, <1>3, <2>1 DEF SeenInv, SeenOK
  <2>3. \A k \in 1..Len(dirs) : Follows(k, DOMAIN seen')
    <3> SUFFICES ASSUME NEW k \in 1..Len(dirs), NEW m \in Later(k) PROVE Entry < dirs[k].path_name[m]
      BY <1>2, <2>1 DEF WalkInv, Follows
    <3>0. /\ Len(dirs) \in Nat /\ m \in 1..Len(dirs[k].path_name) /\ dirs[k].i < m
      BY CallTypes DEF Later
    <3>1. CASE k = n
      <4>1. Top.i < m /\ m \in 1..Len(Top.path_name)
        BY <1>3, <3>0, <3>1
      <4> QED BY <1>3, <3>1, <4>1 DEF RowOK
    <3>2. CASE k # n
      <4>1. k < n
        BY <3>0, <3>2
      <4>2. Follows(k, Range(dirs[n].path_name))
        BY <1>3, <4>1 DEF WalkInv
      <4>3. Entry \in Range(dirs[n].path_name)
        BY <1>3, CallTypes DEF Range
      <4> QED BY <4>2, <4>3 DEF Follows
    <3> QED BY <3>1, <3>2
  <2>4. CASE NextEntry
    <3>1. Returns(n) /\ pc' = "entry"
      BY <1>1, <2>4, NextReturns DEF NextEntry
    <3>2. \A k \in 1..n : Follows(k, DOMAIN seen')
      BY <2>3
    <3>3. WalkInv'
      BY <1>1, <3>1, <3>2, ReturnWalks
    <3>4. \A k \in n + 1..Len(dirs) : ~ Within(dirs[k])
      BY CallTypes
    <3>5. DOMAIN seen \subseteq DOMAIN seen' /\ dirs[n].path_name[dirs[n].i] \in DOMAIN seen'
      BY <1>2, <1>3, <2>1
    <3>6. SeenInv'
      BY <1>1, <2>2, <3>1, <3>4, <3>5, ReturnSees
    <3> QED BY <3>3, <3>6
  <2>5. CASE pc' = "parsing" /\ file' = file /\ UNCHANGED dirs
    <3>1. \A k : DirOf(k)' = DirOf(k) /\ Later(k)' = Later(k)
      BY <2>5 DEF DirOf, Later
    <3>2. \A k : RowOK(k)' = RowOK(k)
      BY <1>1, <2>5, <3>1 DEF RowOK, IsDir
    <3>3. Entry' = Entry /\ Top' = Top
      BY <2>5 DEF Entry, Top
    <3>4. Handled' = DOMAIN seen \ {file} /\ Handled = DOMAIN seen
      BY <1>1, <2>1, <2>5 DEF Handled
    <3>5. \A f \in Handled' : f < Entry'
      BY <1>1, <3>3, <3>4 DEF WalkInv
    <3>6. \A k, l \in 1..Len(dirs) : k < l => Follows(k, Range(dirs[l].path_name))'
      BY <2>5, <3>1 DEF WalkInv, Follows
    <3>7. \A k \in 1..Len(dirs) : Follows(k, DOMAIN seen)'
      BY <2>3, <2>5, <3>1 DEF Follows
    <3>8. \A k, l \in 1..Len(dirs) : k <= l => \A f \in Range(dirs[l].path_name) : DirOf(k)' < f
      BY <3>1 DEF WalkInv
    <3>9. WalkInv'
      <4>1. (opened \subseteq DOMAIN tree)' /\ \A k \in 1..Len(dirs') : RowOK(k)'
        BY <1>1, <2>5, <3>2 DEF WalkInv
      <4> QED BY <2>5, <3>5, <3>6, <3>7, <3>8, <4>1 DEF WalkInv
    <3>10. CoversOpened'
      <4>1. \A f : Awaits(f)' = Awaits(f)
        BY <2>5 DEF Awaits
      <4> QED BY <1>1, <2>1, <4>1 DEF SeenInv, CoversOpened
    <3>11. SeenInv'
      BY <1>2, <2>1, <2>2, <2>5, <3>3, <3>10, SeenFromParts DEF Searching
    <3> QED BY <3>9, <3>11
  <2> QED BY <1>5, <2>4, <2>5
<1> QED BY <1>4, <1>5 DEF ParseIntoWordPositionsTable, StartParsing

LEMMA FileWalks ==
  ASSUME IInv, WalkInv, SeenInv, InsertContent \/ FileParsed \/ PostWord \/ FilePosted
  PROVE  WalkInv' /\ SeenInv'
<1> PICK n : n = Len(dirs)
  OBVIOUS
<1>1. pc \in {"parsing", "posting"} /\ UNCHANGED <<tree, opened, seen, file>>
  BY DEF InsertContent, InsertLetter, InsertBoundary, FileParsed, Parsed, FreeText, PostWord, FilePosted, At,
         parserVars, crawlVars
<1>2. file = Entry /\ file \in DOMAIN seen /\ dirs # <<>> /\ Within(Top)
  BY <1>1 DEF SeenInv, IInv, StackInv, Working
<1>3. CASE UNCHANGED dirs /\ pc' \in {"parsing", "posting"}
  <2>1. Handled' = Handled /\ Entry' = Entry
    BY <1>1, <1>3 DEF Handled, Entry, Top
  <2>2. WalkInv'
    BY <1>1, <1>3, <2>1, WalkFrame
  <2>3. (\A f \in DOMAIN seen' : SeenOK(f)') /\ CoversOpened'
    BY <1>1, <1>3, SeenFrame
  <2>4. SeenInv'
    BY <1>1, <1>2, <1>3, <2>1, <2>3, SeenFromParts DEF Searching
  <2> QED BY <2>2, <2>4
<1>4. CASE NextEntry
  <2>1. Returns(n) /\ pc' = "entry" /\ n \in 1..Len(dirs) /\ Entry = dirs[n].path_name[dirs[n].i]
    BY <1>2, <1>4, NextReturns, AtTop DEF NextEntry
  <2>2. \A k \in 1..n : Follows(k, DOMAIN seen')
    BY <1>1 DEF WalkInv
  <2>3. WalkInv'
    BY <1>1, <2>1, <2>2, ReturnWalks
  <2>4. \A k \in n + 1..Len(dirs) : ~ Within(dirs[k])
    BY CallTypes
  <2>5. (\A f \in DOMAIN seen' : SeenOK(f)') /\ DOMAIN seen \subseteq DOMAIN seen'
    BY <1>1 DEF SeenInv, SeenOK
  <2>6. SeenInv'
    BY <1>1, <1>2, <2>1, <2>4, <2>5, ReturnSees
  <2> QED BY <2>3, <2>6
<1> QED BY <1>1, <1>3, <1>4 DEF InsertContent, InsertLetter, InsertBoundary, FileParsed, PostWord, FilePosted, Exit, At, crawlVars

(* A query leaves the walk alone.                                          *)
LEMMA QueryWalks ==
  ASSUME IInv, WalkInv, SeenInv, UNCHANGED Indexed, pc \in Searching, pc' \in Searching
  PROVE  WalkInv' /\ SeenInv'
<1>1. UNCHANGED <<tree, opened, seen, dirs>> /\ dirs = <<>>
  BY DEF Indexed, crawlVars, SeenInv
<1>2. WalkInv'
  BY <1>1, WalkFrame
<1>3. (\A f \in DOMAIN seen' : SeenOK(f)') /\ CoversOpened'
  BY <1>1, SeenFrame
<1>4. SeenInv'
  BY <1>1, <1>3, SeenFromParts DEF Searching, Working
<1> QED BY <1>2, <1>4

-----------------------------------------------------------------------------
(* The document table.                                                     *)
LEMMA DocumentsFrame ==
  ASSUME DocumentsInv, UNCHANGED <<name_to_id, file>>, Indexable' = Indexable, pc \in {"parsing"} <=> pc' \in {"parsing"}
  PROVE  DocumentsInv'
  BY DEF DocumentsInv

LEMMA IndexableSame == ASSUME UNCHANGED seen PROVE Indexable' = Indexable /\ \A f : WordTable(seen'[f]) = WordTable(seen[f])
  BY DEF Indexable

LEMMA TextDocuments ==
  ASSUME IInv, WalkInv, SeenInv, DocumentsInv, ParseIntoWordPositionsTable
  PROVE  /\ DocumentsInv' /\ file' = file /\ DOMAIN seen \subseteq DOMAIN seen'
         /\ \A f \in DOMAIN seen : seen'[f] = seen[f]
<1>1. /\ pc = "read" /\ UNCHANGED docTableVars /\ dirs # <<>> /\ Within(Top) /\ file = Entry
      /\ UNCHANGED <<file, name_to_id>>
  BY DEF ParseIntoWordPositionsTable, At, IInv, StackInv, SeenInv, Working, docTableVars, parserVars, FreeText, StartParsing
<1>2. file \notin DOMAIN seen
  <2>1. file \in Nat
    BY <1>1, TreesAssumption DEF IInv, TextInv, Working
  <2>2. \A f \in DOMAIN seen : f < file
    BY <1>1 DEF WalkInv, Handled
  <2> QED BY <2>1, <2>2
<1>3. DOMAIN name_to_id = Indexable
  BY <1>1 DEF DocumentsInv
<1>4. CASE Exit("empty") /\ UNCHANGED <<parserVars, dirs, seen>>
  BY <1>1, <1>4, IndexableSame, DocumentsFrame DEF Exit
<1>5. CASE seen' = Inserted(seen, file, buf)
  <2>1. DOMAIN seen' = DOMAIN seen \cup {file} /\ \A f \in DOMAIN seen' : seen'[f] = IF f = file THEN buf ELSE seen[f]
    BY <1>5 DEF Inserted
  <2>2. Indexable' \ {file} = Indexable
    BY <1>2, <2>1 DEF Indexable
  <2>3. CASE Rejected(buf) /\ NextEntry
    <3>1. DOMAIN WordTable(buf) = {} /\ pc' = "entry"
      BY <2>3 DEF WordTable, EmptyTable, NextEntry
    <3>2. file \notin Indexable'
      BY <2>1, <3>1 DEF Indexable
    <3> QED BY <1>1, <1>2, <1>3, <2>1, <2>2, <3>1, <3>2 DEF DocumentsInv
  <2>4. CASE pc' = "parsing"
    BY <1>1, <1>2, <1>3, <2>1, <2>2, <2>4 DEF DocumentsInv
  <2> QED BY <1>5, <1>1, <2>3, <2>4, <1>4 DEF ParseIntoWordPositionsTable
<1> QED BY <1>4, <1>5 DEF ParseIntoWordPositionsTable

(* A file that has words is added as the last document.                    *)
LEMMA ParsedDocuments ==
  ASSUME IInv, WalkInv, SeenInv, ParseInv, DocumentsInv, FileParsed
  PROVE  /\ DocumentsInv' /\ UNCHANGED <<seen, file, tab, index, exited>> /\ tab = WordTable(seen[file])
         /\ \/ UNCHANGED docTableVars /\ pc' = "entry" /\ tab = EmptyTable
            \/ /\ file \notin DOMAIN name_to_id /\ pc' = "posting" /\ doc_id' = max_id
               /\ id_to_name' = Inserted(id_to_name, max_id, file)
               /\ name_to_id' = Inserted(name_to_id, file, max_id)
<1>1. /\ pc = "parsing" /\ UNCHANGED <<seen, file, tab, index>> /\ dirs # <<>> /\ Within(Top) /\ file = Entry /\ Parsed
      /\ file \in DOMAIN seen /\ file \in Nat
  <2>1. pc = "parsing" /\ UNCHANGED <<seen, file, tab, index>> /\ Parsed
    BY DEF FileParsed, Parsed, At, FreeText
  <2> QED BY <2>1, TreesAssumption DEF IInv, TextInv, StackInv, SeenInv, Working
<1>2. tab = WordTable(seen[file])
  BY <1>1, TextParsed
<1>3. DOMAIN name_to_id = Indexable \ {file} /\ Indexable' = Indexable
  BY <1>1, IndexableSame DEF DocumentsInv
<1>4. CASE tab = EmptyTable
  <2>1. NextEntry /\ UNCHANGED docTableVars
    BY <1>4 DEF FileParsed
  <2>2. file \notin Indexable
    BY <1>2, <1>4 DEF Indexable, EmptyTable
  <2> QED BY <1>1, <1>2, <1>3, <1>4, <2>1, <2>2 DEF DocumentsInv, docTableVars, NextEntry
<1>5. CASE tab # EmptyTable
  <2>1. DocTable_Add(file) /\ doc_id' = AddedId(file) /\ pc' = "posting" /\ UNCHANGED exited
    BY <1>5 DEF FileParsed
  <2>2. DOMAIN tab # {}
    <3>1. tab = [w \in DOMAIN tab |-> tab[w]]
      BY <1>2 DEF WordTable, WordsAt, EmptyTable
    <3> QED BY <1>5, <3>1 DEF EmptyTable
  <2>3. file \in Indexable
    BY <1>1, <1>2, <2>2 DEF Indexable
  <2>4. /\ file \notin DOMAIN name_to_id /\ doc_id' = max_id
        /\ id_to_name' = Inserted(id_to_name, max_id, file)
        /\ name_to_id' = Inserted(name_to_id, file, max_id)
    BY <1>3, <2>1 DEF DocTable_Add, AddedId
  <2>5. /\ DOMAIN name_to_id' = Indexable
        /\ \A f \in DOMAIN name_to_id' : name_to_id'[f] = IF f = file THEN max_id ELSE name_to_id[f]
    BY <1>3, <2>3, <2>4, Zenon DEF Inserted
  <2>6. ASSUME NEW f \in DOMAIN name_to_id', NEW g \in DOMAIN name_to_id', f < g PROVE name_to_id'[f] < name_to_id'[g]
    <3>1. \A h \in DOMAIN name_to_id : h < file /\ h \in Nat /\ name_to_id[h] < max_id
      <4>1. \A h \in DOMAIN name_to_id : h \in Handled
        BY <1>1, <1>3 DEF Handled, Indexable
      <4>2. \A h \in DOMAIN name_to_id : h < file
        BY <1>1, <4>1 DEF WalkInv
      <4>3. \A h \in DOMAIN name_to_id : h \in Nat
        BY <1>3, TreesAssumption DEF SeenInv, Indexable
      <4>4. \A h \in DOMAIN name_to_id : name_to_id[h] < max_id
        BY DEF IInv, DocsInv
      <4> QED BY <4>2, <4>3, <4>4
    <3>2. \A h \in DOMAIN name_to_id' : h = file \/ h \in DOMAIN name_to_id
      BY <1>3, <2>5
    <3>3. f # file
      <4> SUFFICES ASSUME f = file PROVE FALSE
        OBVIOUS
      <4>1. g = file \/ (g < file /\ g \in Nat)
        BY <3>1, <3>2
      <4> QED BY <1>1, <2>6, <4>1
    <3>4. f \in DOMAIN name_to_id
      BY <3>2, <3>3
    <3>5. CASE g = file
      BY <2>5, <3>1, <3>3, <3>4, <3>5
    <3>6. CASE g # file
      <4>1. g \in DOMAIN name_to_id
        BY <3>2, <3>6
      <4>2. name_to_id[f] < name_to_id[g]
        BY <2>6, <3>4, <4>1 DEF DocumentsInv
      <4> QED BY <2>5, <3>3, <3>6, <4>2
    <3> QED BY <3>5, <3>6
  <2>7. DocumentsInv'
    BY <1>3, <2>1, <2>5, <2>6 DEF DocumentsInv
  <2> QED BY <1>1, <1>2, <2>1, <2>4, <2>7
<1> QED BY <1>4, <1>5

-----------------------------------------------------------------------------
(* The index.                                                              *)
LEMMA NamesAreSeen ==
  ASSUME IInv, DocumentsInv
  PROVE  /\ DOMAIN name_to_id \subseteq DOMAIN seen
         /\ \A w \in DOMAIN index : \A d \in DOMAIN index[w] :
              /\ d \in 1..max_id - 1 /\ id_to_name[d] \in DOMAIN name_to_id /\ id_to_name[d] \in DOMAIN seen
              /\ name_to_id[id_to_name[d]] = d
<1>1. DOMAIN name_to_id \subseteq DOMAIN seen
  BY DEF DocumentsInv, Indexable
<1>2. ASSUME NEW w \in DOMAIN index, NEW d \in DOMAIN index[w]
      PROVE  d \in 1..max_id - 1 /\ id_to_name[d] \in DOMAIN name_to_id /\ name_to_id[id_to_name[d]] = d
  <2>1. d \in 1..max_id - 1
    BY DEF IInv, IndexInv
  <2> QED BY <2>1 DEF IInv, DocsInv
<1> QED BY <1>1, <1>2

LEMMA PostFrame ==
  ASSUME IInv, DocumentsInv, PostInv, UNCHANGED <<index, id_to_name, name_to_id>>,
         exited' # "posting", pc' # "posting",
         \A f \in DOMAIN seen : seen'[f] = seen[f],
         pc = "posting" => tab = EmptyTable
  PROVE  PostInv'
<1>1. DOMAIN name_to_id \subseteq DOMAIN seen /\ \A w \in DOMAIN index : \A d \in DOMAIN index[w] : id_to_name[d] \in DOMAIN seen
  BY NamesAreSeen
<1>2. \A f \in DOMAIN seen : WordTable(seen'[f]) = WordTable(seen[f])
  OBVIOUS
<1>3. ASSUME NEW f \in DOMAIN seen, NEW w PROVE Posted(f, w)' <=> Posted(f, w)
  <2>1. DOMAIN EmptyTable = {}
    BY DEF EmptyTable
  <2> QED BY <1>2, <2>1 DEF Posted
<1>4. \A w \in DOMAIN index' : \A d \in DOMAIN index'[w] : Posted(id_to_name[d], w)'
  <2> SUFFICES ASSUME NEW w \in DOMAIN index, NEW d \in DOMAIN index[w] PROVE Posted(id_to_name[d], w)'
    BY DEF Posted
  <2>1. id_to_name[d] \in DOMAIN seen /\ Posted(id_to_name[d], w)
    BY <1>1 DEF PostInv
  <2> QED BY <1>3, <2>1
<1>5. ASSUME NEW f \in DOMAIN name_to_id', NEW w \in DOMAIN WordTable(seen'[f]), Posted(f, w)'
      PROVE  w \in DOMAIN index' /\ name_to_id'[f] \in DOMAIN index'[w] /\ index'[w][name_to_id'[f]] = WordTable(seen'[f])[w]
  <2>1. f \in DOMAIN name_to_id /\ f \in DOMAIN seen /\ WordTable(seen'[f]) = WordTable(seen[f]) /\ Posted(f, w)
    BY <1>1, <1>2, <1>3, <1>5
  <2>2. w \in DOMAIN index /\ name_to_id[f] \in DOMAIN index[w] /\ index[w][name_to_id[f]] = WordTable(seen[f])[w]
    BY <2>1 DEF PostInv
  <2> QED BY <2>1, <2>2
<1>6. index' = [w \in DOMAIN index' |-> [d \in DOMAIN index'[w] |-> index'[w][d]]]
  BY DEF PostInv
<1> QED BY <1>4, <1>5, <1>6 DEF PostInv

LEMMA ParsedPosts ==
  ASSUME IInv, WalkInv, SeenInv, ParseInv, DocumentsInv, PostInv, FileParsed
  PROVE  PostInv'
<1>1. /\ UNCHANGED <<seen, file, tab, index, exited>> /\ tab = WordTable(seen[file]) /\ pc = "parsing"
      /\ \/ UNCHANGED docTableVars /\ pc' = "entry" /\ tab = EmptyTable
         \/ /\ file \notin DOMAIN name_to_id /\ pc' = "posting" /\ doc_id' = max_id
            /\ id_to_name' = Inserted(id_to_name, max_id, file)
            /\ name_to_id' = Inserted(name_to_id, file, max_id)
  BY ParsedDocuments DEF FileParsed, Parsed, At
<1>2. exited' # "posting"
  BY <1>1 DEF PostInv
<1>3. CASE UNCHANGED docTableVars /\ pc' = "entry"
  BY <1>1, <1>2, <1>3, PostFrame DEF docTableVars
<1>4. CASE /\ file \notin DOMAIN name_to_id /\ pc' = "posting" /\ doc_id' = max_id
           /\ id_to_name' = Inserted(id_to_name, max_id, file)
           /\ name_to_id' = Inserted(name_to_id, file, max_id)
  <2>1. /\ DOMAIN name_to_id' = DOMAIN name_to_id \cup {file}
        /\ \A f \in DOMAIN name_to_id' : name_to_id'[f] = IF f = file THEN max_id ELSE name_to_id[f]
        /\ \A d \in DOMAIN id_to_name' : id_to_name'[d] = IF d = max_id THEN file ELSE id_to_name[d]
        /\ DOMAIN id_to_name' = DOMAIN id_to_name \cup {max_id}
    BY <1>4, Zenon DEF Inserted
  <2>2. \A f, w : Posted(f, w)' <=> f # file /\ Posted(f, w)
    BY <1>1, <1>4 DEF Posted
  <2>3. \A w \in DOMAIN index' : \A d \in DOMAIN index'[w] : Posted(id_to_name[d], w)'
    <3> SUFFICES ASSUME NEW w \in DOMAIN index, NEW d \in DOMAIN index[w] PROVE Posted(id_to_name[d], w)'
      BY <1>1
    <3>1. d \in 1..max_id - 1 /\ id_to_name[d] \in DOMAIN name_to_id /\ max_id \in Nat /\ DOMAIN id_to_name = 1..max_id - 1
      BY NamesAreSeen DEF IInv, DocsInv
    <3>2. d # max_id
      BY <3>1
    <3>3. id_to_name'[d] = id_to_name[d]
      BY <2>1, <3>1, <3>2
    <3>4. Posted(id_to_name[d], w) /\ id_to_name[d] # file
      BY <1>4, <3>1 DEF PostInv
    <3> QED BY <2>2, <3>3, <3>4
  <2>4. ASSUME NEW f \in DOMAIN name_to_id', NEW w \in DOMAIN WordTable(seen'[f]), Posted(f, w)'
        PROVE  w \in DOMAIN index' /\ name_to_id'[f] \in DOMAIN index'[w] /\ index'[w][name_to_id'[f]] = WordTable(seen'[f])[w]
    <3>1. f # file /\ Posted(f, w) /\ f \in DOMAIN name_to_id /\ name_to_id'[f] = name_to_id[f] /\ w \in DOMAIN WordTable(seen[f])
      BY <1>1, <2>1, <2>2, <2>4
    <3>2. w \in DOMAIN index /\ name_to_id[f] \in DOMAIN index[w] /\ index[w][name_to_id[f]] = WordTable(seen[f])[w]
      BY <3>1 DEF PostInv
    <3> QED BY <1>1, <3>1, <3>2
  <2>5. file' \in DOMAIN name_to_id' /\ doc_id' = name_to_id'[file']
    BY <1>1, <1>4, <2>1
  <2>6. \A w \in DOMAIN tab' : w \in DOMAIN WordTable(seen'[file']) /\ tab'[w] = WordTable(seen'[file'])[w]
    BY <1>1
  <2>7. index' = [w \in DOMAIN index' |-> [d \in DOMAIN index'[w] |-> index'[w][d]]]
    BY <1>1 DEF PostInv
  <2> QED BY <1>2, <2>3, <2>4, <2>5, <2>6, <2>7 DEF PostInv
<1> QED BY <1>1, <1>3, <1>4

(* The document is new to every word that is left in its table.            *)
LEMMA PostingNew ==
  ASSUME IInv, PostInv, pc = "posting", NEW word \in DOMAIN tab
  PROVE  PostingIsNew(word, doc_id)
<1>1. doc_id \in 1..max_id - 1 /\ doc_id = name_to_id[file] /\ id_to_name[doc_id] = file
  BY DEF IInv, DocsInv, PostInv
<1>2. ASSUME word \in DOMAIN index, doc_id \in DOMAIN index[word] PROVE FALSE
  <2>1. Posted(id_to_name[doc_id], word)
    BY <1>2 DEF PostInv
  <2> QED BY <1>1, <2>1 DEF Posted
<1>3. DOMAIN [d \in {} |-> <<>>] = {}
  OBVIOUS
<1> QED BY <1>2, <1>3 DEF PostingIsNew, Postings

LEMMA PostWordPosts ==
  ASSUME IInv, PostInv, DocumentsInv, PostWord
  PROVE  PostInv' /\ UNCHANGED <<pc, seen, file, docTableVars>>
<1>1. pc = "posting" /\ UNCHANGED <<file, seen, id_to_name, name_to_id, doc_id, docTableVars>>
  BY DEF PostWord, At, docTableVars, crawlVars
<1>2. PICK word \in DOMAIN tab :
        \/ /\ MemIndex_AddPostingList(word, doc_id, tab[word])
           /\ tab' = [w \in DOMAIN tab \ {word} |-> tab[w]]
           /\ UNCHANGED <<pc, exited>>
        \/ ~PostingIsNew(word, doc_id)
  BY Zenon DEF PostWord
<1>3. PostingIsNew(word, doc_id)
  BY <1>1, PostingNew
<1>4. /\ MemIndex_AddPostingList(word, doc_id, tab[word])
      /\ tab' = [w \in DOMAIN tab \ {word} |-> tab[w]] /\ UNCHANGED <<pc, exited>>
  BY <1>2, <1>3
<1>5. DOMAIN tab' = DOMAIN tab \ {word} /\ \A w \in DOMAIN tab' : tab'[w] = tab[w]
  BY <1>4
<1>6. /\ file \in DOMAIN name_to_id /\ doc_id = name_to_id[file] /\ id_to_name[doc_id] = file /\ exited # "posting"
      /\ \A w \in DOMAIN tab : w \in DOMAIN WordTable(seen[file]) /\ tab[w] = WordTable(seen[file])[w]
  BY <1>1 DEF PostInv, IInv, DocsInv
<1>7. /\ DOMAIN index' = DOMAIN index \cup {word}
      /\ \A w \in DOMAIN index' : w # word => index'[w] = index[w]
      /\ DOMAIN index'[word] = DOMAIN Postings(word) \cup {doc_id}
      /\ index'[word][doc_id] = tab[word]
      /\ \A d \in DOMAIN Postings(word) : index'[word][d] = Postings(word)[d]
      /\ index' = [w \in DOMAIN index' |-> [d \in DOMAIN index'[w] |-> index'[w][d]]]
  <2> DEFINE new == [d \in DOMAIN Postings(word) \cup {doc_id} |-> IF d = doc_id THEN tab[word] ELSE Postings(word)[d]]
  <2>1. index' = [w \in DOMAIN index \cup {word} |-> IF w # word THEN index[w] ELSE new]
    BY <1>4, Zenon DEF MemIndex_AddPostingList
  <2>2. doc_id \notin DOMAIN Postings(word)
    BY <1>3 DEF PostingIsNew
  <2>3. DOMAIN index' = DOMAIN index \cup {word} /\ index'[word] = new
    BY <2>1
  <2>4. /\ DOMAIN new = DOMAIN Postings(word) \cup {doc_id} /\ new[doc_id] = tab[word]
        /\ \A d \in DOMAIN Postings(word) : new[d] = Postings(word)[d]
        /\ new = [d \in DOMAIN new |-> new[d]]
    <3> HIDE DEF Postings
    <3> QED BY <2>2
  <2> HIDE DEF new
  <2>5. \A w \in DOMAIN index' : w # word => w \in DOMAIN index /\ index'[w] = index[w]
    BY <2>1, <2>3
  <2>6. \A w \in DOMAIN index : index[w] = [d \in DOMAIN index[w] |-> index[w][d]]
    BY DEF PostInv
  <2>7. \A w \in DOMAIN index' : index'[w] = [d \in DOMAIN index'[w] |-> index'[w][d]]
    BY <2>3, <2>4, <2>5, <2>6
  <2>8. index' = [w \in DOMAIN index' |-> index'[w]]
    BY <2>1
  <2> QED BY <2>3, <2>4, <2>5, <2>7, <2>8
<1>8. \A f, w : Posted(f, w)' <=> w \in DOMAIN WordTable(seen[f]) /\ (Posted(f, w) \/ (f = file /\ w = word))
  BY <1>1, <1>4, <1>5 DEF Posted
<1>9. ASSUME NEW w \in DOMAIN index', NEW d \in DOMAIN index'[w] PROVE Posted(id_to_name[d], w)'
  <2>1. CASE w = word /\ d = doc_id
    BY <1>1, <1>6, <1>8, <2>1
  <2>2. CASE ~ (w = word /\ d = doc_id)
    <3>1. w \in DOMAIN index /\ d \in DOMAIN index[w]
      <4>1. DOMAIN [e \in {} |-> <<>>] = {}
        OBVIOUS
      <4> QED BY <1>7, <1>9, <2>2, <4>1 DEF Postings
    <3>2. Posted(id_to_name[d], w)
      BY <3>1 DEF PostInv
    <3> QED BY <1>1, <1>8, <3>2 DEF Posted
  <2> QED BY <2>1, <2>2
<1>10. ASSUME NEW f \in DOMAIN name_to_id', NEW w \in DOMAIN WordTable(seen'[f]), Posted(f, w)'
       PROVE  w \in DOMAIN index' /\ name_to_id'[f] \in DOMAIN index'[w] /\ index'[w][name_to_id'[f]] = WordTable(seen'[f])[w]
  <2>1. CASE f = file /\ w = word
    BY <1>1, <1>6, <1>7, <2>1
  <2>2. CASE ~ (f = file /\ w = word)
    <3>1. f \in DOMAIN name_to_id /\ w \in DOMAIN WordTable(seen[f]) /\ Posted(f, w)
      BY <1>1, <1>8, <1>10, <2>2
    <3>2. w \in DOMAIN index /\ name_to_id[f] \in DOMAIN index[w] /\ index[w][name_to_id[f]] = WordTable(seen[f])[w]
      BY <3>1 DEF PostInv
    <3>3. name_to_id[f] \in DOMAIN index'[w] /\ index'[w][name_to_id[f]] = index[w][name_to_id[f]]
      BY <1>7, <3>2 DEF Postings
    <3> QED BY <1>1, <1>7, <3>2, <3>3
  <2> QED BY <2>1, <2>2
<1>11. \A w \in DOMAIN tab' : w \in DOMAIN WordTable(seen'[file']) /\ tab'[w] = WordTable(seen'[file'])[w]
  BY <1>1, <1>5, <1>6
<1>12. PostInv'
  BY <1>1, <1>4, <1>6, <1>7, <1>9, <1>10, <1>11 DEF PostInv
<1> QED BY <1>1, <1>4, <1>12

-----------------------------------------------------------------------------
(* The crawl as a whole.                                                   *)
LEMMA InitTree == Init => TreeInv
<1> SUFFICES ASSUME Init PROVE TreeInv
  OBVIOUS
<1>1. /\ pc = "start" /\ exited = "no" /\ opened = {} /\ dirs = <<>> /\ DOMAIN seen = {} /\ DOMAIN name_to_id = {}
      /\ index = [w \in {} |-> [d \in {} |-> <<>>]]
  BY DEF Init, DocTable_Allocate, MemIndexInit, CrawlInit
<1>2. Len(dirs) = 0
  BY <1>1
<1>3. WalkInv
  BY <1>1, <1>2 DEF WalkInv
<1>4. SeenInv
  BY <1>1 DEF SeenInv, Working, Searching
<1>5. DocumentsInv
  BY <1>1 DEF DocumentsInv, Indexable
<1>6. PostInv
  <2>1. DOMAIN index = {} /\ index = [w \in DOMAIN index |-> [d \in DOMAIN index[w] |-> index[w][d]]]
    BY <1>1
  <2> QED BY <1>1, <2>1 DEF PostInv
<1> QED BY <1>1, <1>3, <1>4, <1>5, <1>6 DEF TreeInv, ParseInv

LEMMA CrawlTree == IInv /\ TreeInv /\ Crawl => TreeInv'
<1> SUFFICES ASSUME IInv, TreeInv, Crawl PROVE TreeInv'
  OBVIOUS
<1>1. WalkInv /\ SeenInv /\ ParseInv /\ DocumentsInv /\ PostInv
  BY DEF TreeInv
<1>2. ASSUME WalkInv', SeenInv', UNCHANGED <<index, docTableVars, seen, file>>, exited' # "posting",
             pc \notin {"parsing", "posting"}, pc' \notin {"parsing", "posting"}
      PROVE  TreeInv'
  <2>1. DocumentsInv'
    BY <1>1, <1>2, IndexableSame DEF DocumentsInv, docTableVars
  <2>2. PostInv'
    BY <1>1, <1>2, PostFrame DEF docTableVars
  <2> QED BY <1>2, <2>1, <2>2 DEF TreeInv, ParseInv
<1>3. CASE CrawlFileTree \/ Subdirectory \/ EndOfDirectory
  <2>1. UNCHANGED <<index, docTableVars, seen, file, exited>> /\ pc \in {"start", "entry"} /\ pc' \in {"failed", "entry", "prompt"}
    BY <1>3 DEF CrawlFileTree, Subdirectory, EndOfDirectory, AtEntry, At, NextEntry, parserVars
  <2>2. exited' # "posting"
    BY <1>1, <2>1 DEF PostInv
  <2> QED BY <1>1, <1>2, <1>3, <2>1, <2>2, OpenWalks
<1>4. CASE HandleFile \/ ReadFileToString \/ ReadFails
  <2>1. /\ UNCHANGED <<index, id_to_name, name_to_id, docTableVars, seen>>
        /\ pc \in {"entry", "reading"} /\ pc' \in {"entry", "reading", "read"}
        /\ exited' \in {exited, "unreadable"}
    BY <1>4 DEF HandleFile, ReadFileToString, Read, ReadAll, ReadFails, AtEntry, At, Exit, crawlVars, docTableVars
  <2>2. exited' # "posting"
    BY <1>1, <2>1 DEF PostInv
  <2>3. DocumentsInv'
    BY <1>1, <2>1, IndexableSame DEF DocumentsInv
  <2>4. PostInv'
    BY <1>1, <2>1, <2>2, PostFrame
  <2> QED BY <1>1, <1>4, <2>1, <2>3, <2>4, ReadingWalks DEF TreeInv, ParseInv
<1>5. CASE ParseIntoWordPositionsTable
  <2>1. DocumentsInv' /\ file' = file /\ \A f \in DOMAIN seen : seen'[f] = seen[f]
    BY <1>1, <1>5, TextDocuments
  <2>2. /\ UNCHANGED <<index, id_to_name, name_to_id>> /\ pc = "read" /\ pc' \in {"read", "entry", "parsing"}
        /\ exited' \in {exited, "empty"}
    BY <1>5 DEF ParseIntoWordPositionsTable, At, Exit, NextEntry, docTableVars
  <2>3. exited' # "posting"
    BY <1>1, <2>2 DEF PostInv
  <2>4. PostInv'
    BY <1>1, <2>1, <2>2, <2>3, PostFrame
  <2>5. ParseInv'
    <3>1. CASE pc' = "parsing"
      <4>1. StartParsing /\ ~Rejected(buf) /\ seen' = Inserted(seen, file, buf)
        BY <1>5, <2>2, <3>1 DEF ParseIntoWordPositionsTable, Exit, NextEntry
      <4> QED BY <2>2, <4>1, ParseStarts
    <3>2. CASE pc' # "parsing"
      BY <3>2 DEF ParseInv
    <3> QED BY <3>1, <3>2
  <2> QED BY <1>1, <1>5, <2>1, <2>4, <2>5, TextWalks DEF TreeInv
<1>6. CASE InsertContent
  <2>1. UNCHANGED <<index, id_to_name, name_to_id, docTableVars, seen, file, exited>> /\ pc = "parsing" /\ pc' = pc
    BY <1>6 DEF InsertContent, InsertLetter, InsertBoundary, At, crawlVars, docTableVars
  <2>2. exited' # "posting"
    BY <1>1, <2>1 DEF PostInv
  <2>3. DocumentsInv'
    BY <1>1, <2>1, IndexableSame DEF DocumentsInv
  <2>4. PostInv'
    BY <1>1, <2>1, <2>2, PostFrame
  <2>5. ParseInv'
    BY <1>1, <1>6, ParseGoesOn
  <2> QED BY <1>1, <1>6, <2>3, <2>4, <2>5, FileWalks DEF TreeInv
<1>7. CASE FileParsed
  <2>1. DocumentsInv' /\ pc' # "parsing"
    BY <1>1, <1>7, ParsedDocuments
  <2>2. PostInv'
    BY <1>1, <1>7, ParsedPosts
  <2> QED BY <1>1, <1>7, <2>1, <2>2, FileWalks DEF TreeInv, ParseInv
<1>8. CASE PostWord
  <2>1. PostInv' /\ UNCHANGED <<pc, seen, file, docTableVars>> /\ pc = "posting"
    BY <1>1, <1>8, PostWordPosts DEF PostWord, At
  <2>2. DocumentsInv'
    BY <1>1, <2>1, IndexableSame DEF DocumentsInv, docTableVars
  <2> QED BY <1>1, <1>8, <2>1, <2>2, FileWalks DEF TreeInv, ParseInv
<1>9. CASE FilePosted
  <2>1. /\ UNCHANGED <<index, id_to_name, name_to_id, seen, file, exited>> /\ pc = "posting" /\ pc' = "entry"
        /\ tab = EmptyTable
    BY <1>9 DEF FilePosted, At, NextEntry, docTableVars, parserVars
  <2>2. exited' # "posting"
    BY <1>1, <2>1 DEF PostInv
  <2>3. DocumentsInv'
    BY <1>1, <2>1, IndexableSame DEF DocumentsInv
  <2>4. PostInv'
    BY <1>1, <2>1, <2>2, PostFrame
  <2> QED BY <1>1, <1>9, <2>1, <2>3, <2>4, FileWalks DEF TreeInv, ParseInv
<1> QED BY <1>3, <1>4, <1>5, <1>6, <1>7, <1>8, <1>9 DEF Crawl

LEMMA StepTree == IInv /\ TreeInv /\ [Next]_vars => TreeInv'
<1> SUFFICES ASSUME IInv, TreeInv, [Next]_vars PROVE TreeInv'
  OBVIOUS
<1>1. WalkInv /\ SeenInv /\ ParseInv /\ DocumentsInv /\ PostInv
  BY DEF TreeInv
<1>2. CASE Crawl
  BY <1>2, CrawlTree
<1>3. CASE Search \/ EndOfInput \/ \E q \in Queries : ReadQuery(q)
  <2>1. UNCHANGED <<Indexed, exited>> /\ pc \in Searching /\ pc' \in Searching
    <3>1. CASE Search
      BY <3>1 DEF Search, SearchFirst, SearchNext, Pass, EndOfPass, ShowResults, At, Return, Searching
    <3>2. CASE EndOfInput \/ \E q \in Queries : ReadQuery(q)
      BY <3>2 DEF EndOfInput, ReadQuery, At, Searching
    <3> QED BY <1>3, <3>1, <3>2
  <2>2. UNCHANGED <<index, id_to_name, name_to_id, seen, file>> /\ exited' # "posting"
    BY <1>1, <2>1 DEF Indexed, docTableVars, crawlVars, parserVars, PostInv
  <2>3. pc \notin {"parsing", "posting"} /\ pc' \notin {"parsing", "posting"}
    BY <2>1 DEF Searching
  <2>4. WalkInv' /\ SeenInv'
    BY <1>1, <2>1, QueryWalks
  <2>5. DocumentsInv'
    BY <1>1, <2>2, <2>3, IndexableSame DEF DocumentsInv
  <2>6. PostInv'
    BY <1>1, <2>2, <2>3, PostFrame
  <2> QED BY <2>3, <2>4, <2>5, <2>6 DEF TreeInv, ParseInv
<1>4. CASE UNCHANGED vars
  <2>1. /\ UNCHANGED <<pc, exited, file, buf, cur_ptr, word_start, tab, id_to_name, name_to_id, index>>
        /\ UNCHANGED <<tree, dirs, doc_id, seen, opened>>
    BY <1>4 DEF vars, parserVars, docTableVars, crawlVars
  <2>2. WalkInv'
    <3>1. Handled' = Handled
      BY <2>1 DEF Handled
    <3> QED BY <1>1, <2>1, <3>1, WalkFrame
  <2>3. SeenInv'
    <3>1. \A f : Awaits(f)' = Awaits(f)
      BY <2>1 DEF Awaits
    <3>2. Entry' = Entry
      BY <2>1 DEF Entry, Top
    <3> QED BY <1>1, <2>1, <3>1, <3>2 DEF SeenInv
  <2>4. ParseInv'
    <3>1. \A s : ParsesText(s)' = ParsesText(s)
      BY <2>1 DEF ParsesText
    <3> QED BY <1>1, <2>1, <3>1 DEF ParseInv
  <2>5. DocumentsInv'
    BY <1>1, <2>1, IndexableSame DEF DocumentsInv
  <2>6. PostInv'
    <3>1. \A f, w : Posted(f, w)' = Posted(f, w)
      BY <2>1 DEF Posted
    <3> QED BY <1>1, <2>1, <3>1 DEF PostInv
  <2> QED BY <2>2, <2>3, <2>4, <2>5, <2>6 DEF TreeInv
<1> QED BY <1>2, <1>3, <1>4 DEF Next, Stopped

LEMMA IndexOfTree ==
  ASSUME IInv, DocumentsInv, PostInv, pc = "prompt"
  PROVE  index = IndexOfSeen
<1> DEFINE W == UNION {DOMAIN WordTable(seen[f]) : f \in Indexable}
           D(w) == {name_to_id[f] : f \in HoldsWord(w)}
<1>1. DOMAIN name_to_id = Indexable
  BY DEF DocumentsInv
<1>2. \A f, w : Posted(f, w) <=> w \in DOMAIN WordTable(seen[f])
  BY DEF Posted
<1>3. ASSUME NEW f \in Indexable, NEW w \in DOMAIN WordTable(seen[f])
      PROVE  w \in DOMAIN index /\ name_to_id[f] \in DOMAIN index[w] /\ index[w][name_to_id[f]] = WordTable(seen[f])[w]
  BY <1>1, <1>2 DEF PostInv
<1>4. ASSUME NEW w \in DOMAIN index, NEW d \in DOMAIN index[w]
      PROVE  id_to_name[d] \in Indexable /\ w \in DOMAIN WordTable(seen[id_to_name[d]]) /\ name_to_id[id_to_name[d]] = d
  BY <1>1, <1>2, NamesAreSeen DEF PostInv
<1>5. DOMAIN index = W
  <2>1. ASSUME NEW w \in DOMAIN index PROVE w \in W
    <3>1. PICK d : d \in DOMAIN index[w]
      BY DEF IInv, IndexInv
    <3> QED BY <1>4, <3>1
  <2> QED BY <1>3, <2>1
<1>6. ASSUME NEW w \in DOMAIN index PROVE DOMAIN index[w] = D(w)
  <2>1. ASSUME NEW d \in DOMAIN index[w] PROVE d \in D(w)
    BY <1>4 DEF HoldsWord
  <2>2. ASSUME NEW f \in HoldsWord(w) PROVE name_to_id[f] \in DOMAIN index[w]
    BY <1>3 DEF HoldsWord
  <2> QED BY <2>1, <2>2
<1>7. ASSUME NEW w \in DOMAIN index PROVE index[w] = [d \in D(w) |-> WordTable(seen[id_to_name[d]])[w]]
  <2>1. ASSUME NEW d \in DOMAIN index[w] PROVE index[w][d] = WordTable(seen[id_to_name[d]])[w]
    BY <1>3, <1>4
  <2>2. index[w] = [d \in DOMAIN index[w] |-> index[w][d]]
    BY DEF PostInv
  <2> HIDE DEF D
  <2> QED BY <1>6, <2>1, <2>2
<1>8. index = [w \in DOMAIN index |-> index[w]]
  BY DEF PostInv
<1>9. IndexOfSeen = [w \in W |-> [d \in D(w) |-> WordTable(seen[id_to_name[d]])[w]]]
  BY Zenon DEF IndexOfSeen
<1> HIDE DEF W, D
<1> QED BY <1>5, <1>7, <1>8, <1>9

LEMMA TreeIsIndexed == IInv /\ TreeInv => IndexIsTheTree
<1> SUFFICES ASSUME IInv, TreeInv PROVE IndexIsTheTree
  OBVIOUS
<1>1. WalkInv /\ SeenInv /\ ParseInv /\ DocumentsInv /\ PostInv
  BY DEF TreeInv
<1>2. exited # "posting"
  BY <1>1 DEF PostInv
<1>3. ASSUME pc = "prompt"
      PROVE  /\ DOMAIN name_to_id = Indexable
             /\ \A f, g \in Indexable : f < g => name_to_id[f] < name_to_id[g]
             /\ index = IndexOfSeen
             /\ DOMAIN seen \subseteq Listed \cap Files
             /\ NothingCut => DOMAIN seen = Listed \cap Files
             /\ \A f \in DOMAIN seen : seen[f] = SubSeq(Bytes[f], 1, Len(seen[f]))
  <2>1. DOMAIN name_to_id = Indexable /\ \A f, g \in Indexable : f < g => name_to_id[f] < name_to_id[g]
    BY <1>1, <1>3 DEF DocumentsInv
  <2>2. index = IndexOfSeen
    BY <1>1, <1>3, IndexOfTree
  <2>3. DOMAIN seen \subseteq Listed \cap Files
    BY <1>1 DEF SeenInv, Listed
  <2>4. ASSUME NothingCut PROVE Listed \cap Files \subseteq DOMAIN seen
    <3>1. dirs = <<>> /\ Len(dirs) = 0
      BY <1>1, <1>3 DEF SeenInv, Searching
    <3>2. \A f : ~ Awaits(f)
      BY <3>1 DEF Awaits
    <3> QED BY <1>1, <2>4, <3>2 DEF SeenInv, NothingCut, Listed
  <2>5. \A f \in DOMAIN seen : seen[f] = SubSeq(Bytes[f], 1, Len(seen[f]))
    BY <1>1 DEF SeenInv
  <2> QED BY <2>1, <2>2, <2>3, <2>4, <2>5
<1> QED BY <1>2, <1>3, Zenon DEF IndexIsTheTree

(* When the crawl has returned, the document table and the inverted index  *)
(* hold the words of the files it came to, with the offsets in what was    *)
(* read of each, for every tree, all texts and every order of readdir; and *)
(* it never posts a document to a word twice.                              *)
THEOREM CrawlIsTheTree == Spec => []IndexIsTheTree
<1>1. Spec => []TreeInv
  BY Invariance, InitTree, StepTree, PTL DEF Spec
<1> QED BY <1>1, Invariance, TreeIsIndexed, PTL
=============================================================================
