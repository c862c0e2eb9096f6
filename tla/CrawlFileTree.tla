--------------------------- MODULE CrawlFileTree ---------------------------
(***************************************************************************)
(* hw2/CrawlFileTree.c: the walk over a directory tree that fills the      *)
(* document table and the inverted index.  A path is a number, and the     *)
(* paths in a directory compare as their numbers do.  What is neither a    *)
(* file nor a directory is a special file, or one that stat fails on.      *)
(***************************************************************************)
EXTENDS FileParser, DocTable, MemIndex

CONSTANTS Trees,  \* the trees: the entries of each directory
          Root,
          MAX_NUM_DIR_ENTRIES

ASSUME TreesAssumption ==
  /\ Files \subseteq Nat
  /\ \A t \in Trees : Root \in DOMAIN t /\ DOMAIN t \cap Files = {}
  /\ \A t \in Trees : \A d \in DOMAIN t : IsFiniteSet(t[d]) /\ t[d] \subseteq Nat
(* The numbers are given in the order of the walk: a directory's entries,  *)
(* and all that is below them, come after it and before what follows it.   *)
ASSUME WalkAssumption ==
  \A t \in Trees : \A x, y \in DOMAIN t : \A e \in t[x] :
    x \in Nat /\ x < e /\ (x < y /\ y < e => \A g \in t[y] : g < e)
ASSUME EntriesAssumption == MAX_NUM_DIR_ENTRIES \in Nat

VARIABLES
  tree,     \* the tree that is crawled
  dirs,     \* the calls of HandleDir that are open, each with its entries
  doc_id,   \* HandleFile's document
  seen,     \* history: the text that was parsed of each file
  opened    \* history: the directories that HandleDir was called for

crawlVars == <<tree, dirs, doc_id, seen, opened>>

CrawlInit ==
  /\ tree \in Trees /\ dirs = <<>> /\ doc_id = INVALID_DOCID
  /\ seen = [f \in {} |-> <<>>] /\ opened = {}

-----------------------------------------------------------------------------
(* The first pass of HandleDir reads the entries, in any order and no more *)
(* than the limit, and sorts them.  A special file is counted before it is *)
(* skipped, with an is_dir that nothing has set.                           *)
IsDir(e) == IF e \in DOMAIN tree THEN {TRUE} ELSE IF e \in Files THEN {FALSE} ELSE BOOLEAN

Kept(d) == IF Cardinality(tree[d]) <= MAX_NUM_DIR_ENTRIES THEN {tree[d]} ELSE kSubset(MAX_NUM_DIR_ENTRIES, tree[d])

InOrder(paths) == Ascending(paths)

HandleDir(d) ==
  /\ \E kept \in Kept(d) : \E is_dir \in [kept -> BOOLEAN] :
       /\ \A e \in kept : is_dir[e] \in IsDir(e)
       /\ dirs' = Append(dirs, [path_name |-> InOrder(kept), is_dir |-> is_dir, i |-> 1])
  /\ opened' = opened \cup {d}

CrawlFileTree ==
  /\ At("start")
  /\ \/ pc' = "failed" /\ UNCHANGED <<dirs, opened>>
     \/ pc' = "entry" /\ HandleDir(Root)
  /\ UNCHANGED <<exited, parserVars, docTableVars, index, searchVars, tree, doc_id, seen>>

-----------------------------------------------------------------------------
(* The second pass.                                                        *)
Top == dirs[Len(dirs)]
Entry == Top.path_name[Top.i]
AtEntry == At("entry") /\ Top.i <= Len(Top.path_name)

FaultyAdvanced(stack) == stack
Advanced(stack) == [stack EXCEPT ![Len(stack)].i = @ + 1]
NextEntry == pc' = "entry" /\ dirs' = Advanced(dirs) /\ UNCHANGED exited

Subdirectory ==
  /\ AtEntry /\ Top.is_dir[Entry]
  /\ \/ Entry \in DOMAIN tree /\ HandleDir(Entry) /\ UNCHANGED <<pc, exited>>
     \/ NextEntry /\ UNCHANGED opened
  /\ UNCHANGED <<parserVars, docTableVars, index, searchVars, tree, doc_id, seen>>

EndOfDirectory ==
  /\ At("entry") /\ Top.i > Len(Top.path_name)
  /\ IF Len(dirs) = 1
     THEN dirs' = <<>> /\ pc' = "prompt"
     ELSE dirs' = Advanced(Front(dirs)) /\ UNCHANGED pc
  /\ UNCHANGED <<exited, parserVars, docTableVars, index, searchVars, tree, doc_id, seen, opened>>

-----------------------------------------------------------------------------
(* HandleFile.  The process ends when there is no buffer or no byte in it. *)
HandleFile ==
  /\ AtEntry /\ ~Top.is_dir[Entry]
  /\ \/ /\ Entry \in Files
        /\ StartReading(Entry) /\ pc' = "reading" /\ UNCHANGED exited
     \/ Exit("unreadable") /\ UNCHANGED parserVars
  /\ UNCHANGED <<docTableVars, index, searchVars, crawlVars>>

ReadFails ==
  /\ At("reading") /\ left_to_read > 0 /\ Exit("unreadable")
  /\ UNCHANGED <<parserVars, docTableVars, index, searchVars, crawlVars>>

ReadFileToString ==
  /\ Read \/ ReadAll
  /\ UNCHANGED <<docTableVars, index, searchVars, crawlVars>>

ParseIntoWordPositionsTable ==
  /\ At("read")
  /\ \/ /\ buf = <<>> /\ Exit("empty")
        /\ UNCHANGED <<parserVars, dirs, seen>>
     \/ /\ buf # <<>> /\ Rejected(buf) /\ NextEntry
        /\ seen' = Inserted(seen, file, buf)
        /\ FreeText /\ UNCHANGED tab
     \/ /\ buf # <<>> /\ ~Rejected(buf) /\ StartParsing
        /\ seen' = Inserted(seen, file, buf)
        /\ pc' = "parsing" /\ UNCHANGED <<exited, dirs>>
  /\ UNCHANGED <<docTableVars, index, searchVars, tree, doc_id, opened>>

InsertContent ==
  /\ InsertLetter \/ InsertBoundary
  /\ UNCHANGED <<docTableVars, index, searchVars, crawlVars>>

FileParsed ==
  /\ Parsed /\ FreeText /\ UNCHANGED tab
  /\ IF tab = EmptyTable
     THEN NextEntry /\ UNCHANGED <<docTableVars, doc_id>>
     ELSE /\ DocTable_Add(file) /\ doc_id' = AddedId(file)
          /\ pc' = "posting" /\ UNCHANGED <<exited, dirs>>
  /\ UNCHANGED <<index, searchVars, tree, seen, opened>>

(* The table is emptied into the index, in the order of its buckets.       *)
PostWord ==
  /\ At("posting")
  /\ \E word \in DOMAIN tab :
       \/ /\ PostingIsNew(word, doc_id)
          /\ MemIndex_AddPostingList(word, doc_id, tab[word])
          /\ tab' = [w \in DOMAIN tab \ {word} |-> tab[w]]
          /\ UNCHANGED <<pc, exited>>
       \/ ~PostingIsNew(word, doc_id) /\ Exit("posting") /\ UNCHANGED <<index, tab>>
  /\ UNCHANGED <<file, buf, left_to_read, cur_ptr, word_start, docTableVars, searchVars, crawlVars>>

FilePosted ==
  /\ At("posting") /\ tab = EmptyTable /\ NextEntry
  /\ UNCHANGED <<parserVars, docTableVars, index, searchVars, tree, doc_id, seen, opened>>

Crawl ==
  \/ CrawlFileTree \/ Subdirectory \/ EndOfDirectory \/ HandleFile
  \/ ReadFileToString \/ ReadFails \/ ParseIntoWordPositionsTable \/ InsertContent
  \/ FileParsed \/ PostWord \/ FilePosted
=============================================================================
