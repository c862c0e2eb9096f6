# A verification project for the CSE 333 code

The repository holds the code of a systems programming course: a C library of
containers (hw1), an in-memory search engine over a directory tree (hw2), an
on-disk index and its query processor (hw3), a multithreaded web server over
that index (hw4), and small exercises. hw2 links hw1, hw3 links both, hw4 links
all three. This directory holds TLA+ models of its parts, the TLC
configurations that check them, and machine-checked proofs about ten of them.

    tlc -config RoFile.cfg MCRoFile      model-check one instance
    tlapm FileProofs.tla                 check the proofs of one module

## 1. Inventory

| component | state | operations | who calls it |
|---|---|---|---|
| hw1 `LinkedList.c` | doubly linked nodes, count | Push, Pop, Append, Slice, Sort, iterator Next/Get/Remove/Rewind | hash table, MemIndex, file parser |
| hw1 `HashTable.c` | bucket array of lists, count | Insert (with resize), Find, Remove, iterator | DocTable, MemIndex, FileParser |
| hw2 `DocTable.c` | two hash tables, next id | Add, GetDocID, GetDocName | crawler, index writer |
| hw2 `MemIndex.c` | word -> (doc -> positions) | AddPostingList, Search | crawler, searchshell, index writer |
| hw2 `FileParser.c` | none between calls | ReadFileToString, ParseIntoWordPositionsTable | crawler |
| hw2 `CrawlFileTree.c` | recursion over the tree | HandleDir, HandleFile | searchshell, buildfileindex |
| hw3 `WriteIndex.cc` | the file being written | WriteIndex and its writers | buildfileindex |
| hw3 readers, `QueryProcessor.cc` | open `FILE*`s on index files | LookupDocID, LookupWord, ProcessQuery | filesearchshell, HttpServer |
| hw4 `ThreadPool.cc` | queue, mutex, condition variable, flag, count | constructor, Dispatch, destructor, worker loop | HttpServer |
| hw4 `HttpServer.cc`, `HttpConnection.cc`, `ServerSocket.cc` | descriptors, read buffer | Run, ThrFn, GetNextRequest, WriteResponse, Accept | http333d |
| exercises/ex4 `ro_file.c` | buffer, file position | ro_open, ro_read, ro_seek, ro_tell, ro_close | its driver |

What is hard in them, and what makes them correct:

- **Thread pool.** Workers, a dispatcher and a destructor share one mutex and
  one condition variable. A worker waits without testing the queue first, one
  counter serves both the constructor and the destructor, and the destructor
  itself executes what is left. Correct: no task is lost or run twice, no
  wakeup is lost, constructor and destructor return.
- **Web server.** Descriptor numbers are stored, closed and used again by
  several threads while `accept` reuses them. Correct: a thread serves its own
  client, no request is answered twice, every connection is closed, `Run`
  returns.
- **Linked list, hash table.** Corner cases of empty, one and many elements,
  in-place sorting, removal under an iterator, a resize inside an insertion.
  Correct: they are sequences and maps, and nothing points to freed memory.
- **Buffered reader.** Short and failing reads, and a logical position that is
  not the kernel's. Correct: the buffer cannot be noticed.
- **Index writer.** Three layers (stdio, kernel, disk) each with an order of
  its own, errors at every write, crashes. Correct: the magic number vouches
  for the body; success is durable; failure leaves nothing.
- **Query processor.** Every reader has a descriptor, the descriptors are the
  whole process's, and loops end in several ways. Correct: the result is the
  conjunction of the words; all readers are closed.
- **hw2.** A tree that changes or holds unusual entries while it is crawled;
  two tables that must be inverses; a text that ends inside a word.

The hazards are listed one by one, at their lines, in `PROJECT.json`.

## 2. Modules

Each component has a module with its state and one action per call, or per step
where other threads, the kernel or a crash can come in between; an `MC` module
and a `.cfg` with an instance; and, where something is proved, a `Proofs` module.

| module | models | abstract specification | proofs |
|---|---|---|---|
| `ThreadPool` | `ThreadPool.cc` | `TaskPool` | `ThreadPoolProofs` |
| `HttpServer` | `HttpServer.cc`, `HttpConnection.cc`, `ServerSocket.cc` | uses `TaskPool` | `HttpServerProofs` |
| `LinkedList` | `LinkedList.c` | `PayloadList` | `LinkedListProofs` |
| `HashTable` | `HashTable.c` | `KeyMap` | `HashTableProofs` |
| `RoFile` | `ro_file.c` | `ReadFile` | `FileProofs` |
| `WriteIndex` | `WriteIndex.cc` and `FileIndexReader`'s acceptance test | | `FileProofs` |
| `QueryProcessor` | `QueryProcessor.cc` and the life of the readers | | `QueryProcessorProofs` |
| `FileParser`, `DocTable`, `MemIndex` | the files of these names in hw2 | | |
| `CrawlFileTree` | `CrawlFileTree.c`, composed of the three above | | |
| `SearchShell` | `searchshell.c`, the program: a crawl, then queries | | `SearchShellProofs` |
| `IndexFile` | the layout that `WriteIndex.cc` gives an index file | | `FileProofs` |
| `IndexReaders` | the five readers of hw3, on what `IndexFile` has written | | `FileProofs` |

Three things hold these together. `HttpServer` is composed of the server and of `TaskPool`, the specification
`ThreadPool` is shown to implement; so the server is checked against what the
pool promises and not against its insides. hw2's modules share the program
counter of one sequential program and extend each other as the code calls down:
`SearchShell` extends `CrawlFileTree`, which extends the parser and the two
tables. And hw3 appears in three cuts that meet in the file: `IndexFile` has
which bytes go where, `WriteIndex` what a crash or an error leaves of them, and
`QueryProcessor` what several clients do with the readers that `IndexReaders`
shows to be right. Where hw2 and hw3 use hw1's containers, the modules take them
as `KeyMap` and `PayloadList` describe them, with an Append that keeps its node.

Operators called `Faulty...` are not part of any model. Each is a plausible
mistake in the definition that follows it, and `PROJECT.json` (under "mutants")
says which property notices it.

### ThreadPool

`q_lock`, `work_queue`, `terminate`, `running` are `q_lock_`, `work_queue_`,
`terminate_threads_`, `num_threads_running_`; `pc[w]` and `owner` are program
counters of the workers and of the thread that owns the pool. An action is what
happens between two lock operations, or a lock operation; `Sleep` is
`pthread_cond_wait` up to and including its release of the lock. A signal wakes
any one sleeper, sleepers also wake by themselves. `nextTask`, `dispatched`,
`started`, `finished` say what became of the tasks. One thread constructs,
dispatches and deletes, as `HttpServer::Run` and the test do. `pthread_create`
succeeds, as the code assumes (it Verifies it).

### HttpServer

The descriptor table `fds` maps numbers to the listener, a connection or a file
that is being served; `accept` and `open` take the lowest free number. `client_fd` is the number kept in an
`HttpServerTask`. `ThrFn` is cut where another thread can interfere: the call of
`read` (which binds the connection the number means at that moment), its return
or failure, the opening and the reading of a file, the write and the destruction
of the `HttpConnection` with its `close`. `inbox` is what the kernel has received, `buffer_` the connection's
buffer. A client sends its requests in parts, of which the last has the end of
the header, so that a `read` can bring half a request or one and a half, and a
request can be put together from several reads, or from the parts of two
clients. Clients connect, send and hang up at any time; `BindAndListen`, `accept`
and the name lookup may fail. A part is its sender, a number and whether the
header ends in it; `Closing` are the clients that ask for the connection to be
closed. A file's number can be closed by another thread before it is read. That it
then is a connection's takes three clients, one more than the instance has: the
model says what happens, the run does not get there. The descriptors of a query
are not in this table but in `QueryProcessor`.

### LinkedList, HashTable

Nodes are cells with `prev`, `next` and `payload`; `allocated` and `freed` tell
what `malloc` and `free` did, and the history variable `nodes` which cells make
up the list. `LinkedList_Sort` is a step per comparison, everything else a step
per call. The iterator is a node, or past the end.

`LinkedList_Append` frees the node it has just linked. The module models it as
it is, with a cell the allocator has written into and may hand out again, and
keeps it out of `Spec`: after it nothing said of the list could hold.
`AppendSpec` has it.

`HashTable` keeps a sequence of pairs per bucket, which is what a list would be
if Append kept its node, and one iterator; a resize is part of the insertion
that causes it.

### RoFile

`fd_pos` is the kernel's offset; `buf`, `buf_pos`, `buf_index`, `buf_end` are
the `RO_FILE`. `ro_read` is a loop of steps, one per `read` call, each of which
may bring fewer bytes or fail; the other operations are single steps. `ReadFile`
says of SEEK_CUR what is true of it: it moves from a place up to `Ahead` bytes
beyond the caller's, and `Ahead` is the length of the buffer (see 5). `out`,
`asked`, `from` remember the last read for the properties.

### WriteIndex

The file is a header and `NumBlocks` body blocks. A block can be in the
`FILE`'s buffer (`stdio`), in the kernel (`cache`, `dirty` while not written
back) or on the `disk`. The writer writes body, reads it back for the checksum,
writes the header, calls fsync and fclose. The kernel writes back in any order
and can fail; the process can be killed and the machine can stop at any step.
`Accepts` is the constructor of `FileIndexReader`, with and without checksum.

### QueryProcessor

`files[i]` is what index file `i` holds: for each word its documents and
counts, in bucket order. Each client has the locals of `ProcessQuery`; the
clients share only `fds`, the number of descriptors open for readers. Every
`LookupWord` is a step, with `GetDocIDList` and `MergeResult` on what it found.
`exited` records that a `Verify333` ended the process. `std::sort` may leave
hits of equal rank in any order.

### SearchShell and its parts

One sequential program, cut where its environment answers or where a loop goes
round: `pc` is the loop it is in, `exited` the check that ended it.

`CrawlFileTree`: `dirs` is the stack of `HandleDir` calls, each with the sorted
entries it kept, their `is_dir` and its `i`. A path is a number, given in the order of
the walk (`WalkAssumption`), so that the paths in a directory compare as their
numbers; no others are compared. `readdir` may give the entries in any order, which matters
once there are more than `MAX_NUM_DIR_ENTRIES`; `opendir` may fail; and for an
entry that is neither a file nor a directory, `is_dir` has whatever value the
memory had. `seen` and `opened` remember what was parsed and entered.

`FileParser`: a text is a sequence of characters of five sorts: lowercase and
uppercase letters, a boundary, a byte above 0x7F, and NUL. `Read` may bring
any number of bytes, or none when the file was truncated, or fail. `InsertContent`
takes a step per character with `cur_ptr` and `word_start`, lowers letters in
place and writes the terminators of words over the text. `WordTable` is the
independent definition of what should come out: the maximal runs of letters
that a boundary follows.

`DocTable` is the two maps and `max_id`; `MemIndex` the index as a map of maps, and
the search with its list, iterator and loop counter: `LLIterator_Remove` in the
middle of the walk moves the iterator forward, and at the tail backward.

### IndexFile, IndexReaders

`file` maps offsets to records (a struct or a run of bytes with its size);
`phase` is what `WriteIndex` does next; `stack` holds the open calls of `WriteHashTable`, one or two deep, with the
locals of it and of its bucket writer. An action writes one bucket record, one
element with its position record, or finishes a word whose header is written after
its postings. Lengths pass through `Int16`, as they do in the code. Any write may
fail, after which the file is gone.

`IndexReaders` are operators on the file: `LookupElementPositions` and the
lookups of each reader, which read what is at an offset and nothing else.

## 3. Runs

| run | instance | shows |
|---|---|---|
| `threadpool` | 3 workers, 3 tasks | six invariants, that a wakeup goes with a task, that the constructor and the destructor return, and that it implements `TaskPool` with its fairness |
| `httpserver` | 2 clients (2 parts and 1 of requests), 2 workers, 3 descriptors | no part of a request is answered twice, the listener survives, every connection is closed, `Run` returns |
| `httpserver_servesitsownclient` | the same | **violated**: a thread serves another client |
| `linkedlist` | 4 nodes, 4 payloads, 2 of them equal | every call but Append: the chains are consistent, no node is leaked or freed while linked, it implements `PayloadList`, sorting ends |
| `linkedlist_append` | 3 payloads | **violated**: Append frees the node it linked |
| `hashtable` | 4 colliding keys, 1 bucket growing to 9 | items are in their buckets, the iterator stays inside, it implements `KeyMap` |
| `rofile` | 5 bytes, buffer of 2 | the buffer mirrors the file, it implements `ReadFile` with all three kinds of seek; every read returns |
| `writeindex` | 4 blocks, all errors | the header vouches for the body, a failure leaves no index, a success has its body on disk |
| `writeindex_durable` | no errors | **violated**: success without a durable header |
| `queryprocessor` | 2 clients, 2 files, 3 words, 2 documents, 3 queries, 13 descriptors | results are the conjunction, every descriptor is held by a reader in use or by one that was leaked |
| `searchshell` | 4 trees over 7 files, at most 3 entries a directory, 7 queries, 2 of them asked | the tables are inverses, the index is that of the tree, the search is the conjunction, the shell comes back |
| `indexreaders` | 3 document tables, 64 indexes | records tile the file, the readers find exactly the tables |

Why the bounds are enough:

- *threadpool*: with three workers one can sleep, one can be between two tasks
  and one running while a task is queued; three tasks fill the queue behind
  busy workers and leave some for the destructor. The proofs need no bound.
- *httpserver*: two clients and two workers are what a mix-up of descriptors
  takes: one thread holds a stale number and one connection reuses it. The
  table of three makes reuse, and running out, unavoidable. One client sends
  two requests so that both may arrive in one `read`.
- *linkedlist*: four nodes give a head, a tail, and two inner nodes to be
  swapped or removed; two equal payloads tell whether sorting is stable.
- *hashtable*: keys 0, 1, 9, 18 collide all in one bucket, and 0, 9, 18 in nine;
  the fourth insertion crosses the threshold.
- *rofile*: the file is neither a multiple of the buffer nor shorter than it,
  lengths go from nothing to twice the buffer, positions beyond the end.
- *writeindex*: four blocks allow every order of writing back and failure at the
  first, an inner and the last block; the proofs need no bound.
- *queryprocessor*: the two contents have words that share all, some or no
  documents and a word that is missing; 13 descriptors are one more than two
  clients hold at most, so that the leak is what exhausts them.
- *searchshell*: one tree is nested and has an empty directory between files, one
  has special files, one more entries than are kept, one an empty file. The
  texts begin and end inside and outside words, repeat a word in another case,
  hold a byte above 0x7F, a NUL in the middle, and nothing. The queries are
  empty, repeat a word, name a word of no file, and drop documents at
  the head, in the middle and at the tail of the list.
- *indexreaders*: tables of one to four buckets, chains of none to three
  elements; words of equal hash and different length, of equal length and hash,
  and words and names of the greatest length an `int16_t` holds. A table inside a table, which is
  what the layout has to get right, needs no more than this.

In all runs that stop where the program does, a stuttering step says so, so
deadlock is checked; `QueryProcessor` has CHECK_DEADLOCK FALSE, since its process may
exit at any step and its queries are bounded. Bounds by name: `MaxQueries` in `QueryProcessor` and
`SearchShell`, `MaxPos` in `RoFile`, `MaxParts` and `MaxFd` in `HttpServer`.

### Fairness

- `ThreadPool`: weak fairness for every thread's steps and strong fairness for
  taking the mutex, since a thread that waits for a lock that is freed again and
  again gets it in the end with the mutexes of the platform in practice; the code
  itself has no queue for the lock. Task functions return. Nothing forces a
  spurious wakeup, a `Dispatch` or a `delete`.
- `HttpServer`: threads run, and clients hang up in the end. The latter is an
  assumption about the environment that the code needs: `read` has no timeout,
  and a silent client keeps its thread (a hazard on the list). `accept` need
  not fail.
- `LinkedList`, `RoFile`: a call in progress goes on.
- `SearchShell`: the program takes its next step; a `read` is not interrupted
  for ever. Nothing forces a query to be typed.
- The others state no liveness.

## 4. Proofs

**ThreadPoolProofs** proves, for any number of workers and any set of tasks,
all six invariants of the run, the action property and the refinement of
`TaskPool` (without its fairness). The invariants of the run are not inductive
by themselves. The strengthening is built in layers, each proved with the ones
before it: types; the mutex is held by exactly the thread whose program counter
says so (`LockInv`); `running` counts the workers that have been born and not
died, as a cardinality (`CountInv`), which the born and unborn workers of the
constructor's loop (`BirthInv`), the reaped ones of the destructor's
(`ReapInv`) and who can hold what (`HoldInv`) support. On top of this control
invariant stand the accounting of tasks and the wakeup property, which needs
the number of workers on their way to the queue to grow with a signal and to
shrink only with a task.

**LinkedListProofs** proves, for any number of cells, payloads and any order of
them, both invariants of the run for every sequence of calls but Append. Besides
each other they need only that no iterator is in use during a sort and that a
node of the list holds a payload. Pop, Slice and the four cases of Remove come
down to one lemma, `NodeTakenOut`: a node leaves the chain, its neighbours are
linked past it (`Relinked`), and the two ends move only if it was one of them.
Each case shows that the assignments of its code do just that.

The refinement of `PayloadList` takes a lemma per action. In the abstract list a sort happens
at once, so it is taken to happen at the end of the pass that swaps nothing, and until then the
list is as it was (`Sequence`, `Place`). `SortInv` is the invariant of the bubble sort that this needs: the list
is a `Stage` of the sorting, that is, an arrangement of the original payloads in which
two of them have changed places only if the comparator said so, and what a
pass has walked over without a swap is in order (`OrderedTo`). A swap of neighbours out
of order leads from a stage to a stage (`SwapSorts`); after a pass without a swap the
whole list is in order (`AdjacentOrder` carries that from neighbours to all pairs), and
that it is stable is part of being a stage.

**HashTableProofs** proves, for any keys and any number of buckets, that each item is in
its bucket and the count right, that the iterator never points at a freed node, and the refinement
of `KeyMap`. `Sound` says it of the three together: the chains hold each item where its key belongs
and no key twice (`Hashed`), the count is the number of items, and the iterator is past the end or at a node
of its bucket (`GoodIter`). What the code does to a bucket array is in lemmas about arrays: `Lookup`, `Appended`,
`Replaced`, `TakenOut`, and `Rehashed` for the resize; each says of which set of items the new array is the
table (`TableOf`). Iterating needs more than the set: the items of an array are in a row
(`ItemsInARow`), a removal keeps the others in theirs (`OrderKept`), and a step of the iterator
lands on the next one in it (`AdvancedIs`). The refinement then has a lemma for each call; `MapOf` ties the
items to the map, and the keys an abstract iterator still has to visit are those behind the node.

**FileProofs** is about four modules that read or write files. For every file, every buffer length and every set of
calls of `RoFile` it proves that the buffer is the piece of file in front of the kernel's offset and
that a read delivers the file's bytes. `IInv` adds to those two the types and
`Drained`: in the loop, the buffer has been used up. It is needed because a fill
restarts the buffer at the kernel's offset, which continues what was delivered
only if nothing was left. `FlushLemma` is the fact about sequences on which all
of it rests: what flush_buffer appends continues the file where it stopped. From
the same invariant follows the refinement: every step of the buffered reader
is a step of `ReadFile` or stutters. `Busy`, that a read in progress is of an
open file and a length that was asked for, is all it needs besides.

Of `WriteIndex` it proves the three invariants, for bodies of any length. The
strengthening says that what processes see of the file is on the disk or still
to be written back, unless the kernel owes an error report
(`NothingForgotten`, which is what makes a successful fsync mean something);
how far the body has got at each point of the writer and that no header is
buffered before it is complete (`BodyProgress`); and that a header the kernel
has is one whose body is on the disk (`HeaderFollowsBody`).

Of `IndexFile` it proves, for any tables, that calls stand where they should and
that the records tile the file. The invariant, `LayoutInv`, speaks of more than what is
written: `Holes` are the stretches that are reserved and still to be written (bucket
records, positions of elements, the header and letters of the word whose postings are
being written, the header of the file), and what is written together with the
holes tiles the file up to `End` at every moment (`Tiles`). Then every write is one of
three moves, each a lemma: it fills the beginning of a hole (`FillHole`), it
puts a record at the end (`AddPiece`), or it leaves room there (`AddHole`). `BelowTop` keeps the
two open calls apart: the holes of the outer one end before the inner one begins. In the end there
are no holes.

Of `IndexReaders` it proves `ReadersFindTheTables`, for any tables whose keys are
unique: whatever shares a bucket, a hash or a length, a lookup in a complete file
finds what was written under its key or word, and nothing else. What
`LayoutInv` gives is that no write falls on a record that is there, so that a file
only grows (`Grows`) and what it once holds it keeps. `ContentInv` then says how far
each open call has got (`Progress`): the buckets behind it are laid, of the one it
is at the record and the elements behind it, where an element is laid when its
position record leads to its records; and for a word these are the header, the
letters and, where the reader will look, the whole table of its postings
(`WordAt`). A call that returns has laid its table (`ProgressIsComplete`). The
lookups follow from the table alone (`LookupFinds`): the bucket the reader goes to is
the one in which the table has the key, the first hit is one of the elements
sought, and there is only one.

**HttpServerProofs** proves, for any number of clients, workers, descriptors
and parts of requests, the types, that the listener survives and that no part is
answered twice. `Ledger` adds to the types what the pool's tasks and the phases
of `Run` have to do with each other. `ListenerInv` is why a stale `close` cannot
hit the listening socket: no accepted connection ever had its number, nor has a
file that is being read. `PartsInv` puts every place where a part of a
request can be (the kernel's buffers, the threads' `buffer_` and `req`, the
answers) into one table and says that no part is in it twice; each step only
drops parts, pours them from the front of one place onto the end of another, or adds one that
was never sent before. A `req` counts there only until it is answered, since the
code keeps the object.

**SearchShellProofs** proves, for every tree, every texts and queries, the types
of the whole program, that the two tables of documents are inverses, that
a search finds the conjunction, and that the index is that of the tree. The first two need that `word_start` and `cur_ptr`
hold a word between them, that every open `HandleDir` stands at an
entry, and that the index names only documents that were added. For the third,
`FoundInv` describes the list in the middle of a pass that removes from it: the
results behind the iterator have the first `k` words and the sum of their
occurrences, the others the first `k - 1`, no document with all `k` is missing,
and the loop's count, taken before the pass, says where the iterator is.

For `IndexIsTheTree`, `TreeInv` follows a file through the crawl in five parts. `WalkInv` places every
open `HandleDir`: its entries are those of the directory that the call below it
stands at, in order, and what has been handled comes before what any call has yet to
come to (so no file is handled twice, and each new document comes after all before). `SeenInv` says that
of an opened directory that was not cut short, each file has been parsed or is still
ahead, and that a text is a prefix of the file (`PrefixGrows`, over
reads that come short). `ParseInv` relates the loop of `InsertContent`, which overwrites the text it
reads, to the independent definition: the table has the runs of letters that have ended before
`cur_ptr` (`EndedBefore`), and `word_start` begins the run that is being read; a boundary
adds exactly that run (`RunEnds`), as the last position of its word (`AscendingOfMore`). `DocumentsInv`
has one document for each parsed file with words, in order, and `PostInv`
says which of its words are in the index while its table is emptied into it, which is
also why `AddPostingList` never finds a document there. At the prompt no call is open and no table is left,
and the parts are `IndexIsTheTree`.

**QueryProcessorProofs** proves, for any number of clients and files, all
contents and all queries, both invariants of the run. `Merged` says what `id_list` is after `k`
words and `Gathered` what `final_result` is after `n` files; `MergeMerges`,
`GatheredAppends` and `SortArranges` are the three facts about the algorithm, that
merging, appending and sorting keep these. Its second half counts descriptors:
each step changes what its client holds, and what queries have left, by as much
as it opens and closes (`FdsStep`). The case that takes the argument is a word
without documents in common: the reader is left exactly when `LeavesReader` says so.

**OperatorLemmas** has what these proofs need of the library's operators: `Min`, a set in
ascending order (`SetToSeqs`), and sums over a finite set (`SumFunctionOnSet`),
which the library defines by a recursive fold. The induction theorems of
the library cannot be used here, but a least counterexample can: `LeastNatural` is proved from
well-foundedness of finite sets of numbers, `Induction` from it, and with that the fold exists, is
unique, and splits at any element. `SumSplits`, `SumCongruent` and `SumChanges` are what the
modules cite. About sequences it has what is left without one element (`Without`, for
`Tail`, `Front` and `RemoveAt` alike), and that neighbours in order put all pairs in order (`AdjacentOrder`).

The assumptions are the named ones on the constants, which the runs evaluate. Five
say more than that a constant has its type: `WalkAssumption` that the numbers of the paths in a tree
are given in the order of the walk, which is a choice of names that any finite tree
of distinct paths allows (a path has one directory above it; symbolic links that make a cycle are not modelled); `NamesAssumption` that the names of
clients are not those of the other things a descriptor can mean; `ClientsAssumption` that
the clients of a process are finitely many; `ContentsAssumption` that no document
is twice in the list of a word, since the writer takes them from a hash table
with the document's number as key; and those on bounds that they are numbers.

Only model-checked: the liveness properties, since fairness and ENABLED are out
of the prover's reach. Every safety property of a passing run is a theorem.

## 5. What the runs found

Three statements of the code about itself do not hold, each with a run that shows
it:

1. `HttpServer.cc:136`: the loop makes a new `HttpConnection` of a descriptor it
   has just closed. When `accept` reuses the number the thread serves another
   client (`ServesItsOwnClient`).
2. `LinkedList.c:153`: Append frees the node it has linked
   (`AppendedNodeIsAllocated`).
3. `WriteIndex.cc:272`: fsync is called before the header has left the stdio
   buffer (`SuccessIsDurable`).

Three more are stated by properties that hold, in the form that is true of the
code:

4. `ro_file.c:119`: SEEK_CUR moves from the kernel's offset and not from where
   the caller is, though `ro_file.h:36-39` promises the current position; it is off
   by what is buffered, and never by more (`ImplementsFile`, with `Ahead`).
5. `QueryProcessor.cc:121`: an empty intersection leaves the word's reader open,
   though the readers are the caller's to delete (`IndexTableReader.h:44-46`).
   `DescriptorsAccountedFor` counts those and finds no other leak.
6. `FileParser.c:228-251`: a word that the end of the text cuts off is not recorded,
   though a comment (`:241`) means to handle it (`IndexIsTheTree`).

Seen while modelling, and modelled as the code is:
`CrawlFileTree.c:200` counts an entry before it knows what it is, so that a special file
is treated by an `is_dir` that was never set; one empty or unreadable file ends the
process (`CrawlFileTree.c:238`); lengths above 32767 would turn negative in `WriteIndex.cc:430` and
`:530` (the instance stops at the last that fits); `WriteIndex.cc:494` fills a four-byte record with what it reads as eight;
`FileDup`ed readers share the kernel's offset (`Utils.cc:88`), which is harmless only because
every group of reads begins with a seek;
`HttpServer.cc:129` and `:136` put the connection in the loop, so that it is closed
after every request where the protocol keeps it; the value of the `Connection` header is compared with
case (`:155`) though `HttpRequest.h:48` only lowers the names; `ServerSocket::Accept`
closes the listener without forgetting its number (`ServerSocket.cc:167`); a failed name lookup of one
client makes `Run` quit (`:201`); `MaybeResize` grows at a load of exactly three where its
comment says above three (`HashTable.c:347`); `ro_close` fails after a buffered
read (`ro_file.c:140`); the result of fclose in `WriteIndex` is ignored (`:208`); and when
fsync fails, exit flushes the header behind an incomplete body, which is the one
exception that `CommitRecordIsLast` states.

## 6. Not modelled

- Bytes and text: request lines, HTML, URL decoding, the CRC, host and network
  order, hashing (a key is its hash).
- `malloc` failures: they end the process.
- In hw2: symbolic links that make a cycle, the splitting of a typed line into
  words and its limit on their number, and what is freed at the end.
- In hw3: the bytes of the records, and so the swapping of their order.
- In hw4: the text that `ProcessFileRequest` and `ProcessQueryRequest` put together.
  The descriptors of a query and those of the server are in two modules, so that
  a stale `close` that hits an index file, which ends the process by a
  `Verify333`, is not in either: the properties of `HttpServer` are about a process
  that no query ends.
- `hw3fsck`, `http333d.cc`, the small exercises: they read an input, print and stop.
- `projdocs/test_tree` is the input of the search engine, among it the sources of
  bash; they are most of the C files in the repository, and not of this system.
- `gtest`, the prebuilt programs and course notes: not the system's code.

## 7. Plan

Written so far, in this order: `ThreadPool`, `HttpServer`, `LinkedList`,
`HashTable`, `RoFile`, `WriteIndex`, `QueryProcessor`, then hw2 (`FileParser`,
`DocTable`, `MemIndex`, `CrawlFileTree`, `SearchShell`) and the layout of the index
file (`IndexFile`, `IndexReaders`). Then the proofs, of `ThreadPool`, `RoFile`,
`WriteIndex`, `HttpServer`, `SearchShell`, `QueryProcessor`, `LinkedList`, `HashTable`,
`IndexFile` and `IndexReaders`. What is left is what section 6 leaves out.
