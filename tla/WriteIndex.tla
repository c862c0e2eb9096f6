----------------------------- MODULE WriteIndex -----------------------------
(***************************************************************************)
(* hw3's WriteIndex as a writer of a file that must survive crashes: the   *)
(* document table and the index are written first, the header with its     *)
(* magic number last, "the role of a commit record" (Utils.h).             *)
(*                                                                         *)
(* A block is what is written between two fseek calls.  It waits in the    *)
(* FILE's buffer until the next fseek or the fclose hands it to the        *)
(* kernel, which puts it on the disk when it likes, at the latest in an    *)
(* fsync.  What a block holds is not modelled.                             *)
(*                                                                         *)
(* Its initial states and steps are WriteInit and WriteNext, for the       *)
(* module FileProofs extends RoFile too.                                   *)
(***************************************************************************)
EXTENDS Naturals

CONSTANTS NumBlocks,  \* the blocks of document table and index
          Errors      \* the operations that may fail

ASSUME BlocksAssumption == NumBlocks \in Nat \ {0}
ASSUME ErrorsAssumption == Errors \subseteq {"write", "read", "sync", "writeback", "close"}

Header == 0
Body == 1..NumBlocks
Blocks == {Header} \cup Body

VARIABLES
  stage,   \* where WriteIndex is; dead: its process has ended
  next,    \* the next block of the body
  stdio,   \* the blocks in the FILE's buffer
  cache,   \* the file as processes see it: the blocks the kernel has
  dirty,   \* those of them the kernel still has to write
  disk,    \* the blocks on the disk
  wb_err,  \* the kernel has failed to write a block and not yet said so
  exists,  \* the file has a name
  result,  \* what WriteIndex returned
  sync_failed  \* history: fsync has failed

fileVars == <<stdio, cache, dirty, disk, wb_err, exists>>
writeVars == <<stage, next, fileVars, result, sync_failed>>

WriteInit ==
  /\ stage = "body" /\ next = 1
  /\ stdio = {} /\ cache = {} /\ dirty = {} /\ disk = {}
  /\ wb_err = FALSE /\ exists = TRUE
  /\ result = "none" /\ sync_failed = FALSE

-----------------------------------------------------------------------------
FaultyFlush == dirty' = dirty \cup stdio /\ UNCHANGED cache

Flush == cache' = cache \cup stdio /\ dirty' = dirty \cup stdio

(* WriteHashTable and the functions it calls: fseek to a record, fwrite.   *)
WriteBlock ==
  /\ stage = "body" /\ next \in Body
  /\ Flush
  /\ stdio' = {next}
  /\ next' = next + 1
  /\ UNCHANGED <<stage, disk, wb_err, exists, result, sync_failed>>

(* WriteHeader seeks back and reads all of the body for its checksum.      *)
Checksum ==
  /\ stage = "body" /\ next = NumBlocks + 1
  /\ Flush
  /\ stdio' = {}
  /\ stage' = "header"
  /\ UNCHANGED <<next, disk, wb_err, exists, result, sync_failed>>

FaultyWriteHeader ==
  /\ stage = "header"
  /\ cache' = cache \cup {Header} /\ dirty' = dirty \cup {Header}
  /\ stage' = "sync"
  /\ UNCHANGED <<next, stdio, disk, wb_err, exists, result, sync_failed>>

(* The header stays in the FILE's buffer: nothing flushes it.              *)
WriteHeader ==
  /\ stage = "header"
  /\ stdio' = {Header}
  /\ stage' = "sync"
  /\ UNCHANGED <<next, cache, dirty, disk, wb_err, exists, result, sync_failed>>

FaultyFsync ==
  /\ stage = "sync"
  /\ stage' = "close"
  /\ UNCHANGED <<next, fileVars, result, sync_failed>>

(* fsync reports what went wrong since the file was opened.                *)
Fsync ==
  /\ stage = "sync" /\ ~wb_err
  /\ disk' = disk \cup dirty /\ dirty' = {}
  /\ stage' = "close"
  /\ UNCHANGED <<next, stdio, cache, wb_err, exists, result, sync_failed>>

FaultyFsyncFails ==
  /\ stage = "sync" /\ (wb_err \/ "sync" \in Errors)
  /\ \E written \in SUBSET dirty : disk' = disk \cup written
  /\ cache' = cache \cup stdio /\ dirty' = stdio /\ stdio' = {}
  /\ wb_err' = FALSE /\ sync_failed' = TRUE
  /\ stage' = "returned" /\ result' = "failed"
  /\ UNCHANGED <<next, exists>>

(* Verify333 calls exit, which flushes the FILE: the header follows a body *)
(* of which any part may be missing on the disk.                           *)
FsyncFails ==
  /\ stage = "sync" /\ (wb_err \/ "sync" \in Errors)
  /\ \E written \in SUBSET dirty : disk' = disk \cup written
  /\ cache' = cache \cup stdio /\ dirty' = stdio /\ stdio' = {}
  /\ wb_err' = FALSE /\ sync_failed' = TRUE
  /\ stage' = "dead"
  /\ UNCHANGED <<next, exists, result>>

(* fclose flushes the header; WriteIndex does not look at what it returns. *)
Fclose ==
  /\ stage = "close"
  /\ Flush \/ ("close" \in Errors /\ UNCHANGED <<cache, dirty>>)
  /\ stdio' = {}
  /\ stage' = "returned" /\ result' = "ok"
  /\ UNCHANGED <<next, disk, wb_err, exists, sync_failed>>

(* A seek, read or write fails: the file is closed and unlinked.           *)
Fail ==
  /\ \/ stage \in {"body", "header"} /\ "write" \in Errors
     \/ stage = "body" /\ next = NumBlocks + 1 /\ "read" \in Errors
  /\ Flush /\ stdio' = {}
  /\ exists' = FALSE
  /\ stage' = "returned" /\ result' = "failed"
  /\ UNCHANGED <<next, disk, wb_err, sync_failed>>

-----------------------------------------------------------------------------
(* The kernel writes blocks in any order.                                  *)
Writeback(b) ==
  /\ b \in dirty
  /\ dirty' = dirty \ {b} /\ disk' = disk \cup {b}
  /\ UNCHANGED <<stage, next, stdio, cache, wb_err, exists, result, sync_failed>>

WritebackFails(b) ==
  /\ b \in dirty /\ "writeback" \in Errors
  /\ dirty' = dirty \ {b} /\ wb_err' = TRUE
  /\ UNCHANGED <<stage, next, stdio, cache, disk, exists, result, sync_failed>>

Running == stage \notin {"returned", "dead"}

(* The process is killed; its buffers are lost.                            *)
Killed ==
  /\ Running
  /\ stdio' = {} /\ stage' = "dead"
  /\ UNCHANGED <<next, cache, dirty, disk, wb_err, exists, result, sync_failed>>

(* The machine stops: the disk is left.  Whether the last change to the    *)
(* directory had reached it is open.                                       *)
PowerFails ==
  /\ cache' = disk /\ dirty' = {} /\ stdio' = {} /\ wb_err' = FALSE
  /\ exists' \in BOOLEAN
  /\ stage' = "dead"
  /\ UNCHANGED <<next, disk, result, sync_failed>>

-----------------------------------------------------------------------------
Writer == WriteBlock \/ Checksum \/ WriteHeader \/ Fsync \/ FsyncFails \/ Fclose \/ Fail
Kernel == \E b \in Blocks : Writeback(b) \/ WritebackFails(b)

WriteNext == Writer \/ Kernel \/ Killed \/ PowerFails

WriteSpec == WriteInit /\ [][WriteNext]_writeVars

-----------------------------------------------------------------------------
(* FileIndexReader: the magic number must be there.  The length can be     *)
(* right without the body, in which case the checksum, if it is looked at, *)
(* differs.                                                                *)
Accepts(validate) == exists /\ Header \in cache /\ (validate => Body \subseteq cache)

WriteTypeOK ==
  /\ stage \in {"body", "header", "sync", "close", "returned", "dead"}
  /\ next \in 1..NumBlocks + 1
  /\ stdio \in SUBSET Blocks /\ cache \in SUBSET Blocks
  /\ dirty \in SUBSET cache /\ disk \in SUBSET cache
  /\ wb_err \in BOOLEAN /\ exists \in BOOLEAN /\ sync_failed \in BOOLEAN
  /\ result \in {"none", "ok", "failed"}

(* WriteIndex.cc:49: "if we crash part way through writing an index file,  *)
(* it won't contain a valid kMagicNumber": whatever reader comes after a   *)
(* kill or a power failure, a file with a magic number has all of the body *)
(* - except where fsync itself reported that it has not.                   *)
CommitRecordIsLast == Accepts(FALSE) /\ ~sync_failed => Body \subseteq cache

(* WriteIndex.h: "negative value on error": after one, no reader, now or   *)
(* after a power failure, takes the file for an index.                     *)
FailureLeavesNoIndex == result = "failed" => ~Accepts(FALSE)

(* A WriteIndex that has returned a size has not been wrong about the      *)
(* body: it is on the disk, whichever writes were late or failed.          *)
ReturnedBodyIsDurable == result = "ok" => Body \subseteq disk

(* WriteIndex.cc:271: "Use fsync to flush the header field to disk": what  *)
(* was written with success can be read, after a power failure too.        *)
SuccessIsDurable == result = "ok" /\ exists => Accepts(TRUE)
=============================================================================
