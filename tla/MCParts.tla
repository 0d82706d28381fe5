------------------------------- MODULE MCParts --------------------------------
(***************************************************************************)
(* The parts a LevelDB database is built from, each of them by itself on a  *)
(* small instance: log files, buffered files, tables, the skip list of a    *)
(* memtable, iterators, the levels of tables, the cache of open tables, the *)
(* database lock, open files and the background thread.  part says which of *)
(* them a behaviour is about; its variables are the first of v1, ..., v16.  *)
(***************************************************************************)
EXTENDS Integers, Sequences, SequencesExt

CONSTANT None

VARIABLES part, v1, v2, v3, v4, v5, v6, v7, v8, v9, v10, v11, v12, v13, v14, v15, v16

vars == <<part, v1, v2, v3, v4, v5, v6, v7, v8, v9, v10, v11, v12, v13, v14, v15, v16>>

(* Three bytes with a gap, alone and in pairs. *)
TableKeys == {<<0>>, <<0, 2>>, <<0, 3>>, <<1, 0>>, <<3>>, <<3, 3>>}

(* The first probe and the step; two keys fall together. *)
BloomHash(u) == <<Len(u) + 3 * u[1], 1 + Last(u)>>

(* Manual compactions of everything at the first levels and of a part. *)
LevelRanges == {<<0, 0, 4>>, <<1, 0, 4>>, <<1, 2, 2>>}

(* Keys of the cache that share a chain; threads 10 * process + n. *)
HashOfKey(k) == k \div 2
ProcessOfNumber(t) == t \div 10

Log == INSTANCE MCLogFormat WITH
  kBlockSize <- 6, kHeaderSize <- 3, Sizes <- {0, 1, 2, 5}, MaxRecords <- 4,
  Offsets <- {0, 1, 5, 6, 7}, Faults <- {}, MaxFaults <- 3, reuse_logs <- FALSE,
  file <- v1, durable <- v2, written <- v3, acked <- v4, adding <- v5,
  blockOffset <- v6, phase <- v7, initialOffset <- v8, buffer <- v9, eof <- v10, resyncing <- v11,
  scratch <- v12, returned <- v13, drops <- v14, faults <- v15, instance <- v16
Writable == INSTANCE WritableFile WITH
  is_manifest_ <- TRUE, BufferSize <- 3, MaxAppend <- 7, MaxBytes <- 7, Failing <- TRUE,
  given <- v1, buf <- v2, file <- v3, durable <- v4, dir <- v5, open <- v6,
  failed <- v7, acked <- v8
SortedTable == INSTANCE MCTable WITH
  UserKeys <- TableKeys, Tags <- {1, 2}, MaxByte <- 3, MaxTag <- 3, MaxEntries <- 4,
  RestartInterval <- 2, BlockBytes <- 16, FilterBase <- 16, Hash <- BloomHash,
  FilterBits <- 8, Probes <- 2, Appends <- {30}, MaxDamage <- 1,
  rep <- v1, added <- v2, damaged <- v3, instance <- v4
Memory == INSTANCE SkipList WITH
  MaxKey <- 3, kMaxHeight <- 2, MaxOps <- 2,
  log <- v1, max_height_ <- v2, writer <- v3, inserted <- v4, reader <- v5, ops <- v6
Iterator == INSTANCE Iterators WITH
  Keys <- {1, 2}, MaxSeq <- 3, Tables <- {1, 2}, BlockSize <- 1, BadBlocks <- 1,
  MaxInserts <- 1,
  mem <- v1, blocks <- v2, bad <- v3, sequence <- v4, iter <- v5, list <- v6, op <- v7
Version == INSTANCE MCLevels WITH
  Keys <- {1, 2, 3}, Types <- {"put", "del"}, MaxWrites <- 4, write_buffer_size <- 2,
  MaxSnapshots <- 1, MaxSeeks <- 1, Ranges <- LevelRanges, MaxManual <- 1, FlushDuring <- {"auto"},
  kNumLevels <- 4, kL0_CompactionTrigger <- 2, kMaxMemCompactLevel <- 1, max_file_size <- 2,
  kLevel1Size <- 2, kGrowth <- 2, kGrandParentOverlap <- 1, kExpandedCompaction <- 8,
  kAllowedSeeks <- 1,
  last_sequence <- v1, history <- v2, mem <- v3, snapshots <- v4, files <- v5,
  file_to_compact <- v6, seeks <- v7, compact_pointer <- v8, next_file_number <- v9,
  compaction <- v10, manual <- v11, taken <- v12
Cache == INSTANCE LRUCache WITH
  Threads <- 1..2, Keys <- {0, 2, 5}, Hash <- HashOfKey, Charges <- {1, 2},
  capacity <- 3, kNumShards <- 1, kInitialLength <- 2, MaxInserts <- 3,
  cache <- v1, freed <- v2, thread <- v3, open <- v4
Lock == INSTANCE FileLock WITH
  Threads <- {11, 12, 13, 21, 22}, Processes <- {1, 2}, ProcessOf <- ProcessOfNumber,
  pc <- v1, handles <- v2, locks <- v3, lost <- v4, holder <- v5, dropped <- v6
Readable == INSTANCE ReadableFiles WITH
  Threads <- 1..4, MaxMmaps <- 2, MaxOpenFiles <- 1,
  pc <- v1, mmaps <- v2, fds <- v3, open <- v4
Background == INSTANCE BackgroundThread WITH
  Threads <- {"a", "b", "c"}, MaxItems <- 4,
  started <- v1, queue <- v2, mutex <- v3, background <- v4, pc <- v5, scheduled <- v6,
  running <- v7, done <- v8

ASSUME
  /\ Log!LogAssumption /\ Writable!WritableFileAssumption /\ SortedTable!TableAssumption
  /\ Memory!SkipListAssumption /\ Iterator!IteratorsAssumption /\ Version!LevelsAssumption
  /\ Cache!LRUCacheAssumption /\ Lock!FileLockAssumption /\ Readable!ReadableFilesAssumption
  /\ Background!BackgroundThreadAssumption

-------------------------------------------------------------------------------
(* The variables a part does not have. *)

From13 == <<v13, v14, v15, v16>>
From9 == <<v9, v10, v11, v12, From13>>
From8 == <<v8, From9>>
From7 == <<v7, From8>>
From5 == <<v5, v6, From7>>

No13 == v13 = None /\ v14 = None /\ v15 = None /\ v16 = None
No9 == v9 = None /\ v10 = None /\ v11 = None /\ v12 = None /\ No13
No8 == v8 = None /\ No9
No7 == v7 = None /\ No8
No5 == v5 = None /\ v6 = None /\ No7

Init ==
  \/ part = "Log" /\ Log!MCInit
  \/ part = "Writable" /\ Writable!Init /\ No9
  \/ part = "SortedTable" /\ SortedTable!MCInit /\ No5
  \/ part = "Memory" /\ Memory!Init /\ No7
  \/ part = "Iterator" /\ Iterator!Init /\ No8
  \/ part = "Version" /\ Version!Init /\ No13
  \/ part = "Cache" /\ Cache!Init /\ No5
  \/ part = "Lock" /\ Lock!Init /\ No7
  \/ part = "Readable" /\ Readable!Init /\ No5
  \/ part = "Background" /\ Background!Init /\ No9

Next ==
  /\ UNCHANGED part
  /\ \/ part = "Log" /\ Log!MCNext
     \/ part = "Writable" /\ Writable!Next /\ UNCHANGED From9
     \/ part = "SortedTable" /\ SortedTable!MCNext /\ UNCHANGED From5
     \/ part = "Memory" /\ Memory!Next /\ UNCHANGED From7
     \/ part = "Iterator" /\ Iterator!Next /\ UNCHANGED From8
          /\ (v3 # {} => v1' = v1)   \* bound: no insert beside an unreadable block
     \/ part = "Version" /\ Version!MCNext /\ UNCHANGED From13
     \/ part = "Cache" /\ Cache!Next /\ UNCHANGED From5
     \/ part = "Lock" /\ Lock!Next /\ UNCHANGED From7
     \/ part = "Readable" /\ Readable!Next /\ UNCHANGED From5
     \/ part = "Background" /\ Background!Next /\ UNCHANGED From9

Spec == Init /\ [][Next]_vars

-------------------------------------------------------------------------------
(* Properties. *)

(* Log files (db/log_reader.cc, db/log_writer.cc): only records that were
   written are read, whole and in order; after a crash exactly the complete
   ones, and a torn tail is no corruption; a log that is appended to after a
   crash loses nothing acknowledged. *)
LogsAreRight == part = "Log" => Log!LogIsRight

(* Buffered files (PosixWritableFile): while nothing fails every byte is in
   the file or the buffer, in order, and on disk after a Sync; failures lose
   bytes but never write one twice or out of order. *)
FilesAreRight == part = "Writable" => Writable!FilesAreRight

(* Tables (table/): a table that Finish calls good has all its entries,
   whichever write failed; Seek, Prev and Get find the right one, and in a
   damaged table they find the right one or fail. *)
TablesAreRight == part = "SortedTable" => SortedTable!TablesAreRight

(* The skip list (db/skiplist.h): a reader beside a writer, without a lock,
   sees no uninitialised link and misses no key it could know of. *)
ReadersAreSafe == part = "Memory" => Memory!ReadersAreSafe

(* Iterators (db/db_iter.cc, table/merger.cc, table/two_level_iterator.cc)
   are a cursor over the live keys of a snapshot, whatever order they are
   moved in and whatever is written meanwhile; when a block cannot be read
   their status says so. *)
IteratorsAreCursors ==
  /\ part = "Iterator" => Iterator!Abstract!Init
  /\ [][part = "Iterator" => Iterator!CursorStep]_vars

(* The levels of tables (db/version_set.cc).  The files of a level below 0 do
   not overlap, and of one user key a smaller level, and the newer file of
   level 0, holds the newer entries: flushes that skip levels, trivial moves
   and split outputs keep both. *)
LevelsAreOrdered ==
  part = "Version" => Version!TypeOK /\ Version!LevelsDisjoint /\ Version!NewerAbove

(* A lookup through the levels, at the latest state or at a snapshot, finds
   what was written last, whatever was flushed, moved or compacted. *)
LookupsAreRight == part = "Version" => Version!ReadsAreRight

(* A manual compaction (DBImpl::TEST_CompactRange) that is done has taken every
   file of its level and range that was there when it was asked for. *)
ManualsAreComplete == [][part = "Version" => Version!ManualIsComplete]_vars

(* The cache (util/cache.cc): references are exact, only what nobody uses can
   be evicted, the hash table finds what is in the cache and nothing else,
   usage is what the entries are charged with, and the destructor frees all. *)
CacheIsConsistent ==
  part = "Cache" =>
    Cache!RefsAreExact /\ Cache!ListsAreRight /\ Cache!TableIsRight /\ Cache!UsageIsRight
      /\ Cache!AllFreed

(* The environment.  The database lock (PosixEnv::LockFile): one thread of a
   process at most is past the lock table; threads of two processes have the
   lock together only after one of the processes closed another descriptor of
   the file; and failed attempts, unlocking and dead processes leave nothing
   behind, an UnlockFile that fails excepted.  Open files
   (PosixEnv::NewRandomAccessFile): the limits on mappings and descriptors
   hold, and none is lost when a mapping fails.  The background thread
   (PosixEnv::Schedule): it does not sleep while there is work, and items run
   once each, in order. *)
EnvironmentIsSafe ==
  /\ part = "Lock" => Lock!ExclusiveInProcess /\ Lock!ExclusiveUntilClosed /\ Lock!NothingLeft
  /\ part = "Readable" =>
       Readable!CountersExact /\ Readable!LimitsKept /\ Readable!NoDescriptorLost
  /\ part = "Background" => Background!NoLostWakeup /\ Background!InOrder
===============================================================================
