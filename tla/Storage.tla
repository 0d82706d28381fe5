-------------------------------- MODULE Storage --------------------------------
(***************************************************************************)
(* The files of a LevelDB database and how it gets through a crash         *)
(* (db/db_impl.cc, db/version_set.cc, db/filename.cc): logs, tables,       *)
(* MANIFESTs and CURRENT; opening a database and recovering its logs;      *)
(* flushes and compactions, each of which commits by a record in the       *)
(* MANIFEST; and the deletion of files that are no longer needed.          *)
(*                                                                         *)
(* A write is an entry [id, seq]; a log and a MANIFEST are sequences of    *)
(* records with a number of them that are on the disk for sure.  An append *)
(* that fails may leave part of a record behind and the writer out of step *)
(* with the blocks of the file (log_writer.cc), so that a reader may drop  *)
(* what follows: the records here are those that a reader returns.         *)
(* Creating, renaming and deleting a file are taken to last (a journaling  *)
(* file system); what was written to a file lasts when it was synced.      *)
(***************************************************************************)
EXTENDS Integers, Sequences, SequencesExt, FiniteSets, FiniteSetsExt

CONSTANTS
  MaxWrites,          \* bound: writes begun
  MaxCrashes,         \* bound: crashes
  MaxErrors,          \* bound: failing file operations
  MaxCompactions,     \* bound: compactions
  write_buffer_size,  \* entries of a memtable that is full
  reuse_logs, paranoid_checks,  \* Options
  PowerFails,         \* the machine fails, not only the process
  FailsWhenNew,       \* also before the first MANIFEST is on the disk
  None

ASSUME StorageAssumption ==
  /\ {MaxWrites, MaxCrashes, MaxErrors, MaxCompactions} \subseteq Nat
  /\ write_buffer_size \in Nat \ {0}
  /\ {reuse_logs, paranoid_checks, PowerFails, FailsWhenNew} \subseteq BOOLEAN

Entry == [id : 1..MaxWrites, seq : 1..MaxWrites]
Numbers == [log : Nat,        \* VersionSet::log_number_
            logfile : Nat,    \* DBImpl::logfile_number_
            next : Nat,       \* next_file_number_
            manifest : Nat,   \* manifest_file_number_
            sequence : Nat]   \* last_sequence_
VersionEdit == [add : SUBSET Nat, del : SUBSET Nat, log : Nat, next : Nat, sequence : Nat]
Recovery == [logs : SUBSET Nat, add : SUBSET Nat, max_sequence : Nat,
             save : BOOLEAN, reused : BOOLEAN]
CompactionState == [inputs : SUBSET Nat, output : Nat]
Change == [step : {"write", "sync", "current", "install"}, by : {"open", "flush", "compaction"},
           fresh : BOOLEAN, record : VersionEdit]
Writer == [entry : Entry, sync : BOOLEAN, step : {"log", "sync", "insert"}]

ASSUME NoneAssumption ==
  /\ None \notin Nat /\ \A m \in SUBSET Entry : m # None
  /\ None \notin Recovery \cup CompactionState \cup Change \cup Writer

VARIABLES
  \* The disk.
  current,         \* the number of the MANIFEST that CURRENT names, or None
  manifests,       \* by number: [records, synced, tail]
  logs,            \* by number: [records, synced, tail]
  tables,          \* by number: the entries; a table is used only when it is complete
  \* DBImpl and VersionSet.
  phase,           \* how far DB::Open is
  version,         \* numbers of the tables of the current version
  numbers,         \* log, logfile, next, manifest, sequence: see Numbers
  descriptor,      \* there is a descriptor_log_
  mem, imm,        \* memtables: sets of entries; imm is None when there is none
  recovering,      \* logs that Recover has still to read, with its edit
  pending_outputs, \* tables under construction
  flush,           \* the table that CompactMemTable builds, or None
  compaction,      \* [inputs, output], or None
  edit,            \* LogAndApply: [step, record, fresh, by], or None
  obsolete,        \* DeleteObsoleteFiles is at work
  bg_error,
  writing,         \* the write under way: [entry, sync, step], or None
  pinned,          \* the version that an iterator holds, or None
  \* History.
  acknowledged,    \* entries acknowledged and not lost to a machine crash
  durable,         \* entries acknowledged with sync
  doubtful,        \* entries under way or failed since the database was opened, and
                   \* those acknowledged in a log behind one that failed
  counts           \* writes, crashes, errors, compactions so far; skips: logs passed
                   \* over, and records of a MANIFEST behind one that failed

disk == <<current, manifests, logs, tables>>
process == <<phase, version, numbers, descriptor, mem, imm, recovering, pending_outputs,
             flush, compaction, edit, obsolete, bg_error, writing, pinned>>
history == <<acknowledged, durable, doubtful>>
vars == <<disk, process, history, counts>>

Without(f, k) == [x \in DOMAIN f \ {k} |-> f[x]]
With(f, k, v) == [x \in DOMAIN f \cup {k} |-> IF x = k THEN v ELSE f[x]]
NewFile == [records |-> <<>>, synced |-> 0, tail |-> "sound"]
Appended(file, records) == [file EXCEPT !.records = @ \o records]
Synced(file) == [file EXCEPT !.synced = Len(file.records)]
EntriesOf(ns) == UNION {tables[n] : n \in ns}

(* An append that fails leaves the tail torn, which a reader takes for the end
   of the file.  What is appended behind it is read or dropped, which its own
   bytes and those before it settle, and then the reader may report damage. *)
AfterFailure(file) == [file EXCEPT !.tail = IF @ = "sound" THEN "torn" ELSE "damaged"]
Appends(file, records) ==
  IF file.tail = "sound" THEN {Appended(file, records)}
  ELSE {[f EXCEPT !.tail = "damaged"] : f \in {file, Appended(file, records)}}

-------------------------------------------------------------------------------
(* The edits of a MANIFEST, and what they amount to. *)

Edit(add, del, log, next, sequence) ==
  [add |-> add, del |-> del, log |-> log, next |-> next, sequence |-> sequence]
NewDBEdit == Edit({}, {}, 0, 2, 0)
Snapshot == Edit(version, {}, None, None, None)

Applied(state, e) ==
  [files    |-> (state.files \ e.del) \cup e.add,
   log      |-> IF e.log = None THEN state.log ELSE e.log,
   next     |-> IF e.next = None THEN state.next ELSE e.next,
   sequence |-> IF e.sequence = None THEN state.sequence ELSE e.sequence]

(* VersionSet::Recover. *)
Blank == [files |-> {}, log |-> None, next |-> None, sequence |-> None]
ReadManifest(records) ==
  LET state[i \in 0..Len(records)] ==
        IF i = 0 THEN Blank ELSE Applied(state[i - 1], records[i])
  IN state[Len(records)]

(* The database can be opened: CURRENT names a MANIFEST with all it must
   hold, and every table is there. *)
Readable ==
  /\ current \in DOMAIN manifests
  /\ LET m == ReadManifest(manifests[current].records) IN
     /\ None \notin {m.log, m.next, m.sequence}
     /\ m.files \subseteq DOMAIN tables

LogsFrom(n) == {l \in DOMAIN logs : l >= n}

(* What a recovery from the present files would find. *)
Recoverable ==
  IF ~Readable THEN {}
  ELSE LET m == ReadManifest(manifests[current].records) IN
       EntriesOf(m.files) \cup UNION {ToSet(logs[l].records) : l \in LogsFrom(m.log)}

(* What a reader finds. *)
Visible == mem \cup (IF imm = None THEN {} ELSE imm) \cup EntriesOf(version)

-------------------------------------------------------------------------------
Closed ==
  /\ phase = "closed" /\ version = {} /\ descriptor = FALSE
  /\ numbers = [log |-> 0, logfile |-> 0, next |-> 2, manifest |-> 0, sequence |-> 0]
  /\ mem = {} /\ imm = None /\ recovering = None /\ pending_outputs = {}
  /\ flush = None /\ compaction = None /\ edit = None /\ obsolete = FALSE
  /\ bg_error = FALSE /\ writing = None /\ pinned = None

Init ==
  /\ current = None /\ manifests = <<>> /\ logs = <<>> /\ tables = <<>>
  /\ Closed
  /\ acknowledged = {} /\ durable = {} /\ doubtful = {}
  /\ counts = [writes |-> 0, crashes |-> 0, errors |-> 0, compactions |-> 0, skips |-> 0]

ToClosed ==
  /\ phase' = "closed" /\ version' = {} /\ descriptor' = FALSE
  /\ numbers' = [log |-> 0, logfile |-> 0, next |-> 2, manifest |-> 0, sequence |-> 0]
  /\ mem' = {} /\ imm' = None /\ recovering' = None /\ pending_outputs' = {}
  /\ flush' = None /\ compaction' = None /\ edit' = None /\ obsolete' = FALSE
  /\ bg_error' = FALSE /\ writing' = None /\ pinned' = None

Fail ==
  /\ counts.errors < MaxErrors
  /\ counts' = [counts EXCEPT !.errors = @ + 1]

-------------------------------------------------------------------------------
(* DB::Open. *)

(* NewDB writes the first MANIFEST, which it closes and does not sync, and
   then CURRENT. *)
NewDB ==
  /\ phase = "closed" /\ current = None
  /\ manifests' = With(manifests, 1, Appended(NewFile, <<NewDBEdit>>))
  /\ phase' = "created"
  /\ UNCHANGED <<current, logs, tables, version, numbers, descriptor, mem, imm, recovering,
                 pending_outputs, flush, compaction, edit, obsolete, bg_error, writing,
                 pinned, history, counts>>

SetCurrentOfNewDB ==
  /\ phase = "created"
  /\ current' = 1
  /\ phase' = "closed"
  /\ UNCHANGED <<manifests, logs, tables, version, numbers, descriptor, mem, imm,
                 recovering, pending_outputs, flush, compaction, edit, obsolete, bg_error,
                 writing, pinned, history, counts>>

(* Recover up to the logs.  With reuse_logs the MANIFEST is kept and appended
   to (ReuseManifest). *)
RecoverVersion ==
  /\ phase = "closed" /\ current # None /\ Readable
  /\ LET m == ReadManifest(manifests[current].records) IN
     /\ version' = m.files
     /\ numbers' = [log |-> m.log, logfile |-> 0, next |-> m.next + 1,
                    manifest |-> IF reuse_logs THEN current ELSE m.next,
                    sequence |-> m.sequence]
     /\ recovering' = [logs |-> LogsFrom(m.log), add |-> {}, max_sequence |-> 0,
                       save |-> ~reuse_logs, reused |-> FALSE]
  /\ descriptor' = reuse_logs
  /\ phase' = "logs"
  /\ UNCHANGED <<disk, mem, imm, pending_outputs, flush, compaction, edit, obsolete,
                 bg_error, writing, pinned, history, counts>>

(* RecoverLogFile: its records go into memtables and, full or at the end, into
   tables; with reuse_logs the last log is kept with its memtable. *)
ChunkOf(j) == (j - 1) \div (write_buffer_size + 1) + 1
Chunks(records) ==
  [i \in 1..ChunkOf(Len(records)) |-> {records[j] : j \in {k \in DOMAIN records : ChunkOf(k) = i}}]

MarkedUsed(next, number) == IF next <= number THEN number + 1 ELSE next

RecoverLogFile ==
  /\ phase = "logs" /\ recovering.logs # {}
  /\ LET log == Min(recovering.logs)
         records == logs[log].records
         chunks == Chunks(records)
         reused == /\ reuse_logs /\ recovering.logs = {log}
                   /\ Len(records) <= write_buffer_size
         next == numbers.next + (IF reused THEN 0 ELSE Len(chunks))
         made == numbers.next..next - 1
     IN /\ tables' = [n \in DOMAIN tables \cup made |->
                        IF n \in made THEN chunks[n - numbers.next + 1] ELSE tables[n]]
        /\ mem' = IF reused THEN ToSet(records) ELSE {}
        /\ numbers' = [numbers EXCEPT !.next = MarkedUsed(next, log),
                                      !.logfile = IF reused THEN log ELSE @]
        /\ recovering' = [recovering EXCEPT
                            !.logs = @ \ {log}, !.add = @ \cup made,
                            !.save = @ \/ made # {}, !.reused = reused,
                            !.max_sequence = Max({@} \cup {r.seq : r \in ToSet(records)})]
  /\ UNCHANGED <<current, manifests, logs, phase, version, descriptor, imm, pending_outputs,
                 flush, compaction, edit, obsolete, bg_error, writing, pinned, history, counts>>

(* A log that cannot be opened is passed over (MaybeIgnoreError). *)
SkipLogFile ==
  /\ phase = "logs" /\ recovering.logs # {} /\ ~paranoid_checks
  /\ counts.errors < MaxErrors
  /\ counts' = [counts EXCEPT !.errors = @ + 1, !.skips = @ + 1]
  /\ LET log == Min(recovering.logs) IN
     /\ numbers' = [numbers EXCEPT !.next = MarkedUsed(@, log)]
     /\ recovering' = [recovering EXCEPT !.logs = @ \ {log}, !.reused = FALSE]
  /\ UNCHANGED <<disk, phase, version, descriptor, mem, imm, pending_outputs, flush,
                 compaction, edit, obsolete, bg_error, writing, pinned, history>>

(* A slip to rule out: only what the MANIFEST says. *)
SequenceOfManifest(sequence, max_sequence) == sequence
LastSequence(sequence, max_sequence) == Max({sequence, max_sequence})

(* The end of Recover, a new log unless one is reused, and the edit that makes
   the recovered tables part of the database. *)
NewLog ==
  /\ phase = "logs" /\ recovering.logs = {}
  /\ LET sequence == LastSequence(numbers.sequence, recovering.max_sequence)
         logfile == IF recovering.reused THEN numbers.logfile ELSE numbers.next
         next == IF recovering.reused THEN numbers.next ELSE numbers.next + 1
     IN /\ logs' = IF recovering.reused THEN logs ELSE With(logs, logfile, NewFile)
        /\ numbers' = [numbers EXCEPT !.sequence = sequence, !.logfile = logfile, !.next = next]
        /\ edit' = IF recovering.save
                   THEN [step |-> "write", by |-> "open", fresh |-> ~descriptor,
                         record |-> Edit(recovering.add, {}, logfile, next, sequence)]
                   ELSE None
        /\ phase' = IF recovering.save THEN "save" ELSE "open"
        /\ obsolete' = ~recovering.save
        /\ doubtful' = IF recovering.save THEN doubtful ELSE {}
  /\ recovering' = None
  /\ UNCHANGED <<current, manifests, tables, version, descriptor, mem, imm, pending_outputs,
                 flush, compaction, bg_error, writing, pinned, acknowledged, durable, counts>>

(* A file operation of DB::Open fails, or with paranoid_checks the reader
   reports damage in a log, and Open returns the error.  (A MANIFEST in which it
   reports damage is refused by RecoverVersion, which leaves all as it is.) *)
OpenFails ==
  /\ \/ phase \in {"created", "logs"} /\ Fail
     \/ /\ phase = "logs" /\ paranoid_checks
        /\ \E l \in recovering.logs : logs[l].tail = "damaged"
        /\ UNCHANGED counts
  /\ manifests' = IF phase = "created" THEN Without(manifests, 1) ELSE manifests
  /\ ToClosed
  /\ UNCHANGED <<current, logs, tables, history>>

-------------------------------------------------------------------------------
(* LogAndApply: a record in the MANIFEST, which is new after an open. *)

WriteManifest ==
  /\ edit # None /\ edit.step = "write"
  /\ LET n == numbers.manifest IN
     IF edit.fresh
     THEN /\ manifests' = With(manifests, n, Appended(NewFile, <<Snapshot, edit.record>>))
          /\ UNCHANGED counts
     ELSE /\ \E file \in Appends(manifests[n], <<edit.record>>) :
               manifests' = [manifests EXCEPT ![n] = file]
          /\ counts' = [counts EXCEPT !.skips = IF manifests[n].tail = "sound" THEN @ ELSE @ + 1]
  /\ edit' = [edit EXCEPT !.step = "sync"]
  /\ descriptor' = TRUE
  /\ UNCHANGED <<current, logs, tables, phase, version, numbers, mem, imm, recovering,
                 pending_outputs, flush, compaction, obsolete, bg_error, writing, pinned,
                 history>>

SyncManifest ==
  /\ edit # None /\ edit.step = "sync"
  /\ manifests' = [manifests EXCEPT ![numbers.manifest] = Synced(@)]
  /\ edit' = [edit EXCEPT !.step = IF edit.fresh THEN "current" ELSE "install"]
  /\ UNCHANGED <<current, logs, tables, phase, version, numbers, descriptor, mem, imm,
                 recovering, pending_outputs, flush, compaction, obsolete, bg_error, writing,
                 pinned, history, counts>>

SetCurrentFile ==
  /\ edit # None /\ edit.step = "current"
  /\ current' = numbers.manifest
  /\ edit' = [edit EXCEPT !.step = "install"]
  /\ UNCHANGED <<manifests, logs, tables, phase, version, numbers, descriptor, mem, imm,
                 recovering, pending_outputs, flush, compaction, obsolete, bg_error, writing,
                 pinned, history, counts>>

(* The new version is installed, and its maker goes on. *)
InstallVersion ==
  /\ edit # None /\ edit.step = "install"
  /\ version' = (version \ edit.record.del) \cup edit.record.add
  /\ numbers' = [numbers EXCEPT !.log = edit.record.log]
  /\ phase' = "open"
  /\ obsolete' = TRUE
  /\ imm' = IF edit.by = "flush" THEN None ELSE imm
  /\ flush' = IF edit.by = "flush" THEN None ELSE flush
  /\ compaction' = IF edit.by = "compaction" THEN None ELSE compaction
  /\ pending_outputs' = IF edit.by = "compaction" THEN pending_outputs \ edit.record.add
                        ELSE pending_outputs
  /\ edit' = None
  /\ doubtful' = IF edit.by = "open" THEN {} ELSE doubtful
  /\ UNCHANGED <<disk, descriptor, mem, recovering, bg_error, writing, pinned, acknowledged,
                 durable, counts>>

(* The record, its sync or the new CURRENT fails.  A new MANIFEST is deleted;
   one that was in use stays, with the part of the record that was written. *)
LogAndApplyFails ==
  /\ edit # None /\ edit.step # "install" /\ Fail
  /\ LET n == numbers.manifest IN
     manifests' = IF edit.fresh THEN Without(manifests, n)
                  ELSE IF edit.step = "write"
                  THEN [manifests EXCEPT ![n] = AfterFailure(@)]
                  ELSE manifests
  /\ IF edit.by = "open" THEN ToClosed
     ELSE /\ bg_error' = TRUE
          /\ edit' = None
          /\ flush' = IF edit.by = "flush" THEN None ELSE flush
          /\ compaction' = IF edit.by = "compaction" THEN None ELSE compaction
          /\ pending_outputs' = pending_outputs \ edit.record.add
          /\ UNCHANGED <<phase, version, numbers, descriptor, mem, imm, recovering, obsolete,
                         writing, pinned>>
  /\ UNCHANGED <<current, logs, tables, history>>

-------------------------------------------------------------------------------
(* DeleteObsoleteFiles. *)

(* AddLiveFiles: the tables of every version that somebody holds. *)
OfVersions ==
  version \cup (IF pinned = None THEN {} ELSE pinned)
    \cup (IF compaction = None THEN {} ELSE compaction.inputs)

(* A slip to rule out: what is under construction goes. *)
LiveWithoutOutputs == OfVersions
Live == OfVersions \cup pending_outputs

(* Older than the current log, than the current MANIFEST; in no version. *)
ObsoleteLogs == {n \in DOMAIN logs : n < numbers.log}
ObsoleteManifests == {n \in DOMAIN manifests : n < numbers.manifest}
ObsoleteTables == DOMAIN tables \ Live

(* After an error one does not know what was committed. *)
MayDelete == obsolete /\ ~bg_error

DeleteFile ==
  /\ MayDelete
  /\ \/ \E n \in ObsoleteLogs : logs' = Without(logs, n) /\ UNCHANGED <<manifests, tables>>
     \/ \E n \in ObsoleteManifests :
          manifests' = Without(manifests, n) /\ UNCHANGED <<logs, tables>>
     \/ \E n \in ObsoleteTables : tables' = Without(tables, n) /\ UNCHANGED <<logs, manifests>>
  /\ UNCHANGED <<current, process, history, counts>>

AllDeleted ==
  /\ obsolete
  /\ bg_error \/ (ObsoleteLogs = {} /\ ObsoleteManifests = {} /\ ObsoleteTables = {})
  /\ obsolete' = FALSE
  /\ UNCHANGED <<disk, phase, version, numbers, descriptor, mem, imm, recovering,
                 pending_outputs, flush, compaction, edit, bg_error, writing, pinned,
                 history, counts>>

-------------------------------------------------------------------------------
(* Writes: the mutex is free while the log is written, but there is one
   writer at a time (see DBWrite). *)

Ready == phase = "open" /\ ~obsolete

BeginWrite(sync) ==
  /\ Ready /\ writing = None /\ ~bg_error
  /\ counts.writes < MaxWrites /\ Cardinality(mem) < write_buffer_size
  /\ LET e == [id |-> counts.writes + 1, seq |-> numbers.sequence + 1] IN
     /\ writing' = [entry |-> e, sync |-> sync, step |-> "log"]
     /\ doubtful' = doubtful \cup {e}
  /\ counts' = [counts EXCEPT !.writes = @ + 1]
  /\ UNCHANGED <<disk, phase, version, numbers, descriptor, mem, imm, recovering,
                 pending_outputs, flush, compaction, edit, obsolete, bg_error, pinned,
                 acknowledged, durable>>

(* A slip to rule out: the sync is left out. *)
AfterRecordNoSync(sync) == "insert"
AfterRecord(sync) == IF sync THEN "sync" ELSE "insert"

AddRecord ==
  /\ writing # None /\ writing.step = "log"
  /\ \E file \in Appends(logs[numbers.logfile], <<writing.entry>>) :
       logs' = [logs EXCEPT ![numbers.logfile] = file]
  /\ writing' = [writing EXCEPT !.step = AfterRecord(writing.sync)]
  /\ UNCHANGED <<current, manifests, tables, phase, version, numbers, descriptor, mem, imm,
                 recovering, pending_outputs, flush, compaction, edit, obsolete, bg_error,
                 pinned, history, counts>>

SyncLog ==
  /\ writing # None /\ writing.step = "sync"
  /\ logs' = [logs EXCEPT ![numbers.logfile] = Synced(@)]
  /\ writing' = [writing EXCEPT !.step = "insert"]
  /\ UNCHANGED <<current, manifests, tables, phase, version, numbers, descriptor, mem, imm,
                 recovering, pending_outputs, flush, compaction, edit, obsolete, bg_error,
                 pinned, history, counts>>

(* The memtable, the sequence number, and the answer, which is the same when
   the record is behind one that failed: the writer does not know. *)
InsertInto ==
  /\ ~obsolete /\ writing # None /\ writing.step = "insert"
  /\ mem' = mem \cup {writing.entry}
  /\ numbers' = [numbers EXCEPT !.sequence = writing.entry.seq]
  /\ IF logs[numbers.logfile].tail = "sound"
     THEN /\ acknowledged' = acknowledged \cup {writing.entry}
          /\ durable' = IF writing.sync THEN durable \cup {writing.entry} ELSE durable
          /\ doubtful' = doubtful \ {writing.entry}
     ELSE UNCHANGED history
  /\ writing' = None
  /\ UNCHANGED <<disk, phase, version, descriptor, imm, recovering, pending_outputs, flush,
                 compaction, edit, obsolete, bg_error, pinned, counts>>

(* The log fails: its record is there or not, and its tail is torn.  Later
   writes go on behind it; only when the sync fails, none is taken. *)
WriteFails ==
  /\ ~obsolete /\ writing # None /\ writing.step \in {"log", "sync"} /\ Fail
  /\ \E file \in {logs[numbers.logfile], Appended(logs[numbers.logfile], <<writing.entry>>)} :
       logs' = IF writing.step = "sync" THEN logs
               ELSE [logs EXCEPT ![numbers.logfile] = AfterFailure(file)]
  /\ numbers' = [numbers EXCEPT !.sequence = writing.entry.seq]
  /\ bg_error' = (bg_error \/ writing.step = "sync")
  /\ writing' = None
  /\ UNCHANGED <<current, manifests, tables, phase, version, descriptor, mem, imm, recovering,
                 pending_outputs, flush, compaction, edit, obsolete, pinned, history>>

(* MakeRoomForWrite: a full memtable becomes imm_, with a new log for the next. *)
SwitchMemTable ==
  /\ Ready /\ writing = None /\ ~bg_error
  /\ imm = None /\ Cardinality(mem) >= write_buffer_size
  /\ logs' = With(logs, numbers.next, NewFile)
  /\ numbers' = [numbers EXCEPT !.logfile = numbers.next, !.next = @ + 1]
  /\ imm' = mem /\ mem' = {}
  /\ UNCHANGED <<current, manifests, tables, phase, version, descriptor, recovering,
                 pending_outputs, flush, compaction, edit, obsolete, bg_error, writing,
                 pinned, history, counts>>

-------------------------------------------------------------------------------
(* The background thread: flushes, also in the middle of a compaction. *)

StartFlush ==
  /\ Ready /\ imm # None /\ flush = None /\ edit = None
  /\ bg_error => compaction # None   \* DoCompactionWork does not look at it
  /\ flush' = numbers.next
  /\ pending_outputs' = pending_outputs \cup {numbers.next}
  /\ numbers' = [numbers EXCEPT !.next = @ + 1]
  /\ UNCHANGED <<disk, phase, version, descriptor, mem, imm, recovering, compaction, edit,
                 obsolete, bg_error, writing, pinned, history, counts>>

(* BuildTable writes and syncs the table; then the edit, with the log from
   which recovery starts.  A slip to rule out: the memtable's own log is
   dropped with it. *)
NextLog == numbers.next
LogOfMem == numbers.logfile

BuildTable ==
  /\ ~obsolete /\ flush # None /\ edit = None
  /\ tables' = With(tables, flush, imm)
  /\ pending_outputs' = pending_outputs \ {flush}
  /\ edit' = [step |-> "write", by |-> "flush", fresh |-> ~descriptor,
              record |-> Edit({flush}, {}, LogOfMem, numbers.next, numbers.sequence)]
  /\ UNCHANGED <<current, manifests, logs, phase, version, numbers, descriptor, mem, imm,
                 recovering, flush, compaction, obsolete, bg_error, writing, pinned, history,
                 counts>>

(* The table cannot be written and is deleted. *)
BuildTableFails ==
  /\ ~obsolete /\ flush # None /\ edit = None /\ Fail
  /\ pending_outputs' = pending_outputs \ {flush}
  /\ flush' = None /\ bg_error' = TRUE
  /\ UNCHANGED <<disk, phase, version, numbers, descriptor, mem, imm, recovering, compaction,
                 edit, obsolete, writing, pinned, history>>

(* A compaction of some tables into one; Levels says which. *)
OpenCompactionOutputFile(inputs) ==
  /\ Ready /\ compaction = None /\ flush = None /\ imm = None /\ edit = None /\ ~bg_error
  /\ counts.compactions < MaxCompactions
  /\ counts' = [counts EXCEPT !.compactions = @ + 1]
  /\ compaction' = [inputs |-> inputs, output |-> numbers.next]
  /\ pending_outputs' = pending_outputs \cup {numbers.next}
  /\ tables' = With(tables, numbers.next, {})
  /\ numbers' = [numbers EXCEPT !.next = @ + 1]
  /\ UNCHANGED <<current, manifests, logs, phase, version, descriptor, mem, imm, recovering,
                 flush, edit, obsolete, bg_error, writing, pinned, history>>

InstallCompactionResults ==
  /\ ~obsolete /\ compaction # None /\ flush = None /\ edit = None
  /\ tables' = With(tables, compaction.output, EntriesOf(compaction.inputs))
  /\ edit' = [step |-> "write", by |-> "compaction", fresh |-> ~descriptor,
              record |-> Edit({compaction.output}, compaction.inputs, numbers.log,
                              numbers.next, numbers.sequence)]
  /\ UNCHANGED <<current, manifests, logs, phase, version, numbers, descriptor, mem, imm,
                 recovering, pending_outputs, flush, compaction, obsolete, bg_error, writing,
                 pinned, history, counts>>

(* A compaction fails. *)
CleanupCompaction ==
  /\ ~obsolete /\ compaction # None /\ flush = None /\ edit = None /\ Fail
  /\ bg_error' = TRUE
  /\ compaction' = None
  /\ pending_outputs' = pending_outputs \ {compaction.output}
  /\ UNCHANGED <<disk, phase, version, numbers, descriptor, mem, imm, recovering, flush, edit,
                 obsolete, writing, pinned, history>>

-------------------------------------------------------------------------------
NewIterator ==
  /\ Ready /\ pinned = None
  /\ pinned' = version
  /\ UNCHANGED <<disk, phase, version, numbers, descriptor, mem, imm, recovering,
                 pending_outputs, flush, compaction, edit, obsolete, bg_error, writing,
                 history, counts>>

ReleaseIterator ==
  /\ Ready /\ pinned # None
  /\ pinned' = None
  /\ UNCHANGED <<disk, phase, version, numbers, descriptor, mem, imm, recovering,
                 pending_outputs, flush, compaction, edit, obsolete, bg_error, writing,
                 history, counts>>

-------------------------------------------------------------------------------
(* Crashes, at any step. *)

Crash ==
  /\ counts.crashes < MaxCrashes
  /\ counts' = [counts EXCEPT !.crashes = @ + 1]
  /\ ToClosed
  /\ UNCHANGED durable

(* What was not acknowledged may still be lost when the machine fails next. *)
ProcessCrash ==
  /\ Crash
  /\ UNCHANGED <<disk, acknowledged, doubtful>>

(* Each file keeps what was synced and perhaps more of what was written. *)
Torn(file, n) == [file EXCEPT !.records = SubSeq(@, 1, n), !.synced = n]
Remains(files) ==
  {[x \in DOMAIN files |-> Torn(files[x], cut[x])] :
   cut \in {c \in [DOMAIN files -> 0..Max({0} \cup {Len(files[x].records) : x \in DOMAIN files})] :
            \A x \in DOMAIN files : files[x].synced <= c[x] /\ c[x] <= Len(files[x].records)}}

MachineCrash ==
  /\ PowerFails
  /\ FailsWhenNew \/ (current # None /\ manifests[current].synced > 0)
  /\ Crash
  /\ logs' \in Remains(logs) /\ manifests' \in Remains(manifests)
  /\ UNCHANGED <<current, tables>>
  /\ acknowledged' = acknowledged \cap Recoverable'
  /\ doubtful' = {}

-------------------------------------------------------------------------------
Opening == NewDB \/ SetCurrentOfNewDB \/ RecoverVersion \/ RecoverLogFile \/ SkipLogFile
           \/ NewLog \/ OpenFails
Applying == WriteManifest \/ SyncManifest \/ SetCurrentFile \/ InstallVersion \/ LogAndApplyFails
Deleting == DeleteFile \/ AllDeleted
Writing ==
  \/ \E sync \in BOOLEAN : BeginWrite(sync)
  \/ AddRecord \/ SyncLog \/ InsertInto \/ WriteFails \/ SwitchMemTable
Compacting ==
  \/ StartFlush \/ BuildTable \/ BuildTableFails
  \/ \E inputs \in (SUBSET version) \ {{}} : OpenCompactionOutputFile(inputs)
  \/ InstallCompactionResults \/ CleanupCompaction
Reading == NewIterator \/ ReleaseIterator
Crashing == ProcessCrash \/ MachineCrash

Next == Opening \/ Applying \/ Deleting \/ Writing \/ Compacting \/ Reading \/ Crashing
Spec == Init /\ [][Next]_vars

-------------------------------------------------------------------------------
(* Properties. *)

TypeOK ==
  /\ current \in {None} \cup DOMAIN manifests
  /\ \A f \in {logs, manifests} : \A n \in DOMAIN f :
       f[n].synced \in 0..Len(f[n].records) /\ f[n].tail \in {"sound", "torn", "damaged"}
  /\ \A n \in DOMAIN tables : tables[n] \subseteq Entry
  /\ phase \in {"closed", "created", "logs", "save", "open"}
  /\ numbers \in Numbers
  /\ mem \subseteq Entry /\ imm \in {None} \cup SUBSET Entry
  /\ phase = "open" => numbers.logfile \in DOMAIN logs
  /\ {descriptor, obsolete, bg_error} \subseteq BOOLEAN
  /\ durable \subseteq Entry /\ acknowledged \subseteq Entry /\ doubtful \subseteq Entry

(* Every table that a reader, a compaction or the version needs is on the
   disk, whatever was deleted meanwhile. *)
NeededFilesKept ==
  /\ version \subseteq DOMAIN tables
  /\ pinned # None => pinned \subseteq DOMAIN tables
  /\ compaction # None => compaction.inputs \cup {compaction.output} \subseteq DOMAIN tables
  /\ edit # None => edit.record.add \subseteq DOMAIN tables

(* A database that was created can be opened, after any crash at any step:
   what a reader returns of its MANIFEST is complete, unless it reports damage
   in a MANIFEST that was written to after an append had failed. *)
CanBeOpened == current # None => Readable

(* DeleteObsoleteFiles takes no file that a reader, a compaction, a recovery
   or the version needs, whatever fails and whenever a crash comes; a database
   that was created can always be opened. *)
FilesAreKept == TypeOK /\ NeededFilesKept /\ CanBeOpened

(* What was acknowledged can be recovered from the files at every moment, so
   a process that dies loses nothing. *)
AcknowledgedRecoverable == acknowledged \subseteq Recoverable

(* A write made with sync survives power failures. *)
SyncedSurvives == durable \subseteq Recoverable /\ (phase = "open" => durable \subseteq Visible)

(* A write that was acknowledged survives when the process dies, and one made
   with sync survives every crash, and failing files: if no append to its log
   had failed before it, and as long as no recovery has passed over a log that
   it could not read and no record of the MANIFEST was written behind one that
   had failed. *)
WritesSurvive == counts.skips = 0 => SyncedSurvives /\ AcknowledgedRecoverable

(* What include/leveldb/options.h says of all writes: when just the process
   crashes none is lost, even without sync, so that a reader of the open
   database finds only what a recovery would find.  It does not hold for a
   write behind one that failed. *)
NoWriteLost == phase = "open" => Visible \subseteq Recoverable

(* Sequence numbers are not used again for something older: of two writes that
   a reader may find, the later one has the larger number, so it wins. *)
LaterWins ==
  \A d, e \in Recoverable \cup Visible : d.id < e.id => d.seq < e.seq

(* The refinement: flushes, compactions, the deletion of files, failing file
   operations and every step of a recovery leave the contents as they were. *)
Contents == IF phase = "open" THEN Visible ELSE Recoverable
Store == INSTANCE KVStore WITH
  Write <- Entry, contents <- Contents, durable <- durable, doubtful <- doubtful

(* The database keeps the promise of KVStore (include/leveldb/options.h): no
   flush, compaction, deletion of files, failing file operation or step of a
   recovery changes what is stored, and a crash takes only what it may; this
   under the same conditions as WritesSurvive. *)
ImplementsStore ==
  Store!Init /\ [][counts'.skips = 0 => Store!Next]_(Store!vars)

(* What the properties assume of the environment.  The first MANIFEST is not
   synced before CURRENT names it (FailsWhenNew); a reused MANIFEST or log may
   have an end that is not on the disk; and when a file fails, a log that is
   reused may have a torn tail, or one that was passed over before it. *)
Options ==
  /\ PowerFails => ~reuse_logs /\ ~FailsWhenNew
  /\ reuse_logs => MaxErrors = 0
===============================================================================
