--------------------------- MODULE StorageInvariants ---------------------------
(***************************************************************************)
(* The inductive invariants that the proofs about Storage rest on: DiskInv *)
(* and TailInv about files, ContentsInv about what is in them.              *)
(***************************************************************************)
EXTENDS Storage

(* What the lemmas take from the constants. *)
Given == StorageAssumption /\ NoneAssumption

-------------------------------------------------------------------------------
(* Types.  Entries are issued in order, so their identities and sequence       *)
(* numbers are bounded by the number of writes.                                *)
Issued == [id : 1..counts.writes, seq : 1..counts.writes]
EditRecord == [add : SUBSET Nat, del : SUBSET Nat, log : Nat \cup {None},
               next : Nat \cup {None}, sequence : Nat \cup {None}]
PartialState == [files : SUBSET Nat, log : Nat \cup {None}, next : Nat \cup {None},
                 sequence : Nat \cup {None}]
CompleteState == [files : SUBSET Nat, log : Nat, next : Nat, sequence : Nat]
Tails == {"sound", "torn", "damaged"}
FileOf(S) == [records : Seq(S), synced : Nat, tail : Tails]
Files(f, S) ==
  DOMAIN f \subseteq Nat /\ \A n \in DOMAIN f : f[n] \in FileOf(S) /\ f[n].synced <= Len(f[n].records)
Counts == [writes : Nat, crashes : Nat, errors : Nat, compactions : Nat, skips : Nat]

DiskTypes ==
  /\ current \in Nat \cup {None}
  /\ Files(manifests, EditRecord)
  /\ Files(logs, Issued)
  /\ DOMAIN tables \subseteq Nat /\ \A n \in DOMAIN tables : tables[n] \subseteq Issued
ProcessTypes ==
  /\ phase \in {"closed", "created", "logs", "save", "open"}
  /\ version \subseteq Nat /\ pending_outputs \subseteq Nat
  /\ numbers \in Numbers /\ numbers.sequence <= counts.writes
  /\ descriptor \in BOOLEAN /\ obsolete \in BOOLEAN /\ bg_error \in BOOLEAN
  /\ mem \subseteq Issued
  /\ imm # None => imm \subseteq Issued
  /\ recovering # None => recovering \in Recovery /\ recovering.max_sequence <= counts.writes
  /\ flush # None => flush \in Nat
  /\ compaction # None => compaction \in CompactionState
  /\ edit # None => edit \in Change /\ edit.record.sequence <= counts.writes
  /\ writing # None => writing \in Writer /\ writing.entry \in Issued
HistoryTypes ==
  /\ acknowledged \subseteq Issued /\ durable \subseteq Issued /\ doubtful \subseteq Issued
  /\ counts \in Counts /\ counts.writes <= MaxWrites
Types == DiskTypes /\ ProcessTypes /\ HistoryTypes

-------------------------------------------------------------------------------
(* What a recovery may read: the MANIFEST as it is, or a part of it with at    *)
(* least what was synced if the machine fails.                                 *)
CutsOf(file) ==
  {k \in 1..Len(file.records) : (PowerFails /\ file.synced <= k) \/ k = Len(file.records)}
ReadsOf(file) == {ReadManifest(SubSeq(file.records, 1, k)) : k \in CutsOf(file)}
Reads == ReadsOf(manifests[current])
Latest == ReadManifest(manifests[current].records)

(* Every state that may be read is one that can be opened. *)
GoodRead(s) ==
  /\ s \in CompleteState
  /\ s.files \subseteq DOMAIN tables /\ \A n \in s.files : n < s.next
  /\ s.log < s.next /\ current < s.next /\ s.next <= Latest.next
  /\ s.sequence <= counts.writes
ReadsInv ==
  current # None => /\ current \in DOMAIN manifests /\ manifests[current].records # <<>>
                    /\ \A s \in Reads : GoodRead(s)

-------------------------------------------------------------------------------
(* Control. *)
Running == phase \in {"logs", "save", "open"}

PhaseInv ==
  /\ phase \in {"closed", "created"} =>
       version = {} /\ mem = {} /\ recovering = None /\ edit = None
  /\ phase # "open" =>
       /\ imm = None /\ pending_outputs = {} /\ flush = None /\ compaction = None
       /\ ~obsolete /\ ~bg_error /\ writing = None /\ pinned = None
  /\ phase = "created" =>
       current = None /\ 1 \in DOMAIN manifests /\ manifests[1].records = <<NewDBEdit>>
  /\ (phase = "logs") = (recovering # None)
  /\ phase = "logs" => edit = None /\ descriptor = reuse_logs
  /\ phase = "save" => edit # None
  /\ phase = "open" => descriptor
  /\ obsolete => edit = None
UnbornInv ==
  current = None => /\ phase \in {"closed", "created"} /\ DOMAIN logs = {}
                    /\ durable = {} /\ acknowledged = {} /\ doubtful = {}

RunningInv ==
  Running =>
    /\ Latest.next <= numbers.next /\ numbers.manifest < numbers.next
    /\ version \subseteq DOMAIN tables /\ \A n \in version : n < numbers.next
    /\ numbers.manifest # current =>
         ~reuse_logs /\ (phase = "logs" \/ (phase = "save" /\ edit.step # "install"))
    /\ numbers.manifest = current =>
         reuse_logs \/ phase = "open" \/ (phase = "save" /\ edit.step = "install")

(* Logs are recovered in order; new files have larger numbers. *)
LogsInv ==
  phase = "logs" =>
    /\ recovering.logs \subseteq DOMAIN logs
    /\ \A k \in recovering.logs : numbers.log <= k
    /\ \A l \in DOMAIN logs \ recovering.logs :
         l < numbers.next /\ \A k \in recovering.logs : l < k
    /\ recovering.add \subseteq DOMAIN tables /\ \A n \in recovering.add : n < numbers.next
    /\ recovering.reused => /\ reuse_logs /\ recovering.logs = {}
                            /\ numbers.logfile \in DOMAIN logs /\ numbers.log <= numbers.logfile
                            /\ \A l \in DOMAIN logs : l <= numbers.logfile
                            /\ mem = ToSet(logs[numbers.logfile].records)
    /\ ~recovering.reused => mem = {}
    /\ ~recovering.save => reuse_logs /\ recovering.add = {}
LogfileInv ==
  phase \in {"save", "open"} =>
    /\ numbers.logfile \in DOMAIN logs
    /\ numbers.log <= numbers.logfile /\ numbers.logfile < numbers.next
    /\ \A l \in DOMAIN logs : l <= numbers.logfile
    /\ \A s \in Reads : s.log <= numbers.logfile

EditInv ==
  edit # None =>
    /\ phase = IF edit.by = "open" THEN "save" ELSE "open"
    /\ edit.fresh = (edit.by = "open" /\ ~reuse_logs)
    /\ edit.step = "current" => edit.fresh
    /\ edit.step # "write" => descriptor
    /\ edit.by = "open" => /\ edit.record.del = {} /\ edit.record.log = numbers.logfile
                           /\ mem = ToSet(logs[numbers.logfile].records)
    /\ edit.by = "flush" => flush # None /\ edit.record.add = {flush} /\ edit.record.del = {}
    /\ edit.by = "compaction" => /\ compaction # None /\ flush = None
                                 /\ edit.record.add = {compaction.output}
                                 /\ edit.record.del = compaction.inputs
RecordInv ==
  edit # None =>
    /\ edit.record.next <= numbers.next /\ edit.record.log < edit.record.next
    /\ numbers.log <= edit.record.log /\ edit.record.log <= numbers.logfile
    /\ edit.record.add \subseteq DOMAIN tables
    /\ \A n \in version \cup edit.record.add : n < edit.record.next
    /\ numbers.manifest < edit.record.next
    /\ edit.step = "write" => Latest.next <= edit.record.next

(* What a flush, a compaction and an iterator need. *)
FlushInv ==
  flush # None =>
    /\ imm # None /\ flush < numbers.next
    /\ edit = None \/ edit.by # "flush" => flush \notin version /\ \A s \in Reads : flush \notin s.files
CompactionInv ==
  compaction # None =>
    /\ compaction.inputs \subseteq version /\ compaction.output \in pending_outputs
    /\ compaction.output < numbers.next /\ compaction.output \in DOMAIN tables
    /\ compaction.output # flush
    /\ edit = None \/ edit.by # "compaction" =>
         compaction.output \notin version /\ \A s \in Reads : compaction.output \notin s.files
PinnedInv == pinned # None => pinned \subseteq DOMAIN tables

(* The MANIFEST and the version in memory agree, but for the record that is    *)
(* being written; after an error they may differ.                              *)
Committed == edit # None /\ (edit.step = "install" \/ (edit.step = "sync" /\ ~edit.fresh))
VersionInv ==
  Running /\ ~bg_error =>
    IF Committed THEN /\ Latest.files = (version \ edit.record.del) \cup edit.record.add
                      /\ Latest.log = edit.record.log
    ELSE Latest.files = version /\ Latest.log = numbers.log
SettledInv ==
  /\ edit # None /\ edit.step = "install" => Reads = {Latest}
  /\ phase = "open" /\ ~bg_error /\ (edit # None => edit.step # "sync") => Reads = {Latest}
(* A MANIFEST that CURRENT does not name yet. *)
FreshInv ==
  edit # None /\ edit.fresh /\ edit.step \in {"sync", "current"} =>
    /\ numbers.manifest \in DOMAIN manifests
    /\ manifests[numbers.manifest].records = <<Snapshot, edit.record>>
    /\ edit.step = "current" => manifests[numbers.manifest].synced = 2

FilesInv ==
  /\ PhaseInv /\ UnbornInv /\ RunningInv /\ LogsInv /\ LogfileInv /\ EditInv /\ RecordInv
  /\ FlushInv /\ CompactionInv /\ PinnedInv /\ VersionInv /\ SettledInv /\ FreshInv
DiskInv == Types /\ ReadsInv /\ FilesInv

-------------------------------------------------------------------------------
(* Where an append may have failed.  Behind a failed one in the log there is   *)
(* always a write in doubt other than the one under way; behind one in the     *)
(* MANIFEST the background error is set.                                       *)
ReusedTails ==
  reuse_logs => /\ \A n \in DOMAIN logs : logs[n].tail = "sound"
                /\ \A n \in DOMAIN manifests : manifests[n].tail = "sound"
ManifestTail == phase = "open" /\ ~bg_error => manifests[current].tail = "sound"
SavingTails ==
  phase = "save" =>
    /\ logs[numbers.logfile].tail = "sound"
    /\ edit.step # "write" => manifests[numbers.manifest].tail = "sound"
LogTail ==
  phase = "open" /\ logs[numbers.logfile].tail # "sound" =>
    \E e \in doubtful : writing = None \/ e # writing.entry
DoubtInv ==
  /\ writing # None => writing.entry \in doubtful
  /\ acknowledged \cap doubtful = {}
TailInv == ReusedTails /\ ManifestTail /\ SavingTails /\ LogTail /\ DoubtInv

-------------------------------------------------------------------------------
(* What a recovery finds when it reads a MANIFEST as s, and what of it is      *)
(* there also after the machine fails.                                         *)
Written(l) == ToSet(logs[l].records)
Lasting(l) ==
  ToSet(IF PowerFails THEN SubSeq(logs[l].records, 1, logs[l].synced) ELSE logs[l].records)
LogEntries(n) == UNION {Written(l) : l \in LogsFrom(n)}
LastingEntries(n) == UNION {Lasting(l) : l \in LogsFrom(n)}
Found(s) == EntriesOf(s.files) \cup LogEntries(s.log)
Kept(s) == EntriesOf(s.files) \cup LastingEntries(s.log)

(* Where the entries of new tables come from. *)
SourceInv ==
  /\ phase = "logs" => EntriesOf(recovering.add) \subseteq LogEntries(numbers.log)
  /\ phase = "save" => EntriesOf(edit.record.add) \subseteq Found(Latest) /\ (mem = {} \/ reuse_logs)
  /\ phase = "open" /\ edit # None =>
       /\ EntriesOf(edit.record.add) = IF edit.by = "flush" THEN imm ELSE EntriesOf(edit.record.del)
       /\ edit.record.log = IF edit.by = "flush" THEN numbers.logfile ELSE numbers.log
       /\ Committed /\ counts.skips = 0 => edit.record.add \subseteq Latest.files

-------------------------------------------------------------------------------
(* Sequence numbers. *)
UpTo(n, entries) == \A e \in entries : e.seq <= n
(* What may be found or read, now or later. *)
FoundByAny == UNION {Found(s) : s \in Reads}
Logged == IF phase = "open" THEN LogEntries(numbers.log) ELSE {}
UnderWay == IF writing = None THEN {} ELSE {writing.entry}
Known == IF current = None THEN {} ELSE FoundByAny \cup Visible \cup Logged \cup UnderWay
OrderInv == \A d, e \in Known : d.id < e.id => d.seq < e.seq
ReadSequences ==
  current # None =>
    \A s \in Reads : s.sequence <= Latest.sequence /\ UpTo(s.sequence, EntriesOf(s.files))
RecoverySequences ==
  /\ phase = "logs" =>
       /\ UpTo(recovering.max_sequence, EntriesOf(recovering.add) \cup mem)
       /\ reuse_logs => \A l \in LogsFrom(numbers.log) \ recovering.logs :
                          UpTo(recovering.max_sequence, Written(l))
  /\ phase = "save" => UpTo(numbers.sequence, mem)
EditSequences ==
  edit # None => /\ edit.record.sequence <= numbers.sequence
                 /\ Latest.sequence <= edit.record.sequence
                 /\ UpTo(edit.record.sequence, EntriesOf(version \cup edit.record.add))
OpenSequences ==
  phase = "open" =>
    /\ UpTo(numbers.sequence, Visible)
    /\ \A e \in LogEntries(numbers.log) \cup UNION {LogEntries(s.log) : s \in Reads} :
         e.seq <= numbers.sequence \/ (writing # None /\ e = writing.entry)
WriterSequence == writing # None => writing.entry.seq = numbers.sequence + 1
SequenceInv ==
  /\ ReadSequences /\ RecoverySequences /\ EditSequences /\ OpenSequences /\ WriterSequence
  /\ Running => Latest.sequence <= numbers.sequence
AgesInv == SequenceInv /\ OrderInv

-------------------------------------------------------------------------------
(* What is stored, if no log was passed over and no record of a MANIFEST was   *)
(* written behind one that failed.  What is in doubt a reader of the open      *)
(* database may find and a recovery not.                                       *)
PromiseInv ==
  /\ \A s \in Reads : durable \subseteq Kept(s) /\ Found(s) \subseteq Contents \cup doubtful
  /\ durable \subseteq acknowledged /\ acknowledged \subseteq Contents
RecoveredInv ==
  /\ phase = "logs" =>
       \A l \in LogsFrom(numbers.log) \ recovering.logs :
         (recovering.reused /\ l = numbers.logfile) \/ Written(l) \subseteq EntriesOf(recovering.add)
  /\ phase = "save" =>
       \A l \in LogsFrom(numbers.log) :
         l = numbers.logfile \/ Written(l) \subseteq EntriesOf(edit.record.add)
ServedInv ==
  phase = "open" =>
    /\ \A s \in Reads : EntriesOf(version) \subseteq EntriesOf(s.files)
    /\ mem \ doubtful \subseteq Written(numbers.logfile)
    /\ durable \cap mem \subseteq Lasting(numbers.logfile)
    /\ imm # None => /\ imm \ doubtful \subseteq LogEntries(numbers.log) \cap Found(Latest)
                     /\ durable \cap imm \subseteq LastingEntries(numbers.log)
    /\ LogEntries(numbers.log) \subseteq Visible \cup doubtful
SoundLog == logs[numbers.logfile].tail = "sound"
WritingInv ==
  writing # None =>
    /\ writing.entry \in doubtful /\ writing.entry \notin durable
    /\ writing.step # "log" /\ SoundLog => writing.entry \in Written(numbers.logfile)
    /\ writing.step = "insert" /\ writing.sync /\ SoundLog =>
         writing.entry \in Lasting(numbers.logfile)
StoreInv ==
  current # None /\ counts.skips = 0 => PromiseInv /\ RecoveredInv /\ ServedInv /\ WritingInv
ContentsInv == SourceInv /\ AgesInv /\ StoreInv

(* A step of the abstract store, or none. *)
StoreStep == [counts'.skips = 0 => Store!Next]_(Store!vars)
===============================================================================
