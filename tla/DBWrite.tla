------------------------------- MODULE DBWrite --------------------------------
(***************************************************************************)
(* The threads of an open LevelDB database (db/db_impl.cc): writers that   *)
(* queue up and let the first of them write for a whole group, the switch  *)
(* to a new memtable when the current one is full, callers that wait for a *)
(* flush or a manual compaction, the background thread that does both, and *)
(* the destructor.  One mutex protects all of it, but the leader of a      *)
(* group writes the log without it, and so does the background thread for  *)
(* its files.  Every action is what a thread does between taking the mutex *)
(* and giving it up; mutex is not None only between actions of a thread    *)
(* that keeps it.                                                          *)
(***************************************************************************)
EXTENDS Integers, Sequences, SequencesExt, FiniteSets, FiniteSetsExt

CONSTANTS
  Threads,          \* the callers
  Ops,              \* what they call, a subset of AllOps
  Sizes,            \* numbers of entries of a batch
  MaxCalls,         \* bound: calls in a behaviour
  Faults,           \* what may fail, a subset of AllFaults
  MaxFaults,        \* bound: failures in a behaviour
  MaxRounds,        \* bound: compactions that one manual compaction takes
  write_buffer_size,\* entries of a memtable
  kMaxGroup,        \* entries of a group that a large batch starts
  kSmall,           \* entries of a small batch, and what others may add to it
  kL0_CompactionTrigger, kL0_SlowdownWritesTrigger, kL0_StopWritesTrigger,
  None              \* nothing, nobody

AllOps == {"write", "syncWrite", "flush", "compact", "close"}
AllFaults == {"append", "sync", "newLog", "table", "manifest", "compaction"}

ASSUME DBWriteAssumption ==
  /\ Ops \subseteq AllOps /\ Faults \subseteq AllFaults
  /\ Sizes \subseteq Nat \ {0}
  /\ {MaxCalls, MaxFaults, MaxRounds, write_buffer_size, kMaxGroup, kSmall} \subseteq Nat
  /\ kL0_CompactionTrigger \in Nat \ {0}
  /\ kL0_SlowdownWritesTrigger \in Nat /\ kL0_StopWritesTrigger \in Nat
  /\ kL0_CompactionTrigger <= kL0_StopWritesTrigger
  /\ None \notin Threads

VARIABLES
  pc,            \* where a thread is
  local,         \* the parameters and local variables of its last call
  waiting,       \* the condition variable it waits for: "no", "own" or "background"
  mutex,         \* the thread that keeps mutex_ for its next action, or None
  writers,       \* writers_: the queue
  done,          \* what the leader of a group left for its followers
  group,         \* the writers whose batches are being written
  last_sequence, \* VersionSet::last_sequence_
  mem,           \* entries of mem_
  imm,           \* the entries of imm_, in a set of at most one
  tables,        \* entries of the table files
  unsynced,      \* ids in the current log file that are not yet on the disk
  durable,       \* ids that a power failure does not take
  level0,        \* number of files at level 0
  bg_error,      \* bg_error_ is set
  manual,        \* manual_compaction_: the thread that asked for it, or None
  bg,            \* the background thread
  shutting_down, \* shutting_down_
  acked,         \* entries of the writes that returned OK
  calls,         \* number of calls so far
  faults         \* the failures so far

vars == <<pc, local, waiting, mutex, writers, done, group, last_sequence, mem, imm,
          tables, unsynced, durable, level0, bg_error, manual, bg, shutting_down,
          acked, calls, faults>>
store == <<mem, imm, tables, unsynced, durable, level0>>
queue == <<writers, done, group, last_sequence>>

Entry == [id : 1..MaxCalls, n : Sizes, seq : Nat]
Ids(entries) == {e.id : e \in entries}
Usage(entries) == MapThenSumSet(LAMBDA e : e.n, entries)

Idle == [op |-> "none", id |-> 0, n |-> 0, force |-> FALSE, delay |-> FALSE,
         left |-> 0, result |-> "none"]
Resting == [at |-> "idle", nested |-> FALSE, manual |-> FALSE, inputs |-> 0]

Places ==
  {"idle", "queued", "leading", "sleeping", "logging", "logged", "flushing", "compacting",
   "closing", "closed"}
Local ==
  [op : AllOps \cup {"none"}, id : 0..MaxCalls, n : Sizes \cup {0}, force : BOOLEAN,
   delay : BOOLEAN, left : -1..MaxRounds, result : {"none", "ok", "error", "syncError"}]
BgState ==
  [at : {"idle", "scheduled", "building", "installing", "working", "committing", "dead"},
   nested : BOOLEAN, manual : BOOLEAN, inputs : Nat]

ThreadsOK ==
  /\ pc \in [Threads -> Places] /\ local \in [Threads -> Local]
  /\ waiting \in [Threads -> {"no", "own", "background"}]
  /\ mutex \in Threads \cup {None} /\ manual \in Threads \cup {None}
QueueOK ==
  /\ writers \in Seq(Threads) /\ group \in Seq(Threads)
  /\ done \in [Threads -> {"no", "ok", "error"}]
  /\ last_sequence \in Nat
StoreOK ==
  /\ mem \subseteq Entry /\ imm \subseteq SUBSET Entry /\ tables \subseteq Entry
  /\ acked \subseteq Entry
  /\ unsynced \subseteq 1..MaxCalls /\ durable \subseteq 1..MaxCalls
StateOK ==
  /\ level0 \in Nat /\ bg \in BgState
  /\ bg_error \in BOOLEAN /\ shutting_down \in BOOLEAN
  /\ calls \in 0..MaxCalls
  /\ faults \in Seq(Faults) /\ Len(faults) <= MaxFaults
TypeOK == ThreadsOK /\ QueueOK /\ StoreOK /\ StateOK

Init ==
  /\ pc = [t \in Threads |-> "idle"] /\ local = [t \in Threads |-> Idle]
  /\ waiting = [t \in Threads |-> "no"] /\ mutex = None
  /\ writers = <<>> /\ done = [t \in Threads |-> "no"] /\ group = <<>>
  /\ last_sequence = 0
  /\ mem = {} /\ imm = {} /\ tables = {} /\ unsynced = {} /\ durable = {}
  /\ level0 = 0 /\ bg_error = FALSE /\ manual = None /\ bg = Resting
  /\ shutting_down = FALSE
  /\ acked = {} /\ calls = 0 /\ faults = <<>>

Fault(kind) ==
  kind \in Faults /\ Len(faults) < MaxFaults /\ faults' = Append(faults, kind)

(* There is a process. *)
Alive == bg.at # "dead"

(* The thread runs, and has the mutex or can take it. *)
Runs(t, place) == Alive /\ pc[t] = place /\ waiting[t] = "no" /\ mutex \in {None, t}
Go(t, place) == pc' = [pc EXCEPT ![t] = place]
Wait(t, signal) == waiting' = [waiting EXCEPT ![t] = signal]

(* background_work_finished_signal_.SignalAll() *)
Signalled == [t \in Threads |-> IF waiting[t] = "background" THEN "no" ELSE waiting[t]]

-------------------------------------------------------------------------------
(* Scheduling the background thread. *)

(* What MaybeScheduleCompaction asks, of the state it finds. *)
WorkToDo ==
  /\ ~shutting_down' /\ ~bg_error'
  /\ imm' # {} \/ manual' # None \/ level0' >= kL0_CompactionTrigger

MaybeScheduleCompaction ==
  bg' = IF bg.at = "idle" /\ WorkToDo THEN [Resting EXCEPT !.at = "scheduled"] ELSE bg

-------------------------------------------------------------------------------
(* DBImpl::Write. *)

(* A thread calls: it enters the queue, and goes on if it is the first. *)
Write(t, op, n) ==
  /\ Runs(t, "idle") /\ mutex = None
  /\ op \in Ops \cap {"write", "syncWrite", "flush"}
  /\ calls < MaxCalls /\ calls' = calls + 1
  /\ ~shutting_down
  /\ local' = [local EXCEPT ![t] =
       [Idle EXCEPT !.op = op, !.id = calls', !.n = IF op = "flush" THEN 0 ELSE n,
                    !.force = (op = "flush"), !.delay = (op # "flush")]]
  /\ writers' = Append(writers, t)
  /\ done' = [done EXCEPT ![t] = "no"]
  /\ IF writers = <<>>
     THEN Go(t, "leading") /\ mutex' = t /\ UNCHANGED waiting
     ELSE Go(t, "queued") /\ Wait(t, "own") /\ UNCHANGED mutex
  /\ UNCHANGED <<group, last_sequence, store, bg_error, manual, bg, shutting_down,
                 acked, faults>>

(* TEST_CompactMemTable waits for the flush it asked for; other calls end. *)
Return(t, status) ==
  /\ Go(t, IF local[t].op = "flush" /\ status = "ok" THEN "flushing" ELSE "idle")
  /\ local' = [local EXCEPT ![t].result = status]

(* A writer was signalled: its leader has written for it, or it leads. *)
Wake(t) ==
  /\ Runs(t, "queued")
  /\ \/ done[t] # "no" /\ Return(t, done[t]) /\ UNCHANGED <<waiting, mutex>>
     \/ /\ done[t] = "no" /\ Head(writers) = t
        /\ Go(t, "leading") /\ mutex' = t /\ UNCHANGED <<waiting, local>>
     \/ /\ done[t] = "no" /\ Head(writers) # t
        /\ Wait(t, "own") /\ UNCHANGED <<pc, mutex, local>>
  /\ UNCHANGED <<queue, store, bg_error, manual, bg, shutting_down, acked, calls, faults>>

(* A slip to rule out: nobody wakes the writer behind the group. *)
CompleteSilently(t, members, status, sleepers) ==
  /\ writers' = SubSeq(writers, Len(members) + 1, Len(writers))
  /\ done' = [u \in Threads |-> IF u \in Range(members) \ {t} THEN status ELSE done[u]]
  /\ waiting' = [u \in Threads |-> IF u \in Range(members) THEN "no" ELSE sleepers[u]]
  /\ group' = <<>>
  /\ Return(t, status)
  /\ mutex' = None

(* The leader takes its group out of the queue, tells the others the result
   and wakes the next writer. *)
Complete(t, members, status, sleepers) ==
  LET rest  == SubSeq(writers, Len(members) + 1, Len(writers))
      woken == (Range(members) \ {t}) \cup (IF rest = <<>> THEN {} ELSE {Head(rest)})
  IN /\ writers' = rest
     /\ done' = [u \in Threads |-> IF u \in Range(members) \ {t} THEN status ELSE done[u]]
     /\ waiting' = [u \in Threads |-> IF u \in woken THEN "no" ELSE sleepers[u]]
     /\ group' = <<>>
     /\ Return(t, status)
     /\ mutex' = None

(* MakeRoomForWrite, one action for each branch of its loop. *)
Full(t) == local[t].force \/ Usage(mem) > write_buffer_size
Delayed(t) == local[t].delay /\ level0 >= kL0_SlowdownWritesTrigger
HasRoom(t) == ~bg_error /\ ~Delayed(t) /\ ~Full(t)
Crowded == imm # {} \/ level0 >= kL0_StopWritesTrigger

YieldError(t) ==
  /\ Runs(t, "leading") /\ bg_error
  /\ Complete(t, <<t>>, "error", waiting)
  /\ UNCHANGED <<last_sequence, store, bg_error, manual, bg, shutting_down, acked,
                 calls, faults>>

Delay(t) ==
  /\ Runs(t, "leading") /\ ~bg_error /\ Delayed(t)
  /\ Go(t, "sleeping") /\ mutex' = None
  /\ local' = [local EXCEPT ![t].delay = FALSE]
  /\ UNCHANGED <<waiting, queue, store, bg_error, manual, bg, shutting_down, acked,
                 calls, faults>>

Awaken(t) ==
  /\ Runs(t, "sleeping")
  /\ Go(t, "leading") /\ mutex' = t
  /\ UNCHANGED <<local, waiting, queue, store, bg_error, manual, bg, shutting_down,
                 acked, calls, faults>>

WaitForRoom(t) ==
  /\ Runs(t, "leading") /\ ~bg_error /\ ~Delayed(t) /\ Full(t) /\ Crowded
  /\ Wait(t, "background") /\ mutex' = None
  /\ UNCHANGED <<pc, local, queue, store, bg_error, manual, bg, shutting_down, acked,
                 calls, faults>>

(* A slip to rule out: a memtable that is still being flushed is replaced. *)
SwitchMemTableTwice(t) ==
  /\ Runs(t, "leading") /\ ~bg_error /\ ~Delayed(t) /\ Full(t)
  /\ level0 < kL0_StopWritesTrigger
  /\ imm' = {mem} /\ mem' = {} /\ unsynced' = {}
  /\ local' = [local EXCEPT ![t].force = FALSE]
  /\ mutex' = t
  /\ UNCHANGED <<pc, waiting, queue, tables, durable, level0, bg_error, manual,
                 shutting_down, acked, calls, faults>>
  /\ MaybeScheduleCompaction

(* A new log and a new memtable; the old log is closed without a sync. *)
SwitchMemTable(t) ==
  /\ Runs(t, "leading") /\ ~bg_error /\ ~Delayed(t) /\ Full(t) /\ ~Crowded
  /\ imm' = {mem} /\ mem' = {} /\ unsynced' = {}
  /\ local' = [local EXCEPT ![t].force = FALSE]
  /\ mutex' = t
  /\ UNCHANGED <<pc, waiting, queue, tables, durable, level0, bg_error, manual,
                 shutting_down, acked, calls, faults>>
  /\ MaybeScheduleCompaction

NewLogFails(t) ==
  /\ Runs(t, "leading") /\ ~bg_error /\ ~Delayed(t) /\ Full(t) /\ ~Crowded
  /\ Fault("newLog")
  /\ Complete(t, <<t>>, "error", waiting)
  /\ UNCHANGED <<last_sequence, store, bg_error, manual, bg, shutting_down, acked, calls>>

(* A flush is the end of the matter; a batch takes those behind it along. *)
NothingToWrite(t) ==
  /\ Runs(t, "leading") /\ HasRoom(t) /\ local[t].op = "flush"
  /\ Complete(t, <<t>>, "ok", waiting)
  /\ UNCHANGED <<last_sequence, store, bg_error, manual, bg, shutting_down, acked,
                 calls, faults>>

(* The sums of the first numbers of a sequence. *)
Sums(numbers) ==
  LET upTo[i \in 0..Len(numbers)] == IF i = 0 THEN 0 ELSE upTo[i - 1] + numbers[i]
  IN upTo

(* How many entries the batches of these threads have, up to each of them. *)
SizesOf(threads) == Sums([i \in DOMAIN threads |-> local[threads[i]].n])

GroupSize(k) == SizesOf(writers)[k]
GroupLimit ==
  LET n == local[Head(writers)].n IN IF n <= kSmall THEN n + kSmall ELSE kMaxGroup

(* The first k writers may be written together. *)
MayGroup(k) ==
  \A i \in 2..k :
    /\ local[writers[i]].op = "syncWrite" => local[Head(writers)].op = "syncWrite"
    /\ local[writers[i]].op # "flush" => GroupSize(i) <= GroupLimit

(* A slip to rule out: a sync write rides along with one that is not. *)
BuildBatchGroupUnsynced ==
  SubSeq(writers, 1, Max({k \in 1..Len(writers) :
    \A i \in 2..k : local[writers[i]].op # "flush" => GroupSize(i) <= GroupLimit}))

BuildBatchGroup ==
  SubSeq(writers, 1, Max({k \in 1..Len(writers) : MayGroup(k)}))

(* A slip to rule out: the group leaves the queue before it is written. *)
StartLoggingEarly(t) ==
  /\ Runs(t, "leading") /\ HasRoom(t) /\ local[t].op # "flush"
  /\ group' = BuildBatchGroup
  /\ writers' = SubSeq(writers, Len(group') + 1, Len(writers))
  /\ waiting' = [u \in Threads |-> IF writers' # <<>> /\ u = Head(writers') THEN "no" ELSE waiting[u]]
  /\ Go(t, "logging") /\ mutex' = None
  /\ UNCHANGED <<local, done, last_sequence, store, bg_error, manual, bg,
                 shutting_down, acked, calls, faults>>

StartLogging(t) ==
  /\ Runs(t, "leading") /\ HasRoom(t) /\ local[t].op # "flush"
  /\ group' = BuildBatchGroup
  /\ Go(t, "logging") /\ mutex' = None
  /\ UNCHANGED <<local, waiting, writers, done, last_sequence, store, bg_error, manual,
                 bg, shutting_down, acked, calls, faults>>

(* The batches of the group, one after the other, from the next sequence
   number on. *)
GroupEntries ==
  {[id  |-> local[group[i]].id,
    n   |-> local[group[i]].n,
    seq |-> last_sequence + 1 + SizesOf(group)[i - 1]] :
   i \in {j \in DOMAIN group : local[group[j]].op # "flush"}}

(* Without the mutex: the log, a sync if the leader wants one, the memtable. *)
AddRecord(t) ==
  /\ Alive /\ pc[t] = "logging"
  /\ mem' = mem \cup GroupEntries
  /\ IF local[t].op = "syncWrite"
     THEN durable' = durable \cup unsynced \cup Ids(GroupEntries) /\ unsynced' = {}
     ELSE unsynced' = unsynced \cup Ids(GroupEntries) /\ UNCHANGED durable
  /\ local' = [local EXCEPT ![t].result = "ok"]
  /\ Go(t, "logged")
  /\ UNCHANGED <<waiting, mutex, queue, imm, tables, level0, bg_error, manual, bg,
                 shutting_down, acked, calls, faults>>

AddRecordFails(t) ==
  /\ Alive /\ pc[t] = "logging"
  /\ \/ Fault("append") /\ local' = [local EXCEPT ![t].result = "error"]
     \/ /\ local[t].op = "syncWrite" /\ Fault("sync")
        /\ local' = [local EXCEPT ![t].result = "syncError"]
  /\ Go(t, "logged")
  /\ UNCHANGED <<waiting, mutex, queue, store, bg_error, manual, bg, shutting_down,
                 acked, calls>>

(* A slip to rule out: a failed sync is taken for any other failure. *)
FinishWriteForgiving(t) ==
  /\ Runs(t, "logged")
  /\ last_sequence' = last_sequence + SizesOf(group)[Len(group)]
  /\ IF local[t].result = "ok"
     THEN acked' = acked \cup GroupEntries /\ Complete(t, group, "ok", waiting)
     ELSE UNCHANGED acked /\ Complete(t, group, "error", waiting)
  /\ UNCHANGED <<store, bg_error, manual, bg, shutting_down, calls, faults>>

(* With the mutex again.  After a failed sync no write may succeed:
   RecordBackgroundError. *)
FinishWrite(t) ==
  /\ Runs(t, "logged")
  /\ bg_error' = (bg_error \/ local[t].result = "syncError")
  /\ last_sequence' = last_sequence + SizesOf(group)[Len(group)]
  /\ IF local[t].result = "ok"
     THEN acked' = acked \cup GroupEntries /\ Complete(t, group, "ok", waiting)
     ELSE UNCHANGED acked /\ Complete(t, group, "error", IF bg_error' # bg_error THEN Signalled ELSE waiting)
  /\ UNCHANGED <<store, manual, bg, shutting_down, calls, faults>>

(* TEST_CompactMemTable, after its Write. *)
CompactMemTableWaits(t) ==
  /\ Runs(t, "flushing") /\ imm # {} /\ ~bg_error
  /\ Wait(t, "background")
  /\ UNCHANGED <<pc, local, mutex, queue, store, bg_error, manual, bg, shutting_down,
                 acked, calls, faults>>

CompactMemTableReturns(t) ==
  /\ Runs(t, "flushing") /\ (imm = {} \/ bg_error)
  /\ Go(t, "idle")
  /\ local' = [local EXCEPT ![t].result = IF imm = {} THEN "ok" ELSE "error"]
  /\ UNCHANGED <<waiting, mutex, queue, store, bg_error, manual, bg, shutting_down,
                 acked, calls, faults>>

-------------------------------------------------------------------------------
(* TEST_CompactRange: a manual compaction, done in as many rounds as its range
   takes.  local.left is the range that is left, -1 when the thread's own
   manual.done is set. *)

CompactRange(t) ==
  /\ Runs(t, "idle") /\ mutex = None /\ "compact" \in Ops
  /\ calls < MaxCalls /\ calls' = calls + 1
  /\ ~shutting_down
  /\ \E rounds \in 0..MaxRounds :
       local' = [local EXCEPT ![t] = [Idle EXCEPT !.op = "compact", !.left = rounds]]
  /\ Go(t, "compacting")
  /\ UNCHANGED <<waiting, mutex, queue, store, bg_error, manual, bg, shutting_down,
                 acked, faults>>

GoesOn(t) == local[t].left >= 0 /\ ~shutting_down /\ ~bg_error

(* The manual compaction is handed over if there is none, and waited for. *)
RequestCompaction(t) ==
  /\ Runs(t, "compacting") /\ GoesOn(t)
  /\ manual' = IF manual = None THEN t ELSE manual
  /\ Wait(t, "background")
  /\ UNCHANGED <<pc, local, mutex, queue, store, bg_error, shutting_down, acked, calls,
                 faults>>
  /\ IF manual = None THEN MaybeScheduleCompaction ELSE UNCHANGED bg

(* The call returns, and takes back what it handed over. *)
CompactRangeReturns(t) ==
  /\ Runs(t, "compacting") /\ ~GoesOn(t)
  /\ manual' = IF manual = t THEN None ELSE manual
  /\ Go(t, "idle")
  /\ local' = [local EXCEPT ![t].left = 0]
  /\ UNCHANGED <<waiting, mutex, queue, store, bg_error, bg, shutting_down, acked,
                 calls, faults>>

-------------------------------------------------------------------------------
(* ~DBImpl: the caller makes sure that no other call is under way. *)

Close(t) ==
  /\ Alive /\ "close" \in Ops /\ ~shutting_down
  /\ \A u \in Threads : pc[u] = "idle"
  /\ shutting_down' = TRUE
  /\ Go(t, "closing")
  /\ UNCHANGED <<local, waiting, mutex, queue, store, bg_error, manual, bg, acked,
                 calls, faults>>

CloseGoesOn(t) ==
  /\ Runs(t, "closing")
  /\ IF bg.at = "idle"
     THEN Go(t, "closed") /\ UNCHANGED waiting
     ELSE Wait(t, "background") /\ UNCHANGED pc
  /\ UNCHANGED <<local, mutex, queue, store, bg_error, manual, bg, shutting_down,
                 acked, calls, faults>>

-------------------------------------------------------------------------------
(* The background thread. *)

BgRuns(place) == bg.at = place /\ mutex = None
BgLeaves == <<pc, mutex, queue, mem, unsynced, shutting_down, acked, calls>>

(* The end of BackgroundCall: perhaps the next round. *)
EndBackgroundCall ==
  /\ bg' = IF WorkToDo THEN [Resting EXCEPT !.at = "scheduled"] ELSE Resting
  /\ waiting' = Signalled

(* The memtable is flushed first; otherwise a compaction, of the range that
   a caller asked for or one that PickCompaction finds.  A trivial move only
   changes the version. *)
BackgroundCall ==
  /\ BgRuns("scheduled")
  /\ UNCHANGED <<BgLeaves, imm, tables, durable, level0, bg_error, faults>>
  /\ \/ /\ shutting_down \/ bg_error
        /\ UNCHANGED <<local, manual>>
        /\ EndBackgroundCall
     \/ /\ ~shutting_down /\ ~bg_error /\ imm # {}
        /\ bg' = [bg EXCEPT !.at = "building"]
        /\ UNCHANGED <<local, manual, waiting>>
     \/ /\ ~shutting_down /\ ~bg_error /\ imm = {} /\ manual # None
        /\ IF local[manual].left = 0
           THEN /\ local' = [local EXCEPT ![manual].left = -1]
                /\ manual' = None
                /\ EndBackgroundCall
           ELSE /\ \E n \in 0..level0 :
                     bg' = [bg EXCEPT !.at = "working", !.manual = TRUE, !.inputs = n]
                /\ UNCHANGED <<local, manual, waiting>>
     \/ /\ ~shutting_down /\ ~bg_error /\ imm = {} /\ manual = None
        /\ UNCHANGED <<local, manual>>
        /\ IF level0 < kL0_CompactionTrigger
           THEN EndBackgroundCall
           ELSE /\ \E n \in 1..level0, trivial \in BOOLEAN :
                     bg' = [bg EXCEPT !.at = IF trivial THEN "committing" ELSE "working",
                                      !.inputs = n]
                /\ UNCHANGED waiting

(* CompactMemTable returns to BackgroundCall, or into the compaction that
   made way for it. *)
FlushReturns ==
  IF bg.nested
  THEN bg' = [bg EXCEPT !.at = "working", !.nested = FALSE] /\ waiting' = Signalled
  ELSE EndBackgroundCall

FlushFails ==
  /\ bg_error' = TRUE
  /\ UNCHANGED <<BgLeaves, local, imm, tables, durable, level0, manual>>
  /\ FlushReturns

(* The table file is there; the manifest comes next, unless the database is
   being closed. *)
TableBuilt ==
  /\ BgRuns("building") /\ ~shutting_down
  /\ bg' = [bg EXCEPT !.at = "installing"]
  /\ UNCHANGED <<BgLeaves, local, waiting, imm, tables, durable, level0, bg_error,
                 manual, faults>>

TableNotBuilt ==
  /\ BgRuns("building")
  /\ IF shutting_down THEN UNCHANGED faults ELSE Fault("table")
  /\ FlushFails

(* LogAndApply is through: the table replaces the memtable, at level 0 or
   deeper; an empty memtable leaves no table. *)
TableInstalled ==
  /\ BgRuns("installing")
  /\ tables' = tables \cup UNION imm /\ durable' = durable \cup Ids(UNION imm)
  /\ imm' = {}
  /\ level0' \in IF UNION imm = {} THEN {level0} ELSE {level0, level0 + 1}
  /\ UNCHANGED <<BgLeaves, local, bg_error, manual, faults>>
  /\ FlushReturns

TableNotInstalled ==
  /\ BgRuns("installing") /\ Fault("manifest") /\ FlushFails

(* DoCompactionWork looks for a memtable to flush between two keys. *)
MakeWay ==
  /\ BgRuns("working") /\ imm # {} /\ ~shutting_down
  /\ bg' = [bg EXCEPT !.at = "building", !.nested = TRUE]
  /\ UNCHANGED <<BgLeaves, local, waiting, imm, tables, durable, level0, bg_error,
                 manual, faults>>

CompactionWorked ==
  /\ BgRuns("working") /\ ~shutting_down
  /\ bg' = [bg EXCEPT !.at = "committing"]
  /\ UNCHANGED <<BgLeaves, local, waiting, imm, tables, durable, level0, bg_error,
                 manual, faults>>

(* The end of BackgroundCompaction.  A manual compaction that was called off
   in the meantime is no longer there: its null pointer is followed. *)
EndCompaction(failed) ==
  /\ UNCHANGED <<BgLeaves, imm, tables, durable>>
  /\ bg_error' = (bg_error \/ failed)
  /\ IF bg.manual /\ manual = None
     THEN bg' = [bg EXCEPT !.at = "dead"] /\ UNCHANGED <<local, waiting, manual>>
     ELSE /\ local' = IF bg.manual
                      THEN [local EXCEPT ![manual].left = IF failed THEN -1 ELSE @ - 1]
                      ELSE local
          /\ manual' = IF bg.manual THEN None ELSE manual
          /\ EndBackgroundCall

CompactionFails ==
  /\ BgRuns("working")
  /\ IF shutting_down THEN UNCHANGED faults ELSE Fault("compaction")
  /\ UNCHANGED level0
  /\ EndCompaction(TRUE)

CompactionCommitted ==
  /\ BgRuns("committing")
  /\ level0' = level0 - bg.inputs
  /\ UNCHANGED faults
  /\ EndCompaction(FALSE)

CompactionNotCommitted ==
  /\ BgRuns("committing") /\ Fault("manifest")
  /\ UNCHANGED level0
  /\ EndCompaction(TRUE)

-------------------------------------------------------------------------------
Called(t) ==
  \/ \E op \in Ops, n \in Sizes : Write(t, op, n)
  \/ CompactRange(t)
  \/ Close(t)

Step(t) ==
  \/ Wake(t) \/ YieldError(t) \/ Delay(t) \/ Awaken(t) \/ WaitForRoom(t)
  \/ SwitchMemTable(t) \/ NewLogFails(t) \/ NothingToWrite(t) \/ StartLogging(t)
  \/ AddRecord(t) \/ AddRecordFails(t) \/ FinishWrite(t)
  \/ CompactMemTableWaits(t) \/ CompactMemTableReturns(t)
  \/ RequestCompaction(t) \/ CompactRangeReturns(t)
  \/ CloseGoesOn(t)

Background ==
  \/ BackgroundCall
  \/ TableBuilt \/ TableNotBuilt \/ TableInstalled \/ TableNotInstalled
  \/ MakeWay \/ CompactionWorked \/ CompactionFails
  \/ CompactionCommitted \/ CompactionNotCommitted

Next == (\E t \in Threads : Called(t) \/ Step(t)) \/ Background

Fairness == (\A t \in Threads : WF_vars(Step(t))) /\ WF_vars(Background)
Spec == Init /\ [][Next]_vars
FairSpec == Spec /\ Fairness

-------------------------------------------------------------------------------
(* Properties. *)

(* A write that was acknowledged is in the memtable, in the one being flushed
   or in a table at every moment, whatever fails. *)
AckedVisible ==
  acked \subseteq mem \cup tables \cup UNION imm

(* A sync write that was acknowledged is on the disk, also when another
   thread wrote it for its group. *)
SyncedDurable ==
  \A t \in Threads :
    pc[t] = "idle" /\ local[t].op = "syncWrite" /\ local[t].result = "ok" =>
      local[t].id \in durable

(* At most one thread writes the log and the memtable, and it leads the
   queue; no batch is written by two groups. *)
OneLogger ==
  /\ \A t \in Threads : pc[t] \in {"logging", "logged"} =>
       writers # <<>> /\ Head(writers) = t /\ IsPrefix(group, writers) /\ Head(group) = t
  /\ \A d, e \in mem \cup acked : d.id = e.id => d = e

(* Writes take effect in the order in which they entered the queue, each with
   sequence numbers of its own. *)
QueueOrder ==
  \A d, e \in acked : d.id < e.id => d.seq + d.n <= e.seq

(* Nothing that a reader may see is newer than the last sequence number it
   reads at; nothing half written is visible. *)
GroupIsAtomic ==
  /\ \A e \in acked : e.seq + e.n - 1 <= last_sequence
  /\ \A e \in mem \ acked : e.seq > last_sequence

(* The database is gone only when the background thread is done with it. *)
ClosedAtRest == (\E t \in Threads : pc[t] = "closed") => bg.at = "idle"

(* Every call returns. *)
CallsReturn == \A t \in Threads : pc[t] \notin {"idle", "closed"} ~> pc[t] \in {"idle", "closed"}

(* Calls of several threads do not bring the process down. *)
SafeForThreads == bg.at # "dead"

(* What the mutex and the queue protect (DBImpl::Write, BackgroundCall,
   ~DBImpl): one thread at most writes the log, groups are atomic and in the
   order of the queue, the database is closed only when the background thread
   is done with it, and no call brings the process down. *)
ThreadsAreSafe ==
  /\ TypeOK /\ OneLogger /\ QueueOrder /\ GroupIsAtomic
  /\ ClosedAtRest /\ SafeForThreads

(* After a log could not be synced, no write succeeds. *)
NoWriteAfterSyncError ==
  [][(\E i \in DOMAIN faults : faults[i] = "sync") => acked' = acked]_vars

===============================================================================
