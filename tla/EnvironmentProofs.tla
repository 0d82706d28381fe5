--------------------------- MODULE EnvironmentProofs ---------------------------
(***************************************************************************)
(* Proofs about PosixEnv (util/env_posix.cc): the lock of a database, for  *)
(* any number of threads and processes; the limits of mapped and open      *)
(* files, for any finite number of threads and any limits; Schedule with   *)
(* its background thread, for any threads and any number of items; and     *)
(* PosixWritableFile: for buffers of any size, appends of any length,      *)
(* writes that stop half way and calls that fail, the bytes that are kept  *)
(* are in order, and while nothing fails all are kept, and those that a    *)
(* Sync acknowledged are on the disk.                                      *)
(***************************************************************************)
EXTENDS ReadableFiles, DataLemmas, FiniteSetTheorems, SequenceTheorems

CONSTANTS
  Processes, ProcessOf(_), None,
  MaxItems,
  is_manifest_, BufferSize, MaxAppend, MaxBytes, Failing

VARIABLES
  lockPc, handles, locks, lost, holder, dropped,
  started, queue, mutex, background, callPc, scheduled, running, done,
  given, buf, file, durable, dir, isOpen, failed, acked

Lock == INSTANCE FileLock WITH pc <- lockPc
Background == INSTANCE BackgroundThread WITH pc <- callPc
Writable == INSTANCE WritableFile WITH open <- isOpen

-------------------------------------------------------------------------------
(* The lock of a database. *)

(* The table of a process has the file while one of its threads is between
   inserting and removing it, and for ever after an UnlockFile that failed. *)
TableKnows ==
  /\ \A t \in Threads : Lock!InTable(t) => ProcessOf(t) \in locks
  /\ lost \subseteq locks
TableJustified ==
  \A p \in locks : p \in lost \/ \E t \in Threads : ProcessOf(t) = p /\ Lock!InTable(t)

(* A record lock is held for a thread with a FileLock or for a lost one, and
   a thread with a FileLock has it as long as no close gave it up. *)
HolderJustified == holder = None \/ holder \in lost \/ Lock!HasHandle(holder)
HeldIsHeld == \A t \in handles : ProcessOf(t) \in dropped \/ holder = ProcessOf(t)

Holding == HolderJustified /\ HeldIsHeld
LockInv == Lock!TypeOK /\ TableKnows /\ Lock!ExclusiveInProcess /\ TableJustified /\ Holding

-------------------------------------------------------------------------------
(* Every step of LockFile and UnlockFile moves one thread from one place to
   another. *)
LEMMA LockMoves ==
  ASSUME Lock!TypeOK, NEW t \in Threads, Lock!Step(t)
  PROVE  /\ lockPc' = [lockPc EXCEPT ![t] = lockPc'[t]]
         /\ lockPc'[t] \in Lock!Places
  BY DEF Lock!TypeOK, Lock!Step, Lock!OpenFile, Lock!Insert, Lock!CloseRefused, Lock!SetLock,
         Lock!SetLockFails, Lock!CloseDenied, Lock!Forget, Lock!ClearLock, Lock!ClearLockFails,
         Lock!Remove, Lock!CloseUnlocked, Lock!Goto, Lock!Places

(* Types are kept by every step. *)
LEMMA LockTypeStep ==
  ASSUME Lock!FileLockAssumption, Lock!TypeOK, [Lock!Next]_(Lock!vars)
  PROVE  Lock!TypeOK'
<1>1. ASSUME NEW t \in Threads, Lock!Step(t)  PROVE Lock!TypeOK'
  <2>1. lockPc' = [lockPc EXCEPT ![t] = lockPc'[t]] /\ lockPc'[t] \in Lock!Places
    BY <1>1, LockMoves
  <2>2. lockPc' \in [Threads -> Lock!Places]
    BY <2>1 DEF Lock!TypeOK
  <2>3. /\ handles' \in SUBSET Threads /\ locks' \in SUBSET Processes /\ lost' \in SUBSET Processes
        /\ holder' \in Processes \cup {None} /\ dropped' \in SUBSET Processes
    BY <1>1 DEF Lock!FileLockAssumption, Lock!TypeOK, Lock!Step, Lock!OpenFile, Lock!Insert,
       Lock!CloseRefused, Lock!SetLock, Lock!SetLockFails, Lock!CloseDenied, Lock!Forget,
       Lock!ClearLock, Lock!ClearLockFails, Lock!Remove, Lock!CloseUnlocked, Lock!Close
  <2>4. QED BY <2>2, <2>3 DEF Lock!TypeOK
<1>2. ASSUME NEW p \in Processes, Lock!Crash(p)  PROVE Lock!TypeOK'
  BY <1>2 DEF Lock!FileLockAssumption, Lock!TypeOK, Lock!Crash, Lock!Places
<1>3. CASE UNCHANGED Lock!vars
  BY <1>3 DEF Lock!TypeOK, Lock!vars
<1>4. QED BY <1>1, <1>2, <1>3 DEF Lock!Next

(* The steps that change neither the table nor who is in it: at most a
   descriptor is closed. *)
LEMMA OutsideStep ==
  ASSUME Lock!FileLockAssumption, LockInv, NEW t \in Threads,
         UNCHANGED <<handles, locks, lost>>,
         UNCHANGED <<holder, dropped>> \/ Lock!Close(ProcessOf(t)),
         lockPc' = [lockPc EXCEPT ![t] = lockPc'[t]],
         Lock!Inside(t)' <=> Lock!Inside(t)
  PROVE  TableKnows' /\ Lock!ExclusiveInProcess' /\ TableJustified' /\ Holding'
<1>1. \A u \in Threads : Lock!Inside(u)' <=> Lock!Inside(u)
  BY DEF Lock!Inside, LockInv, Lock!TypeOK
<1>2. \A u \in Threads : Lock!InTable(u)' <=> Lock!InTable(u)
  BY <1>1 DEF Lock!InTable
<1>3. TableKnows' /\ TableJustified'
  BY <1>2 DEF LockInv, TableKnows, TableJustified
<1>4. Lock!ExclusiveInProcess'
  BY <1>1, <1>2 DEF LockInv, Lock!ExclusiveInProcess, Lock!TypeOK
<1>5. Holding'
  BY DEF LockInv, Holding, HolderJustified, HeldIsHeld, Lock!HasHandle, Lock!Close
<1> QED BY <1>3, <1>4, <1>5

(* What a step does to the table and to the record lock, for the thread that
   takes it and its process. *)
LEMMA LockStep ==
  ASSUME Lock!FileLockAssumption, LockInv, NEW t \in Threads, Lock!Step(t)
  PROVE  TableKnows' /\ Lock!ExclusiveInProcess' /\ TableJustified' /\ Holding'
<1> DEFINE p == ProcessOf(t)
<1>1. /\ lockPc' = [lockPc EXCEPT ![t] = lockPc'[t]] /\ lockPc'[t] \in Lock!Places
      /\ lockPc \in [Threads -> Lock!Places] /\ p \in Processes /\ None \notin Processes
      /\ handles \subseteq Threads
  BY LockMoves DEF LockInv, Lock!TypeOK, Lock!FileLockAssumption
<1>2. \A u \in Threads : u # t => (Lock!Inside(u)' <=> Lock!Inside(u))
  BY <1>1 DEF Lock!Inside
<1>3. CASE Lock!OpenFile(t) \/ (Lock!Insert(t) /\ p \in locks) \/ Lock!CloseRefused(t)
           \/ Lock!SetLockFails(t) \/ Lock!CloseDenied(t) \/ Lock!CloseUnlocked(t)
  <2>1. UNCHANGED <<handles, locks, lost>> /\ (UNCHANGED <<holder, dropped>> \/ Lock!Close(p))
    BY <1>3 DEF Lock!OpenFile, Lock!Insert, Lock!CloseRefused, Lock!SetLockFails,
                Lock!CloseDenied, Lock!CloseUnlocked
  <2>2. Lock!Inside(t)' <=> Lock!Inside(t)
    BY <1>1, <1>3 DEF Lock!OpenFile, Lock!Insert, Lock!CloseRefused, Lock!SetLockFails,
                Lock!CloseDenied, Lock!CloseUnlocked, Lock!Goto, Lock!Inside
  <2> QED BY <1>1, <2>1, <2>2, OutsideStep
<1>4. CASE Lock!Insert(t) /\ p \notin locks
  <2>1. Lock!Inside(t)' /\ locks' = locks \cup {p} /\ UNCHANGED <<handles, lost, holder, dropped>>
    BY <1>1, <1>4 DEF Lock!Insert, Lock!Goto, Lock!Inside
  <2>2. p \notin lost /\ \A u \in Threads : ProcessOf(u) = p => ~Lock!InTable(u)
    BY <1>4 DEF LockInv, TableKnows
  <2>3. TableKnows' /\ TableJustified'
    BY <1>1, <1>2, <2>1, <2>2 DEF LockInv, TableKnows, TableJustified, Lock!InTable
  <2>4. Lock!ExclusiveInProcess'
    BY <1>1, <1>2, <2>1, <2>2 DEF LockInv, Lock!ExclusiveInProcess, Lock!InTable
  <2>5. Holding'
    BY <2>1 DEF LockInv, Holding, HolderJustified, HeldIsHeld, Lock!HasHandle
  <2> QED BY <2>3, <2>4, <2>5
<1>5. CASE Lock!SetLock(t)
  <2>1. /\ Lock!Inside(t) /\ ~Lock!Inside(t)' /\ handles' = handles \cup {t}
        /\ holder \in {None, p} /\ holder' = p /\ UNCHANGED <<locks, lost, dropped>>
    BY <1>1, <1>5 DEF Lock!SetLock, Lock!Goto, Lock!Inside
  <2>2. \A u \in Threads : Lock!InTable(u)' <=> Lock!InTable(u)
    BY <1>2, <2>1 DEF Lock!InTable
  <2>3. TableKnows' /\ TableJustified'
    BY <2>1, <2>2 DEF LockInv, TableKnows, TableJustified
  <2>4. Lock!ExclusiveInProcess'
    BY <1>1, <1>2, <2>1, <2>2 DEF LockInv, Lock!ExclusiveInProcess
  <2>5. Holding'
    BY <1>1, <2>1 DEF LockInv, Holding, HolderJustified, HeldIsHeld, Lock!HasHandle,
                      Lock!FileLockAssumption
  <2> QED BY <2>3, <2>4, <2>5
<1>6. CASE Lock!ClearLock(t)
  <2>1. /\ ~Lock!Inside(t) /\ Lock!Inside(t)' /\ t \in handles /\ handles' = handles \ {t}
        /\ holder' = (IF holder = p THEN None ELSE holder) /\ dropped' = dropped \ {p}
        /\ UNCHANGED <<locks, lost>>
    BY <1>1, <1>6 DEF Lock!ClearLock, Lock!Goto, Lock!Inside
  <2>2. \A u \in Threads : Lock!InTable(u)' <=> Lock!InTable(u)
    BY <1>2, <2>1 DEF Lock!InTable
  <2>3. TableKnows' /\ TableJustified'
    BY <2>1, <2>2 DEF LockInv, TableKnows, TableJustified
  <2>4. Lock!ExclusiveInProcess'
    BY <1>1, <1>2, <2>1, <2>2 DEF LockInv, Lock!ExclusiveInProcess
  <2>5. \A u \in handles' : u \in handles /\ ProcessOf(u) # p
    BY <1>1, <2>1 DEF LockInv, Lock!ExclusiveInProcess, Lock!InTable
  <2>6. Holding'
    BY <1>1, <2>1, <2>5 DEF LockInv, Holding, HolderJustified, HeldIsHeld, Lock!HasHandle
  <2> QED BY <2>3, <2>4, <2>6
<1>7. CASE Lock!ClearLockFails(t)
  <2>1. /\ ~Lock!Inside(t) /\ UNCHANGED <<lockPc, locks, holder>>
        /\ t \in handles /\ handles' = handles \ {t}
        /\ lost' = lost \cup {p} /\ dropped' = dropped \ {p}
    BY <1>1, <1>7 DEF Lock!ClearLockFails, Lock!Inside
  <2>2. /\ ~Lock!InTable(t)' /\ Lock!InTable(t)
        /\ \A u \in Threads : u # t => (Lock!InTable(u)' <=> Lock!InTable(u))
    BY <1>2, <2>1 DEF Lock!InTable, Lock!Inside
  <2>3. \A u \in Threads : Lock!InTable(u)' => ProcessOf(u) # p
    BY <2>2 DEF LockInv, Lock!ExclusiveInProcess
  <2>4. TableKnows' /\ TableJustified'
    BY <2>1, <2>2 DEF LockInv, TableKnows, TableJustified
  <2>5. Lock!ExclusiveInProcess'
    BY <1>1, <1>2, <2>1, <2>2, <2>3 DEF LockInv, Lock!ExclusiveInProcess
  <2>6. \A u \in handles' : u \in handles /\ ProcessOf(u) # p
    BY <1>1, <2>1, <2>3 DEF Lock!InTable
  <2>7. Holding'
    BY <1>1, <2>1, <2>6 DEF LockInv, Holding, HolderJustified, HeldIsHeld, Lock!HasHandle
  <2> QED BY <2>4, <2>5, <2>7
<1>8. CASE Lock!Forget(t) \/ Lock!Remove(t)
  <2>1. /\ Lock!Inside(t) /\ ~Lock!Inside(t)' /\ locks' = locks \ {p}
        /\ UNCHANGED <<handles, lost, holder, dropped>>
    BY <1>1, <1>8 DEF Lock!Forget, Lock!Remove, Lock!Goto, Lock!Inside
  <2>2. /\ t \notin handles /\ p \notin lost
        /\ \A u \in Threads : u # t /\ ProcessOf(u) = p => ~Lock!InTable(u)
    BY <2>1 DEF LockInv, Lock!ExclusiveInProcess, Lock!InTable
  <2>3. /\ ~Lock!InTable(t)'
        /\ \A u \in Threads : u # t => (Lock!InTable(u)' <=> Lock!InTable(u))
    BY <1>2, <2>1, <2>2 DEF Lock!InTable
  <2>4. TableKnows' /\ TableJustified'
    BY <2>1, <2>2, <2>3 DEF LockInv, TableKnows, TableJustified
  <2>5. Lock!ExclusiveInProcess'
    BY <1>1, <1>2, <2>1, <2>2, <2>3 DEF LockInv, Lock!ExclusiveInProcess
  <2>6. Holding'
    BY <2>1 DEF LockInv, Holding, HolderJustified, HeldIsHeld, Lock!HasHandle
  <2> QED BY <2>4, <2>5, <2>6
<1> QED BY <1>3, <1>4, <1>5, <1>6, <1>7, <1>8 DEF Lock!Step

(* A process that dies takes its table and its record lock with it. *)
LEMMA CrashInvariant ==
  ASSUME Lock!FileLockAssumption, LockInv, NEW p \in Processes, Lock!Crash(p)
  PROVE  TableKnows' /\ Lock!ExclusiveInProcess' /\ TableJustified' /\ Holding'
<1>1. /\ lockPc \in [Threads -> Lock!Places] /\ locks' = locks \ {p} /\ lost' = lost \ {p}
      /\ \A u \in Threads : lockPc'[u] = IF ProcessOf(u) = p THEN "idle" ELSE lockPc[u]
      /\ holder' = (IF holder = p THEN None ELSE holder) /\ dropped' = dropped \ {p}
      /\ handles' = {t \in handles : ProcessOf(t) # p} /\ handles \subseteq Threads
  BY DEF LockInv, Lock!TypeOK, Lock!Crash
<1>2. \A u \in Threads : Lock!Inside(u)' <=> Lock!Inside(u) /\ ProcessOf(u) # p
  BY <1>1 DEF Lock!Inside
<1>3. \A u \in Threads : Lock!InTable(u)' <=> Lock!InTable(u) /\ ProcessOf(u) # p
  BY <1>1, <1>2 DEF Lock!InTable
<1>4. TableKnows' /\ TableJustified'
  BY <1>1, <1>3 DEF LockInv, TableKnows, TableJustified
<1>5. Lock!ExclusiveInProcess'
  BY <1>1, <1>2, <1>3 DEF LockInv, Lock!ExclusiveInProcess
<1>6. Holding'
  BY <1>1 DEF LockInv, Holding, HolderJustified, HeldIsHeld, Lock!HasHandle
<1> QED BY <1>4, <1>5, <1>6

LEMMA LockInvariant ==
  ASSUME Lock!FileLockAssumption
  PROVE  Lock!Spec => []LockInv
<1>1. Lock!Init => LockInv
  BY DEF Lock!FileLockAssumption, Lock!Init, LockInv, Lock!TypeOK, TableKnows,
     Lock!ExclusiveInProcess, TableJustified, Holding, HolderJustified, HeldIsHeld,
     Lock!InTable, Lock!Inside, Lock!Places
<1>2. LockInv /\ [Lock!Next]_(Lock!vars) => LockInv'
  <2> SUFFICES ASSUME LockInv, [Lock!Next]_(Lock!vars)  PROVE LockInv'
    OBVIOUS
  <2>1. Lock!TypeOK'
    BY LockTypeStep DEF LockInv
  <2>2. CASE UNCHANGED Lock!vars
    BY <2>1, <2>2 DEF LockInv, TableKnows, Lock!ExclusiveInProcess, TableJustified, Holding,
       HolderJustified, HeldIsHeld, Lock!HasHandle, Lock!InTable, Lock!Inside, Lock!vars
  <2>3. ASSUME NEW t \in Threads, Lock!Step(t)  PROVE LockInv'
    BY <2>1, <2>3, LockStep DEF LockInv
  <2>4. ASSUME NEW p \in Processes, Lock!Crash(p)  PROVE LockInv'
    BY <2>1, <2>4, CrashInvariant DEF LockInv
  <2>5. QED BY <2>2, <2>3, <2>4 DEF Lock!Next
<1>3. QED BY <1>1, <1>2, PTL DEF Lock!Spec

-------------------------------------------------------------------------------
(* PosixLockTable (util/env_posix.cc) keeps threads of one process apart, which
   the record lock, granted to the whole process, does not; a thread with the
   lock that calls LockFile again is refused too. *)
THEOREM ThreadsExcludeEachOther ==
  ASSUME Lock!FileLockAssumption
  PROVE  Lock!Spec => []Lock!ExclusiveInProcess
<1>1. LockInv => Lock!ExclusiveInProcess
  BY DEF LockInv
<1>2. QED BY <1>1, LockInvariant, PTL

(* LockFile that fails, UnlockFile that succeeds and the death of a process
   leave neither the table entry nor the record lock behind; what an UnlockFile
   that fails leaves is all there is besides. *)
THEOREM LocksAreGivenUp ==
  ASSUME Lock!FileLockAssumption
  PROVE  Lock!Spec => []Lock!NothingLeft
<1>1. LockInv => Lock!NothingLeft
  BY DEF LockInv, Lock!NothingLeft, TableJustified, TableKnows, Holding, HolderJustified
<1>2. QED BY <1>1, LockInvariant, PTL

(* LockFile of include/leveldb/env.h prevents concurrent access by several
   processes for as long as no process closes a second descriptor of the file:
   who has a FileLock has the record lock, unless such a close gave it up, and
   two have one together only when it did for one of them. *)
THEOREM ProcessesExcludeEachOther ==
  ASSUME Lock!FileLockAssumption
  PROVE  Lock!Spec => []Lock!ExclusiveUntilClosed
<1>1. LockInv => Lock!ExclusiveUntilClosed
  BY DEF LockInv, Lock!TypeOK, Lock!ExclusiveUntilClosed, Lock!ExclusiveInProcess, Lock!InTable,
         Holding, HeldIsHeld
<1>2. QED BY <1>1, LockInvariant, PTL

-------------------------------------------------------------------------------
(* Mapped and open files. *)

(* Threads that have taken from a limiter what they have not given back, and
   threads whose descriptor is open. *)
MmapPlaces == {"no_mmap", "mapping", "mapped", "unmapped"}
FdPlaces == {"permanent", "no_fd", "fd_closed"}
OpenPlaces == {"opened", "no_mmap", "mapping", "pread", "permanent", "no_fd", "closing", "reading"}

FilesInv == TypeOK /\ CountersExact /\ LimitsKept /\ NoDescriptorLost

-------------------------------------------------------------------------------
(* The number of threads at some places when one thread moves. *)
LEMMA AtCount ==
  ASSUME IsFiniteSet(Threads), NEW places
  PROVE  IsFiniteSet(At(places)) /\ Cardinality(At(places)) \in Nat
<1>1. At(places) \subseteq Threads
  BY DEF At
<1>2. QED BY <1>1, FS_Subset, FS_CardinalityType

LEMMA MoveIn ==
  ASSUME IsFiniteSet(Threads), NEW places, NEW t \in Threads, NEW to,
         TypeOK, pc' = [pc EXCEPT ![t] = to], pc[t] \notin places, to \in places
  PROVE  Cardinality(At(places)') = Cardinality(At(places)) + 1
<1>1. At(places)' = At(places) \cup {t} /\ t \notin At(places)
  BY DEF At, TypeOK
<1>2. QED BY <1>1, AtCount, FS_AddElement

LEMMA MoveOut ==
  ASSUME IsFiniteSet(Threads), NEW places, NEW t \in Threads, NEW to,
         TypeOK, pc' = [pc EXCEPT ![t] = to], pc[t] \in places, to \notin places
  PROVE  Cardinality(At(places)') = Cardinality(At(places)) - 1
<1>1. At(places)' = At(places) \ {t} /\ t \in At(places)
  BY DEF At, TypeOK
<1>2. QED BY <1>1, AtCount, FS_RemoveElement

LEMMA MoveAbout ==
  ASSUME NEW places, NEW t \in Threads, NEW to,
         TypeOK, pc' = [pc EXCEPT ![t] = to], pc[t] \in places <=> to \in places
  PROVE  At(places)' = At(places)
BY DEF At, TypeOK

-------------------------------------------------------------------------------
(* A step moves one thread between two places. *)
LEMMA FileMoves ==
  ASSUME TypeOK, NEW t \in Threads, Step(t)
  PROVE  pc' = [pc EXCEPT ![t] = pc'[t]] /\ pc'[t] \in Places /\ pc[t] \in Places
BY DEF TypeOK, Places, Step, OpenFile, AcquireMmap, GiveBackMmap, Mapped, MapFails, ReleaseMmap,
       AcquireFd, GiveBackFd, CloseSurplus, ReadOpens, ReadEnds, Unmap, CloseFd, ReleaseFd, Destroy,
       Goto

(* What it takes from a limiter or gives back is what the places say, and it
   maps a file, or keeps a descriptor, only if the limiter had one left. *)
LEMMA StepCounts ==
  ASSUME TypeOK, NEW t \in Threads, Step(t)
  PROVE  /\ mmaps' = mmaps + (IF pc[t] \in MmapPlaces THEN 1 ELSE 0)
                           - (IF pc'[t] \in MmapPlaces THEN 1 ELSE 0)
         /\ fds' = fds + (IF pc[t] \in FdPlaces THEN 1 ELSE 0)
                       - (IF pc'[t] \in FdPlaces THEN 1 ELSE 0)
         /\ pc'[t] \in {"mapping", "mapped"} =>
              pc[t] \in {"mapping", "mapped"} \/ (pc[t] = "opened" /\ mmaps > 0)
         /\ pc'[t] = "permanent" => pc[t] = "pread" /\ fds > 0
<1> USE DEF TypeOK, MmapPlaces, FdPlaces, Goto
<1>1. CASE OpenFile(t)      BY <1>1 DEF OpenFile
<1>2. CASE AcquireMmap(t)   BY <1>2 DEF AcquireMmap
<1>3. CASE GiveBackMmap(t)  BY <1>3 DEF GiveBackMmap
<1>4. CASE Mapped(t)        BY <1>4 DEF Mapped
<1>5. CASE MapFails(t)      BY <1>5 DEF MapFails
<1>6. CASE ReleaseMmap(t)   BY <1>6 DEF ReleaseMmap
<1>7. CASE AcquireFd(t)     BY <1>7 DEF AcquireFd
<1>8. CASE GiveBackFd(t)    BY <1>8 DEF GiveBackFd
<1>9. CASE CloseSurplus(t)  BY <1>9 DEF CloseSurplus
<1>10. CASE ReadOpens(t)    BY <1>10 DEF ReadOpens
<1>11. CASE ReadEnds(t)     BY <1>11 DEF ReadEnds
<1>12. CASE Unmap(t)        BY <1>12 DEF Unmap
<1>13. CASE CloseFd(t)      BY <1>13 DEF CloseFd
<1>14. CASE ReleaseFd(t)    BY <1>14 DEF ReleaseFd
<1>15. CASE Destroy(t)      BY <1>15 DEF Destroy
<1>16. QED
  BY <1>1, <1>2, <1>3, <1>4, <1>5, <1>6, <1>7, <1>8, <1>9, <1>10, <1>11, <1>12, <1>13, <1>14,
     <1>15 DEF Step

(* It opens or closes the descriptor of its own thread, as the places say. *)
LEMMA StepDescriptors ==
  ASSUME TypeOK, NoDescriptorLost, NEW t \in Threads, Step(t)
  PROVE  /\ open' \ {t} = open \ {t}
         /\ t \in open' <=> pc'[t] \in OpenPlaces
<1>1. t \in open <=> pc[t] \in OpenPlaces
  BY DEF NoDescriptorLost, At, OpenPlaces
<1> USE <1>1 DEF TypeOK, OpenPlaces, Goto, Opened, Closed
<1>2. CASE OpenFile(t) \/ ReadOpens(t)
  BY <1>2 DEF OpenFile, ReadOpens
<1>3. CASE Mapped(t) \/ MapFails(t) \/ CloseSurplus(t) \/ ReadEnds(t) \/ CloseFd(t)
  BY <1>3 DEF Mapped, MapFails, CloseSurplus, ReadEnds, CloseFd
<1>4. CASE AcquireMmap(t) \/ GiveBackMmap(t) \/ AcquireFd(t) \/ GiveBackFd(t)
  BY <1>4 DEF AcquireMmap, GiveBackMmap, AcquireFd, GiveBackFd
<1>5. CASE ReleaseMmap(t) \/ Unmap(t) \/ ReleaseFd(t) \/ Destroy(t)
  BY <1>5 DEF ReleaseMmap, Unmap, ReleaseFd, Destroy
<1>6. QED BY <1>2, <1>3, <1>4, <1>5 DEF Step

-------------------------------------------------------------------------------
(* The limiters count what is taken, so that a thread that finds something left
   is one of no more than the limit. *)
LEMMA FilesStep ==
  ASSUME ReadableFilesAssumption, FilesInv, NEW t \in Threads, Step(t)
  PROVE  FilesInv'
<1>1. /\ pc' = [pc EXCEPT ![t] = pc'[t]] /\ pc'[t] \in Places /\ pc[t] \in Places
      /\ IsFiniteSet(Threads) /\ TypeOK
      /\ MaxMmaps \in Nat /\ MaxOpenFiles \in Nat /\ mmaps \in Int /\ fds \in Int
  BY FileMoves DEF FilesInv, TypeOK, ReadableFilesAssumption
<1> DEFINE Count(places) == Cardinality(At(places))
           Change(places) == (IF pc'[t] \in places THEN 1 ELSE 0)
                               - (IF pc[t] \in places THEN 1 ELSE 0)
<1>2. ASSUME NEW places
      PROVE  Count(places) \in Nat /\ Count(places)' = Count(places) + Change(places)
  <2>1. Count(places) \in Nat
    BY <1>1, AtCount
  <2>2. CASE pc[t] \notin places /\ pc'[t] \in places
    BY <1>1, <2>1, <2>2, MoveIn
  <2>3. CASE pc[t] \in places /\ pc'[t] \notin places
    BY <1>1, <2>1, <2>3, MoveOut
  <2>4. CASE pc[t] \in places <=> pc'[t] \in places
    BY <1>1, <2>1, <2>4, MoveAbout
  <2>5. QED BY <2>1, <2>2, <2>3, <2>4
<1> HIDE DEF Count
<1>3. mmaps' = mmaps - Change(MmapPlaces) /\ fds' = fds - Change(FdPlaces)
  BY <1>1, StepCounts
<1>4. mmaps + Count(MmapPlaces) = MaxMmaps /\ fds + Count(FdPlaces) = MaxOpenFiles
  BY DEF FilesInv, CountersExact, MmapPlaces, FdPlaces, Count
<1>5. TypeOK'
  <2>1. mmaps' \in Int /\ fds' \in Int
    BY <1>1, <1>3
  <2>2. open' \in SUBSET Threads
    BY StepDescriptors DEF FilesInv, TypeOK
  <2>3. QED BY <1>1, <2>1, <2>2 DEF TypeOK
<1>6. mmaps' + Count(MmapPlaces)' = MaxMmaps /\ fds' + Count(FdPlaces)' = MaxOpenFiles
  <2>1. /\ Count(MmapPlaces) \in Nat /\ Count(MmapPlaces)' = Count(MmapPlaces) + Change(MmapPlaces)
        /\ Count(FdPlaces) \in Nat /\ Count(FdPlaces)' = Count(FdPlaces) + Change(FdPlaces)
    BY <1>2
  <2>2. Change(MmapPlaces) \in Int /\ Change(FdPlaces) \in Int
    OBVIOUS
  <2> HIDE DEF Change
  <2>3. QED BY <1>1, <1>3, <1>4, <2>1, <2>2
<1>7. CountersExact'
  BY <1>6 DEF CountersExact, MmapPlaces, FdPlaces, Count
<1>8. Count({"mapping", "mapped"})' <= MaxMmaps
  <2>1. Count({"mapping", "mapped"}) <= MaxMmaps
    BY DEF FilesInv, LimitsKept, Count
  <2>2. CASE Change({"mapping", "mapped"}) <= 0
    BY <1>1, <1>2, <2>1, <2>2
  <2>3. CASE pc[t] = "opened" /\ mmaps > 0
    <3>1. Count({"mapping", "mapped"}) <= Count(MmapPlaces)
      <4>1. At({"mapping", "mapped"}) \subseteq At(MmapPlaces) /\ IsFiniteSet(At(MmapPlaces))
        BY <1>1, AtCount DEF At, MmapPlaces
      <4>2. QED BY <4>1, FS_Subset DEF Count
    <3>2. Count({"mapping", "mapped"}) + 1 <= MaxMmaps
      BY <1>1, <1>2, <1>4, <2>3, <3>1
    <3>3. QED BY <1>1, <1>2, <3>2
  <2>4. QED BY <1>1, <2>2, <2>3, StepCounts
<1>9. Count({"permanent"})' <= MaxOpenFiles
  <2>1. Count({"permanent"}) <= MaxOpenFiles
    BY DEF FilesInv, LimitsKept, Count
  <2>2. CASE Change({"permanent"}) <= 0
    BY <1>1, <1>2, <2>1, <2>2
  <2>3. CASE pc[t] = "pread" /\ fds > 0
    <3>1. Count({"permanent"}) <= Count(FdPlaces)
      <4>1. At({"permanent"}) \subseteq At(FdPlaces) /\ IsFiniteSet(At(FdPlaces))
        BY <1>1, AtCount DEF At, FdPlaces
      <4>2. QED BY <4>1, FS_Subset DEF Count
    <3>2. Count({"permanent"}) + 1 <= MaxOpenFiles
      BY <1>1, <1>2, <1>4, <2>3, <3>1
    <3>3. QED BY <1>1, <1>2, <3>2
  <2>4. QED BY <1>1, <2>2, <2>3, StepCounts
<1>10. LimitsKept'
  BY <1>8, <1>9 DEF LimitsKept, Count
<1>11. NoDescriptorLost'
  <2>1. open = At(OpenPlaces) /\ open' \ {t} = open \ {t} /\ (t \in open' <=> pc'[t] \in OpenPlaces)
    BY StepDescriptors DEF FilesInv, NoDescriptorLost, OpenPlaces
  <2>2. open' = At(OpenPlaces)'
    BY <1>1, <2>1 DEF At, TypeOK
  <2>3. QED BY <2>2 DEF NoDescriptorLost, OpenPlaces
<1>12. QED BY <1>5, <1>7, <1>10, <1>11 DEF FilesInv

LEMMA FilesInvariant ==
  ASSUME ReadableFilesAssumption
  PROVE  Spec => []FilesInv
<1>1. Init => FilesInv
  <2> SUFFICES ASSUME Init  PROVE FilesInv
    OBVIOUS
  <2>1. At(MmapPlaces) = {} /\ At(FdPlaces) = {} /\ At(OpenPlaces) = {}
        /\ At({"mapping", "mapped"}) = {} /\ At({"permanent"}) = {}
    BY DEF Init, At, MmapPlaces, FdPlaces, OpenPlaces
  <2>2. TypeOK
    BY DEF Init, TypeOK, ReadableFilesAssumption, Places
  <2>3. Cardinality({}) = 0
    BY FS_EmptySet
  <2>4. MaxMmaps \in Nat /\ MaxOpenFiles \in Nat
    BY DEF ReadableFilesAssumption
  <2>5. CountersExact
    BY <2>1, <2>3, <2>4 DEF Init, CountersExact, MmapPlaces, FdPlaces
  <2>6. LimitsKept
    BY <2>1, <2>3, <2>4 DEF LimitsKept
  <2>7. NoDescriptorLost
    BY <2>1 DEF Init, NoDescriptorLost, OpenPlaces
  <2>8. QED BY <2>2, <2>5, <2>6, <2>7 DEF FilesInv
<1>2. FilesInv /\ [Next]_vars => FilesInv'
  <2>1. ASSUME FilesInv, UNCHANGED vars  PROVE FilesInv'
    BY <2>1 DEF FilesInv, TypeOK, CountersExact, LimitsKept, NoDescriptorLost, At, vars
  <2>2. QED BY <2>1, FilesStep DEF Next
<1>3. QED BY <1>1, <1>2, PTL DEF Spec

(* No right to a mapping or a descriptor is lost, also when a mapping fails. *)
THEOREM NothingLeaks ==
  ASSUME ReadableFilesAssumption
  PROVE  Spec => [](CountersExact /\ NoDescriptorLost)
<1>1. FilesInv => CountersExact /\ NoDescriptorLost
  BY DEF FilesInv
<1>2. QED BY <1>1, FilesInvariant, PTL

(* Although Limiter::Acquire takes first and looks then, no more files than
   mmap_limiter_ and fd_limiter_ allow are mapped or kept open. *)
THEOREM LimitsHold ==
  ASSUME ReadableFilesAssumption
  PROVE  Spec => []LimitsKept
<1>1. FilesInv => LimitsKept
  BY DEF FilesInv
<1>2. QED BY <1>1, FilesInvariant, PTL

-------------------------------------------------------------------------------
(* The background thread. *)

(* Room for the item a caller is about to put. *)
RoomForItem == \A t \in Threads : callPc[t] # "outside" => scheduled < MaxItems

(* There is no background thread before it is started. *)
StartedFirst == ~started => background = "none"

(* The items, each in its place: run, running, queued. *)
Taken == Len(done) + (IF running = 0 THEN 0 ELSE 1)
ItemsInPlace ==
  /\ (background = "running") <=> (running # 0)
  /\ \A i \in 1..Len(done) : done[i] = i
  /\ running # 0 => running = Len(done) + 1
  /\ \A i \in 1..Len(queue) : queue[i] = Taken + i
  /\ scheduled = Taken + Len(queue)

ControlInv == Background!Owned /\ RoomForItem /\ StartedFirst /\ Background!NoLostWakeup
ScheduleInv == Background!TypeOK /\ ControlInv /\ ItemsInPlace

-------------------------------------------------------------------------------
(* Every step keeps the types; the item that is put is within the bound because
   the caller has held the mutex since it looked. *)
LEMMA ScheduleTypeStep ==
  ASSUME Background!BackgroundThreadAssumption, Background!TypeOK, RoomForItem, ItemsInPlace,
  [Background!Next]_(Background!vars)
  PROVE  Background!TypeOK'
<1> USE DEF Background!BackgroundThreadAssumption, Background!TypeOK
<1>1. CASE UNCHANGED Background!vars
  BY <1>1 DEF Background!vars
<1>2. ASSUME NEW t \in Threads, Background!Lock(t)  PROVE Background!TypeOK'
  BY <1>2 DEF Background!Lock
<1>3. ASSUME NEW t \in Threads, Background!Start(t)  PROVE Background!TypeOK'
  BY <1>3 DEF Background!Start
<1>4. ASSUME NEW t \in Threads, Background!Signal(t)  PROVE Background!TypeOK'
  BY <1>4 DEF Background!Signal, Background!Woken
<1>5. ASSUME NEW t \in Threads, Background!Put(t)  PROVE Background!TypeOK'
  <2>1. scheduled + 1 \in 1..MaxItems /\ scheduled + 1 \in 0..MaxItems
    BY <1>5 DEF Background!Put, RoomForItem
  <2>2. queue' \in Seq(1..MaxItems)
    BY <1>5, <2>1, AppendProperties DEF Background!Put
  <2>3. QED BY <1>5, <2>1, <2>2 DEF Background!Put
<1>6. CASE Background!Enter
  BY <1>6 DEF Background!Enter
<1>7. CASE Background!Wait
  BY <1>7 DEF Background!Wait
<1>8. CASE Background!Take
  <2>1. Head(queue) \in 1..MaxItems /\ Tail(queue) \in Seq(1..MaxItems)
    BY <1>8, HeadTailProperties DEF Background!Take
  <2>2. QED BY <1>8, <2>1 DEF Background!Take
<1>9. CASE Background!Run
  <2>1. running \in 1..MaxItems
    BY <1>9 DEF Background!Run, ItemsInPlace
  <2>2. Append(done, running) \in Seq(1..MaxItems)
    BY <2>1, AppendProperties
  <2>3. QED BY <1>9, <2>2 DEF Background!Run
<1>10. CASE Background!Spurious
  BY <1>10 DEF Background!Spurious
<1>11. QED BY <1>1, <1>2, <1>3, <1>4, <1>5, <1>6, <1>7, <1>8, <1>9, <1>10
           DEF Background!Next, Background!Schedule, Background!BackgroundThreadMain

(* A caller that has the mutex is alone with it. *)
LEMMA CallerAlone ==
  ASSUME Background!BackgroundThreadAssumption, Background!Owned, NEW t \in Threads,
  callPc[t] # "outside"
  PROVE  /\ mutex = t /\ background # "checking"
         /\ \A u \in Threads : u # t => callPc[u] = "outside"
BY DEF Background!BackgroundThreadAssumption, Background!Owned

(* The mutex, the start of the thread and its wakeups. *)
LEMMA ControlStep ==
  ASSUME Background!BackgroundThreadAssumption, Background!TypeOK, ControlInv,
  [Background!Next]_(Background!vars)
  PROVE  ControlInv'
<1> USE DEF Background!BackgroundThreadAssumption, Background!TypeOK, ControlInv, Background!Owned,
    RoomForItem, StartedFirst,
            Background!NoLostWakeup
<1>1. CASE UNCHANGED Background!vars
  BY <1>1 DEF Background!vars
<1>2. ASSUME NEW t \in Threads, Background!Lock(t)  PROVE ControlInv'
  BY <1>2 DEF Background!Lock
<1>3. ASSUME NEW t \in Threads, Background!Start(t)  PROVE ControlInv'
  BY <1>3, CallerAlone DEF Background!Start
<1>4. ASSUME NEW t \in Threads, Background!Signal(t)  PROVE ControlInv'
  BY <1>4, CallerAlone DEF Background!Signal, Background!Woken
<1>5. ASSUME NEW t \in Threads, Background!Put(t)  PROVE ControlInv'
  <2>1. mutex = t /\ background # "checking" /\ background # "waiting"
        /\ \A u \in Threads : u # t => callPc[u] = "outside"
    BY <1>5, CallerAlone DEF Background!Put
  <2>2. QED BY <1>5, <2>1 DEF Background!Put
<1>6. CASE Background!Enter
  BY <1>6 DEF Background!Enter
<1>7. CASE Background!Wait
  BY <1>7 DEF Background!Wait
<1>8. CASE Background!Take
  BY <1>8 DEF Background!Take
<1>9. CASE Background!Run
  BY <1>9 DEF Background!Run
<1>10. CASE Background!Spurious
  BY <1>10 DEF Background!Spurious
<1>11. QED BY <1>1, <1>2, <1>3, <1>4, <1>5, <1>6, <1>7, <1>8, <1>9, <1>10
           DEF Background!Next, Background!Schedule, Background!BackgroundThreadMain

(* Items move from the end of the queue to the end of what is done. *)
LEMMA ItemsStep ==
  ASSUME Background!BackgroundThreadAssumption, Background!TypeOK, ControlInv, ItemsInPlace,
  [Background!Next]_(Background!vars)
  PROVE  ItemsInPlace'
<1>0. /\ queue \in Seq(Nat) /\ done \in Seq(Nat) /\ Len(queue) \in Nat /\ Len(done) \in Nat
      /\ scheduled \in Nat /\ running \in Nat
  BY DEF Background!TypeOK, Background!BackgroundThreadAssumption
<1>1. CASE UNCHANGED <<queue, done, scheduled, running>> /\
           (background' = "running" <=> background = "running")
  BY <1>1 DEF ItemsInPlace, Taken
<1>2. ASSUME NEW t \in Threads, Background!Put(t)  PROVE ItemsInPlace'
  <2>1. queue' = Append(queue, scheduled + 1) /\ scheduled' = scheduled + 1
        /\ done' = done /\ running' = running /\ background' = background
    BY <1>2 DEF Background!Put
  <2>2. Len(queue') = Len(queue) + 1 /\ queue'[Len(queue) + 1] = scheduled + 1
        /\ \A i \in 1..Len(queue) : queue'[i] = queue[i]
    BY <1>0, <2>1, AppendProperties
  <2>3. Taken' = Taken /\ Taken \in Nat
    BY <1>0, <2>1 DEF Taken
  <2>4. \A i \in 1..Len(queue') : queue'[i] = Taken + i
    <3> SUFFICES ASSUME NEW i \in 1..Len(queue')  PROVE queue'[i] = Taken + i
      OBVIOUS
    <3>1. CASE i \in 1..Len(queue)
      BY <1>0, <2>2, <3>1 DEF ItemsInPlace
    <3>2. CASE i = Len(queue) + 1
      BY <1>0, <2>2, <2>3, <3>2 DEF ItemsInPlace
    <3>3. QED BY <1>0, <2>2, <3>1, <3>2
  <2>5. scheduled' = Taken' + Len(queue')
    BY <1>0, <2>1, <2>2, <2>3 DEF ItemsInPlace
  <2>6. QED BY <2>1, <2>3, <2>4, <2>5 DEF ItemsInPlace
<1>3. CASE Background!Take
  <2>1. /\ background = "checking" /\ queue # <<>> /\ running' = Head(queue) /\ queue' = Tail(queue)
        /\ background' = "running" /\ done' = done /\ scheduled' = scheduled
    BY <1>3 DEF Background!Take
  <2>2. Len(queue) >= 1 /\ Head(queue) = queue[1] /\ Len(queue') = Len(queue) - 1
        /\ \A i \in 1..Len(queue') : queue'[i] = queue[i + 1]
    BY <1>0, <2>1, HeadTailProperties, EmptySeq
  <2>3. running = 0 /\ Taken = Len(done)
    BY <2>1 DEF ItemsInPlace, Taken
  <2>4. running' = Len(done) + 1 /\ Taken' = Len(done) + 1
    BY <1>0, <2>1, <2>2, <2>3 DEF ItemsInPlace, Taken
  <2>5. QED BY <1>0, <2>1, <2>2, <2>3, <2>4 DEF ItemsInPlace
<1>4. CASE Background!Run
  <2>1. /\ background = "running" /\ done' = Append(done, running) /\ running' = 0
        /\ background' = "locking" /\ queue' = queue /\ scheduled' = scheduled
    BY <1>4 DEF Background!Run
  <2>2. Len(done') = Len(done) + 1 /\ done'[Len(done) + 1] = running
        /\ \A i \in 1..Len(done) : done'[i] = done[i]
    BY <1>0, <2>1, AppendProperties
  <2>3. running = Len(done) + 1 /\ Taken = Len(done) + 1 /\ Taken' = Len(done) + 1
    BY <1>0, <2>1, <2>2 DEF ItemsInPlace, Taken
  <2>4. QED BY <1>0, <2>1, <2>2, <2>3 DEF ItemsInPlace
<1>5. ASSUME NEW t \in Threads, Background!Lock(t) \/ Background!Start(t)
      \/ Background!Signal(t)  PROVE ItemsInPlace'
  BY <1>1, <1>5 DEF Background!Lock, Background!Start, Background!Signal, Background!Woken,
     ControlInv, StartedFirst
<1>6. CASE Background!Enter \/ Background!Wait \/ Background!Spurious
  BY <1>1, <1>6 DEF Background!Enter, Background!Wait, Background!Spurious
<1>7. CASE UNCHANGED Background!vars
  BY <1>1, <1>7 DEF Background!vars
<1>8. QED BY <1>2, <1>3, <1>4, <1>5, <1>6, <1>7 DEF Background!Next, Background!Schedule,
      Background!BackgroundThreadMain

LEMMA ScheduleInvariant ==
  ASSUME Background!BackgroundThreadAssumption
  PROVE  Background!Spec => []ScheduleInv
<1>1. Background!Init => ScheduleInv
  <2> SUFFICES ASSUME Background!Init  PROVE ScheduleInv
    OBVIOUS
  <2>1. Background!TypeOK
    <3>1. queue \in Seq(1..MaxItems) /\ done \in Seq(1..MaxItems)
      BY EmptySeq DEF Background!Init
    <3>2. started \in BOOLEAN
      BY DEF Background!Init
    <3>3. callPc \in [Threads -> {"outside", "locked", "started", "signalled"}]
      BY DEF Background!Init
    <3>4. scheduled \in 0..MaxItems /\ running \in 0..MaxItems
      BY DEF Background!Init, Background!BackgroundThreadAssumption
    <3>5. QED BY <3>1, <3>2, <3>3, <3>4 DEF Background!Init, Background!TypeOK
  <2>2. ControlInv
    BY DEF Background!BackgroundThreadAssumption, Background!Init, ControlInv, Background!Owned,
       RoomForItem, StartedFirst,
       Background!NoLostWakeup
  <2>3. queue = <<>> /\ done = <<>> /\ running = 0 /\ scheduled = 0 /\ background = "none"
    BY DEF Background!Init
  <2>4. ItemsInPlace
    BY <2>3 DEF ItemsInPlace, Taken
  <2>5. QED BY <2>1, <2>2, <2>4 DEF ScheduleInv
<1>2. ScheduleInv /\ [Background!Next]_(Background!vars) => ScheduleInv'
  <2> SUFFICES ASSUME ScheduleInv, [Background!Next]_(Background!vars)  PROVE ScheduleInv'
    OBVIOUS
  <2>1. Background!TypeOK'
    BY ScheduleTypeStep DEF ScheduleInv, ControlInv
  <2>2. ControlInv'
    BY ControlStep DEF ScheduleInv
  <2>3. ItemsInPlace'
    BY ItemsStep DEF ScheduleInv
  <2>4. QED BY <2>1, <2>2, <2>3 DEF ScheduleInv
<1>3. QED BY <1>1, <1>2, PTL DEF Background!Spec

-------------------------------------------------------------------------------
(* Schedule signals before it puts the item, and only if the queue is empty;
   nevertheless the background thread never sleeps while an item waits, because
   both happen under background_work_mutex_. *)
THEOREM WakeupsAreNotLost ==
  ASSUME Background!BackgroundThreadAssumption
  PROVE  Background!Spec => []Background!NoLostWakeup
<1>1. ScheduleInv => Background!NoLostWakeup
  BY DEF ScheduleInv, ControlInv
<1>2. QED BY <1>1, ScheduleInvariant, PTL

(* BackgroundThreadMain runs each item once, in the order of the queue. *)
THEOREM ItemsRunInOrder ==
  ASSUME Background!BackgroundThreadAssumption
  PROVE  Background!Spec => []Background!InOrder
<1>1. ScheduleInv => Background!InOrder
  <2> SUFFICES ASSUME ScheduleInv  PROVE Background!InOrder
    OBVIOUS
  <2> DEFINE taken == IF running = 0 THEN done ELSE Append(done, running)
  <2>0. /\ queue \in Seq(Nat) /\ done \in Seq(Nat) /\ Len(queue) \in Nat /\ Len(done) \in Nat
        /\ scheduled \in Nat /\ running \in Nat
    BY DEF ScheduleInv, Background!TypeOK, Background!BackgroundThreadAssumption
  <2>1. taken \in Seq(Nat) /\ Len(taken) = Taken /\ \A i \in 1..Taken : taken[i] = i
    BY <2>0, AppendProperties DEF ScheduleInv, ItemsInPlace, Taken
  <2> HIDE DEF taken
  <2>2. /\ taken \o queue \in Seq(Nat)
        /\ Len(taken \o queue) = scheduled
        /\ \A i \in 1..scheduled : (taken \o queue)[i] = i
    <3>1. Taken \in Nat /\ scheduled = Taken + Len(queue)
          /\ \A i \in 1..Len(queue) : queue[i] = Taken + i
      BY <2>0 DEF ScheduleInv, ItemsInPlace, Taken
    <3>2. /\ taken \o queue \in Seq(Nat)
          /\ Len(taken \o queue) = Len(taken) + Len(queue)
          /\ \A i \in 1..Len(taken) + Len(queue) :
               (taken \o queue)[i] = IF i <= Len(taken) THEN taken[i] ELSE queue[i - Len(taken)]
      BY <2>0, <2>1, ConcatProperties
    <3>3. ASSUME NEW i \in 1..scheduled  PROVE (taken \o queue)[i] = i
      <4>1. CASE i <= Taken
        BY <2>0, <2>1, <3>1, <3>2, <4>1
      <4>2. CASE i > Taken
        <5>1. i - Taken \in 1..Len(queue) /\ (taken \o queue)[i] = queue[i - Taken]
          BY <2>0, <2>1, <3>1, <3>2, <4>2
        <5>2. QED BY <2>0, <3>1, <5>1
      <4>3. i <= Taken \/ i > Taken
        BY <2>0, <3>1
      <4>4. QED BY <4>1, <4>2, <4>3
    <3>4. QED BY <2>1, <3>1, <3>2, <3>3
  <2> DEFINE s == taken \o queue
  <2> HIDE DEF s
  <2>3. s = [i \in 1..scheduled |-> i]
    <3>1. s \in Seq(Nat) /\ Len(s) = scheduled /\ \A i \in 1..scheduled : s[i] = i
      BY <2>2 DEF s
    <3>2. s = [i \in 1..Len(s) |-> s[i]]
      BY <3>1
    <3>3. QED BY <3>1, <3>2
  <2>4. QED BY <2>3 DEF Background!InOrder, taken, s
<1>2. QED BY <1>1, ScheduleInvariant, PTL

-------------------------------------------------------------------------------
(* Buffered files. *)

(* The bytes that were not lost. *)
Kept == file \o buf

(* Types, and the relations between the counters that need no history. *)
Types ==
  /\ given \in Nat /\ buf \in Seq(Nat) /\ file \in Seq(Nat)
  /\ durable \in Nat /\ dir \in Nat /\ acked \in Nat /\ isOpen \in BOOLEAN /\ failed \in BOOLEAN
  /\ Len(buf) <= BufferSize /\ durable <= Len(file) /\ acked <= given

(* The bytes that are kept have risen in order from those given; while no
   call has failed none is missing. *)
Rising(s) == \A i, j \in DOMAIN s : i < j => s[i] < s[j]

InOrder == (\A i \in DOMAIN Kept : Kept[i] <= given) /\ Rising(Kept)
AllKept ==
  ~failed => /\ Len(Kept) = given /\ \A i \in DOMAIN Kept : Kept[i] = i
             /\ ~isOpen => buf = <<>>
             /\ durable >= acked /\ (is_manifest_ => dir >= acked)
KeptInv == InOrder /\ AllKept

(* The inductive invariant. *)
FileInv == Types /\ KeptInv

(* A prefix. *)
Begins(u, t) == Len(u) <= Len(t) /\ \A i \in 1..Len(u) : u[i] = t[i]

(* WriteUnbuffered writes a prefix of its data, all of it when it says so. *)
LEMMA Written ==
  ASSUME NEW data \in Seq(Nat), NEW f \in Writable!WriteUnbuffered(data)
  PROVE  /\ f.written \in Seq(Nat) /\ Begins(f.written, data) /\ f.ok \in BOOLEAN
         /\ f.ok => f.written = data
<1>1. CASE f = [written |-> data, ok |-> TRUE]
  BY <1>1 DEF Begins
<1>2. CASE \E n \in 0..Len(data) - 1 : f = [written |-> SubSeq(data, 1, n), ok |-> FALSE]
  <2>1. PICK n \in 0..Len(data) - 1 : f = [written |-> SubSeq(data, 1, n), ok |-> FALSE]
    BY <1>2
  <2>2. /\ SubSeq(data, 1, n) \in Seq(Nat) /\ Len(SubSeq(data, 1, n)) = n
        /\ \A i \in 1..n : SubSeq(data, 1, n)[i] = data[i]
    BY <2>1
  <2>3. f.written = SubSeq(data, 1, n) /\ f.ok = FALSE
    BY <2>1
  <2>4. f.ok \in BOOLEAN /\ ~f.ok
    BY <2>3, Zenon
  <2> QED BY <2>2, <2>3, <2>4 DEF Begins
<1>3. CASE f = [written |-> <<>>, ok |-> TRUE] /\ data = <<>>
  BY <1>3 DEF Begins
<1> QED BY <1>1, <1>2, <1>3 DEF Writable!WriteUnbuffered, Writable!Outcomes

(* The numbers of the next n bytes. *)
LEMMA BytesAre ==
  ASSUME NEW a \in Nat, NEW n \in Nat
  PROVE  /\ Writable!Bytes(a + 1, a + n) \in Seq(Nat) /\ Len(Writable!Bytes(a + 1, a + n)) = n
         /\ \A i \in 1..n : Writable!Bytes(a + 1, a + n)[i] = a + i
<1>1. (a + n) - (a + 1) + 1 = n
  OBVIOUS
<1>2. Writable!Bytes(a + 1, a + n) = [i \in 1..n |-> (a + 1) + i - 1]
  BY <1>1 DEF Writable!Bytes
<1>3. \A i \in 1..n : (a + 1) + i - 1 = a + i /\ a + i \in Nat
  OBVIOUS
<1> DEFINE f == [i \in 1..n |-> (a + 1) + i - 1]
<1>4. f \in [1..n -> Nat] /\ \A i \in 1..n : f[i] = a + i
  BY <1>3
<1>5. f \in Seq(Nat) /\ Len(f) = n
  <2> HIDE DEF f
  <2> QED BY <1>4, FunctionIsSeq
<1> QED BY <1>2, <1>4, <1>5

(* What is copied into the buffer fits. *)
LEMMA CopySizeIs ==
  ASSUME Writable!WritableFileAssumption, Types, NEW n \in Nat
  PROVE  /\ Writable!CopySize(n) \in Nat /\ Writable!CopySize(n) <= n /\ Len(buf) + Writable!CopySize(n) <= BufferSize
<1>1. BufferSize \in Nat /\ Len(buf) \in Nat /\ BufferSize - Len(buf) \in Nat
  BY DEF Writable!WritableFileAssumption, Types
<1> DEFINE m == BufferSize - Len(buf)
<1>2. \E x \in {n, m} : \A y \in {n, m} : x <= y
  BY <1>1
<1>3. Writable!CopySize(n) \in {n, m} /\ \A y \in {n, m} : Writable!CopySize(n) <= y
  <2> HIDE DEF m
  <2> QED BY <1>2 DEF Writable!CopySize, Writable!Min, m
<1> QED BY <1>1, <1>3

(* What was kept, followed by n new bytes. *)
Grown(n, i) == IF i <= Len(Kept) THEN Kept[i] ELSE given + (i - Len(Kept))
KeepsPrefix(n) ==
  Len(Kept') <= Len(Kept) + n /\ \A i \in 1..Len(Kept') : Kept'[i] = Grown(n, i)

(* The elements of a file followed by a buffer. *)
LEMMA KeptIs ==
  ASSUME NEW f \in Seq(Nat), NEW b \in Seq(Nat)
  PROVE  /\ f \o b \in Seq(Nat) /\ DOMAIN (f \o b) = 1..Len(f \o b) /\ Len(f \o b) = Len(f) + Len(b)
         /\ Len(f) \in Nat /\ Len(b) \in Nat
         /\ \A i \in 1..Len(f) : (f \o b)[i] = f[i]
         /\ \A i \in 1..Len(b) : (f \o b)[Len(f) + i] = b[i]
         /\ \A i \in 1..Len(f \o b) : (f \o b)[i] \in Nat
         /\ \A i \in 1..Len(f \o b) :
              (f \o b)[i] = IF i <= Len(f) THEN f[i] ELSE b[i - Len(f)]
<1>1. /\ f \o b \in Seq(Nat) /\ Len(f \o b) = Len(f) + Len(b)
      /\ \A i \in 1..Len(f) : (f \o b)[i] = f[i]
      /\ \A i \in 1..Len(b) : (f \o b)[Len(f) + i] = b[i]
  BY ConcatIs
<1>2. Len(f) \in Nat /\ Len(b) \in Nat
  OBVIOUS
<1> DEFINE c == f \o b
<1>3. c \in Seq(Nat)
  BY <1>1
<1>4. DOMAIN c = 1..Len(c) /\ \A i \in 1..Len(c) : c[i] \in Nat
  <2> HIDE DEF c
  <2> QED BY <1>3
<1>5. ASSUME NEW i \in 1..Len(c) PROVE c[i] = IF i <= Len(f) THEN f[i] ELSE b[i - Len(f)]
  <2>1. CASE i <= Len(f)
    BY <1>1, <1>2, <2>1
  <2>2. CASE ~(i <= Len(f))
    <3>1. i - Len(f) \in 1..Len(b) /\ Len(f) + (i - Len(f)) = i
      BY <1>1, <1>2, <2>2
    <3> QED BY <1>1, <2>2, <3>1
  <2> QED BY <2>1, <2>2
<1> QED BY <1>1, <1>2, <1>4, <1>5

(* Joining is associative. *)
LEMMA JoinsAgree ==
  \A a, b, c \in Seq(Nat) : a \o (b \o c) = (a \o b) \o c
  OBVIOUS

(* When what is kept only grows at its end, by bytes just given, its order
   stays; when it grows by all of them none is missing. *)
LEMMA GrowthKeeps ==
  ASSUME Types, KeptInv, Types', NEW n \in Nat, given' = given + n, KeepsPrefix(n)
  PROVE  /\ \A i \in DOMAIN Kept' : Kept'[i] <= given'
         /\ Rising(Kept')
         /\ ~failed /\ Len(Kept') = Len(Kept) + n =>
              Len(Kept') = given' /\ \A i \in DOMAIN Kept' : Kept'[i] = i
<1>1. /\ DOMAIN Kept = 1..Len(Kept) /\ Len(Kept) \in Nat
      /\ \A i \in 1..Len(Kept) : Kept[i] \in Nat
      /\ DOMAIN Kept' = 1..Len(Kept') /\ Len(Kept') \in Nat /\ given \in Nat
  BY KeptIs DEF Types, Kept
<1>0. (\A i \in DOMAIN Kept : Kept[i] <= given) /\ Rising(Kept) /\ AllKept
  BY DEF KeptInv, InOrder
<1> HIDE DEF Kept
<1>2. ASSUME NEW i \in DOMAIN Kept' PROVE Kept'[i] <= given'
  <2>1. i \in Nat /\ i >= 1 /\ i <= Len(Kept) + n /\ Kept'[i] = Grown(n, i)
    BY <1>1 DEF KeepsPrefix
  <2>2. CASE i <= Len(Kept)
    <3>1. i \in DOMAIN Kept /\ Kept'[i] = Kept[i]
      BY <1>1, <2>1, <2>2 DEF Grown
    <3> QED BY <1>0, <1>1, <3>1
  <2>3. CASE ~(i <= Len(Kept))
    BY <1>1, <2>1, <2>3 DEF Grown
  <2> QED BY <2>2, <2>3
<1>3. ASSUME NEW i \in DOMAIN Kept', NEW j \in DOMAIN Kept', i < j PROVE Kept'[i] < Kept'[j]
  <2>1. /\ i \in Nat /\ j \in Nat /\ i >= 1 /\ j >= 1
        /\ Kept'[i] = Grown(n, i) /\ Kept'[j] = Grown(n, j)
    BY <1>1 DEF KeepsPrefix
  <2>2. CASE j <= Len(Kept)
    <3>1. i \in DOMAIN Kept /\ j \in DOMAIN Kept /\ Kept'[i] = Kept[i] /\ Kept'[j] = Kept[j]
      BY <1>1, <1>3, <2>1, <2>2 DEF Grown
    <3> QED BY <1>0, <1>3, <3>1 DEF Rising
  <2>3. CASE i <= Len(Kept) /\ ~(j <= Len(Kept))
    <3>1. i \in DOMAIN Kept /\ Kept'[i] = Kept[i] /\ Kept[i] <= given /\ Kept[i] \in Nat
      BY <1>0, <1>1, <2>1, <2>3 DEF Grown
    <3>2. Kept'[j] = given + (j - Len(Kept))
      BY <2>1, <2>3 DEF Grown
    <3> QED BY <1>1, <2>1, <2>3, <3>1, <3>2
  <2>4. CASE ~(i <= Len(Kept))
    BY <1>1, <1>3, <2>1, <2>4 DEF Grown
  <2> QED BY <1>1, <2>1, <2>2, <2>3, <2>4
<1>4. ASSUME ~failed, Len(Kept') = Len(Kept) + n
      PROVE  Len(Kept') = given' /\ \A i \in DOMAIN Kept' : Kept'[i] = i
  <2>1. Len(Kept) = given /\ \A i \in DOMAIN Kept : Kept[i] = i
    BY <1>0, <1>4 DEF AllKept
  <2>2. ASSUME NEW i \in DOMAIN Kept' PROVE Kept'[i] = i
    <3>1. i \in Nat /\ i >= 1 /\ Kept'[i] = Grown(n, i)
      BY <1>1 DEF KeepsPrefix
    <3> QED BY <1>1, <2>1, <3>1 DEF Grown
  <2> QED BY <1>1, <1>4, <2>1, <2>2
<1> QED BY <1>2, <1>3, <1>4 DEF Rising

(* FlushBuffer, with any outcome. *)
LEMMA Flushed ==
  ASSUME Types, NEW f \in Writable!WriteUnbuffered(buf), Writable!FlushBuffer(f)
  PROVE  /\ file' \in Seq(Nat) /\ buf' \in Seq(Nat) /\ buf' = <<>> /\ Len(buf') = 0
         /\ KeepsPrefix(0) /\ Len(file) <= Len(file') /\ Len(Kept') = Len(file')
         /\ f.ok \in BOOLEAN
         /\ f.ok => Len(Kept') = Len(Kept)
<1>1. /\ file' = file \o f.written /\ buf' = <<>> /\ file \in Seq(Nat) /\ buf \in Seq(Nat)
  BY DEF Writable!FlushBuffer, Types
<1>2. /\ f.written \in Seq(Nat) /\ Begins(f.written, buf) /\ f.ok \in BOOLEAN
      /\ f.ok => f.written = buf
  BY <1>1, Written
<1>3. buf' \in Seq(Nat) /\ Len(buf') = 0
  BY <1>1, EmptyIsSeq
<1> DEFINE w == f.written
<1> HIDE DEF w
<1>4. /\ file' \in Seq(Nat) /\ Len(file') = Len(file) + Len(w)
      /\ \A i \in 1..Len(file') : file'[i] = IF i <= Len(file) THEN file[i] ELSE w[i - Len(file)]
      /\ Len(file) \in Nat /\ Len(w) \in Nat
  BY <1>1, <1>2, KeptIs DEF w
<1>5. /\ Len(Kept) = Len(file) + Len(buf) /\ Len(buf) \in Nat
      /\ \A i \in 1..Len(Kept) : Kept[i] = IF i <= Len(file) THEN file[i] ELSE buf[i - Len(file)]
  BY <1>1, KeptIs DEF Kept
<1>6. /\ Len(Kept') = Len(file')
      /\ \A i \in 1..Len(Kept') : Kept'[i] = file'[i]
  <2>1. /\ Len(Kept') = Len(file') + Len(buf')
        /\ \A i \in 1..Len(file') : Kept'[i] = file'[i]
    BY <1>3, <1>4, KeptIs DEF Kept
  <2> QED BY <1>3, <1>4, <2>1
<1> HIDE DEF Kept
<1>7. Len(w) <= Len(buf) /\ \A i \in 1..Len(w) : w[i] = buf[i]
  BY <1>2 DEF w, Begins
<1>8. ASSUME NEW i \in 1..Len(Kept') PROVE Kept'[i] = Grown(0, i)
  <2>1. i \in 1..Len(file') /\ i \in 1..Len(Kept) /\ i <= Len(Kept) /\ Kept'[i] = file'[i]
    BY <1>4, <1>5, <1>6, <1>7
  <2>2. CASE i <= Len(file)
    BY <1>4, <1>5, <2>1, <2>2 DEF Grown
  <2>3. CASE ~(i <= Len(file))
    <3>1. i - Len(file) \in 1..Len(w)
      BY <1>4, <2>1, <2>3
    <3> QED BY <1>4, <1>5, <1>7, <2>1, <2>3, <3>1 DEF Grown
  <2> QED BY <2>2, <2>3
<1>9. KeepsPrefix(0)
  BY <1>4, <1>5, <1>6, <1>7, <1>8 DEF KeepsPrefix
<1>10. f.ok => Len(Kept') = Len(Kept)
  BY <1>2, <1>4, <1>5, <1>6 DEF w
<1> QED BY <1>1, <1>2, <1>3, <1>4, <1>6, <1>9, <1>10

(* Whatever is kept of the buffer and n more bytes is kept in order. *)
LEMMA Extends ==
  ASSUME Types, NEW n \in Nat, NEW x \in Seq(Nat), Kept' = file \o x, Len(x) <= Len(buf) + n,
         \A i \in 1..Len(x) : x[i] = IF i <= Len(buf) THEN buf[i] ELSE given + (i - Len(buf))
  PROVE  KeepsPrefix(n) /\ Len(Kept') = Len(file) + Len(x) /\ Len(Kept) = Len(file) + Len(buf)
<1>1. file \in Seq(Nat) /\ buf \in Seq(Nat) /\ given \in Nat
  BY DEF Types
<1>2. /\ Len(Kept) = Len(file) + Len(buf) /\ Len(buf) \in Nat /\ Len(file) \in Nat
      /\ \A i \in 1..Len(Kept) : Kept[i] = IF i <= Len(file) THEN file[i] ELSE buf[i - Len(file)]
  BY <1>1, KeptIs DEF Kept
<1>3. /\ Len(Kept') = Len(file) + Len(x) /\ Len(x) \in Nat
      /\ \A i \in 1..Len(Kept') : Kept'[i] = IF i <= Len(file) THEN file[i] ELSE x[i - Len(file)]
  BY <1>1, KeptIs
<1> HIDE DEF Kept
<1>4. ASSUME NEW i \in 1..Len(Kept') PROVE Kept'[i] = Grown(n, i)
  <2>1. i \in Nat /\ i >= 1 /\ i <= Len(file) + Len(x)
    BY <1>2, <1>3
  <2>2. CASE i <= Len(file)
    BY <1>2, <1>3, <2>1, <2>2 DEF Grown
  <2>3. CASE ~(i <= Len(file))
    <3> DEFINE k == i - Len(file)
    <3>1. k \in 1..Len(x) /\ Kept'[i] = x[k]
      BY <1>2, <1>3, <2>1, <2>3
    <3>2. CASE k <= Len(buf)
      <4>1. x[k] = buf[k]
        BY <3>1, <3>2
      <4>2. i \in 1..Len(Kept) /\ i <= Len(Kept) /\ Kept[i] = buf[k]
        BY <1>2, <2>1, <2>3, <3>2
      <4> QED BY <3>1, <4>1, <4>2 DEF Grown
    <3>3. CASE ~(k <= Len(buf))
      <4>1. x[k] = given + (k - Len(buf))
        BY <3>1, <3>3
      <4>2. ~(i <= Len(Kept)) /\ i - Len(Kept) = k - Len(buf)
        BY <1>2, <2>1, <3>3
      <4> QED BY <3>1, <4>1, <4>2 DEF Grown
    <3> QED BY <3>2, <3>3
  <2> QED BY <2>2, <2>3
<1> QED BY <1>2, <1>3, <1>4 DEF KeepsPrefix

(* Append, whatever the writes' outcomes: what is kept grows at its end, by
   all n bytes unless a write fails. *)
LEMMA Appended ==
  ASSUME Writable!WritableFileAssumption, Types, NEW n \in Nat, Writable!AppendData(n)
  PROVE  /\ file' \in Seq(Nat) /\ buf' \in Seq(Nat) /\ Len(buf') <= BufferSize
         /\ failed' \in BOOLEAN /\ Len(file) <= Len(file')
         /\ KeepsPrefix(n) /\ (~failed' => ~failed /\ Len(Kept') = Len(Kept) + n)
<1> DEFINE copy == Writable!CopySize(n)
           new == Writable!Bytes(given + 1, given + copy)
           full == buf \o new
           rest == Writable!Bytes(given + copy + 1, given + n)
<1>1. /\ file \in Seq(Nat) /\ buf \in Seq(Nat) /\ given \in Nat /\ failed \in BOOLEAN
      /\ Len(file) \in Nat /\ Len(buf) \in Nat /\ BufferSize \in Nat
  BY DEF Types, Writable!WritableFileAssumption
<1>2. copy \in Nat /\ copy <= n /\ Len(buf) + copy <= BufferSize
  BY CopySizeIs
<1> HIDE DEF copy
<1>3. new \in Seq(Nat) /\ Len(new) = copy /\ \A i \in 1..copy : new[i] = given + i
  BY <1>1, <1>2, BytesAre
<1>4. /\ rest \in Seq(Nat) /\ Len(rest) = n - copy
      /\ \A i \in 1..(n - copy) : rest[i] = given + copy + i
  <2>1. given + copy \in Nat /\ n - copy \in Nat /\ given + n = (given + copy) + (n - copy)
    BY <1>1, <1>2
  <2> QED BY <2>1, BytesAre
<1> HIDE DEF new, rest
<1>5. /\ full \in Seq(Nat) /\ Len(full) = Len(buf) + copy
      /\ \A i \in 1..Len(full) : full[i] = IF i <= Len(buf) THEN buf[i] ELSE new[i - Len(buf)]
  BY <1>1, <1>3, KeptIs
<1>6. ASSUME NEW i \in 1..Len(full)
      PROVE  full[i] = IF i <= Len(buf) THEN buf[i] ELSE given + (i - Len(buf))
  <2>1. CASE i <= Len(buf)
    BY <1>5, <2>1
  <2>2. CASE ~(i <= Len(buf))
    <3>1. i - Len(buf) \in 1..copy
      BY <1>1, <1>2, <1>5, <2>2
    <3> QED BY <1>3, <1>5, <2>2, <3>1
  <2> QED BY <2>1, <2>2
<1> HIDE DEF full
<1>7. CASE rest = <<>> /\ buf' = full /\ file' = file /\ failed' = failed
  <2>1. copy = n
    BY <1>2, <1>4, <1>7
  <2>2. Kept' = file \o full
    BY <1>7 DEF Kept
  <2>4. Len(full) <= Len(buf) + n
    BY <1>1, <1>2, <1>5, <2>1
  <2>3. KeepsPrefix(n) /\ Len(Kept') = Len(file) + Len(full) /\ Len(Kept) = Len(file) + Len(buf)
    BY <1>5, <1>6, <2>2, <2>4, Extends
  <2> QED BY <1>1, <1>2, <1>5, <1>7, <2>1, <2>3
<1>8. CASE \E f \in Writable!WriteUnbuffered(full), r \in Writable!WriteUnbuffered(rest) :
             IF ~f.ok THEN /\ file' = file \o f.written
                           /\ buf' = <<>> /\ failed' = TRUE
             ELSE IF Len(rest) < BufferSize
                  THEN file' = file \o f.written /\ buf' = rest /\ UNCHANGED failed
             ELSE /\ file' = file \o f.written \o r.written
                  /\ buf' = <<>> /\ failed' = (failed \/ ~r.ok)
  <2>1. PICK f \in Writable!WriteUnbuffered(full), r \in Writable!WriteUnbuffered(rest) :
             IF ~f.ok THEN /\ file' = file \o f.written
                           /\ buf' = <<>> /\ failed' = TRUE
             ELSE IF Len(rest) < BufferSize
                  THEN file' = file \o f.written /\ buf' = rest /\ UNCHANGED failed
             ELSE /\ file' = file \o f.written \o r.written
                  /\ buf' = <<>> /\ failed' = (failed \/ ~r.ok)
    BY <1>8
  <2> DEFINE w == f.written
             v == r.written
  <2>2. /\ w \in Seq(Nat) /\ Begins(w, full) /\ f.ok \in BOOLEAN
        /\ f.ok => w = full
    BY <1>5, Written
  <2>3. /\ v \in Seq(Nat) /\ Begins(v, rest) /\ r.ok \in BOOLEAN
        /\ r.ok => v = rest
    BY <1>4, Written
  <2>4. CASE ~f.ok /\ file' = file \o w /\ buf' = <<>> /\ failed' = TRUE
    <3> HIDE DEF w
    <3>1. file' \in Seq(Nat) /\ Len(file') = Len(file) + Len(w) /\ Len(w) \in Nat
      BY <1>1, <2>2, <2>4, KeptIs
    <3>2. Kept' = file \o w
      <4>1. file' \o <<>> = file'
        BY <3>1
      <4> QED BY <2>4, <4>1 DEF Kept
    <3>3. Len(w) <= Len(buf) + n
      BY <1>1, <1>2, <1>5, <2>2, <3>1 DEF Begins
    <3>4. ASSUME NEW i \in 1..Len(w)
          PROVE  w[i] = IF i <= Len(buf) THEN buf[i] ELSE given + (i - Len(buf))
      <4>1. w[i] = full[i] /\ i \in 1..Len(full)
        <5>1. Len(w) <= Len(full) /\ \A k \in 1..Len(w) : w[k] = full[k]
          BY <2>2 DEF Begins
        <5>2. Len(full) \in Nat
          BY <1>5
        <5>3. i \in 1..Len(full)
          BY <3>1, <5>1, <5>2
        <5> QED BY <5>1, <5>3
      <4> QED BY <1>6, <4>1
    <3>5. KeepsPrefix(n)
      BY <2>2, <3>2, <3>3, <3>4, Extends
    <3>6. buf' \in Seq(Nat) /\ Len(buf') = 0
      BY <2>4, EmptyIsSeq
    <3> QED BY <1>1, <2>4, <3>1, <3>5, <3>6
  <2>5. CASE f.ok
    <3>1. w = full
      BY <2>2, <2>5
    <3>2. ASSUME NEW x \in Seq(Nat), Begins(x, rest), Kept' = (file \o full) \o x
          PROVE  KeepsPrefix(n) /\ Len(Kept') = Len(Kept) + copy + Len(x)
      <4> DEFINE y == full \o x
      <4>1. /\ y \in Seq(Nat) /\ Len(y) = Len(full) + Len(x) /\ Len(x) \in Nat
            /\ \A i \in 1..Len(y) : y[i] = IF i <= Len(full) THEN full[i] ELSE x[i - Len(full)]
        BY <1>5, KeptIs
      <4>2. Kept' = file \o y
        <5>1. file \o (full \o x) = (file \o full) \o x
          <6>1. file \in Seq(Nat) /\ full \in Seq(Nat) /\ x \in Seq(Nat)
            BY <1>1, <1>5
          <6> QED BY <6>1, JoinsAgree
        <5> QED BY <3>2, <5>1
      <4> HIDE DEF y
      <4>3. Len(y) <= Len(buf) + n
        BY <1>1, <1>2, <1>4, <1>5, <3>2, <4>1 DEF Begins
      <4>4. ASSUME NEW i \in 1..Len(y)
            PROVE  y[i] = IF i <= Len(buf) THEN buf[i] ELSE given + (i - Len(buf))
        <5>1. CASE i <= Len(full)
          <6>1. i \in 1..Len(full) /\ y[i] = full[i]
            BY <1>1, <1>2, <1>5, <4>1, <5>1
          <6> QED BY <1>6, <6>1
        <5>2. CASE ~(i <= Len(full))
          <6>0. Len(full) \in Nat /\ i \in Nat
            BY <1>5
          <6>1. i - Len(full) \in 1..Len(x) /\ y[i] = x[i - Len(full)]
            <7>1. y[i] = x[i - Len(full)]
              BY <4>1, <5>2
            <7>2. i <= Len(full) + Len(x)
              BY <4>1
            <7> QED BY <4>1, <5>2, <6>0, <7>1, <7>2
          <6>2. i - Len(full) \in 1..(n - copy) /\ x[i - Len(full)] = rest[i - Len(full)]
            <7>1. Len(x) <= Len(rest) /\ \A k \in 1..Len(x) : x[k] = rest[k]
              BY <3>2 DEF Begins
            <7>2. x[i - Len(full)] = rest[i - Len(full)]
              BY <6>1, <7>1
            <7>3. Len(x) <= n - copy
              BY <1>4, <7>1
            <7> QED BY <1>2, <4>1, <6>0, <6>1, <7>2, <7>3
          <6>3. y[i] = given + copy + (i - Len(full))
            BY <1>4, <6>1, <6>2
          <6> QED BY <1>1, <1>2, <1>5, <4>1, <5>2, <6>3
        <5> QED BY <5>1, <5>2
      <4>5. KeepsPrefix(n) /\ Len(Kept') = Len(file) + Len(y) /\ Len(Kept) = Len(file) + Len(buf)
        BY <4>1, <4>2, <4>3, <4>4, Extends
      <4> QED BY <1>1, <1>2, <1>5, <4>1, <4>5
    <3> DEFINE g == file \o full
    <3>3. g \in Seq(Nat) /\ Len(g) = Len(file) + Len(full)
      BY <1>1, <1>5, KeptIs
    <3>4. CASE file' = g /\ buf' = rest /\ failed' = failed /\ Len(rest) < BufferSize
      <4>1. Begins(rest, rest)
        BY <1>4 DEF Begins
      <4>2. KeepsPrefix(n) /\ Len(Kept') = Len(Kept) + copy + Len(rest)
        BY <1>4, <3>2, <3>4, <4>1 DEF Kept
      <4>3. Len(Kept) \in Nat
        BY <1>1, KeptIs DEF Kept
      <4> HIDE DEF g
      <4> QED BY <1>1, <1>2, <1>4, <1>5, <3>3, <3>4, <4>2, <4>3
    <3>5. CASE file' = g \o v /\ buf' = <<>> /\ failed' = (failed \/ ~r.ok)
      <4> HIDE DEF v
      <4>1. file' \in Seq(Nat) /\ Len(file') = Len(g) + Len(v) /\ Len(v) \in Nat
        <5> HIDE DEF g
        <5> QED BY <2>3, <3>3, <3>5, KeptIs
      <4>2. Kept' = g \o v
        <5>1. file' \o <<>> = file'
          BY <4>1
        <5> QED BY <3>5, <5>1 DEF Kept
      <4>3. KeepsPrefix(n) /\ Len(Kept') = Len(Kept) + copy + Len(v)
        BY <2>3, <3>2, <4>2
      <4>4. buf' \in Seq(Nat) /\ Len(buf') = 0 /\ failed' \in BOOLEAN
        BY <1>1, <2>3, <3>5, EmptyIsSeq
      <4>5. Len(Kept) \in Nat
        BY <1>1, KeptIs DEF Kept
      <4>6. ~failed' => ~failed /\ r.ok
        BY <3>5
      <4> HIDE DEF g
      <4> QED BY <1>1, <1>2, <1>4, <1>5, <2>3, <3>3, <4>1, <4>3, <4>4, <4>5, <4>6
    <3>6. \/ file' = g /\ buf' = rest /\ failed' = failed /\ Len(rest) < BufferSize
          \/ file' = g \o v /\ buf' = <<>> /\ failed' = (failed \/ ~r.ok)
      BY <2>1, <2>5, <3>1
    <3> QED BY <3>4, <3>5, <3>6
  <2>6. \/ ~f.ok /\ file' = file \o w /\ buf' = <<>> /\ failed' = TRUE
        \/ f.ok
    BY <2>1
  <2> QED BY <2>4, <2>5, <2>6
<1> QED BY <1>7, <1>8 DEF Writable!AppendData, full, new, rest, copy

-------------------------------------------------------------------------------
(* Init establishes the invariant. *)
LEMMA InitFile ==
  ASSUME Writable!WritableFileAssumption, Writable!Init
  PROVE  FileInv
<1>1. Types
  <2>1. BufferSize \in Nat /\ Len(<<>>) = 0 /\ <<>> \in Seq(Nat)
    BY EmptyIsSeq DEF Writable!WritableFileAssumption
  <2>2. isOpen \in BOOLEAN /\ failed \in BOOLEAN
    BY DEF Writable!Init
  <2> QED BY <2>1, <2>2 DEF Writable!Init, Types
<1>2. Kept = <<>> /\ Len(Kept) = 0 /\ DOMAIN Kept = {}
  BY DEF Writable!Init, Kept
<1>3. InOrder /\ AllKept
  BY <1>2 DEF Writable!Init, InOrder, AllKept, Rising
<1> QED BY <1>1, <1>3 DEF FileInv, KeptInv

(* Append keeps it. *)
LEMMA AppendKeeps ==
  ASSUME Writable!WritableFileAssumption, FileInv, NEW n \in Nat, Writable!AppendData(n)
  PROVE  FileInv'
<1>1. Types /\ KeptInv
  BY DEF FileInv
<1>2. /\ file' \in Seq(Nat) /\ buf' \in Seq(Nat) /\ Len(buf') <= BufferSize
      /\ failed' \in BOOLEAN /\ Len(file) <= Len(file')
      /\ KeepsPrefix(n) /\ (~failed' => ~failed /\ Len(Kept') = Len(Kept) + n)
  BY <1>1, Appended
<1>3. /\ isOpen /\ given' = given + n /\ isOpen' = isOpen
      /\ durable' = durable /\ dir' = dir /\ acked' = acked
  BY DEF Writable!AppendData
<1>4. Types'
  <2>1. Len(file') \in Nat /\ Len(file) \in Nat
    BY <1>1, <1>2 DEF Types
  <2> QED BY <1>1, <1>2, <1>3, <2>1 DEF Types
<1>5. /\ \A i \in DOMAIN Kept' : Kept'[i] <= given'
      /\ Rising(Kept')
      /\ ~failed /\ Len(Kept') = Len(Kept) + n =>
           Len(Kept') = given' /\ \A i \in DOMAIN Kept' : Kept'[i] = i
  BY <1>1, <1>2, <1>3, <1>4, GrowthKeeps
<1>6. InOrder'
  BY <1>5 DEF InOrder, Rising
<1>7. AllKept'
  BY <1>1, <1>2, <1>3, <1>5 DEF AllKept, KeptInv
<1> QED BY <1>4, <1>6, <1>7 DEF FileInv, KeptInv

(* What a FlushBuffer keeps, for Flush, Sync and Close. *)
LEMMA FlushKeeps ==
  ASSUME FileInv, Types', NEW f \in Writable!WriteUnbuffered(buf), Writable!FlushBuffer(f), given' = given
  PROVE  /\ InOrder'
         /\ ~failed /\ f.ok => /\ Len(Kept') = given' /\ Len(file') = given'
                               /\ \A i \in DOMAIN Kept' : Kept'[i] = i
<1>1. Types /\ KeptInv
  BY DEF FileInv
<1>2. KeepsPrefix(0) /\ Len(Kept') = Len(file') /\ (f.ok => Len(Kept') = Len(Kept))
  BY <1>1, Flushed
<1>3. given' = given + 0 /\ Len(Kept) = Len(Kept) + 0
  <2>1. Len(Kept) \in Nat /\ given \in Nat
    BY <1>1, KeptIs DEF Types, Kept
  <2> QED BY <2>1
<1>4. /\ \A i \in DOMAIN Kept' : Kept'[i] <= given'
      /\ Rising(Kept')
      /\ ~failed /\ Len(Kept') = Len(Kept) + 0 =>
           Len(Kept') = given' /\ \A i \in DOMAIN Kept' : Kept'[i] = i
  BY <1>1, <1>2, <1>3, GrowthKeeps
<1>5. InOrder'
  BY <1>4 DEF InOrder, Rising
<1> QED BY <1>2, <1>3, <1>4, <1>5

(* Flush keeps it. *)
LEMMA FlushStepKeeps ==
  ASSUME Writable!WritableFileAssumption, FileInv, Writable!Flush
  PROVE  FileInv'
<1>1. PICK f \in Writable!WriteUnbuffered(buf) : Writable!FlushBuffer(f) /\ failed' = (failed \/ ~f.ok)
  BY DEF Writable!Flush
<1>2. /\ isOpen /\ given' = given /\ isOpen' = isOpen
      /\ durable' = durable /\ dir' = dir /\ acked' = acked
  BY DEF Writable!Flush
<1>3. Types /\ AllKept /\ BufferSize \in Nat
  BY DEF FileInv, KeptInv, Writable!WritableFileAssumption
<1>4. /\ file' \in Seq(Nat) /\ buf' \in Seq(Nat) /\ Len(buf') = 0
      /\ Len(file) <= Len(file') /\ f.ok \in BOOLEAN
  BY <1>1, <1>3, Flushed
<1>5. Types'
  <2>1. Len(file') \in Nat /\ Len(file) \in Nat
    BY <1>3, <1>4 DEF Types
  <2>2. failed' \in BOOLEAN
    BY <1>1, <1>3, <1>4 DEF Types
  <2> QED BY <1>2, <1>3, <1>4, <2>1, <2>2 DEF Types
<1>6. /\ InOrder'
      /\ ~failed /\ f.ok => Len(Kept') = given' /\ \A i \in DOMAIN Kept' : Kept'[i] = i
  BY <1>1, <1>2, <1>5, FlushKeeps
<1>7. ~failed' => ~failed /\ f.ok
  BY <1>1
<1>8. AllKept'
  BY <1>2, <1>3, <1>6, <1>7 DEF AllKept
<1> QED BY <1>5, <1>6, <1>8 DEF FileInv, KeptInv

(* Close keeps it: what was buffered is in the file, or an error is on
   record. *)
LEMMA CloseKeeps ==
  ASSUME Writable!WritableFileAssumption, FileInv, Writable!Close
  PROVE  FileInv'
<1>1. PICK f \in Writable!WriteUnbuffered(buf), c \in Writable!SystemCall :
        Writable!FlushBuffer(f) /\ failed' = (failed \/ ~f.ok \/ ~c)
  BY DEF Writable!Close
<1>2. /\ given' = given /\ isOpen' = FALSE
      /\ durable' = durable /\ dir' = dir /\ acked' = acked
  BY DEF Writable!Close
<1>3. Types /\ AllKept /\ BufferSize \in Nat /\ c \in BOOLEAN
  BY DEF FileInv, KeptInv, Writable!WritableFileAssumption, Writable!SystemCall
<1>4. /\ file' \in Seq(Nat) /\ buf' \in Seq(Nat) /\ Len(buf') = 0 /\ buf' = <<>>
      /\ Len(file) <= Len(file') /\ f.ok \in BOOLEAN
  BY <1>1, <1>3, Flushed
<1>5. Types'
  <2>1. Len(file') \in Nat /\ Len(file) \in Nat
    BY <1>3, <1>4 DEF Types
  <2>2. failed' \in BOOLEAN
    BY <1>1, <1>3, <1>4 DEF Types
  <2>3. isOpen' \in BOOLEAN
    BY <1>2
  <2> QED BY <1>2, <1>3, <1>4, <2>1, <2>2, <2>3 DEF Types
<1>6. /\ InOrder'
      /\ ~failed /\ f.ok => Len(Kept') = given' /\ \A i \in DOMAIN Kept' : Kept'[i] = i
  BY <1>1, <1>2, <1>5, FlushKeeps
<1>7. ~failed' => ~failed /\ f.ok
  BY <1>1
<1>8. AllKept'
  BY <1>2, <1>3, <1>4, <1>6, <1>7 DEF AllKept
<1> QED BY <1>5, <1>6, <1>8 DEF FileInv, KeptInv

(* A step that leaves the bytes alone keeps their order. *)
LEMMA SameBytes ==
  ASSUME InOrder, given' = given, file' = file, buf' = buf
  PROVE  InOrder' /\ Kept' = Kept
<1>1. Kept' = Kept
  BY DEF Kept
<1> QED BY <1>1 DEF InOrder, Rising

(* Sync keeps it: an acknowledgement means that all that was given is in the
   file and the file on disk, after the directory. *)
LEMMA SyncKeeps ==
  ASSUME Writable!WritableFileAssumption, FileInv, Writable!Sync
  PROVE  FileInv'
<1>1. PICK d \in Writable!SystemCall, f \in Writable!WriteUnbuffered(buf), s \in Writable!SystemCall :
       IF is_manifest_ /\ ~d THEN failed' = TRUE /\ UNCHANGED <<buf, file, durable, dir, acked>>
       ELSE /\ dir' = IF is_manifest_ THEN given ELSE dir
            /\ Writable!FlushBuffer(f)
            /\ failed' = (failed \/ ~f.ok \/ ~s)
            /\ durable' = IF f.ok /\ s THEN Len(file') ELSE durable
            /\ acked' = IF f.ok /\ s THEN given ELSE acked
  BY DEF Writable!Sync
<1>2. given' = given /\ isOpen' = isOpen /\ isOpen
  BY DEF Writable!Sync
<1>3. /\ Types /\ AllKept /\ InOrder /\ BufferSize \in Nat
      /\ d \in BOOLEAN /\ s \in BOOLEAN /\ is_manifest_ \in BOOLEAN
  BY DEF FileInv, KeptInv, Writable!WritableFileAssumption, Writable!SystemCall
<1>4. CASE is_manifest_ /\ ~d
  <2>1. failed' = TRUE /\ UNCHANGED <<buf, file, durable, dir, acked>>
    BY <1>1, <1>4
  <2>2. Types'
    BY <1>2, <1>3, <2>1 DEF Types
  <2>3. InOrder'
    BY <1>2, <1>3, <2>1, SameBytes
  <2>4. AllKept'
    BY <2>1 DEF AllKept
  <2> QED BY <2>2, <2>3, <2>4 DEF FileInv, KeptInv
<1>5. CASE ~(is_manifest_ /\ ~d)
  <2>1. /\ dir' = IF is_manifest_ THEN given ELSE dir
        /\ Writable!FlushBuffer(f)
        /\ failed' = (failed \/ ~f.ok \/ ~s)
        /\ durable' = IF f.ok /\ s THEN Len(file') ELSE durable
        /\ acked' = IF f.ok /\ s THEN given ELSE acked
    BY <1>1, <1>5
  <2>2. /\ file' \in Seq(Nat) /\ buf' \in Seq(Nat) /\ Len(buf') = 0
        /\ Len(file) <= Len(file') /\ f.ok \in BOOLEAN
    BY <1>3, <2>1, Flushed
  <2>3. Types'
    <3>1. Len(file') \in Nat /\ Len(file) \in Nat
      BY <1>3, <2>2 DEF Types
    <3>2. failed' \in BOOLEAN
      BY <1>3, <2>1, <2>2 DEF Types
    <3>3. dir' \in Nat /\ durable' \in Nat /\ durable' <= Len(file')
          /\ acked' \in Nat /\ acked' <= given'
      BY <1>2, <1>3, <2>1, <2>2, <3>1 DEF Types
    <3> QED BY <1>2, <1>3, <2>2, <3>1, <3>2, <3>3 DEF Types
  <2>4. /\ InOrder'
        /\ ~failed /\ f.ok => /\ Len(Kept') = given' /\ Len(file') = given'
                              /\ \A i \in DOMAIN Kept' : Kept'[i] = i
    BY <1>2, <2>1, <2>3, FlushKeeps
  <2>5. AllKept'
    <3>1. SUFFICES ASSUME ~failed' PROVE AllKept'
      BY DEF AllKept
    <3>2. ~failed /\ f.ok /\ s
      BY <2>1, <3>1
    <3>3. durable' = Len(file') /\ acked' = given /\ (is_manifest_ => dir' = given)
      BY <2>1, <3>2
    <3>4. given \in Nat
      BY <1>3 DEF Types
    <3> QED BY <1>2, <2>4, <3>2, <3>3, <3>4 DEF AllKept
  <2> QED BY <2>3, <2>4, <2>5 DEF FileInv, KeptInv
<1> QED BY <1>4, <1>5

(* The operating system's own writes keep it. *)
LEMMA WriteBackKeeps ==
  ASSUME FileInv, Writable!WriteBack \/ Writable!WriteBackDirectory
  PROVE  FileInv'
<1>1. Types /\ AllKept /\ InOrder
  BY DEF FileInv, KeptInv
<1>2. /\ given' = given /\ buf' = buf /\ file' = file /\ isOpen' = isOpen
      /\ failed' = failed /\ acked' = acked
  BY DEF Writable!WriteBack, Writable!WriteBackDirectory
<1>3. InOrder' /\ Kept' = Kept
  BY <1>1, <1>2, SameBytes
<1>4. /\ durable' \in Nat /\ durable' >= durable /\ durable' <= Len(file)
      /\ dir' \in Nat /\ dir' >= dir
  BY <1>1 DEF Writable!WriteBack, Writable!WriteBackDirectory, Types
<1>5. Types'
  BY <1>1, <1>2, <1>4 DEF Types
<1>6. AllKept'
  <2>1. durable \in Nat /\ dir \in Nat /\ acked \in Nat
    BY <1>1 DEF Types
  <2> QED BY <1>1, <1>2, <1>3, <1>4, <2>1 DEF AllKept
<1> QED BY <1>3, <1>5, <1>6 DEF FileInv, KeptInv

(* The invariant holds: every byte that is kept is in its place behind the
   ones given before it, and while no call fails all of them are kept. *)
THEOREM FileInvHolds ==
  ASSUME Writable!WritableFileAssumption
  PROVE  Writable!Spec => []FileInv
<1>1. Writable!Init => FileInv
  BY InitFile
<1>2. FileInv /\ [Writable!Next]_(Writable!vars) => FileInv'
  <2> SUFFICES ASSUME FileInv, [Writable!Next]_(Writable!vars) PROVE FileInv'
    OBVIOUS
  <2>1. CASE Writable!Next
    <3>1. ASSUME NEW n \in 1..MaxAppend, Writable!AppendData(n) PROVE FileInv'
      <4>1. n \in Nat
        OBVIOUS
      <4> QED BY <3>1, <4>1, AppendKeeps
    <3> QED BY <2>1, <3>1, FlushStepKeeps, SyncKeeps, CloseKeeps, WriteBackKeeps DEF Writable!Next
  <2>2. CASE UNCHANGED Writable!vars
    <3>1. Types /\ AllKept /\ InOrder
      BY DEF FileInv, KeptInv
    <3>2. InOrder' /\ Kept' = Kept
      BY <2>2, <3>1, SameBytes DEF Writable!vars
    <3> QED BY <2>2, <3>1, <3>2 DEF Writable!vars, FileInv, KeptInv, Types, AllKept
  <2> QED BY <2>1, <2>2
<1> QED BY <1>1, <1>2, PTL DEF Writable!Spec

(* While no call fails every byte given to Append is in the file or the
   buffer, in order, and in the file once it is closed. *)
THEOREM NoByteIsLost ==
  ASSUME Writable!WritableFileAssumption
  PROVE  Writable!Spec => []Writable!NothingLost
<1>1. FileInv => Writable!NothingLost
  <2> SUFFICES ASSUME FileInv, ~failed
               PROVE  Kept = Writable!Bytes(1, given) /\ (~isOpen => buf = <<>>)
    BY DEF Writable!NothingLost, Kept
  <2>1. /\ Len(Kept) = given /\ \A i \in DOMAIN Kept : Kept[i] = i
        /\ ~isOpen => buf = <<>>
    BY DEF FileInv, KeptInv, AllKept
  <2>2. Kept \in Seq(Nat) /\ DOMAIN Kept = 1..Len(Kept) /\ given \in Nat
    BY KeptIs DEF FileInv, Types, Kept
  <2>3. Writable!Bytes(1, given) = [i \in 1..given |-> i]
    BY <2>2 DEF Writable!Bytes
  <2> HIDE DEF Kept
  <2>4. Kept = [i \in 1..given |-> i]
    BY <2>1, <2>2
  <2> QED BY <2>1, <2>3, <2>4
<1> QED BY <1>1, FileInvHolds, PTL

(* What was given before a Sync that succeeded is on disk, and so are the
   directory entries a manifest relies on. *)
THEOREM SyncMeansDurable ==
  ASSUME Writable!WritableFileAssumption
  PROVE  Writable!Spec => []Writable!SyncedIsDurable
<1>1. FileInv => Writable!SyncedIsDurable
  BY DEF FileInv, KeptInv, AllKept, Writable!SyncedIsDurable
<1> QED BY <1>1, FileInvHolds, PTL

(* Whatever fails, no byte is written twice or out of order. *)
THEOREM BytesStayInOrder ==
  ASSUME Writable!WritableFileAssumption
  PROVE  Writable!Spec => []Writable!StillInOrder
<1>1. FileInv => Writable!StillInOrder
  BY DEF FileInv, KeptInv, InOrder, Rising, Writable!StillInOrder, Kept
<1> QED BY <1>1, FileInvHolds, PTL

(* Files are right (FilesAreRight), for any buffer, appends and failures. *)
THEOREM FilesStayRight ==
  ASSUME Writable!WritableFileAssumption
  PROVE  Writable!Spec => []Writable!FilesAreRight
<1>1. Writable!NothingLost /\ Writable!SyncedIsDurable /\ Writable!StillInOrder => Writable!FilesAreRight
  BY DEF Writable!FilesAreRight
<1> QED BY <1>1, NoByteIsLost, SyncMeansDurable, BytesStayInOrder, PTL

-------------------------------------------------------------------------------
(* What MCParts checks of each of the three in its turn. *)
EnvironmentIsSafe ==
  /\ Lock!ExclusiveInProcess /\ Lock!ExclusiveUntilClosed /\ Lock!NothingLeft
  /\ CountersExact /\ LimitsKept /\ NoDescriptorLost
  /\ Background!NoLostWakeup /\ Background!InOrder

(* Together: file locks, open files and background thread (util/env_posix.cc)
   are safe side by side, for any threads, processes, limits and items. *)
THEOREM EnvironmentStaysSafe ==
  ASSUME Lock!FileLockAssumption, ReadableFilesAssumption, Background!BackgroundThreadAssumption
  PROVE  Lock!Spec /\ Spec /\ Background!Spec => []EnvironmentIsSafe
<1>1. (/\ Lock!ExclusiveInProcess /\ Lock!ExclusiveUntilClosed /\ Lock!NothingLeft
       /\ (CountersExact /\ NoDescriptorLost) /\ LimitsKept
       /\ Background!NoLostWakeup /\ Background!InOrder) => EnvironmentIsSafe
  BY DEF EnvironmentIsSafe
<1>2. QED
  BY <1>1, ThreadsExcludeEachOther, ProcessesExcludeEachOther, LocksAreGivenUp, NothingLeaks, LimitsHold,
     WakeupsAreNotLost, ItemsRunInOrder, PTL
===============================================================================
