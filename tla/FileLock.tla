-------------------------------- MODULE FileLock --------------------------------
(***************************************************************************)
(* The lock of a LevelDB database: PosixEnv::LockFile and UnlockFile       *)
(* (util/env_posix.cc), called by threads of several processes on the same *)
(* file.  Each process has its table of locked files; between processes    *)
(* there is the record lock of POSIX, which belongs to the process and is  *)
(* given up when the process closes any descriptor of the file.  A thread  *)
(* that has the lock may call LockFile again: a database is opened twice.  *)
(***************************************************************************)
EXTENDS Integers, FiniteSets

CONSTANTS
  Threads,
  Processes,
  ProcessOf(_),  \* of a thread
  None

FileLockAssumption ==
  /\ None \notin Processes
  /\ \A t \in Threads : ProcessOf(t) \in Processes

VARIABLES
  pc,       \* where each thread is in LockFile or UnlockFile
  handles,  \* threads that LockFile gave a FileLock and that have yet to unlock it
  locks,    \* processes whose PosixLockTable has the file
  lost,     \* processes with a FileLock that nobody unlocks any more
  holder,   \* the process that has the record lock, or None
  dropped   \* history: processes with a FileLock whose record lock a close gave up

vars == <<pc, handles, locks, lost, holder, dropped>>

HasHandle(p) == \E t \in handles : ProcessOf(t) = p

(* Closing a descriptor gives up the process's lock, whichever descriptor it
   was taken through. *)
Close(p) ==
  /\ holder' = IF holder = p THEN None ELSE holder
  /\ dropped' = dropped \cup {q \in {p} : holder = p /\ HasHandle(p)}

Goto(t, from, to) == pc[t] = from /\ pc' = [pc EXCEPT ![t] = to]

Init ==
  /\ pc = [t \in Threads |-> "idle"]
  /\ handles = {}
  /\ locks = {}
  /\ lost = {}
  /\ holder = None
  /\ dropped = {}

-------------------------------------------------------------------------------
(* LockFile, by any thread, one that has the lock too. *)

OpenFile(t) ==
  /\ Goto(t, "idle", "opened")
  /\ UNCHANGED <<handles, locks, lost, holder, dropped>>

Insert(t) ==
  /\ Goto(t, "opened", IF ProcessOf(t) \in locks THEN "refused" ELSE "inserted")
  /\ locks' = locks \cup {ProcessOf(t)}
  /\ UNCHANGED <<handles, lost, holder, dropped>>

CloseRefused(t) ==
  /\ Goto(t, "refused", "idle")
  /\ Close(ProcessOf(t))
  /\ UNCHANGED <<handles, locks, lost>>

SetLock(t) ==
  /\ Goto(t, "inserted", "idle")
  /\ holder \in {None, ProcessOf(t)}
  /\ holder' = ProcessOf(t)
  /\ handles' = handles \cup {t}
  /\ UNCHANGED <<locks, lost, dropped>>

(* fcntl fails: another process has the record lock, or there is no lock to
   be had. *)
SetLockFails(t) ==
  /\ Goto(t, "inserted", "denied")
  /\ UNCHANGED <<handles, locks, lost, holder, dropped>>

CloseDenied(t) ==
  /\ Goto(t, "denied", "forgetting")
  /\ Close(ProcessOf(t))
  /\ UNCHANGED <<handles, locks, lost>>

Forget(t) ==
  /\ Goto(t, "forgetting", "idle")
  /\ locks' = locks \ {ProcessOf(t)}
  /\ UNCHANGED <<handles, lost, holder, dropped>>

-------------------------------------------------------------------------------
(* UnlockFile, by the thread that has the lock. *)

ClearLock(t) ==
  /\ t \in handles
  /\ Goto(t, "idle", "unlocked")
  /\ holder' = IF holder = ProcessOf(t) THEN None ELSE holder
  /\ handles' = handles \ {t}
  /\ dropped' = dropped \ {ProcessOf(t)}
  /\ UNCHANGED <<locks, lost>>

(* fcntl fails and UnlockFile returns at once: the name stays in the table and
   the descriptor open.  Both callers, DBImpl's destructor and DestroyDB, look
   at no status and keep no FileLock to try again with. *)
ClearLockFails(t) ==
  /\ t \in handles
  /\ pc[t] = "idle"
  /\ handles' = handles \ {t}
  /\ lost' = lost \cup {ProcessOf(t)}
  /\ dropped' = dropped \ {ProcessOf(t)}
  /\ UNCHANGED <<pc, locks, holder>>

Remove(t) ==
  /\ Goto(t, "unlocked", "removed")
  /\ locks' = locks \ {ProcessOf(t)}
  /\ UNCHANGED <<handles, lost, holder, dropped>>

CloseUnlocked(t) ==
  /\ Goto(t, "removed", "idle")
  /\ Close(ProcessOf(t))
  /\ UNCHANGED <<handles, locks, lost>>

-------------------------------------------------------------------------------
(* The process ends; the system closes its descriptors. *)
Crash(p) ==
  /\ pc' = [t \in Threads |-> IF ProcessOf(t) = p THEN "idle" ELSE pc[t]]
  /\ handles' = {t \in handles : ProcessOf(t) # p}
  /\ locks' = locks \ {p}
  /\ lost' = lost \ {p}
  /\ holder' = IF holder = p THEN None ELSE holder
  /\ dropped' = dropped \ {p}

Step(t) ==
  \/ OpenFile(t) \/ Insert(t) \/ CloseRefused(t) \/ SetLock(t) \/ SetLockFails(t)
  \/ CloseDenied(t) \/ Forget(t)
  \/ ClearLock(t) \/ ClearLockFails(t) \/ Remove(t) \/ CloseUnlocked(t)

Next == (\E t \in Threads : Step(t)) \/ (\E p \in Processes : Crash(p))

Spec == Init /\ [][Next]_vars

-------------------------------------------------------------------------------
(* Properties. *)

Places == {"idle", "opened", "refused", "inserted", "denied", "forgetting", "unlocked", "removed"}
TypeOK ==
  /\ pc \in [Threads -> Places]
  /\ handles \in SUBSET Threads
  /\ locks \in SUBSET Processes
  /\ lost \in SUBSET Processes
  /\ holder \in Processes \cup {None}
  /\ dropped \in SUBSET Processes

(* From the insertion into the table until the name is removed again: on the
   way in, with a FileLock, on the way out. *)
Inside(t) == pc[t] \in {"inserted", "denied", "forgetting", "unlocked"}
InTable(t) == Inside(t) \/ t \in handles

(* Two threads of one process never have the lock together, nor is one inside
   LockFile past the table while another, or the same one, has it or while a
   lock of the process is lost. *)
ExclusiveInProcess ==
  /\ \A t, u \in Threads : InTable(t) /\ InTable(u) /\ ProcessOf(t) = ProcessOf(u) => t = u
  /\ \A t \in handles : ~Inside(t)
  /\ \A t \in Threads : InTable(t) => ProcessOf(t) \notin lost

(* include/leveldb/env.h: the lock prevents "concurrent access to the same db by
   multiple processes".  That holds until a process closes another descriptor
   of the file, in a LockFile that was refused or at the end of an earlier
   UnlockFile: only then have two threads the lock together, and who has not
   lost the record lock in this way has it. *)
ExclusiveUntilClosed ==
  /\ \A t \in handles : ProcessOf(t) \in dropped \/ holder = ProcessOf(t)
  /\ \A t, u \in handles : t = u \/ ProcessOf(t) \in dropped \/ ProcessOf(u) \in dropped

(* Failed attempts, unlocking and dead processes leave nothing behind: a name
   in a table and a record lock are there for a thread inside or for a process
   whose UnlockFile failed, and that process cannot lock the file again. *)
NothingLeft ==
  /\ \A p \in locks : p \in lost \/ \E t \in Threads : ProcessOf(t) = p /\ InTable(t)
  /\ holder = None \/ holder \in lost \/ HasHandle(holder)
  /\ lost \subseteq locks
===============================================================================
