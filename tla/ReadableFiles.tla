----------------------------- MODULE ReadableFiles -----------------------------
(***************************************************************************)
(* How PosixEnv opens files for reading (util/env_posix.cc): mapped into   *)
(* memory while mmap_limiter_ allows it, then with a descriptor of their   *)
(* own while fd_limiter_ allows it, then opened anew for every read.  The  *)
(* limiters are counters that threads change without a lock.               *)
(***************************************************************************)
EXTENDS Integers, FiniteSets

CONSTANTS
  Threads,     \* each opens, reads and closes one file at a time
  MaxMmaps,
  MaxOpenFiles

ReadableFilesAssumption ==
  {MaxMmaps, MaxOpenFiles} \subseteq Nat /\ IsFiniteSet(Threads)

VARIABLES
  pc,        \* where each thread is
  mmaps,     \* mmap_limiter_.acquires_allowed_
  fds,       \* fd_limiter_.acquires_allowed_
  open       \* threads with an open descriptor

vars == <<pc, mmaps, fds, open>>

Goto(t, from, to) == pc[t] = from /\ pc' = [pc EXCEPT ![t] = to]
Opened(t) == open' = open \cup {t}
Closed(t) == open' = open \ {t}

Init ==
  /\ pc = [t \in Threads |-> "none"]
  /\ mmaps = MaxMmaps
  /\ fds = MaxOpenFiles
  /\ open = {}

-------------------------------------------------------------------------------
(* NewRandomAccessFile. *)

OpenFile(t) ==
  /\ Goto(t, "none", "opened")
  /\ Opened(t)
  /\ UNCHANGED <<mmaps, fds>>

(* Limiter::Acquire takes one, and gives it back when there was none.  A slip
   to rule out is to look at the counter after it has changed. *)
AcquireMmapLate(t) ==
  /\ Goto(t, "opened", IF mmaps >= 0 THEN "mapping" ELSE "no_mmap")
  /\ mmaps' = mmaps - 1
  /\ UNCHANGED <<fds, open>>
AcquireMmap(t) ==
  /\ Goto(t, "opened", IF mmaps > 0 THEN "mapping" ELSE "no_mmap")
  /\ mmaps' = mmaps - 1
  /\ UNCHANGED <<fds, open>>
GiveBackMmap(t) ==
  /\ Goto(t, "no_mmap", "pread")
  /\ mmaps' = mmaps + 1
  /\ UNCHANGED <<fds, open>>

(* The file's size and the mapping, or an error of one of the two; the
   descriptor is closed in any case. *)
Mapped(t) ==
  /\ Goto(t, "mapping", "mapped")
  /\ Closed(t)
  /\ UNCHANGED <<mmaps, fds>>
MapFails(t) ==
  /\ Goto(t, "mapping", "unmapped")
  /\ Closed(t)
  /\ UNCHANGED <<mmaps, fds>>
ReleaseMmap(t) ==
  /\ Goto(t, "unmapped", "none")
  /\ mmaps' = mmaps + 1
  /\ UNCHANGED <<fds, open>>

(* PosixRandomAccessFile. *)
AcquireFd(t) ==
  /\ Goto(t, "pread", IF fds > 0 THEN "permanent" ELSE "no_fd")
  /\ fds' = fds - 1
  /\ UNCHANGED <<mmaps, open>>
GiveBackFd(t) ==
  /\ Goto(t, "no_fd", "closing")
  /\ fds' = fds + 1
  /\ UNCHANGED <<mmaps, open>>
CloseSurplus(t) ==
  /\ Goto(t, "closing", "reopened")
  /\ Closed(t)
  /\ UNCHANGED <<mmaps, fds>>

-------------------------------------------------------------------------------
(* Read, where it changes anything: a file without its own descriptor. *)

ReadOpens(t) ==
  /\ Goto(t, "reopened", "reading")
  /\ Opened(t)
  /\ UNCHANGED <<mmaps, fds>>
ReadEnds(t) ==
  /\ Goto(t, "reading", "reopened")
  /\ Closed(t)
  /\ UNCHANGED <<mmaps, fds>>

-------------------------------------------------------------------------------
(* The destructors. *)

Unmap(t) ==
  /\ Goto(t, "mapped", "unmapped")    \* munmap, then Release
  /\ UNCHANGED <<mmaps, fds, open>>
CloseFd(t) ==
  /\ Goto(t, "permanent", "fd_closed")
  /\ Closed(t)
  /\ UNCHANGED <<mmaps, fds>>
ReleaseFd(t) ==
  /\ Goto(t, "fd_closed", "none")
  /\ fds' = fds + 1
  /\ UNCHANGED <<mmaps, open>>
Destroy(t) ==
  /\ Goto(t, "reopened", "none")
  /\ UNCHANGED <<mmaps, fds, open>>

Step(t) ==
  \/ OpenFile(t) \/ AcquireMmap(t) \/ GiveBackMmap(t) \/ Mapped(t) \/ MapFails(t)
  \/ ReleaseMmap(t) \/ AcquireFd(t) \/ GiveBackFd(t) \/ CloseSurplus(t)
  \/ ReadOpens(t) \/ ReadEnds(t) \/ Unmap(t) \/ CloseFd(t) \/ ReleaseFd(t) \/ Destroy(t)

Next == \E t \in Threads : Step(t)

Spec == Init /\ [][Next]_vars

-------------------------------------------------------------------------------
(* Properties. *)

Places == {"none", "opened", "no_mmap", "mapping", "mapped", "unmapped", "pread", "permanent",
           "no_fd", "closing", "reopened", "reading", "fd_closed"}
At(places) == {t \in Threads : pc[t] \in places}

TypeOK ==
  /\ pc \in [Threads -> Places]
  /\ mmaps \in Int /\ fds \in Int
  /\ open \in SUBSET Threads

(* Both counters are what was not taken, threads that have taken one too many
   for a moment included: nothing leaks when a mapping fails or a file is
   closed. *)
CountersExact ==
  /\ mmaps + Cardinality(At({"no_mmap", "mapping", "mapped", "unmapped"})) = MaxMmaps
  /\ fds + Cardinality(At({"permanent", "no_fd", "fd_closed"})) = MaxOpenFiles

(* Never more mappings nor more permanent descriptors than allowed, in spite
   of the counters being changed before they are looked at. *)
LimitsKept ==
  /\ Cardinality(At({"mapping", "mapped"})) <= MaxMmaps
  /\ Cardinality(At({"permanent"})) <= MaxOpenFiles

(* The only descriptors besides the permanent ones are those of calls that
   are running. *)
NoDescriptorLost ==
  open = At({"opened", "no_mmap", "mapping", "pread", "permanent", "no_fd", "closing", "reading"})
===============================================================================
