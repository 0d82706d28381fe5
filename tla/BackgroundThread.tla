---------------------------- MODULE BackgroundThread ----------------------------
(***************************************************************************)
(* PosixEnv::Schedule and BackgroundThreadMain (util/env_posix.cc): work   *)
(* items put into a queue by any thread and run one after the other by a   *)
(* background thread that is started with the first.  A condition variable *)
(* (port/port_stdcxx.h) forgets a signal nobody waits for, and may wake a  *)
(* thread without one.                                                     *)
(***************************************************************************)
EXTENDS Integers, Sequences

CONSTANTS
  Threads,    \* that call Schedule
  MaxItems    \* bound: items scheduled

BackgroundThreadAssumption ==
  MaxItems \in Nat /\ "free" \notin Threads /\ "background" \notin Threads

VARIABLES
  started,    \* started_background_thread_
  queue,      \* background_work_queue_, of item numbers
  mutex,      \* background_work_mutex_: "free", "background" or a thread
  background, \* where the background thread is
  pc,         \* where each caller is in Schedule
  scheduled,  \* items scheduled so far, numbered in the order of the queue
  running,    \* the item that runs, or 0
  done        \* items run, in order

vars == <<started, queue, mutex, background, pc, scheduled, running, done>>

Init ==
  /\ started = FALSE
  /\ queue = <<>>
  /\ mutex = "free"
  /\ background = "none"
  /\ pc = [t \in Threads |-> "outside"]
  /\ scheduled = 0
  /\ running = 0
  /\ done = <<>>

-------------------------------------------------------------------------------
(* Schedule: lock; start the thread; signal; put; unlock. *)

Lock(t) ==
  /\ pc[t] = "outside" /\ mutex = "free" /\ scheduled < MaxItems
  /\ mutex' = t
  /\ pc' = [pc EXCEPT ![t] = "locked"]
  /\ UNCHANGED <<started, queue, background, scheduled, running, done>>

(* The new thread runs from now on; it waits for the mutex first. *)
Start(t) ==
  /\ pc[t] = "locked"
  /\ pc' = [pc EXCEPT ![t] = "started"]
  /\ started' = TRUE
  /\ background' = IF started THEN background ELSE "locking"
  /\ UNCHANGED <<queue, mutex, scheduled, running, done>>

(* Signal wakes the thread if it waits; it still has to get the mutex. A slip
   to rule out is to signal when the queue is not empty. *)
Woken == IF background = "waiting" THEN "woken" ELSE background
SignalWhenFull(t) ==
  /\ pc[t] = "started"
  /\ pc' = [pc EXCEPT ![t] = "signalled"]
  /\ background' = IF queue # <<>> THEN Woken ELSE background
  /\ UNCHANGED <<started, queue, mutex, scheduled, running, done>>
Signal(t) ==
  /\ pc[t] = "started"
  /\ pc' = [pc EXCEPT ![t] = "signalled"]
  /\ background' = IF queue = <<>> THEN Woken ELSE background
  /\ UNCHANGED <<started, queue, mutex, scheduled, running, done>>

Put(t) ==
  /\ pc[t] = "signalled"
  /\ pc' = [pc EXCEPT ![t] = "outside"]
  /\ queue' = Append(queue, scheduled + 1)
  /\ scheduled' = scheduled + 1
  /\ mutex' = "free"
  /\ UNCHANGED <<started, background, running, done>>

-------------------------------------------------------------------------------
(* BackgroundThreadMain. *)

Enter ==
  /\ background \in {"locking", "woken"} /\ mutex = "free"
  /\ mutex' = "background"
  /\ background' = "checking"
  /\ UNCHANGED <<started, queue, pc, scheduled, running, done>>

Wait ==
  /\ background = "checking" /\ queue = <<>>
  /\ background' = "waiting"
  /\ mutex' = "free"
  /\ UNCHANGED <<started, queue, pc, scheduled, running, done>>

Take ==
  /\ background = "checking" /\ queue # <<>>
  /\ running' = Head(queue)
  /\ queue' = Tail(queue)
  /\ background' = "running"
  /\ mutex' = "free"
  /\ UNCHANGED <<started, pc, scheduled, done>>

Run ==
  /\ background = "running"
  /\ done' = Append(done, running)
  /\ running' = 0
  /\ background' = "locking"
  /\ UNCHANGED <<started, queue, mutex, pc, scheduled>>

(* A wait may end without a signal. *)
Spurious ==
  /\ background = "waiting"
  /\ background' = "woken"
  /\ UNCHANGED <<started, queue, mutex, pc, scheduled, running, done>>

Schedule(t) == Start(t) \/ Signal(t) \/ Put(t)
BackgroundThreadMain == Enter \/ Wait \/ Take \/ Run

Next ==
  \/ \E t \in Threads : Lock(t) \/ Schedule(t)
  \/ BackgroundThreadMain \/ Spurious

Spec == Init /\ [][Next]_vars

-------------------------------------------------------------------------------
(* Properties. *)

TypeOK ==
  /\ started \in BOOLEAN
  /\ queue \in Seq(1..MaxItems)
  /\ mutex \in {"free", "background"} \cup Threads
  /\ background \in {"none", "locking", "woken", "checking", "waiting", "running"}
  /\ pc \in [Threads -> {"outside", "locked", "started", "signalled"}]
  /\ scheduled \in 0..MaxItems /\ running \in 0..MaxItems
  /\ done \in Seq(1..MaxItems)

(* The mutex is where the program counters say it is. *)
Owned ==
  /\ \A t \in Threads : (pc[t] # "outside") <=> (mutex = t)
  /\ (background = "checking") <=> (mutex = "background")

(* No wakeup is lost: while the background thread waits, the queue is empty,
   and a caller past the signal has not left it asleep. *)
NoLostWakeup ==
  background = "waiting" =>
    queue = <<>> /\ \A t \in Threads : pc[t] # "signalled"

(* Items run once each, in the order they were put into the queue. *)
InOrder ==
  LET taken == IF running = 0 THEN done ELSE Append(done, running)
  IN taken \o queue = [i \in 1..scheduled |-> i]
===============================================================================
