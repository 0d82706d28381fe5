----------------------------- MODULE DBWriteProofs -----------------------------
(***************************************************************************)
(* What the write path of LevelDB promises for any number of threads and   *)
(* calls and whatever fails: acknowledged writes are visible, those made   *)
(* with sync are on the disk, groups are written by one thread at a time,   *)
(* atomically and in the order of the queue, a failed sync ends all         *)
(* writing, and the database is closed at rest.                             *)
(***************************************************************************)
EXTENDS DBWrite, DataLemmas

(* The thread at the head of the queue is at work; it writes the log; it has
   written it. *)
Leads == {"leading", "sleeping", "logging", "logged"}
Logs == {"logging", "logged"}
HasWritten(t) == pc[t] = "logged" /\ local[t].result = "ok"

(* The queue holds every writer that waits for its turn, once, and whoever
   leads is its head. *)
QueueInv ==
  /\ \A i, j \in DOMAIN writers : writers[i] = writers[j] => i = j
  /\ \A i \in DOMAIN writers :
       \/ pc[writers[i]] = "queued" /\ done[writers[i]] = "no"
       \/ i = 1 /\ pc[writers[i]] \in Leads
  /\ \A t \in Threads : pc[t] \in Leads => writers # <<>> /\ writers[1] = t
  /\ \A t \in Threads :
       pc[t] = "queued" /\ done[t] = "no" => \E i \in DOMAIN writers : writers[i] = t

(* What is queued are writes and flushes in the order of their calls, all of
   them made after those that were acknowledged. *)
BatchInv ==
  /\ \A i \in DOMAIN writers :
       /\ local[writers[i]].op \in {"write", "syncWrite", "flush"}
       /\ local[writers[i]].id \in 1..calls
       /\ local[writers[i]].op # "flush" => local[writers[i]].n \in Sizes
  /\ \A i, j \in DOMAIN writers : i < j => local[writers[i]].id < local[writers[j]].id
  /\ \A e \in acked : e.id <= calls /\ \A i \in DOMAIN writers : e.id < local[writers[i]].id
  /\ \A t \in Threads : pc[t] = "flushing" => local[t].op = "flush"
  /\ \A t \in Threads : pc[t] = "compacting" => local[t].op = "compact"

(* The group that is being written are the first writers of the queue, and
   none of them wants a sync that its leader does not make. *)
GroupInv ==
  \A t \in Threads : pc[t] \in Logs =>
    /\ Len(group) \in 1..Len(writers)
    /\ \A i \in 1..Len(group) : group[i] = writers[i]
    /\ \A i \in 1..Len(group) :
         local[group[i]].op = "syncWrite" => local[group[1]].op = "syncWrite"

(* The memtable holds what was acknowledged since it is there, and what is
   about to be. *)
MemInv ==
  /\ \A t \in Threads : HasWritten(t) => GroupEntries \subseteq mem
  /\ \A e \in mem : e \in acked \/ \E t \in Threads : HasWritten(t) /\ e \in GroupEntries

AckedInv ==
  /\ \A d, e \in acked : d.id = e.id => d = e
  /\ QueueOrder
  /\ \A e \in acked : e.seq + e.n - 1 <= last_sequence
  /\ AckedVisible

(* A sync write is on the disk from the moment its leader has written it. *)
DurableInv ==
  /\ \A t \in Threads : pc[t] = "queued" /\ done[t] = "ok" /\ local[t].op = "syncWrite" =>
       local[t].id \in durable
  /\ \A t \in Threads : HasWritten(t) =>
       \A i \in DOMAIN group :
         local[group[i]].op = "syncWrite" => local[group[i]].id \in durable
  /\ SyncedDurable

(* A failed sync is known to the thread that met it, and then to all. *)
SyncInv ==
  (\E i \in DOMAIN faults : faults[i] = "sync") =>
    \/ \E t \in Threads : pc[t] = "logged" /\ local[t].result = "syncError"
    \/ bg_error /\ \A t \in Threads : pc[t] \notin Logs

CloseInv ==
  /\ \A t \in Threads : pc[t] \in {"closing", "closed"} => shutting_down
  /\ ClosedAtRest

(* The manual compaction belongs to a thread that waits for it, and the
   compaction under way takes files that are there. *)
ManualInv ==
  /\ manual # None => pc[manual] = "compacting" /\ local[manual].left >= 0
  /\ bg.at # "dead" => bg.inputs <= level0

-------------------------------------------------------------------------------
(* Sums. *)

(* The sums of natural numbers are natural numbers, each the one before plus
   the next number, and so they grow: by induction. *)
LEMMA SumsAre ==
  ASSUME NEW s \in Seq(Nat)
  PROVE  /\ Sums(s) \in [0..Len(s) -> Nat] /\ Sums(s)[0] = 0
         /\ \A i \in 1..Len(s) : Sums(s)[i] = Sums(s)[i - 1] + s[i]
<1> DEFINE N == Len(s)
           h == [x \in Nat \X (1..N) |-> x[1] + s[x[2]]]
           Following(f) == [i \in 0..N |-> IF i = 0 THEN 0 ELSE f[i - 1] + s[i]]
<1>1. N \in Nat /\ \A i \in 1..N : s[i] \in Nat
  OBVIOUS
<1>2. h \in [Nat \X (1..N) -> Nat]
  <2>1. ASSUME NEW x \in Nat \X (1..N) PROVE x[1] + s[x[2]] \in Nat
    BY <1>1
  <2> QED BY <2>1
<1>3. PICK f \in [0..N -> Nat] : Approximates(f, N, 0, h)
  <2> HIDE DEF N, h
  <2> QED BY <1>1, <1>2, RecursionExists
<1>4. f = Following(f)
  <2>1. f[0] = 0 /\ \A i \in 1..N : f[i] = h[<<f[i - 1], i>>]
    BY <1>3 DEF Approximates
  <2>2. ASSUME NEW i \in 1..N PROVE f[i] = f[i - 1] + s[i]
    <3>1. f[i - 1] \in Nat
      OBVIOUS
    <3>2. <<f[i - 1], i>> \in Nat \X (1..N)
      BY <3>1
    <3>3. h[<<f[i - 1], i>>] = f[i - 1] + s[i]
      BY <3>2
    <3> HIDE DEF h
    <3> QED BY <2>1, <3>3
  <2>3. ASSUME NEW i \in 0..N PROVE f[i] = Following(f)[i]
    <3>1. CASE i = 0
      BY <2>1, <3>1
    <3>2. CASE i # 0
      <4>1. i \in 1..N
        BY <3>2
      <4> QED BY <2>2, <3>2, <4>1
    <3> QED BY <3>1, <3>2
  <2> HIDE DEF N, h
  <2> QED BY <2>3
<1> DEFINE g == CHOOSE upTo : upTo = Following(upTo)
<1>5. g = Following(g)
  BY <1>4
<1>6. Sums(s) = g
  BY Zenon DEF Sums
<1> HIDE DEF g
<1>7. g[0] = 0 /\ \A i \in 1..N : g[i] = g[i - 1] + s[i]
  <2>1. 0 \in 0..N /\ \A i \in 1..N : i \in 0..N /\ i # 0
    BY <1>1
  <2>2. \A i \in 0..N : g[i] = IF i = 0 THEN 0 ELSE g[i - 1] + s[i]
    BY <1>5
  <2> QED BY <2>1, <2>2
<1> DEFINE T == {i \in Nat : i <= N => g[i] \in Nat}
<1>8. Nat \subseteq T
  <2>1. 0 \in T
    BY <1>7
  <2>2. ASSUME NEW i \in Nat, i \in T PROVE i + 1 \in T
    <3> SUFFICES ASSUME i + 1 <= N PROVE g[i + 1] \in Nat
      OBVIOUS
    <3>1. i + 1 \in 1..N /\ g[i] \in Nat /\ (i + 1) - 1 = i
      BY <2>2
    <3>2. g[i + 1] = g[i] + s[i + 1] /\ s[i + 1] \in Nat
      BY <1>1, <1>7, <3>1
    <3> QED BY <3>1, <3>2
  <2> HIDE DEF T
  <2> QED BY <2>1, <2>2, InductionOnSets
<1>9. DOMAIN g = 0..N
  BY <1>5
<1>10. g \in [0..N -> Nat]
  <2>1. \A i \in 0..N : g[i] \in Nat
    BY <1>8
  <2>2. g = [i \in 0..N |-> g[i]]
    BY <1>5
  <2> HIDE DEF Next
  <2> QED BY <2>1, <2>2
<1> QED BY <1>6, <1>7, <1>10

(* Sums of natural numbers do not fall as more of them are taken. *)
LEMMA SumsGrow ==
  ASSUME NEW s \in Seq(Nat), NEW i \in 0..Len(s), NEW j \in 0..Len(s), i <= j
  PROVE  Sums(s)[i] <= Sums(s)[j]
<1>1. Sums(s) \in [0..Len(s) -> Nat] /\ \A k \in 1..Len(s) : Sums(s)[k] = Sums(s)[k - 1] + s[k]
  BY SumsAre
<1> DEFINE T == {k \in Nat : i + k <= Len(s) => Sums(s)[i] <= Sums(s)[i + k]}
<1>2. 0 \in T
  BY <1>1
<1>3. ASSUME NEW k \in Nat, k \in T PROVE k + 1 \in T
  <2> SUFFICES ASSUME i + (k + 1) <= Len(s) PROVE Sums(s)[i] <= Sums(s)[i + (k + 1)]
    OBVIOUS
  <2>1. /\ i + (k + 1) \in 1..Len(s) /\ (i + (k + 1)) - 1 = i + k /\ i + k \in 0..Len(s)
        /\ i + k <= Len(s)
    OBVIOUS
  <2>2. Sums(s)[i + (k + 1)] = Sums(s)[i + k] + s[i + (k + 1)] /\ s[i + (k + 1)] \in Nat
    BY <1>1, <2>1
  <2>3. Sums(s)[i] <= Sums(s)[i + k] /\ Sums(s)[i] \in Nat /\ Sums(s)[i + k] \in Nat
    BY <1>1, <1>3, <2>1
  <2> QED BY <2>2, <2>3
<1>4. Nat \subseteq T
  <2> HIDE DEF T
  <2> QED BY <1>2, <1>3, InductionOnSets
<1>5. j - i \in Nat /\ i + (j - i) = j
  OBVIOUS
<1>6. j - i \in T
  BY <1>4, <1>5
<1> QED BY <1>5, <1>6

-------------------------------------------------------------------------------
(* Types. *)

(* A thread keeps its call. *)
SameCall(f, g, u) == g[u].op = f[u].op /\ g[u].id = f[u].id /\ g[u].n = f[u].n

(* What an assignment to a field of a thread's record leaves alone. *)
SetResult(f, t, v) == [f EXCEPT ![t].result = v]
SetLeft(f, t, v) == [f EXCEPT ![t].left = v]
ClearDelay(f, t) == [f EXCEPT ![t].delay = FALSE]
ClearForce(f, t) == [f EXCEPT ![t].force = FALSE]
NewCall(op, id, n) ==
  [Idle EXCEPT !.op = op, !.id = id, !.n = n, !.force = (op = "flush"), !.delay = (op # "flush")]

(* What setting the result of one thread does to its record. *)
LEMMA ResultIsSet ==
  ASSUME NEW f \in [Threads -> Local], NEW t \in Threads,
         NEW v \in {"none", "ok", "error", "syncError"}, NEW g, g = SetResult(f, t, v)
  PROVE  /\ g \in [Threads -> Local] /\ g[t].result = v /\ g[t].left = f[t].left
         /\ \A u \in Threads : SameCall(f, g, u) /\ (u # t => g[u] = f[u])
<1>1. ASSUME NEW l \in Local
      PROVE  /\ [l EXCEPT !.result = v] \in Local /\ [l EXCEPT !.result = v].result = v
             /\ [l EXCEPT !.result = v].op = l.op /\ [l EXCEPT !.result = v].id = l.id
             /\ [l EXCEPT !.result = v].n = l.n /\ [l EXCEPT !.result = v].left = l.left
  BY DEF Local
<1>2. /\ f[t] \in Local /\ g[t] = [f[t] EXCEPT !.result = v] /\ \A u \in Threads : u # t => g[u] = f[u]
      /\ DOMAIN g = Threads /\ g = [u \in Threads |-> g[u]]
  BY DEF SetResult
<1>3. g \in [Threads -> Local]
  BY <1>1, <1>2
<1>4. SameCall(f, g, t) /\ g[t].result = v /\ g[t].left = f[t].left
  BY <1>1, <1>2 DEF SameCall
<1>5. \A u \in Threads : u # t => SameCall(f, g, u)
  BY <1>2 DEF SameCall
<1> QED BY <1>2, <1>3, <1>4, <1>5

(* The same for the work that is left. *)
LEMMA LeftIsSet ==
  ASSUME NEW f \in [Threads -> Local], NEW t \in Threads, NEW v \in -1..MaxRounds,
         NEW g, g = SetLeft(f, t, v)
  PROVE  /\ g \in [Threads -> Local] /\ g[t].left = v
         /\ \A u \in Threads :
              SameCall(f, g, u) /\ g[u].result = f[u].result /\ (u # t => g[u] = f[u])
<1>1. ASSUME NEW l \in Local
      PROVE  /\ [l EXCEPT !.left = v] \in Local /\ [l EXCEPT !.left = v].left = v
             /\ [l EXCEPT !.left = v].op = l.op /\ [l EXCEPT !.left = v].id = l.id
             /\ [l EXCEPT !.left = v].n = l.n /\ [l EXCEPT !.left = v].result = l.result
  BY DEF Local
<1>2. /\ f[t] \in Local /\ g[t] = [f[t] EXCEPT !.left = v] /\ \A u \in Threads : u # t => g[u] = f[u]
      /\ DOMAIN g = Threads /\ g = [u \in Threads |-> g[u]]
  BY DEF SetLeft
<1>3. g \in [Threads -> Local]
  BY <1>1, <1>2
<1>4. SameCall(f, g, t) /\ g[t].left = v /\ g[t].result = f[t].result
  BY <1>1, <1>2 DEF SameCall
<1>5. \A u \in Threads : u # t => SameCall(f, g, u) /\ g[u].result = f[u].result
  BY <1>2 DEF SameCall
<1> QED BY <1>2, <1>3, <1>4, <1>5

(* The same for its flags. *)
LEMMA FlagsAreSet ==
  ASSUME NEW f \in [Threads -> Local], NEW t \in Threads, NEW g,
         g = ClearDelay(f, t) \/ g = ClearForce(f, t)
  PROVE  /\ g \in [Threads -> Local]
         /\ \A u \in Threads : SameCall(f, g, u) /\ g[u].result = f[u].result
                                /\ g[u].left = f[u].left
<1>1. ASSUME NEW l \in Local, NEW m, m = [l EXCEPT !.delay = FALSE] \/ m = [l EXCEPT !.force = FALSE]
      PROVE  /\ m \in Local /\ m.op = l.op /\ m.id = l.id /\ m.n = l.n /\ m.result = l.result
             /\ m.left = l.left
  BY <1>1 DEF Local
<1>2. /\ f[t] \in Local /\ \A u \in Threads : u # t => g[u] = f[u]
      /\ g[t] = [f[t] EXCEPT !.delay = FALSE] \/ g[t] = [f[t] EXCEPT !.force = FALSE]
      /\ DOMAIN g = Threads /\ g = [u \in Threads |-> g[u]]
  BY DEF ClearDelay, ClearForce
<1>3. g \in [Threads -> Local]
  BY <1>1, <1>2
<1> QED BY <1>1, <1>2, <1>3 DEF SameCall

(* A new call of Write. *)
LEMMA CallIsSet ==
  ASSUME NEW f \in [Threads -> Local], NEW t \in Threads, NEW g, NEW op, NEW id, NEW n,
         op \in {"write", "syncWrite", "flush"}, id \in 0..MaxCalls, n \in Sizes \cup {0},
         g = [f EXCEPT ![t] = NewCall(op, id, n)]
  PROVE  /\ g \in [Threads -> Local] /\ g[t].op = op /\ g[t].id = id /\ g[t].n = n
         /\ g[t].result = "none"
         /\ \A u \in Threads : u # t => g[u] = f[u]
<1> DEFINE l == NewCall(op, id, n)
<1>1. ASSUME NEW a \in BOOLEAN, NEW b \in BOOLEAN, NEW m,
             m = [Idle EXCEPT !.op = op, !.id = id, !.n = n, !.force = a, !.delay = b]
      PROVE  m = [op |-> op, id |-> id, n |-> n, force |-> a, delay |-> b,
                  left |-> 0, result |-> "none"]
  BY <1>1 DEF Idle
<1>2. l \in Local /\ l.op = op /\ l.id = id /\ l.n = n /\ l.result = "none"
  <2>1. 0 \in -1..MaxRounds /\ op \in AllOps \cup {"none"}
    BY DBWriteAssumption DEF AllOps
  <2>2. l = [op |-> op, id |-> id, n |-> n, force |-> (op = "flush"), delay |-> (op # "flush"),
             left |-> 0, result |-> "none"]
    BY <1>1, Zenon DEF NewCall
  <2>3. ASSUME NEW a \in BOOLEAN, NEW b \in BOOLEAN, NEW m,
               m = [op |-> op, id |-> id, n |-> n, force |-> a, delay |-> b,
                    left |-> 0, result |-> "none"]
        PROVE  m \in Local /\ m.op = op /\ m.id = id /\ m.n = n /\ m.result = "none"
    BY <2>1, <2>3 DEF Local
  <2> HIDE DEF l
  <2> QED BY <2>2, <2>3, Zenon
<1> HIDE DEF l
<1>3. g = [f EXCEPT ![t] = l]
  BY DEF l
<1> QED BY <1>2, <1>3

(* The background thread's record. *)
LEMMA BgRecords ==
  /\ Resting \in BgState /\ Resting.at = "idle" /\ Resting.inputs = 0
  /\ [Resting EXCEPT !.at = "scheduled"] \in BgState
  /\ [Resting EXCEPT !.at = "scheduled"].at = "scheduled"
  /\ [Resting EXCEPT !.at = "scheduled"].inputs = 0
  BY DEF Resting, BgState

(* MaybeScheduleCompaction moves the background thread only from its rest. *)
LEMMA MaybeScheduled ==
  ASSUME bg \in BgState, MaybeScheduleCompaction
  PROVE  /\ bg' \in BgState /\ (bg' = bg \/ (bg.at = "idle" /\ bg'.at = "scheduled" /\ bg'.inputs = 0))
         /\ bg' # bg => ~shutting_down'
<1>1. bg' = bg \/ (bg.at = "idle" /\ WorkToDo /\ bg' = [Resting EXCEPT !.at = "scheduled"])
  BY DEF MaybeScheduleCompaction
<1>2. WorkToDo => ~shutting_down'
  BY Zenon DEF WorkToDo
<1> QED BY <1>1, <1>2, BgRecords

(* After a background call the thread is idle or has been scheduled again, and
   not the latter while the database is closed. *)
LEMMA BackgroundCallEnds ==
  ASSUME EndBackgroundCall
  PROVE  /\ bg' \in BgState /\ bg'.at \in {"idle", "scheduled"} /\ bg'.inputs = 0
         /\ bg'.at = "scheduled" => ~shutting_down'
<1>1. bg' = Resting \/ (WorkToDo /\ bg' = [Resting EXCEPT !.at = "scheduled"])
  BY DEF EndBackgroundCall
<1>2. WorkToDo => ~shutting_down'
  BY Zenon DEF WorkToDo
<1> QED BY <1>1, <1>2, BgRecords

(* A signal on bg_cv_ keeps the type of who waits for what. *)
LEMMA SignalledIs ==
  ASSUME ThreadsOK
  PROVE  Signalled \in [Threads -> {"no", "own", "background"}]
  BY DEF ThreadsOK, Signalled

(* Fault notes one more failure. *)
LEMMA FaultIs ==
  ASSUME StateOK, NEW kind, Fault(kind)
  PROVE  /\ faults' \in Seq(Faults) /\ Len(faults') <= MaxFaults
         /\ kind # "sync" /\ (\E i \in DOMAIN faults' : faults'[i] = "sync")
              => \E i \in DOMAIN faults : faults[i] = "sync"
<1>1. /\ kind \in Faults /\ Len(faults) < MaxFaults /\ faults' = Append(faults, kind)
      /\ faults \in Seq(Faults) /\ Len(faults) \in Nat /\ MaxFaults \in Nat
  BY DBWriteAssumption DEF Fault, StateOK
<1>2. faults' \in Seq(Faults) /\ Len(faults') = Len(faults) + 1
  BY <1>1
<1>3. /\ DOMAIN faults' = 1..(Len(faults) + 1) /\ DOMAIN faults = 1..Len(faults)
      /\ faults'[Len(faults) + 1] = kind /\ \A i \in 1..Len(faults) : faults'[i] = faults[i]
  BY <1>1
<1>4. ASSUME kind # "sync", NEW i \in DOMAIN faults', faults'[i] = "sync"
      PROVE  \E j \in DOMAIN faults : faults[j] = "sync"
  <2>1. i # Len(faults) + 1
    BY <1>3, <1>4
  <2>2. i \in 1..Len(faults)
    BY <1>1, <1>3, <2>1, <1>4
  <2> QED BY <1>3, <1>4, <2>2
<1> QED BY <1>1, <1>2, <1>4

(* Return ends the call, or goes on to wait for the flush. *)
LEMMA Returns ==
  ASSUME ThreadsOK, NEW t \in Threads, NEW status \in {"ok", "error"}, Return(t, status)
  PROVE  /\ pc' \in [Threads -> Places] /\ local' \in [Threads -> Local]
         /\ pc'[t] = "idle" \/ (pc'[t] = "flushing" /\ local[t].op = "flush")
         /\ local'[t].result = status
         /\ \A u \in Threads : SameCall(local, local', u) /\ local'[u].left = local[u].left
         /\ \A u \in Threads : u # t => pc'[u] = pc[u] /\ local'[u] = local[u]
<1>1. /\ local' = SetResult(local, t, status) /\ local \in [Threads -> Local]
      /\ status \in {"none", "ok", "error", "syncError"}
  BY DEF Return, ThreadsOK, SetResult
<1>2. /\ local' \in [Threads -> Local] /\ local'[t].result = status
      /\ local'[t].left = local[t].left
      /\ \A u \in Threads : SameCall(local, local', u) /\ (u # t => local'[u] = local[u])
  BY <1>1, ResultIsSet
<1>3. /\ pc' \in [Threads -> Places] /\ \A u \in Threads : u # t => pc'[u] = pc[u]
      /\ pc'[t] = "idle" \/ (pc'[t] = "flushing" /\ local[t].op = "flush")
  BY DEF Return, Go, ThreadsOK, Places
<1> QED BY <1>2, <1>3

(* What the leader leaves behind. *)
LEMMA Completes ==
  ASSUME ThreadsOK, QueueOK, NEW t \in Threads, NEW members \in Seq(Threads),
         Len(members) <= Len(writers), NEW status \in {"ok", "error"},
         NEW sleepers \in [Threads -> {"no", "own", "background"}],
         Complete(t, members, status, sleepers)
  PROVE  /\ waiting' \in [Threads -> {"no", "own", "background"}] /\ mutex' = None
         /\ group' = <<>> /\ group' \in Seq(Threads)
         /\ writers' \in Seq(Threads) /\ Len(writers') = Len(writers) - Len(members)
         /\ \A i \in 1..Len(writers') : writers'[i] = writers[i + Len(members)]
         /\ done' \in [Threads -> {"no", "ok", "error"}]
         /\ \A u \in Threads :
              done'[u] = IF u # t /\ \E i \in 1..Len(members) : members[i] = u THEN status ELSE done[u]
         /\ Return(t, status)
<1> DEFINE rest == SubSeq(writers, Len(members) + 1, Len(writers))
           woken == (Range(members) \ {t}) \cup (IF rest = <<>> THEN {} ELSE {Head(rest)})
<1>1. /\ writers' = rest /\ group' = <<>> /\ Return(t, status) /\ mutex' = None
      /\ done' = [u \in Threads |-> IF u \in Range(members) \ {t} THEN status ELSE done[u]]
      /\ waiting' = [u \in Threads |-> IF u \in woken THEN "no" ELSE sleepers[u]]
  BY Zenon DEF Complete
<1>2. waiting' \in [Threads -> {"no", "own", "background"}]
  <2> HIDE DEF woken
  <2> QED BY <1>1
<1>3. Len(members) \in Nat /\ Len(writers) \in Nat /\ writers \in Seq(Threads)
  BY DEF QueueOK
<1>4. /\ writers' \in Seq(Threads) /\ Len(writers') = Len(writers) - Len(members)
      /\ \A i \in 1..Len(writers') : writers'[i] = writers[i + Len(members)]
  <2>1. /\ rest \in Seq(Threads) /\ Len(rest) = Len(writers) - Len(members)
        /\ \A i \in 1..Len(rest) : rest[i] = writers[i + Len(members)]
    BY <1>3
  <2> HIDE DEF rest
  <2> QED BY <1>1, <2>1
<1>5. DOMAIN members = 1..Len(members)
  OBVIOUS
<1>6. \A u : u \in Range(members) <=> \E i \in 1..Len(members) : members[i] = u
  BY <1>5, Zenon DEF Range
<1>7. done \in [Threads -> {"no", "ok", "error"}]
  BY DEF QueueOK
<1>8. /\ done' \in [Threads -> {"no", "ok", "error"}]
      /\ \A u \in Threads :
           done'[u] = IF u # t /\ \E i \in 1..Len(members) : members[i] = u THEN status ELSE done[u]
  BY <1>1, <1>6, <1>7
<1>9. group' \in Seq(Threads)
  BY <1>1, EmptyIsSeq, Zenon
<1> QED BY <1>1, <1>2, <1>4, <1>8, <1>9

(* The sizes of the batches of a group, and the entries it writes. *)
LEMMA SizesAre ==
  ASSUME ThreadsOK, NEW s \in Seq(Threads)
  PROVE  /\ SizesOf(s) \in [0..Len(s) -> Nat] /\ SizesOf(s)[0] = 0
         /\ \A i \in 1..Len(s) : SizesOf(s)[i] = SizesOf(s)[i - 1] + local[s[i]].n
         /\ \A i, j \in 0..Len(s) : i <= j => SizesOf(s)[i] <= SizesOf(s)[j]
<1> DEFINE ns == [i \in DOMAIN s |-> local[s[i]].n]
<1>1. DOMAIN s = 1..Len(s) /\ Len(s) \in Nat /\ \A i \in 1..Len(s) : s[i] \in Threads
  OBVIOUS
<1>2. ASSUME NEW u \in Threads PROVE local[u].n \in Nat
  <2>1. local[u] \in Local
    BY DEF ThreadsOK
  <2>2. local[u].n \in Sizes \cup {0}
    BY <2>1 DEF Local
  <2>3. Sizes \cup {0} \subseteq Nat
    BY DBWriteAssumption
  <2> QED BY <2>2, <2>3, Zenon
<1>3. ns \in [1..Len(s) -> Nat]
  BY <1>1, <1>2
<1>4. ns \in Seq(Nat) /\ Len(ns) = Len(s) /\ \A i \in 1..Len(s) : ns[i] = local[s[i]].n
  <2>1. ns \in Seq(Nat)
    <3> HIDE DEF ns
    <3> QED BY <1>1, <1>3, FunctionIsSeq
  <2>2. DOMAIN ns = 1..Len(s) /\ \A i \in 1..Len(s) : ns[i] = local[s[i]].n
    BY <1>1
  <2> HIDE DEF ns
  <2> QED BY <1>1, <2>1, <2>2
<1>5. SizesOf(s) = Sums(ns)
  BY Zenon DEF SizesOf
<1> HIDE DEF ns
<1>6. /\ Sums(ns) \in [0..Len(s) -> Nat] /\ Sums(ns)[0] = 0
      /\ \A i \in 1..Len(s) : Sums(ns)[i] = Sums(ns)[i - 1] + ns[i]
  BY <1>4, SumsAre
<1>7. \A i, j \in 0..Len(s) : i <= j => Sums(ns)[i] <= Sums(ns)[j]
  BY <1>4, SumsGrow
<1> QED BY <1>4, <1>5, <1>6, <1>7

(* The i-th batch of the group, as it is written. *)
EntryOf(i) ==
  [id |-> local[group[i]].id, n |-> local[group[i]].n,
   seq |-> last_sequence + 1 + SizesOf(group)[i - 1]]

(* The entries a group writes, and their types. *)
LEMMA EntriesAre ==
  ASSUME TypeOK, BatchInv, GroupInv, NEW t \in Threads, pc[t] \in Logs
  PROVE  /\ Len(group) \in Nat /\ Len(group) # 0 /\ group \in Seq(Threads)
         /\ GroupEntries = {EntryOf(i) : i \in {j \in 1..Len(group) : local[group[j]].op # "flush"}}
         /\ GroupEntries \subseteq Entry
         /\ \A i \in 1..Len(group) : local[group[i]].id \in 1..calls
         /\ \A e \in GroupEntries : e.id <= calls
<1>1. /\ group \in Seq(Threads) /\ writers \in Seq(Threads) /\ Len(group) \in 1..Len(writers)
      /\ last_sequence \in Nat /\ calls \in 0..MaxCalls
      /\ \A i \in 1..Len(group) : group[i] = writers[i]
  BY DEF TypeOK, QueueOK, StateOK, GroupInv
<1>2. /\ DOMAIN group = 1..Len(group) /\ DOMAIN writers = 1..Len(writers)
      /\ Len(group) \in Nat /\ Len(group) # 0 /\ 1..Len(group) \subseteq 1..Len(writers)
  BY <1>1
<1>3. GroupEntries = {EntryOf(i) : i \in {j \in 1..Len(group) : local[group[j]].op # "flush"}}
  BY <1>2, Zenon DEF GroupEntries, EntryOf
<1>4. \A i \in 1..Len(group) : local[group[i]].id \in 1..calls
  BY <1>1, <1>2 DEF BatchInv
<1>5. ASSUME NEW i \in 1..Len(group), local[group[i]].op # "flush"
      PROVE  EntryOf(i) \in Entry /\ EntryOf(i).id <= calls
  <2>1. local[group[i]].n \in Sizes
    BY <1>1, <1>2, <1>5 DEF BatchInv
  <2>2. SizesOf(group)[i - 1] \in Nat
    <3>1. i - 1 \in 0..Len(group)
      BY <1>2
    <3>2. SizesOf(group) \in [0..Len(group) -> Nat]
      BY <1>1, SizesAre DEF TypeOK
    <3> QED BY <3>1, <3>2
  <2>3. last_sequence + 1 + SizesOf(group)[i - 1] \in Nat
    BY <1>1, <2>2
  <2>4. local[group[i]].id \in 1..MaxCalls /\ local[group[i]].id <= calls
    BY <1>1, <1>4, DBWriteAssumption
  <2> QED BY <2>1, <2>3, <2>4 DEF EntryOf, Entry
<1> QED BY <1>1, <1>2, <1>3, <1>4, <1>5

(* BuildBatchGroup takes the first writers, one at least, and no sync write
   along with a leader that does not sync. *)
LEMMA GroupIsBuilt ==
  ASSUME QueueOK, 1 <= Len(writers)
  PROVE  /\ BuildBatchGroup \in Seq(Threads)
         /\ Len(BuildBatchGroup) \in 1..Len(writers)
         /\ \A i \in 1..Len(BuildBatchGroup) :
              /\ BuildBatchGroup[i] = writers[i]
              /\ local[writers[i]].op = "syncWrite" => local[writers[1]].op = "syncWrite"
<1> DEFINE T == {k \in 1..Len(writers) : MayGroup(k)}
           k == Max(T)
<1>1. writers \in Seq(Threads) /\ Len(writers) \in Nat /\ Head(writers) = writers[1]
  BY DEF QueueOK
<1>2. 1 \in T /\ T \subseteq 0..Len(writers) /\ T \subseteq 1..Len(writers)
  <2>1. MayGroup(1)
    BY DEF MayGroup
  <2>2. 1 \in T
    BY <1>1, <2>1
  <2>3. T \subseteq 1..Len(writers) /\ T \subseteq 0..Len(writers)
    OBVIOUS
  <2> QED BY <2>2, <2>3
<1>3. k \in T
  <2> HIDE DEF T
  <2>1. \E x \in T : \A y \in T : y <= x
    BY <1>1, <1>2, GreatestNatural
  <2>2. \E x \in T : \A y \in T : x >= y
    BY <1>1, <1>2, <2>1
  <2> QED BY <2>2, Zenon DEF Max
<1>4. MayGroup(k) /\ k \in 1..Len(writers)
  BY <1>3
<1>5. BuildBatchGroup = SubSeq(writers, 1, k)
  BY Zenon DEF BuildBatchGroup
<1> HIDE DEF k, T
<1>6. /\ BuildBatchGroup \in Seq(Threads) /\ Len(BuildBatchGroup) = k
      /\ \A i \in 1..k : BuildBatchGroup[i] = writers[i]
  BY <1>1, <1>4, <1>5
<1>7. ASSUME NEW i \in 1..k, local[writers[i]].op = "syncWrite"
      PROVE  local[writers[1]].op = "syncWrite"
  <2>1. CASE i = 1
    BY <1>7, <2>1
  <2>2. CASE i # 1
    <3>1. i \in 2..k
      BY <1>4, <2>2
    <3> QED BY <1>1, <1>4, <1>7, <3>1 DEF MayGroup
  <2> QED BY <2>1, <2>2
<1> QED BY <1>4, <1>6, <1>7

(* A thread that is not in TEST_CompactRange leaves the manual compaction alone. *)
LEMMA ManualStays ==
  ASSUME TypeOK, ManualInv, NEW t \in Threads, pc[t] # "compacting",
         UNCHANGED <<manual, level0>>, bg' = bg \/ bg'.inputs = 0,
         \A u \in Threads : u # t => pc'[u] = pc[u] /\ local'[u].left = local[u].left
  PROVE  ManualInv'
<1>1. manual \in Threads \cup {None} /\ level0 \in Nat
  BY DEF TypeOK, ThreadsOK, StateOK
<1>2. manual # None => manual \in Threads /\ manual # t
  BY <1>1 DEF ManualInv
<1>3. (manual # None => pc[manual] = "compacting" /\ local[manual].left >= 0)'
  BY <1>2 DEF ManualInv
<1>4. (bg.at # "dead" => bg.inputs <= level0)'
  BY <1>1 DEF ManualInv
<1> QED BY <1>3, <1>4 DEF ManualInv

(* The types, one action after the other: first the threads. *)
LEMMA ThreadTypes ==
  ASSUME TypeOK, ManualInv, QueueInv, BatchInv, GroupInv, NEW t \in Threads,
         Called(t) \/ Step(t)
  PROVE  TypeOK' /\ ManualInv'
<1> USE DEF TypeOK
<1>0. /\ writers \in Seq(Threads) /\ Len(writers) \in Nat /\ DOMAIN writers = 1..Len(writers)
      /\ local \in [Threads -> Local] /\ bg \in BgState
      /\ waiting \in [Threads -> {"no", "own", "background"}]
      /\ <<t>> \in Seq(Threads) /\ Len(<<t>>) = 1
  BY DEF QueueOK, ThreadsOK, StateOK
<1>e. pc[t] = "leading" => Len(<<t>>) <= Len(writers)
  BY <1>0 DEF QueueInv, Leads
<1>1. ASSUME NEW op \in Ops, NEW n \in Sizes, Write(t, op, n) PROVE TypeOK' /\ ManualInv'
  <2> DEFINE m == IF op = "flush" THEN 0 ELSE n
  <2>1. /\ calls' \in 0..MaxCalls /\ op \in {"write", "syncWrite", "flush"} /\ m \in Sizes \cup {0}
        /\ local' = [local EXCEPT ![t] = NewCall(op, calls', m)]
    <3>1. calls < MaxCalls /\ calls' = calls + 1 /\ calls \in 0..MaxCalls /\ MaxCalls \in Nat
      BY <1>1, DBWriteAssumption DEF Write, StateOK
    <3>2. local' = [local EXCEPT ![t] = NewCall(op, calls', m)]
      BY <1>1, Zenon DEF Write, NewCall
    <3>3. op \in {"write", "syncWrite", "flush"}
      BY <1>1 DEF Write
    <3>4. m \in Sizes \cup {0}
      OBVIOUS
    <3>5. calls' \in 0..MaxCalls
      BY <3>1
    <3> HIDE DEF m
    <3> QED BY <3>2, <3>3, <3>4, <3>5
  <2> HIDE DEF m
  <2>2. local' \in [Threads -> Local] /\ \A u \in Threads : u # t => local'[u] = local[u]
    BY <1>0, <2>1, CallIsSet
  <2>3. ThreadsOK'
    BY <1>1, <2>2 DEF Write, ThreadsOK, Go, Wait, Places
  <2>4. QueueOK'
    BY <1>1 DEF Write, QueueOK
  <2>5. StoreOK'
    BY <1>1 DEF Write, StoreOK, store
  <2>6. StateOK'
    BY <1>1, <2>1 DEF Write, StateOK, store
  <2>7. ManualInv'
    <3>1. pc[t] # "compacting" /\ UNCHANGED <<manual, level0, bg>>
      BY <1>1 DEF Write, Runs, store
    <3>2. \A u \in Threads : u # t => pc'[u] = pc[u]
      BY <1>1 DEF Write, Go, ThreadsOK
    <3> QED BY <2>2, <3>1, <3>2, ManualStays
  <2> QED BY <2>3, <2>4, <2>5, <2>6, <2>7
<1>2. CASE CompactRange(t)
  <2>1. PICK rounds \in 0..MaxRounds :
          local' = [local EXCEPT ![t] = [Idle EXCEPT !.op = "compact", !.left = rounds]]
    BY <1>2 DEF CompactRange
  <2>2. [Idle EXCEPT !.op = "compact", !.left = rounds] \in Local
    <3>1. 0 \in Sizes \cup {0} /\ 0 \in 0..MaxCalls /\ rounds \in -1..MaxRounds
          /\ "compact" \in AllOps \cup {"none"}
      BY DBWriteAssumption DEF AllOps
    <3> QED BY <3>1 DEF Idle, Local
  <2>3. local' \in [Threads -> Local] /\ \A u \in Threads : u # t => local'[u] = local[u]
    BY <1>0, <2>1, <2>2
  <2>4. ThreadsOK'
    BY <1>2, <2>3 DEF CompactRange, ThreadsOK, Go, Places
  <2>5. QueueOK' /\ StoreOK'
    BY <1>2 DEF CompactRange, QueueOK, StoreOK, store, queue
  <2>6. StateOK'
    BY <1>2, DBWriteAssumption DEF CompactRange, StateOK, store
  <2>7. ManualInv'
    <3>1. pc[t] # "compacting" /\ UNCHANGED <<manual, level0, bg>>
      BY <1>2 DEF CompactRange, Runs, store
    <3>2. \A u \in Threads : u # t => pc'[u] = pc[u]
      BY <1>2 DEF CompactRange, Go, ThreadsOK
    <3> QED BY <2>3, <3>1, <3>2, ManualStays
  <2> QED BY <2>4, <2>5, <2>6, <2>7
<1>3. CASE Close(t)
  <2>1. ThreadsOK'
    BY <1>3 DEF Close, ThreadsOK, Go, Places
  <2>2. QueueOK' /\ StoreOK'
    BY <1>3 DEF Close, QueueOK, StoreOK, store, queue
  <2>3. StateOK'
    BY <1>3 DEF Close, StateOK, store
  <2>4. ManualInv'
    <3>1. pc[t] # "compacting" /\ UNCHANGED <<manual, level0, bg, local>>
      BY <1>3 DEF Close, store
    <3>2. \A u \in Threads : u # t => pc'[u] = pc[u]
      BY <1>3 DEF Close, Go, ThreadsOK
    <3> QED BY <3>1, <3>2, ManualStays
  <2> QED BY <2>1, <2>2, <2>3, <2>4
<1>4. CASE Wake(t)
  <2>1. /\ UNCHANGED <<queue, store, bg_error, manual, bg, shutting_down, acked, calls, faults>>
        /\ pc[t] = "queued"
    BY <1>4 DEF Wake, Runs
  <2>2. QueueOK' /\ StoreOK' /\ StateOK'
    BY <2>1 DEF QueueOK, StoreOK, StateOK, store, queue
  <2>3. /\ ThreadsOK'
        /\ \A u \in Threads : u # t => pc'[u] = pc[u] /\ local'[u].left = local[u].left
    <3>1. CASE done[t] # "no" /\ Return(t, done[t]) /\ UNCHANGED <<waiting, mutex>>
      <4>1. done[t] \in {"ok", "error"}
        BY <3>1 DEF QueueOK
      <4> QED BY <2>1, <3>1, <4>1, Returns DEF ThreadsOK
    <3>2. CASE Go(t, "leading") /\ mutex' = t /\ UNCHANGED <<waiting, local>>
      BY <2>1, <3>2 DEF ThreadsOK, Go, Places
    <3>3. CASE Wait(t, "own") /\ UNCHANGED <<pc, mutex, local>>
      BY <2>1, <3>3 DEF ThreadsOK, Wait, Places
    <3> QED BY <1>4, <3>1, <3>2, <3>3 DEF Wake
  <2>4. pc[t] # "compacting" /\ UNCHANGED <<manual, level0, bg>>
    BY <2>1 DEF store
  <2>5. ManualInv'
    BY <2>3, <2>4, ManualStays
  <2> QED BY <2>2, <2>3, <2>5
(* The leader's ends of a call. *)
<1>5. ASSUME NEW members \in Seq(Threads), Len(members) <= Len(writers),
             NEW status \in {"ok", "error"},
             NEW sleepers \in [Threads -> {"no", "own", "background"}],
             Complete(t, members, status, sleepers), pc[t] \in Leads,
             last_sequence' \in Nat, acked' \subseteq Entry, bg_error' \in BOOLEAN,
             faults' \in Seq(Faults) /\ Len(faults') <= MaxFaults,
             UNCHANGED <<store, manual, bg, shutting_down, calls>>
      PROVE  TypeOK' /\ ManualInv'
  <2>1. /\ waiting' \in [Threads -> {"no", "own", "background"}] /\ mutex' = None
        /\ writers' \in Seq(Threads) /\ group' \in Seq(Threads)
        /\ done' \in [Threads -> {"no", "ok", "error"}] /\ Return(t, status)
    BY <1>5, Completes
  <2>2. /\ pc' \in [Threads -> Places] /\ local' \in [Threads -> Local]
        /\ \A u \in Threads : u # t => pc'[u] = pc[u] /\ local'[u] = local[u]
    BY <2>1, Returns
  <2>3. ThreadsOK' /\ QueueOK'
    BY <1>5, <2>1, <2>2 DEF ThreadsOK, QueueOK
  <2>4. StoreOK'
    BY <1>5 DEF StoreOK, store
  <2>5. StateOK'
    BY <1>5 DEF StateOK, store
  <2>6. pc[t] # "compacting" /\ UNCHANGED <<manual, level0, bg>>
    BY <1>5 DEF store, Leads
  <2>7. ManualInv'
    BY <2>2, <2>6, ManualStays
  <2> QED BY <2>3, <2>4, <2>5, <2>7
<1>6. CASE YieldError(t)
  <2>1. /\ Complete(t, <<t>>, "error", waiting) /\ pc[t] = "leading"
        /\ UNCHANGED <<last_sequence, store, bg_error, manual, bg, shutting_down, acked, calls, faults>>
    BY <1>6, Zenon DEF YieldError, Runs
  <2>2. /\ last_sequence' \in Nat /\ acked' \subseteq Entry /\ bg_error' \in BOOLEAN
        /\ faults' \in Seq(Faults) /\ Len(faults') <= MaxFaults /\ pc[t] \in Leads
    BY <2>1 DEF QueueOK, StoreOK, StateOK, Leads
  <2> QED BY <1>0, <1>e, <1>5, <2>1, <2>2
<1>7. CASE NewLogFails(t)
  <2>1. /\ Complete(t, <<t>>, "error", waiting) /\ pc[t] = "leading" /\ Fault("newLog")
        /\ UNCHANGED <<last_sequence, store, bg_error, manual, bg, shutting_down, acked, calls>>
    BY <1>7, Zenon DEF NewLogFails, Runs
  <2>2. /\ last_sequence' \in Nat /\ acked' \subseteq Entry /\ bg_error' \in BOOLEAN
        /\ pc[t] \in Leads
    BY <2>1 DEF QueueOK, StoreOK, StateOK, Leads
  <2>3. faults' \in Seq(Faults) /\ Len(faults') <= MaxFaults
    BY <2>1, FaultIs
  <2> QED BY <1>0, <1>e, <1>5, <2>1, <2>2, <2>3
<1>8. CASE NothingToWrite(t)
  <2>1. /\ Complete(t, <<t>>, "ok", waiting) /\ pc[t] = "leading"
        /\ UNCHANGED <<last_sequence, store, bg_error, manual, bg, shutting_down, acked, calls, faults>>
    BY <1>8, Zenon DEF NothingToWrite, Runs
  <2>2. /\ last_sequence' \in Nat /\ acked' \subseteq Entry /\ bg_error' \in BOOLEAN
        /\ faults' \in Seq(Faults) /\ Len(faults') <= MaxFaults /\ pc[t] \in Leads
    BY <2>1 DEF QueueOK, StoreOK, StateOK, Leads
  <2> QED BY <1>0, <1>e, <1>5, <2>1, <2>2
<1>9. CASE FinishWrite(t)
  <2>1. /\ pc[t] = "logged" /\ pc[t] \in Leads /\ pc[t] \in Logs
        /\ last_sequence' = last_sequence + SizesOf(group)[Len(group)]
        /\ UNCHANGED <<store, manual, bg, shutting_down, calls, faults>>
    BY <1>9 DEF FinishWrite, Runs, Leads, Logs
  <2>2. /\ group \in Seq(Threads) /\ Len(group) \in Nat /\ GroupEntries \subseteq Entry
        /\ Len(group) <= Len(writers)
    BY <2>1, <1>0, EntriesAre DEF GroupInv
  <2>3. last_sequence' \in Nat
    <3>1. SizesOf(group)[Len(group)] \in Nat
      BY <2>2, SizesAre
    <3> QED BY <2>1, <3>1 DEF QueueOK
  <2>4. bg_error' \in BOOLEAN
    BY <1>9, Zenon DEF FinishWrite
  <2>5. /\ faults' \in Seq(Faults) /\ Len(faults') <= MaxFaults
        /\ acked \subseteq Entry /\ acked \cup GroupEntries \subseteq Entry
    BY <2>1, <2>2 DEF StateOK, StoreOK
  <2>6. \/ acked' = acked \cup GroupEntries /\ Complete(t, group, "ok", waiting)
        \/ acked' = acked /\ Complete(t, group, "error", IF bg_error' # bg_error THEN Signalled ELSE waiting)
    BY <1>9, Zenon DEF FinishWrite
  <2>7. (IF bg_error' # bg_error THEN Signalled ELSE waiting) \in [Threads -> {"no", "own", "background"}]
    BY <1>0, SignalledIs
  <2> DEFINE sleepers == IF bg_error' # bg_error THEN Signalled ELSE waiting
  <2> HIDE DEF sleepers
  <2>8. CASE acked' = acked \cup GroupEntries /\ Complete(t, group, "ok", waiting)
    BY <1>0, <1>5, <2>1, <2>2, <2>3, <2>4, <2>5, <2>8
  <2>9. CASE acked' = acked /\ Complete(t, group, "error", sleepers)
    BY <1>5, <2>1, <2>2, <2>3, <2>4, <2>5, <2>7, <2>9 DEF sleepers
  <2> QED BY <2>6, <2>8, <2>9 DEF sleepers
(* The leader's other steps. *)
<1>10. CASE Delay(t) \/ SwitchMemTable(t)
  <2>1. /\ pc[t] = "leading" /\ UNCHANGED <<manual, level0>>
        /\ local' = ClearDelay(local, t) \/ local' = ClearForce(local, t)
    BY <1>10 DEF Delay, SwitchMemTable, Runs, store, ClearDelay, ClearForce
  <2>2. local' \in [Threads -> Local] /\ \A u \in Threads : local'[u].left = local[u].left
    BY <1>0, <2>1, FlagsAreSet
  <2>3. ThreadsOK' /\ \A u \in Threads : u # t => pc'[u] = pc[u]
    BY <1>10, <2>2 DEF Delay, SwitchMemTable, ThreadsOK, Go, Places
  <2>4. QueueOK' /\ StoreOK'
    BY <1>10 DEF Delay, SwitchMemTable, QueueOK, StoreOK, store, queue
  <2>5. bg' \in BgState /\ (bg' = bg \/ bg'.inputs = 0)
    BY <1>0, <1>10, MaybeScheduled DEF Delay, SwitchMemTable
  <2>6. StateOK'
    BY <1>10, <2>5 DEF Delay, SwitchMemTable, StateOK, store
  <2>7. ManualInv'
    BY <2>1, <2>2, <2>3, <2>5, ManualStays
  <2> QED BY <2>3, <2>4, <2>6, <2>7
<1>11. CASE Awaken(t) \/ WaitForRoom(t) \/ CompactMemTableWaits(t) \/ CloseGoesOn(t)
  <2>1. /\ pc[t] # "compacting"
        /\ UNCHANGED <<local, queue, store, bg_error, manual, bg, shutting_down, acked, calls, faults>>
    BY <1>11 DEF Awaken, WaitForRoom, CompactMemTableWaits, CloseGoesOn, Runs
  <2>2. QueueOK' /\ StoreOK' /\ StateOK'
    BY <2>1 DEF QueueOK, StoreOK, StateOK, store, queue
  <2>3. ThreadsOK' /\ \A u \in Threads : u # t => pc'[u] = pc[u]
    BY <1>11, <2>1
    DEF Awaken, WaitForRoom, CompactMemTableWaits, CloseGoesOn, ThreadsOK, Go, Wait, Places
  <2>4. UNCHANGED <<manual, level0, bg>>
    BY <2>1 DEF store
  <2>5. ManualInv'
    BY <2>1, <2>3, <2>4, ManualStays
  <2> QED BY <2>2, <2>3, <2>5
<1>12. CASE StartLogging(t)
  <2>1. /\ pc[t] = "leading" /\ group' = BuildBatchGroup
        /\ UNCHANGED <<local, waiting, writers, done, last_sequence, store, bg_error, manual,
                       bg, shutting_down, acked, calls, faults>>
    BY <1>12 DEF StartLogging, Runs
  <2>2. group' \in Seq(Threads)
    BY <2>1, <1>e, <1>0, GroupIsBuilt
  <2>3. QueueOK' /\ StoreOK' /\ StateOK'
    BY <2>1, <2>2 DEF QueueOK, StoreOK, StateOK, store
  <2>4. ThreadsOK' /\ \A u \in Threads : u # t => pc'[u] = pc[u]
    BY <1>12 DEF StartLogging, ThreadsOK, Go, Places
  <2>5. UNCHANGED <<manual, level0, bg>>
    BY <2>1 DEF store
  <2>6. ManualInv'
    BY <2>1, <2>4, <2>5, ManualStays
  <2> QED BY <2>3, <2>4, <2>6
<1>13. CASE AddRecord(t)
  <2>1. /\ pc[t] = "logging" /\ pc[t] \in Logs
        /\ UNCHANGED <<waiting, mutex, queue, imm, tables, level0, bg_error, manual, bg,
                       shutting_down, acked, calls, faults>>
        /\ local' = SetResult(local, t, "ok") /\ "ok" \in {"none", "ok", "error", "syncError"}
    BY <1>13 DEF AddRecord, Logs, SetResult
  <2>2. GroupEntries \subseteq Entry
    BY <2>1, EntriesAre
  <2>3. Ids(GroupEntries) \subseteq 1..MaxCalls
    BY <2>2 DEF Ids, Entry
  <2>4. local' \in [Threads -> Local] /\ \A u \in Threads : u # t => local'[u] = local[u]
    BY <1>0, <2>1, ResultIsSet
  <2>5. ThreadsOK' /\ \A u \in Threads : u # t => pc'[u] = pc[u]
    BY <1>13, <2>1, <2>4 DEF AddRecord, ThreadsOK, Go, Places
  <2>6. QueueOK' /\ StateOK'
    BY <2>1 DEF QueueOK, StateOK, queue
  <2>7. StoreOK'
    BY <1>13, <2>1, <2>2, <2>3 DEF AddRecord, StoreOK
  <2>8. ManualInv'
    BY <2>1, <2>4, <2>5, ManualStays
  <2> QED BY <2>5, <2>6, <2>7, <2>8
<1>14. CASE AddRecordFails(t)
  <2>1. PICK v \in {"error", "syncError"} :
        /\ pc[t] = "logging" /\ local' = SetResult(local, t, v)
        /\ Fault("append") \/ Fault("sync")
        /\ UNCHANGED <<waiting, mutex, queue, store, bg_error, manual, bg, shutting_down,
                       acked, calls>>
    BY <1>14 DEF AddRecordFails, SetResult
  <2>2. v \in {"none", "ok", "error", "syncError"}
    OBVIOUS
  <2>3. local' \in [Threads -> Local] /\ \A u \in Threads : u # t => local'[u] = local[u]
    BY <1>0, <2>1, <2>2, ResultIsSet
  <2>4. ThreadsOK' /\ \A u \in Threads : u # t => pc'[u] = pc[u]
    BY <1>14, <2>1, <2>3 DEF AddRecordFails, ThreadsOK, Go, Places
  <2>5. faults' \in Seq(Faults) /\ Len(faults') <= MaxFaults
    BY <2>1, FaultIs
  <2>6. QueueOK' /\ StoreOK' /\ StateOK'
    BY <2>1, <2>5 DEF QueueOK, StoreOK, StateOK, store, queue
  <2>7. UNCHANGED <<manual, level0, bg>>
    BY <2>1 DEF store
  <2>8. ManualInv'
    BY <2>1, <2>3, <2>4, <2>7, ManualStays
  <2> QED BY <2>4, <2>6, <2>8
<1>15. CASE CompactMemTableReturns(t)
  <2>1. PICK v \in {"ok", "error"} :
        /\ pc[t] = "flushing" /\ local' = SetResult(local, t, v)
        /\ UNCHANGED <<waiting, mutex, queue, store, bg_error, manual, bg, shutting_down,
                       acked, calls, faults>>
    BY <1>15 DEF CompactMemTableReturns, Runs, SetResult
  <2>2. v \in {"none", "ok", "error", "syncError"}
    OBVIOUS
  <2>3. local' \in [Threads -> Local] /\ \A u \in Threads : u # t => local'[u] = local[u]
    BY <1>0, <2>1, <2>2, ResultIsSet
  <2>4. ThreadsOK' /\ \A u \in Threads : u # t => pc'[u] = pc[u]
    BY <1>15, <2>1, <2>3 DEF CompactMemTableReturns, ThreadsOK, Go, Places
  <2>5. QueueOK' /\ StoreOK' /\ StateOK' /\ UNCHANGED <<manual, level0, bg>>
    BY <2>1 DEF QueueOK, StoreOK, StateOK, store, queue
  <2>6. ManualInv'
    BY <2>1, <2>3, <2>4, <2>5, ManualStays
  <2> QED BY <2>4, <2>5, <2>6
(* The caller of the manual compaction. *)
<1>16. CASE RequestCompaction(t)
  <2>1. /\ pc[t] = "compacting" /\ local[t].left >= 0
        /\ manual' = IF manual = None THEN t ELSE manual
        /\ UNCHANGED <<pc, local, mutex, queue, store, bg_error, shutting_down, acked, calls, faults>>
    BY <1>16 DEF RequestCompaction, Runs, GoesOn
  <2>2. bg' \in BgState /\ (bg' = bg \/ bg'.inputs = 0)
    BY <1>0, <1>16, MaybeScheduled DEF RequestCompaction
  <2>3. ThreadsOK'
    BY <1>16, <2>1 DEF RequestCompaction, ThreadsOK, Wait
  <2>4. QueueOK' /\ StoreOK' /\ StateOK'
    BY <2>1, <2>2 DEF QueueOK, StoreOK, StateOK, store, queue
  <2>5. ManualInv'
    <3>1. (manual # None => pc[manual] = "compacting" /\ local[manual].left >= 0)'
      BY <2>1 DEF ManualInv
    <3>2. level0' = level0 /\ level0 \in Nat
      BY <2>1 DEF store, StateOK
    <3> QED BY <2>2, <3>1, <3>2 DEF ManualInv
  <2> QED BY <2>3, <2>4, <2>5
<1>17. CASE CompactRangeReturns(t)
  <2>1. /\ pc[t] = "compacting" /\ manual' = IF manual = t THEN None ELSE manual
        /\ UNCHANGED <<waiting, mutex, queue, store, bg_error, bg, shutting_down, acked, calls, faults>>
        /\ local' = SetLeft(local, t, 0) /\ 0 \in -1..MaxRounds
    BY <1>17, DBWriteAssumption DEF CompactRangeReturns, Runs, SetLeft
  <2>2. local' \in [Threads -> Local] /\ \A u \in Threads : u # t => local'[u] = local[u]
    BY <1>0, <2>1, LeftIsSet
  <2>3. ThreadsOK' /\ \A u \in Threads : u # t => pc'[u] = pc[u]
    BY <1>17, <2>1, <2>2 DEF CompactRangeReturns, ThreadsOK, Go, Places
  <2>4. QueueOK' /\ StoreOK' /\ StateOK' /\ UNCHANGED <<level0, bg>>
    BY <2>1 DEF QueueOK, StoreOK, StateOK, store, queue
  <2>5. ManualInv'
    <3>1. manual' # None => manual' = manual /\ manual \in Threads /\ manual # t
      BY <2>1 DEF ThreadsOK
    <3> QED BY <2>2, <2>3, <2>4, <3>1 DEF ManualInv
  <2> QED BY <2>3, <2>4, <2>5
<1> QED
  BY <1>1, <1>2, <1>3, <1>4, <1>6, <1>7, <1>8, <1>9, <1>10, <1>11, <1>12, <1>13, <1>14,
     <1>15, <1>16, <1>17 DEF Called, Step

(* What the background thread leaves alone: the queue, the memtable, where
   the threads are and what they called; and what it may only add to. *)
BackgroundFrame ==
  /\ UNCHANGED BgLeaves /\ bg.at # "idle"
  /\ \A u \in Threads : SameCall(local, local', u) /\ local'[u].result = local[u].result
  /\ durable \subseteq durable' /\ tables \cup UNION imm \subseteq tables' \cup UNION imm'
  /\ bg_error => bg_error'
  /\ (\E i \in DOMAIN faults' : faults'[i] = "sync") => \E i \in DOMAIN faults : faults[i] = "sync"

(* The steps of the background thread's record. *)
LEMMA BgSteps ==
  ASSUME bg \in BgState
  PROVE  /\ \A a \in {"building", "installing", "working", "committing", "dead"} :
              /\ [bg EXCEPT !.at = a] \in BgState /\ [bg EXCEPT !.at = a].at = a
              /\ [bg EXCEPT !.at = a].inputs = bg.inputs
         /\ \A a \in {"working", "committing"}, n \in Nat :
              /\ [bg EXCEPT !.at = a, !.inputs = n] \in BgState
              /\ [bg EXCEPT !.at = a, !.inputs = n].inputs = n
         /\ \A b \in BOOLEAN :
              /\ [bg EXCEPT !.at = "building", !.nested = b] \in BgState
              /\ [bg EXCEPT !.at = "building", !.nested = b].inputs = bg.inputs
              /\ [bg EXCEPT !.at = "working", !.nested = b] \in BgState
              /\ [bg EXCEPT !.at = "working", !.nested = b].inputs = bg.inputs
         /\ \A b \in BOOLEAN, n \in Nat :
              /\ [bg EXCEPT !.at = "working", !.manual = b, !.inputs = n] \in BgState
              /\ [bg EXCEPT !.at = "working", !.manual = b, !.inputs = n].inputs = n
  BY DEF BgState

(* The flush returns to where it was called from. *)
LEMMA FlushReturned ==
  ASSUME TypeOK, FlushReturns
  PROVE  /\ bg' \in BgState /\ (bg'.inputs = bg.inputs \/ bg'.inputs = 0)
         /\ waiting' \in [Threads -> {"no", "own", "background"}]
<1>1. waiting' = Signalled
  BY Zenon DEF FlushReturns, EndBackgroundCall
<1>2. waiting' \in [Threads -> {"no", "own", "background"}]
  BY <1>1, SignalledIs DEF TypeOK
<1>3. bg \in BgState
  BY DEF TypeOK, StateOK
<1>4. CASE EndBackgroundCall
  BY <1>2, <1>4, BackgroundCallEnds
<1>5. CASE bg' = [bg EXCEPT !.at = "working", !.nested = FALSE]
  <2>1. FALSE \in BOOLEAN
    OBVIOUS
  <2>2. bg' \in BgState /\ bg'.inputs = bg.inputs
    BY <1>3, <1>5, <2>1, BgSteps, Zenon
  <2> QED BY <1>2, <2>2
<1> QED BY <1>4, <1>5, Zenon DEF FlushReturns

(* The end of a compaction: the caller of a manual one is told. *)
LEMMA CompactionEnds ==
  ASSUME TypeOK, ManualInv, NEW failed \in BOOLEAN, EndCompaction(failed)
  PROVE  /\ UNCHANGED <<BgLeaves, imm, tables, durable>>
         /\ bg' \in BgState /\ (bg'.at = "dead" \/ bg'.inputs = 0)
         /\ bg_error' \in BOOLEAN /\ (bg_error => bg_error')
         /\ waiting' \in [Threads -> {"no", "own", "background"}]
         /\ local' \in [Threads -> Local]
         /\ \A u \in Threads : SameCall(local, local', u) /\ local'[u].result = local[u].result
         /\ manual' \in {manual, None} /\ (manual' # None => local' = local)
<1>1. /\ UNCHANGED <<BgLeaves, imm, tables, durable>> /\ bg_error' = (bg_error \/ failed)
  BY Zenon DEF EndCompaction
<1>2. bg_error' \in BOOLEAN /\ (bg_error => bg_error')
  BY <1>1, Zenon
<1>3. /\ local \in [Threads -> Local] /\ bg \in BgState /\ manual \in Threads \cup {None}
      /\ waiting \in [Threads -> {"no", "own", "background"}]
  BY DEF TypeOK, ThreadsOK, StateOK
<1>4. \A u \in Threads : SameCall(local, local, u)
  BY DEF SameCall
<1>5. CASE bg' = [bg EXCEPT !.at = "dead"] /\ UNCHANGED <<local, waiting, manual>>
  <2>1. bg' \in BgState /\ bg'.at = "dead"
    BY <1>3, <1>5, BgSteps
  <2> QED BY <1>1, <1>2, <1>3, <1>4, <1>5, <2>1
<1>6. CASE EndBackgroundCall /\ ~(bg.manual /\ manual = None)
  <2>1. /\ bg' \in BgState /\ bg'.inputs = 0
        /\ waiting' \in [Threads -> {"no", "own", "background"}]
    BY <1>6, BackgroundCallEnds, SignalledIs DEF EndBackgroundCall, TypeOK
  <2>2. CASE local' = local /\ manual' = manual
    BY <1>1, <1>2, <1>3, <1>4, <2>1, <2>2
  <2>3. CASE /\ bg.manual /\ manual # None /\ manual' = None
             /\ local' = [local EXCEPT ![manual].left = IF failed THEN -1 ELSE @ - 1]
    <3> DEFINE v == IF failed THEN -1 ELSE local[manual].left - 1
    <3>1. manual \in Threads
      BY <1>3, <2>3
    <3>2. local' = SetLeft(local, manual, v)
      BY <2>3, Zenon DEF SetLeft
    <3>3. v \in -1..MaxRounds
      <4>1. local[manual].left >= 0
        BY <2>3 DEF ManualInv
      <4>2. local[manual] \in Local
        BY <1>3, <3>1
      <4>3. local[manual].left \in -1..MaxRounds
        BY <4>2 DEF Local
      <4>4. MaxRounds \in Nat
        BY DBWriteAssumption
      <4> QED BY <4>1, <4>3, <4>4
    <3> HIDE DEF v
    <3>4. /\ local' \in [Threads -> Local]
          /\ \A u \in Threads : SameCall(local, local', u) /\ local'[u].result = local[u].result
      BY <1>3, <3>1, <3>2, <3>3, LeftIsSet
    <3> QED BY <1>1, <1>2, <2>1, <2>3, <3>4
  <2> QED BY <1>6, <2>2, <2>3, Zenon DEF EndCompaction
<1> QED BY <1>5, <1>6, Zenon DEF EndCompaction

(* A step of the background thread keeps TypeOK and ManualInv if what it sets has
   its type, and if it cancels a manual compaction rather than make one. *)
LEMMA BackgroundKeeps ==
  ASSUME TypeOK, ManualInv, UNCHANGED BgLeaves,
         waiting' \in [Threads -> {"no", "own", "background"}],
         local' \in [Threads -> Local], manual' \in {manual, None}, manual' # None => local' = local,
         bg' \in BgState, bg'.at = "dead" \/ bg'.inputs <= level0', level0' \in Nat,
         bg_error' \in BOOLEAN, faults' \in Seq(Faults), Len(faults') <= MaxFaults,
         imm' \subseteq SUBSET Entry, tables' \subseteq Entry, durable' \subseteq 1..MaxCalls
  PROVE  TypeOK' /\ ManualInv'
<1>1. UNCHANGED <<pc, mutex, writers, done, group, last_sequence, mem, unsynced,
                  shutting_down, acked, calls>>
  BY Zenon DEF BgLeaves, queue
<1>2. ThreadsOK'
  BY <1>1 DEF TypeOK, ThreadsOK
<1>3. QueueOK'
  BY <1>1 DEF TypeOK, QueueOK
<1>4. StoreOK'
  BY <1>1 DEF TypeOK, StoreOK
<1>5. StateOK'
  BY <1>1 DEF TypeOK, StateOK
<1>6. ManualInv'
  BY <1>1 DEF ManualInv
<1> QED BY <1>2, <1>3, <1>4, <1>5, <1>6 DEF TypeOK

(* The background thread keeps the types. *)
LEMMA BackgroundTypes ==
  ASSUME TypeOK, ManualInv, Background
  PROVE  TypeOK' /\ ManualInv' /\ BackgroundFrame
<1>0. /\ local \in [Threads -> Local] /\ bg \in BgState /\ manual \in Threads \cup {None}
      /\ waiting \in [Threads -> {"no", "own", "background"}] /\ level0 \in Nat
      /\ bg_error \in BOOLEAN /\ faults \in Seq(Faults) /\ Len(faults) <= MaxFaults
      /\ imm \subseteq SUBSET Entry /\ tables \subseteq Entry /\ durable \subseteq 1..MaxCalls
  BY DEF TypeOK, ThreadsOK, StateOK, StoreOK
<1>a. bg.at # "dead" => bg.inputs <= level0 /\ bg.inputs \in Nat
  BY <1>0 DEF ManualInv, BgState
<1>b. \A u \in Threads : SameCall(local, local, u)
  BY DEF SameCall
(* Only the record of the background thread and who waits for it change. *)
<1>c. ASSUME UNCHANGED <<BgLeaves, local, imm, tables, durable, level0, bg_error, manual, faults>>,
             waiting' \in [Threads -> {"no", "own", "background"}],
             bg' \in BgState, bg'.inputs <= level0, bg.at # "idle"
      PROVE  TypeOK' /\ ManualInv' /\ BackgroundFrame
  <2>1. TypeOK' /\ ManualInv'
    BY <1>0, <1>c, BackgroundKeeps
  <2>2. BackgroundFrame
    BY <1>b, <1>c DEF BackgroundFrame
  <2> QED BY <2>1, <2>2
<1>d. ASSUME EndBackgroundCall
      PROVE  /\ waiting' \in [Threads -> {"no", "own", "background"}]
             /\ bg' \in BgState /\ bg'.inputs = 0
  BY <1>d, BackgroundCallEnds, SignalledIs DEF EndBackgroundCall, TypeOK
<1>1. CASE BackgroundCall
  <2>1. /\ UNCHANGED <<BgLeaves, imm, tables, durable, level0, bg_error, faults>>
        /\ bg.at = "scheduled"
    BY <1>1, Zenon DEF BackgroundCall, BgRuns
  <2>2. CASE UNCHANGED <<local, manual>> /\ EndBackgroundCall
    BY <1>0, <1>c, <1>d, <2>1, <2>2
  <2>3. CASE bg' = [bg EXCEPT !.at = "building"] /\ UNCHANGED <<local, manual, waiting>>
    <3>1. bg' \in BgState /\ bg'.inputs = bg.inputs
      BY <1>0, <2>3, BgSteps
    <3> QED BY <1>0, <1>a, <1>c, <2>1, <2>3, <3>1
  <2>4. CASE /\ manual # None /\ local[manual].left = 0 /\ manual' = None /\ EndBackgroundCall
             /\ local' = [local EXCEPT ![manual].left = -1]
    <3>1. local' = SetLeft(local, manual, -1) /\ manual \in Threads /\ -1 \in -1..MaxRounds
      BY <1>0, <2>4, DBWriteAssumption DEF SetLeft
    <3>2. /\ local' \in [Threads -> Local]
          /\ \A u \in Threads : SameCall(local, local', u) /\ local'[u].result = local[u].result
      BY <1>0, <3>1, LeftIsSet
    <3>3. TypeOK' /\ ManualInv'
      BY <1>0, <1>d, <2>1, <2>4, <3>2, BackgroundKeeps
    <3>4. BackgroundFrame
      BY <2>1, <3>2 DEF BackgroundFrame
    <3> QED BY <3>3, <3>4
  <2>5. CASE /\ \E n \in 0..level0 :
                  bg' = [bg EXCEPT !.at = "working", !.manual = TRUE, !.inputs = n]
             /\ UNCHANGED <<local, manual, waiting>>
    <3>1. PICK n \in 0..level0 : bg' = [bg EXCEPT !.at = "working", !.manual = TRUE, !.inputs = n]
      BY <2>5
    <3>2. n \in Nat /\ TRUE \in BOOLEAN
      BY <1>0
    <3>3. bg' \in BgState /\ bg'.inputs = n
      BY <1>0, <3>1, <3>2, BgSteps, Zenon
    <3>4. bg'.inputs <= level0
      BY <1>0, <3>3
    <3> QED BY <1>0, <1>c, <2>1, <2>5, <3>3, <3>4
  <2>6. CASE /\ \E n \in 1..level0, trivial \in BOOLEAN :
                  bg' = [bg EXCEPT !.at = IF trivial THEN "committing" ELSE "working", !.inputs = n]
             /\ UNCHANGED <<local, manual, waiting>>
    <3>1. PICK n \in 1..level0, a \in {"working", "committing"} :
            bg' = [bg EXCEPT !.at = a, !.inputs = n]
      BY <2>6, Zenon
    <3>2. n \in Nat
      BY <1>0
    <3>3. bg' \in BgState /\ bg'.inputs = n
      BY <1>0, <3>1, <3>2, BgSteps
    <3>4. bg'.inputs <= level0
      BY <1>0, <3>3
    <3> QED BY <1>0, <1>c, <2>1, <2>6, <3>3, <3>4
  <2> QED BY <1>1, <2>2, <2>3, <2>4, <2>5, <2>6, Zenon DEF BackgroundCall
<1>2. CASE TableBuilt \/ MakeWay \/ CompactionWorked
  <2>1. /\ UNCHANGED <<BgLeaves, local, waiting, imm, tables, durable, level0, bg_error, manual, faults>>
        /\ bg.at \in {"building", "working"}
    BY <1>2, Zenon DEF TableBuilt, MakeWay, CompactionWorked, BgRuns
  <2>2. bg' \in BgState /\ bg'.inputs = bg.inputs
    <3>1. TRUE \in BOOLEAN
      OBVIOUS
    <3>2. \/ bg' = [bg EXCEPT !.at = "installing"] \/ bg' = [bg EXCEPT !.at = "committing"]
          \/ bg' = [bg EXCEPT !.at = "building", !.nested = TRUE]
      BY <1>2, Zenon DEF TableBuilt, MakeWay, CompactionWorked
    <3> QED BY <1>0, <3>1, <3>2, BgSteps, Zenon
  <2> QED BY <1>0, <1>a, <1>c, <2>1, <2>2
(* A flush that fails: the error is noted, the memtable stays. *)
<1>3. ASSUME FlushFails, bg.at \in {"building", "installing"},
             faults' \in Seq(Faults), Len(faults') <= MaxFaults,
             (\E i \in DOMAIN faults' : faults'[i] = "sync") => \E i \in DOMAIN faults : faults[i] = "sync"
      PROVE  TypeOK' /\ ManualInv' /\ BackgroundFrame
  <2>1. /\ UNCHANGED <<BgLeaves, local, imm, tables, durable, level0, manual>>
        /\ bg_error' = TRUE /\ FlushReturns
    BY <1>3, Zenon DEF FlushFails
  <2>2. bg_error' \in BOOLEAN
    BY <2>1, Zenon
  <2>3. /\ bg' \in BgState /\ (bg'.inputs = bg.inputs \/ bg'.inputs = 0)
        /\ waiting' \in [Threads -> {"no", "own", "background"}]
    BY <2>1, FlushReturned
  <2>4. bg'.inputs <= level0'
    BY <1>0, <1>3, <1>a, <2>1, <2>3
  <2>5. TypeOK' /\ ManualInv'
    BY <1>0, <1>3, <2>1, <2>2, <2>3, <2>4, BackgroundKeeps
  <2>6. BackgroundFrame
    BY <1>3, <1>b, <2>1 DEF BackgroundFrame
  <2> QED BY <2>5, <2>6
<1>4. CASE TableNotBuilt
  <2>1. FlushFails /\ bg.at = "building" /\ (faults' = faults \/ Fault("table"))
    BY <1>4, Zenon DEF TableNotBuilt, BgRuns
  <2> QED BY <1>0, <1>3, <2>1, FaultIs DEF TypeOK
<1>5. CASE TableNotInstalled
  <2>1. FlushFails /\ bg.at = "installing" /\ Fault("manifest")
    BY <1>5, Zenon DEF TableNotInstalled, BgRuns
  <2> QED BY <1>3, <2>1, FaultIs DEF TypeOK
<1>6. CASE TableInstalled
  <2>1. /\ UNCHANGED <<BgLeaves, local, bg_error, manual, faults>> /\ FlushReturns
        /\ bg.at = "installing" /\ imm' = {}
        /\ tables' = tables \cup UNION imm /\ durable' = durable \cup Ids(UNION imm)
        /\ level0' \in {level0, level0 + 1}
    BY <1>6, Zenon DEF TableInstalled, BgRuns
  <2>2. /\ bg' \in BgState /\ (bg'.inputs = bg.inputs \/ bg'.inputs = 0)
        /\ waiting' \in [Threads -> {"no", "own", "background"}]
    BY <2>1, FlushReturned
  <2>3. level0' \in Nat /\ bg'.inputs <= level0'
    BY <1>0, <1>a, <2>1, <2>2
  <2>4. UNION imm \subseteq Entry
    BY <1>0
  <2>5. Ids(UNION imm) \subseteq 1..MaxCalls
    BY <2>4 DEF Ids, Entry
  <2>6. imm' \subseteq SUBSET Entry /\ tables' \subseteq Entry /\ durable' \subseteq 1..MaxCalls
    BY <1>0, <2>1, <2>4, <2>5
  <2>7. TypeOK' /\ ManualInv'
    BY <1>0, <2>1, <2>2, <2>3, <2>6, BackgroundKeeps
  <2>8. BackgroundFrame
    BY <1>b, <2>1 DEF BackgroundFrame
  <2> QED BY <2>7, <2>8
(* The end of a compaction. *)
<1>7. ASSUME NEW failed \in BOOLEAN, EndCompaction(failed), bg.at \in {"working", "committing"},
             level0' \in Nat, faults' \in Seq(Faults), Len(faults') <= MaxFaults,
             (\E i \in DOMAIN faults' : faults'[i] = "sync") => \E i \in DOMAIN faults : faults[i] = "sync"
      PROVE  TypeOK' /\ ManualInv' /\ BackgroundFrame
  <2>1. /\ UNCHANGED <<BgLeaves, imm, tables, durable>>
        /\ bg' \in BgState /\ (bg'.at = "dead" \/ bg'.inputs = 0)
        /\ bg_error' \in BOOLEAN /\ (bg_error => bg_error')
        /\ waiting' \in [Threads -> {"no", "own", "background"}]
        /\ local' \in [Threads -> Local]
        /\ \A u \in Threads : SameCall(local, local', u) /\ local'[u].result = local[u].result
        /\ manual' \in {manual, None} /\ (manual' # None => local' = local)
    BY <1>7, CompactionEnds
  <2>2. bg'.at = "dead" \/ bg'.inputs <= level0'
    BY <1>7, <2>1
  <2>3. TypeOK' /\ ManualInv'
    BY <1>0, <1>7, <2>1, <2>2, BackgroundKeeps
  <2>4. BackgroundFrame
    BY <1>7, <2>1 DEF BackgroundFrame
  <2> QED BY <2>3, <2>4
<1>8. TRUE \in BOOLEAN /\ FALSE \in BOOLEAN
  OBVIOUS
<1>9. CASE CompactionFails
  <2>1. /\ EndCompaction(TRUE) /\ bg.at \in {"working", "committing"} /\ level0' = level0
        /\ faults' = faults \/ Fault("compaction")
    BY <1>9, Zenon DEF CompactionFails, BgRuns
  <2>2. /\ faults' \in Seq(Faults) /\ Len(faults') <= MaxFaults /\ level0' \in Nat
        /\ (\E i \in DOMAIN faults' : faults'[i] = "sync") => \E i \in DOMAIN faults : faults[i] = "sync"
    BY <1>0, <2>1, FaultIs DEF TypeOK
  <2> QED BY <1>7, <1>8, <2>1, <2>2, Zenon
<1>10. CASE CompactionNotCommitted
  <2>1. /\ EndCompaction(TRUE) /\ bg.at \in {"working", "committing"} /\ level0' = level0
        /\ Fault("manifest")
    BY <1>10, Zenon DEF CompactionNotCommitted, BgRuns
  <2>2. /\ faults' \in Seq(Faults) /\ Len(faults') <= MaxFaults /\ level0' \in Nat
        /\ (\E i \in DOMAIN faults' : faults'[i] = "sync") => \E i \in DOMAIN faults : faults[i] = "sync"
    BY <1>0, <2>1, FaultIs DEF TypeOK
  <2> QED BY <1>7, <1>8, <2>1, <2>2, Zenon
<1>11. CASE CompactionCommitted
  <2>1. /\ EndCompaction(FALSE) /\ bg.at = "committing" /\ level0' = level0 - bg.inputs
        /\ faults' = faults /\ bg.at \in {"working", "committing"}
    BY <1>11, Zenon DEF CompactionCommitted, BgRuns
  <2>2. level0' \in Nat /\ faults' \in Seq(Faults) /\ Len(faults') <= MaxFaults
    BY <1>0, <1>a, <2>1
  <2>3. (\E i \in DOMAIN faults' : faults'[i] = "sync") => \E i \in DOMAIN faults : faults[i] = "sync"
    BY <2>1
  <2> QED BY <1>7, <1>8, <2>1, <2>2, <2>3, Zenon
<1> QED BY <1>1, <1>2, <1>4, <1>5, <1>6, <1>9, <1>10, <1>11 DEF Background

-------------------------------------------------------------------------------
(* The inductive invariant. *)

Core == QueueInv /\ BatchInv /\ GroupInv /\ MemInv /\ AckedInv /\ DurableInv /\ SyncInv

(* The queue as indices. *)
LEMMA QueueIs ==
  ASSUME TypeOK
  PROVE  /\ writers \in Seq(Threads) /\ Len(writers) \in Nat /\ DOMAIN writers = 1..Len(writers)
         /\ \A i \in 1..Len(writers) : writers[i] \in Threads
         /\ group \in Seq(Threads) /\ Len(group) \in Nat /\ DOMAIN group = 1..Len(group)
         /\ \A i \in 1..Len(group) : group[i] \in Threads
         /\ writers # <<>> => 1 \in 1..Len(writers) /\ Head(writers) = writers[1]
  BY DEF TypeOK, QueueOK

(* Whoever leads is the first of the queue, so that it is alone. *)
LEMMA OneLeads ==
  ASSUME TypeOK, QueueInv, NEW t \in Threads, pc[t] \in Leads
  PROVE  /\ 1 \in 1..Len(writers) /\ writers[1] = t
         /\ \A u \in Threads : pc[u] \in Leads => u = t
  BY QueueIs DEF QueueInv

(* A group is written as it was built while its members' calls stand. *)
LEMMA EntriesStay ==
  ASSUME TypeOK, UNCHANGED <<group, last_sequence>>,
         \A i \in 1..Len(group) : SameCall(local, local', group[i])
  PROVE  GroupEntries' = GroupEntries
<1>1. DOMAIN group = 1..Len(group) /\ group' = group /\ last_sequence' = last_sequence
  BY QueueIs
<1>2. [i \in DOMAIN group |-> local'[group[i]].n] = [i \in DOMAIN group |-> local[group[i]].n]
  BY <1>1 DEF SameCall
<1>3. SizesOf(group)' = SizesOf(group)
  BY <1>1, <1>2, Zenon DEF SizesOf
<1> DEFINE entry(i) == [id |-> local[group[i]].id, n |-> local[group[i]].n,
                        seq |-> last_sequence + 1 + SizesOf(group)[i - 1]]
           members == {j \in DOMAIN group : local[group[j]].op # "flush"}
<1>4. members' = members
  BY <1>1 DEF SameCall
<1>5. \A i \in DOMAIN group : entry(i)' = entry(i)
  <2> SUFFICES ASSUME NEW i \in DOMAIN group PROVE entry(i)' = entry(i)
    OBVIOUS
  <2>1. local'[group[i]].id = local[group[i]].id /\ local'[group[i]].n = local[group[i]].n
    BY <1>1 DEF SameCall
  <2>2. SizesOf(group)'[i - 1] = SizesOf(group)[i - 1]
    BY <1>3
  <2> QED BY <1>1, <2>1, <2>2, Zenon
<1>6. GroupEntries = {entry(i) : i \in members} /\ GroupEntries' = {entry(i)' : i \in members'}
  BY Zenon DEF GroupEntries
<1> HIDE DEF entry
<1> QED BY <1>4, <1>5, <1>6

(* What the group writes: entries of their own, after everything that was
   acknowledged, in the order of the queue and up to the next last sequence
   number. *)
LEMMA GroupFacts ==
  ASSUME TypeOK, Core, NEW t \in Threads, pc[t] \in Logs
  PROVE  /\ \A d \in acked, e \in GroupEntries : d.id < e.id /\ d.seq + d.n <= e.seq
         /\ \A d, e \in GroupEntries : d.id = e.id => d = e
         /\ \A d, e \in GroupEntries : d.id < e.id => d.seq + d.n <= e.seq
         /\ \A e \in GroupEntries :
              /\ e.seq > last_sequence
              /\ e.seq + e.n - 1 <= last_sequence + SizesOf(group)[Len(group)]
<1>1. /\ Len(group) \in Nat /\ Len(group) # 0 /\ group \in Seq(Threads)
      /\ GroupEntries = {EntryOf(i) : i \in {j \in 1..Len(group) : local[group[j]].op # "flush"}}
      /\ GroupEntries \subseteq Entry
  BY EntriesAre DEF Core
<1>2. /\ 1..Len(group) \subseteq 1..Len(writers) /\ DOMAIN writers = 1..Len(writers)
      /\ \A i \in 1..Len(group) : group[i] = writers[i] /\ group[i] \in Threads
  BY QueueIs DEF Core, GroupInv
<1>3. /\ SizesOf(group) \in [0..Len(group) -> Nat]
      /\ \A i \in 1..Len(group) : SizesOf(group)[i] = SizesOf(group)[i - 1] + local[group[i]].n
      /\ \A i, j \in 0..Len(group) : i <= j => SizesOf(group)[i] <= SizesOf(group)[j]
  BY <1>1, SizesAre DEF TypeOK
<1>4. acked \subseteq Entry /\ last_sequence \in Nat
  BY DEF TypeOK, StoreOK, QueueOK
<1> DEFINE S == SizesOf(group)
           a(i) == local[group[i]]
<1>5. \A i, j \in 1..Len(group) : i < j => a(i).id < a(j).id
  BY <1>2 DEF Core, BatchInv
<1>6. \A i \in 1..Len(group) :
        /\ a(i).id \in Nat /\ a(i).n \in Nat /\ S[i - 1] \in Nat /\ S[i] \in Nat
        /\ S[i] = S[i - 1] + a(i).n
        /\ EntryOf(i).id = a(i).id /\ EntryOf(i).n = a(i).n /\ EntryOf(i).seq = last_sequence + 1 + S[i - 1]
  <2> SUFFICES ASSUME NEW i \in 1..Len(group)
               PROVE  /\ a(i).id \in Nat /\ a(i).n \in Nat /\ S[i - 1] \in Nat /\ S[i] \in Nat
                      /\ S[i] = S[i - 1] + a(i).n
                      /\ EntryOf(i).id = a(i).id /\ EntryOf(i).n = a(i).n
                      /\ EntryOf(i).seq = last_sequence + 1 + S[i - 1]
    OBVIOUS
  <2>1. i - 1 \in 0..Len(group) /\ i \in 0..Len(group)
    BY <1>1
  <2>2. a(i) \in Local
    BY <1>2 DEF TypeOK, ThreadsOK
  <2>3. a(i).id \in 0..MaxCalls /\ a(i).n \in Sizes \cup {0}
    BY <2>2 DEF Local
  <2>4. Sizes \cup {0} \subseteq Nat /\ 0..MaxCalls \subseteq Nat
    BY DBWriteAssumption
  <2>5. a(i).id \in Nat /\ a(i).n \in Nat
    BY <2>3, <2>4, Zenon
  <2>6. /\ EntryOf(i).id = a(i).id /\ EntryOf(i).n = a(i).n
        /\ EntryOf(i).seq = last_sequence + 1 + S[i - 1]
    BY DEF EntryOf
  <2> QED BY <1>3, <2>1, <2>5, <2>6
<1> HIDE DEF S, a
<1>7. \A i, j \in 0..Len(group) : i <= j => S[i] <= S[j]
  BY <1>3 DEF S
<1>8. \A i, j \in 1..Len(group) : a(i).id = a(j).id => i = j
  <2> SUFFICES ASSUME NEW i \in 1..Len(group), NEW j \in 1..Len(group), a(i).id = a(j).id, i # j
               PROVE  FALSE
    OBVIOUS
  <2>1. i < j \/ j < i
    BY <1>1
  <2>2. a(i).id \in Nat /\ a(j).id \in Nat
    BY <1>6
  <2>3. (i < j => a(i).id < a(j).id) /\ (j < i => a(j).id < a(i).id)
    BY <1>5
  <2> QED BY <2>1, <2>2, <2>3
<1>9. \A d, e \in GroupEntries : d.id = e.id => d = e
  <2> SUFFICES ASSUME NEW d \in GroupEntries, NEW e \in GroupEntries, d.id = e.id
               PROVE  d = e
    OBVIOUS
  <2>1. PICK i \in 1..Len(group) : d = EntryOf(i)
    BY <1>1
  <2>2. PICK j \in 1..Len(group) : e = EntryOf(j)
    BY <1>1
  <2>3. i = j
    BY <1>6, <1>8, <2>1, <2>2
  <2> QED BY <2>1, <2>2, <2>3
<1>10. \A d, e \in GroupEntries : d.id < e.id => d.seq + d.n <= e.seq
  <2> SUFFICES ASSUME NEW d \in GroupEntries, NEW e \in GroupEntries, d.id < e.id
               PROVE  d.seq + d.n <= e.seq
    OBVIOUS
  <2>1. PICK i \in 1..Len(group) : d = EntryOf(i)
    BY <1>1
  <2>2. PICK j \in 1..Len(group) : e = EntryOf(j)
    BY <1>1
  <2>3. i < j
    <3>1. a(i).id < a(j).id /\ a(i).id \in Nat /\ a(j).id \in Nat
      BY <1>6, <2>1, <2>2
    <3>2. i = j \/ i < j \/ j < i
      BY <1>1
    <3>3. ~(j < i) /\ ~(i = j)
      BY <1>5, <3>1
    <3> QED BY <3>2, <3>3
  <2>4. i \in 0..Len(group) /\ j - 1 \in 0..Len(group) /\ i <= j - 1
    BY <1>1, <2>3
  <2>5. S[i] <= S[j - 1]
    BY <1>7, <2>4
  <2>6. /\ d.seq = last_sequence + 1 + S[i - 1] /\ d.n = a(i).n /\ S[i] = S[i - 1] + a(i).n
        /\ e.seq = last_sequence + 1 + S[j - 1]
        /\ a(i).n \in Nat /\ S[i - 1] \in Nat /\ S[i] \in Nat /\ S[j - 1] \in Nat
    BY <1>6, <2>1, <2>2
  <2> QED BY <1>4, <2>5, <2>6
<1>11. ASSUME NEW e \in GroupEntries
       PROVE  /\ e.seq > last_sequence /\ e.seq \in Nat /\ e.id \in Nat
              /\ e.seq + e.n - 1 <= last_sequence + SizesOf(group)[Len(group)]
              /\ \A d \in acked : d.id < e.id
  <2>1. PICK i \in 1..Len(group) : e = EntryOf(i)
    BY <1>1
  <2>2. i \in 0..Len(group) /\ Len(group) \in 0..Len(group) /\ i <= Len(group)
    BY <1>1
  <2>3. S[i] <= S[Len(group)] /\ S[Len(group)] \in Nat
    BY <1>3, <1>7, <2>2 DEF S
  <2>4. /\ e.seq = last_sequence + 1 + S[i - 1] /\ e.n = a(i).n /\ S[i] = S[i - 1] + a(i).n
        /\ a(i).n \in Nat /\ S[i - 1] \in Nat /\ S[i] \in Nat /\ e.id = a(i).id /\ a(i).id \in Nat
    BY <1>6, <2>1
  <2>5. e.seq + e.n - 1 <= last_sequence + S[Len(group)]
    BY <1>4, <2>3, <2>4
  <2>6. \A d \in acked : d.id < local[writers[i]].id
    BY <1>2 DEF Core, BatchInv
  <2>7. local[writers[i]].id = e.id
    BY <1>2, <2>4 DEF a
  <2> QED BY <1>4, <2>4, <2>5, <2>6, <2>7 DEF S
<1>12. ASSUME NEW d \in acked, NEW e \in GroupEntries PROVE d.seq + d.n <= e.seq
  <2>1. d.seq + d.n - 1 <= last_sequence
    BY DEF Core, AckedInv
  <2>2. d \in Entry
    BY <1>4
  <2>3. d.seq \in Nat /\ d.n \in Nat
    BY <2>2, DBWriteAssumption DEF Entry
  <2> QED BY <1>4, <1>11, <2>1, <2>3
<1> QED BY <1>9, <1>10, <1>11, <1>12

(* A step beside the writing: the queue, the group, the memtable and what was
   acknowledged stay; a thread keeps its place and its call, or sleeps or
   wakes as the leader, or moves outside the queue; and what is on the disk
   or flushed is not taken back. *)
Outside == Places \ (Leads \cup {"queued"})
Keeps(u) == pc'[u] = pc[u] /\ SameCall(local, local', u) /\ local'[u].result = local[u].result
Rests(u) ==
  /\ pc[u] \in {"leading", "sleeping"} /\ pc'[u] \in {"leading", "sleeping"}
  /\ SameCall(local, local', u)
Moves(u) ==
  /\ pc[u] \in Outside /\ pc'[u] \in Outside
  /\ pc'[u] = "idle" => local'[u].op # "syncWrite"
  /\ pc'[u] = "flushing" => local'[u].op = "flush"
  /\ pc'[u] = "compacting" => local'[u].op = "compact"

Bystander ==
  /\ UNCHANGED <<writers, done, group, last_sequence, acked, mem>>
  /\ calls <= calls'
  /\ \A u \in Threads : Keeps(u) \/ Rests(u) \/ Moves(u)
  /\ durable \subseteq durable' /\ tables \cup UNION imm \subseteq tables' \cup UNION imm'
  /\ bg_error => bg_error'
  /\ (\E i \in DOMAIN faults' : faults'[i] = "sync") => \E i \in DOMAIN faults : faults[i] = "sync"

(* A step beside the writing keeps the parts about writing. *)
LEMMA BystanderKeeps ==
  ASSUME TypeOK, TypeOK', Core, Bystander
  PROVE  Core'
<1>1. /\ UNCHANGED <<writers, done, group, last_sequence, acked, mem>> /\ calls <= calls'
      /\ calls \in Nat /\ calls' \in Nat
  <2>1. calls \in Nat /\ calls' \in Nat
    BY DEF TypeOK, StateOK
  <2> QED BY <2>1 DEF Bystander
<1>2. /\ DOMAIN writers = 1..Len(writers) /\ \A i \in 1..Len(writers) : writers[i] \in Threads
      /\ DOMAIN group = 1..Len(group) /\ \A i \in 1..Len(group) : group[i] \in Threads
  BY QueueIs
<1>3. ASSUME NEW u \in Threads PROVE Keeps(u) \/ Rests(u) \/ Moves(u)
  BY DEF Bystander
<1>4. \A u \in Threads :
        /\ pc'[u] = "queued" <=> pc[u] = "queued"
        /\ pc'[u] \in Leads <=> pc[u] \in Leads
        /\ pc'[u] \in Logs <=> pc[u] \in Logs
        /\ pc'[u] = "logged" <=> pc[u] = "logged"
        /\ pc[u] \in Leads \cup {"queued"} => SameCall(local, local', u)
        /\ pc[u] \in Logs \cup {"queued"} => local'[u].result = local[u].result
  <2> SUFFICES ASSUME NEW u \in Threads
               PROVE  /\ pc'[u] = "queued" <=> pc[u] = "queued"
                      /\ pc'[u] \in Leads <=> pc[u] \in Leads
                      /\ pc'[u] \in Logs <=> pc[u] \in Logs
                      /\ pc'[u] = "logged" <=> pc[u] = "logged"
                      /\ pc[u] \in Leads \cup {"queued"} => SameCall(local, local', u)
                      /\ pc[u] \in Logs \cup {"queued"} => local'[u].result = local[u].result
    OBVIOUS
  <2>1. CASE Keeps(u)
    BY <2>1 DEF Keeps
  <2>2. CASE Rests(u)
    BY <2>2 DEF Rests, Leads, Logs
  <2>3. CASE Moves(u)
    BY <2>3 DEF Moves, Outside, Leads, Logs
  <2> QED BY <1>3, <2>1, <2>2, <2>3
<1>5. \A i \in 1..Len(writers) :
        SameCall(local, local', writers[i]) /\ pc[writers[i]] \in Leads \cup {"queued"}
  <2>1. \A i \in 1..Len(writers) : pc[writers[i]] \in Leads \cup {"queued"}
    BY <1>2 DEF Core, QueueInv
  <2> QED BY <1>2, <1>4, <2>1
<1>6. QueueInv'
  <2>1. (\A i, j \in DOMAIN writers : writers[i] = writers[j] => i = j)'
    BY <1>1 DEF Core, QueueInv
  <2>2. (\A i \in DOMAIN writers : \/ pc[writers[i]] = "queued" /\ done[writers[i]] = "no"
                                   \/ i = 1 /\ pc[writers[i]] \in Leads)'
    BY <1>1, <1>2, <1>4 DEF Core, QueueInv
  <2>3. (\A t \in Threads : pc[t] \in Leads => writers # <<>> /\ writers[1] = t)'
    BY <1>1, <1>4 DEF Core, QueueInv
  <2>4. (\A t \in Threads : pc[t] = "queued" /\ done[t] = "no" =>
           \E i \in DOMAIN writers : writers[i] = t)'
    BY <1>1, <1>4 DEF Core, QueueInv
  <2> QED BY <2>1, <2>2, <2>3, <2>4 DEF QueueInv
<1>7. BatchInv'
  <2>1. (\A i \in DOMAIN writers :
           /\ local[writers[i]].op \in {"write", "syncWrite", "flush"}
           /\ local[writers[i]].id \in 1..calls
           /\ local[writers[i]].op # "flush" => local[writers[i]].n \in Sizes)'
    BY <1>1, <1>2, <1>5 DEF Core, BatchInv, SameCall
  <2>2. (\A i, j \in DOMAIN writers : i < j => local[writers[i]].id < local[writers[j]].id)'
    BY <1>1, <1>2, <1>5 DEF Core, BatchInv, SameCall
  <2>3. (\A e \in acked : e.id <= calls /\ \A i \in DOMAIN writers : e.id < local[writers[i]].id)'
    <3>1. ASSUME NEW e \in acked PROVE e.id \in Nat /\ e.id <= calls
      <4>1. e \in Entry
        BY DEF TypeOK, StoreOK
      <4>2. e.id \in 1..MaxCalls
        BY <4>1 DEF Entry
      <4> QED BY <4>2 DEF Core, BatchInv
    <3>2. \A e \in acked' : e.id <= calls'
      BY <1>1, <3>1
    <3>3. \A e \in acked', i \in DOMAIN writers' : e.id < local'[writers'[i]].id
      BY <1>1, <1>2, <1>5 DEF Core, BatchInv, SameCall
    <3> QED BY <3>2, <3>3
  <2>4. ASSUME NEW u \in Threads
        PROVE  /\ pc'[u] = "flushing" => local'[u].op = "flush"
               /\ pc'[u] = "compacting" => local'[u].op = "compact"
    BY <1>3 DEF Core, BatchInv, Keeps, Rests, Moves, SameCall
  <2> QED BY <2>1, <2>2, <2>3, <2>4 DEF BatchInv
<1>8. ASSUME NEW t \in Threads, pc[t] \in Logs
      PROVE  /\ \A i \in 1..Len(group) : SameCall(local, local', group[i])
             /\ GroupEntries' = GroupEntries
  <2>1. \A i \in 1..Len(group) : group[i] = writers[i] /\ i \in 1..Len(writers)
    BY <1>2, <1>8, QueueIs DEF Core, GroupInv
  <2>2. \A i \in 1..Len(group) : SameCall(local, local', group[i])
    BY <1>5, <2>1
  <2> QED BY <1>1, <2>2, EntriesStay
<1>9. GroupInv'
  <2> SUFFICES ASSUME NEW t \in Threads, pc'[t] \in Logs
               PROVE  /\ Len(group') \in 1..Len(writers')
                      /\ \A i \in 1..Len(group') : group'[i] = writers'[i]
                      /\ \A i \in 1..Len(group') :
                           local'[group'[i]].op = "syncWrite" => local'[group'[1]].op = "syncWrite"
    BY Zenon DEF GroupInv
  <2>1. pc[t] \in Logs
    BY <1>4
  <2>2. /\ Len(group) \in 1..Len(writers) /\ \A i \in 1..Len(group) : group[i] = writers[i]
        /\ \A i \in 1..Len(group) :
             local[group[i]].op = "syncWrite" => local[group[1]].op = "syncWrite"
    BY <2>1 DEF Core, GroupInv
  <2>3. 1 \in 1..Len(group)
    BY <2>2, QueueIs
  <2> QED BY <1>1, <1>8, <2>1, <2>2, <2>3 DEF SameCall
<1>10. \A u \in Threads : HasWritten(u)' <=> HasWritten(u)
  BY <1>4 DEF HasWritten, Logs
<1>11. MemInv'
  <2>1. ASSUME NEW t \in Threads, HasWritten(t)' PROVE GroupEntries' \subseteq mem'
    <3>1. HasWritten(t) /\ pc[t] \in Logs
      BY <1>10, <2>1 DEF HasWritten, Logs
    <3> QED BY <1>1, <1>8, <3>1 DEF Core, MemInv
  <2>2. ASSUME NEW e \in mem'
        PROVE  e \in acked' \/ \E t \in Threads : HasWritten(t)' /\ e \in GroupEntries'
    <3>1. CASE e \in acked
      BY <1>1, <3>1
    <3>2. CASE \E t \in Threads : HasWritten(t) /\ e \in GroupEntries
      <4>1. PICK t \in Threads : HasWritten(t) /\ e \in GroupEntries
        BY <3>2
      <4>2. pc[t] \in Logs
        BY <4>1 DEF HasWritten, Logs
      <4> QED BY <1>8, <1>10, <4>1, <4>2
    <3> QED BY <1>1, <3>1, <3>2 DEF Core, MemInv
  <2> QED BY <2>1, <2>2, Zenon DEF MemInv
<1>12. AckedInv'
  <2>1. AckedVisible'
    <3>1. acked \subseteq mem \cup tables \cup UNION imm
      BY DEF Core, AckedInv, AckedVisible
    <3>2. tables \cup UNION imm \subseteq tables' \cup UNION imm'
      BY DEF Bystander
    <3> QED BY <1>1, <3>1, <3>2 DEF AckedVisible
  <2>2. (\A d, e \in acked : d.id = e.id => d = e)' /\ QueueOrder'
        /\ (\A e \in acked : e.seq + e.n - 1 <= last_sequence)'
    BY <1>1 DEF Core, AckedInv, QueueOrder
  <2> QED BY <2>1, <2>2 DEF AckedInv
<1>13. DurableInv'
  <2>1. durable \subseteq durable'
    BY DEF Bystander
  <2>2. ASSUME NEW u \in Threads, pc'[u] = "queued", done'[u] = "ok", local'[u].op = "syncWrite"
        PROVE  local'[u].id \in durable'
    BY <1>1, <1>4, <2>1, <2>2 DEF Core, DurableInv, SameCall
  <2>3. ASSUME NEW u \in Threads, HasWritten(u)', NEW i \in DOMAIN group', local'[group'[i]].op = "syncWrite"
        PROVE  local'[group'[i]].id \in durable'
    <3>1. HasWritten(u) /\ pc[u] \in Logs /\ i \in 1..Len(group) /\ i \in DOMAIN group /\ group' = group
      BY <1>1, <1>2, <1>10, <2>3 DEF HasWritten, Logs
    <3>2. SameCall(local, local', group[i])
      BY <1>8, <3>1
    <3> QED BY <2>1, <2>3, <3>1, <3>2 DEF Core, DurableInv, SameCall
  <2>4. ASSUME NEW u \in Threads, pc'[u] = "idle", local'[u].op = "syncWrite", local'[u].result = "ok"
        PROVE  local'[u].id \in durable'
    <3>1. Keeps(u)
      BY <1>3, <2>4 DEF Rests, Moves
    <3> QED BY <2>1, <2>4, <3>1 DEF Core, DurableInv, SyncedDurable, Keeps, SameCall
  <2>5. SyncedDurable'
    BY <2>4, Zenon DEF SyncedDurable
  <2> QED BY <2>2, <2>3, <2>5, Zenon DEF DurableInv
<1>14. SyncInv'
  <2> SUFFICES ASSUME \E i \in DOMAIN faults' : faults'[i] = "sync"
               PROVE  \/ \E t \in Threads : pc'[t] = "logged" /\ local'[t].result = "syncError"
                      \/ bg_error' /\ \A t \in Threads : pc'[t] \notin Logs
    BY Zenon DEF SyncInv
  <2>1. \E i \in DOMAIN faults : faults[i] = "sync"
    BY DEF Bystander
  <2>2. CASE \E t \in Threads : pc[t] = "logged" /\ local[t].result = "syncError"
    BY <1>4, <2>2 DEF Logs
  <2>3. CASE bg_error /\ \A t \in Threads : pc[t] \notin Logs
    <3>1. bg_error'
      BY <2>3, Zenon DEF Bystander
    <3>2. \A t \in Threads : pc'[t] \notin Logs
      BY <1>4, <2>3
    <3> QED BY <3>1, <3>2
  <2> QED BY <2>1, <2>2, <2>3, Zenon DEF Core, SyncInv
<1> QED BY <1>6, <1>7, <1>9, <1>11, <1>12, <1>13, <1>14 DEF Core

(* The steps beside the writing. *)
LEMMA BystanderSteps ==
  ASSUME TypeOK, ManualInv, TypeOK', Core
  PROVE  /\ Background => Core'
         /\ \A t \in Threads :
              \/ CompactRange(t) \/ Close(t) \/ Delay(t) \/ Awaken(t) \/ WaitForRoom(t)
              \/ CompactMemTableWaits(t) \/ CompactMemTableReturns(t)
              \/ RequestCompaction(t) \/ CompactRangeReturns(t) \/ CloseGoesOn(t)
              \/ (Wake(t) /\ UNCHANGED pc /\ UNCHANGED local)
              => Core'
<1>0. /\ local \in [Threads -> Local] /\ calls \in Nat /\ pc \in [Threads -> Places]
      /\ pc' \in [Threads -> Places] /\ \A u \in Threads : SameCall(local, local, u)
  BY DEF TypeOK, ThreadsOK, StateOK, SameCall
<1>1. ASSUME Background PROVE Core'
  <2>1. BackgroundFrame
    BY <1>1, BackgroundTypes
  <2>2. UNCHANGED <<pc, writers, done, group, last_sequence, mem, acked, calls>>
    BY <2>1, Zenon DEF BackgroundFrame, BgLeaves, queue
  <2>3. \A u \in Threads : Keeps(u)
    BY <2>1, <2>2 DEF BackgroundFrame, Keeps
  <2>4. Bystander
    BY <1>0, <2>1, <2>2, <2>3 DEF BackgroundFrame, Bystander
  <2> QED BY <2>4, BystanderKeeps
(* A thread steps and nothing but its own place and record changes. *)
<1>2. ASSUME NEW t \in Threads, UNCHANGED <<queue, store, bg_error, acked, faults>>,
             calls <= calls', Keeps(t) \/ Rests(t) \/ Moves(t),
             \A u \in Threads : u # t => pc'[u] = pc[u] /\ local'[u] = local[u]
      PROVE  Core'
  <2>1. UNCHANGED <<writers, done, group, last_sequence, mem, imm, tables, durable, acked>>
    BY <1>2 DEF queue, store
  <2>2. \A u \in Threads : u # t => Keeps(u)
    BY <1>0, <1>2 DEF Keeps, SameCall
  <2>3. Bystander
    BY <1>2, <2>1, <2>2 DEF Bystander
  <2> QED BY <2>3, BystanderKeeps
<1>3. ASSUME NEW t \in Threads, CompactRange(t) PROVE Core'
  <2>1. /\ UNCHANGED <<queue, store, bg_error, acked, faults>> /\ calls <= calls' /\ pc[t] = "idle"
        /\ Go(t, "compacting")
    BY <1>0, <1>3 DEF CompactRange, Runs
  <2>2. PICK rounds \in 0..MaxRounds :
          local' = [local EXCEPT ![t] = [Idle EXCEPT !.op = "compact", !.left = rounds]]
    BY <1>3 DEF CompactRange
  <2>3. local'[t].op = "compact" /\ \A u \in Threads : u # t => local'[u] = local[u]
    BY <1>0, <2>2 DEF Idle
  <2>4. pc'[t] = "compacting" /\ \A u \in Threads : u # t => pc'[u] = pc[u]
    BY <1>0, <2>1 DEF Go
  <2>5. Moves(t)
    BY <2>1, <2>3, <2>4 DEF Moves, Outside, Leads, Places
  <2> QED BY <1>2, <2>1, <2>3, <2>4, <2>5
<1>4. ASSUME NEW t \in Threads, Close(t) \/ CloseGoesOn(t) PROVE Core'
  <2>1. /\ UNCHANGED <<queue, store, bg_error, acked, faults, local, calls>>
        /\ (pc[t] \in {"idle", "closing"} /\ (Go(t, "closing") \/ Go(t, "closed"))) \/ UNCHANGED pc
    BY <1>4 DEF Close, CloseGoesOn, Runs
  <2>2. calls <= calls' /\ \A u \in Threads : u # t => pc'[u] = pc[u] /\ local'[u] = local[u]
    BY <1>0, <2>1 DEF Go
  <2>3. CASE UNCHANGED pc
    <3>1. Keeps(t)
      BY <1>0, <2>1, <2>3 DEF Keeps
    <3> QED BY <1>2, <2>1, <2>2, <3>1
  <2>4. CASE pc[t] \in {"idle", "closing"} /\ (Go(t, "closing") \/ Go(t, "closed"))
    <3>1. pc'[t] \in {"closing", "closed"}
      BY <1>0, <2>4 DEF Go
    <3>2. Moves(t)
      BY <2>4, <3>1 DEF Moves, Outside, Leads, Places
    <3> QED BY <1>2, <2>1, <2>2, <3>2
  <2> QED BY <2>1, <2>3, <2>4
<1>5. ASSUME NEW t \in Threads, Delay(t) \/ Awaken(t) PROVE Core'
  <2>1. /\ UNCHANGED <<queue, store, bg_error, acked, faults, calls>>
        /\ pc[t] \in {"leading", "sleeping"} /\ (Go(t, "leading") \/ Go(t, "sleeping"))
        /\ local' = ClearDelay(local, t) \/ local' = local
    BY <1>5 DEF Delay, Awaken, Runs, ClearDelay
  <2>2. SameCall(local, local', t) /\ \A u \in Threads : u # t => local'[u] = local[u]
    <3>1. CASE local' = local
      BY <1>0, <3>1
    <3>2. CASE local' = ClearDelay(local, t)
      BY <1>0, <3>2, FlagsAreSet DEF ClearDelay
    <3> QED BY <2>1, <3>1, <3>2
  <2>3. pc'[t] \in {"leading", "sleeping"} /\ \A u \in Threads : u # t => pc'[u] = pc[u]
    BY <1>0, <2>1 DEF Go
  <2>4. Rests(t) /\ calls <= calls'
    BY <1>0, <2>1, <2>2, <2>3 DEF Rests
  <2> QED BY <1>2, <2>1, <2>2, <2>3, <2>4
<1>6. ASSUME NEW t \in Threads,
             \/ WaitForRoom(t) \/ CompactMemTableWaits(t) \/ RequestCompaction(t)
             \/ Wake(t) /\ UNCHANGED pc /\ UNCHANGED local
      PROVE  Core'
  <2>1. UNCHANGED <<pc, local, queue, store, bg_error, acked, faults, calls>>
    BY <1>6 DEF WaitForRoom, CompactMemTableWaits, RequestCompaction, Wake
  <2>2. Keeps(t) /\ calls <= calls' /\ \A u \in Threads : pc'[u] = pc[u] /\ local'[u] = local[u]
    BY <1>0, <2>1 DEF Keeps
  <2> QED BY <1>2, <2>1, <2>2
<1>7. ASSUME NEW t \in Threads, CompactMemTableReturns(t) \/ CompactRangeReturns(t) PROVE Core'
  <2>1. /\ UNCHANGED <<queue, store, bg_error, acked, faults, calls>> /\ Go(t, "idle")
        /\ \/ pc[t] = "flushing" /\ \E v \in {"ok", "error"} : local' = SetResult(local, t, v)
           \/ pc[t] = "compacting" /\ local' = SetLeft(local, t, 0)
    BY <1>7 DEF CompactMemTableReturns, CompactRangeReturns, Runs, SetResult, SetLeft
  <2>2. pc'[t] = "idle" /\ \A u \in Threads : u # t => pc'[u] = pc[u]
    BY <1>0, <2>1 DEF Go
  <2>3. local'[t].op = local[t].op /\ \A u \in Threads : u # t => local'[u] = local[u]
    <3>1. CASE \E v \in {"ok", "error"} : local' = SetResult(local, t, v)
      <4>1. PICK v \in {"ok", "error"} : local' = SetResult(local, t, v)
        BY <3>1
      <4>2. v \in {"none", "ok", "error", "syncError"}
        OBVIOUS
      <4> QED BY <1>0, <4>1, <4>2, ResultIsSet DEF SameCall
    <3>2. CASE local' = SetLeft(local, t, 0)
      <4>1. 0 \in -1..MaxRounds
        BY DBWriteAssumption
      <4> QED BY <1>0, <3>2, <4>1, LeftIsSet DEF SameCall
    <3> QED BY <2>1, <3>1, <3>2
  <2>4. local[t].op \in {"flush", "compact"} /\ pc[t] \in {"flushing", "compacting"}
    BY <2>1 DEF Core, BatchInv
  <2>5. Moves(t) /\ calls <= calls'
    BY <1>0, <2>1, <2>2, <2>3, <2>4 DEF Moves, Outside, Leads, Places
  <2> QED BY <1>2, <2>1, <2>2, <2>3, <2>5
<1> QED BY <1>1, <1>3, <1>4, <1>5, <1>6, <1>7

(* A thread of the queue steps and the queue stays: it leads and goes on
   leading, starts to lead, or goes with its result. *)
LeadsOn(t) == pc[t] \in Leads /\ pc'[t] \in Leads
StartsToLead(t) ==
  /\ pc[t] = "queued" /\ done[t] = "no" /\ writers[1] = t /\ pc'[t] = "leading"
Goes(t) ==
  /\ pc[t] = "queued" /\ done[t] # "no"
  /\ pc'[t] = "idle" \/ (pc'[t] = "flushing" /\ local[t].op = "flush")

(* The queue's invariant when nobody enters or leaves it: the thread that moves
   leads on, begins to lead, or is not a member. *)
LEMMA QueueStays ==
  ASSUME TypeOK, Core, NEW t \in Threads, UNCHANGED <<writers, done, acked, calls>>,
         \A u \in Threads : SameCall(local, local', u) /\ (u # t => pc'[u] = pc[u]),
         LeadsOn(t) \/ StartsToLead(t) \/ Goes(t)
  PROVE  QueueInv' /\ BatchInv'
<1>1. /\ DOMAIN writers = 1..Len(writers) /\ Len(writers) \in Nat
      /\ \A i \in 1..Len(writers) : writers[i] \in Threads
  BY QueueIs
<1>2. /\ \A i, j \in 1..Len(writers) : writers[i] = writers[j] => i = j
      /\ \A i \in 1..Len(writers) :
           \/ pc[writers[i]] = "queued" /\ done[writers[i]] = "no"
           \/ i = 1 /\ pc[writers[i]] \in Leads
      /\ \A u \in Threads : pc[u] \in Leads => writers # <<>> /\ writers[1] = u
      /\ \A u \in Threads :
           pc[u] = "queued" /\ done[u] = "no" => \E i \in 1..Len(writers) : writers[i] = u
  BY <1>1 DEF Core, QueueInv
<1>3. /\ "leading" \in Leads /\ "queued" \notin Leads /\ "idle" \notin Leads
      /\ "flushing" \notin Leads
  BY DEF Leads
<1>4. \A i \in 1..Len(writers) :
        \/ pc'[writers[i]] = "queued" /\ done'[writers[i]] = "no"
        \/ i = 1 /\ pc'[writers[i]] \in Leads
  <2> SUFFICES ASSUME NEW i \in 1..Len(writers)
               PROVE  \/ pc'[writers[i]] = "queued" /\ done'[writers[i]] = "no"
                      \/ i = 1 /\ pc'[writers[i]] \in Leads
    OBVIOUS
  <2>1. CASE writers[i] # t
    BY <1>1, <1>2, <2>1
  <2>2. CASE writers[i] = t
    <3>1. ~Goes(t)
      BY <1>2, <1>3, <2>2 DEF Goes
    <3>2. i = 1
      <4>1. writers[1] = t /\ 1 \in 1..Len(writers)
        BY <1>1, <1>2, <3>1 DEF LeadsOn, StartsToLead
      <4> QED BY <1>2, <2>2, <4>1
    <3> QED BY <1>3, <2>2, <3>1, <3>2 DEF LeadsOn, StartsToLead
  <2> QED BY <2>1, <2>2
<1>5. \A u \in Threads : pc'[u] \in Leads => writers # <<>> /\ writers[1] = u
  <2> SUFFICES ASSUME NEW u \in Threads, pc'[u] \in Leads PROVE writers # <<>> /\ writers[1] = u
    OBVIOUS
  <2>1. CASE u # t
    BY <1>2, <2>1
  <2>2. CASE u = t
    <3>1. ~Goes(t)
      BY <1>3, <2>2 DEF Goes
    <3>2. CASE LeadsOn(t)
      BY <1>2, <2>2, <3>2 DEF LeadsOn
    <3>3. CASE StartsToLead(t)
      <4>1. \E i \in 1..Len(writers) : writers[i] = t
        BY <1>2, <3>3 DEF StartsToLead
      <4>2. Len(writers) # 0
        BY <1>1, <4>1
      <4> QED BY <2>2, <3>3, <4>2 DEF StartsToLead
    <3> QED BY <3>1, <3>2, <3>3
  <2> QED BY <2>1, <2>2
<1>6. \A u \in Threads :
        pc'[u] = "queued" /\ done'[u] = "no" => \E i \in 1..Len(writers) : writers[i] = u
  <2>1. pc'[t] # "queued"
    BY <1>3 DEF LeadsOn, StartsToLead, Goes
  <2> QED BY <1>2, <2>1
<1>7. QueueInv'
  BY <1>1, <1>2, <1>4, <1>5, <1>6 DEF QueueInv
<1>8. BatchInv'
  <2>1. \A i \in DOMAIN writers : SameCall(local, local', writers[i])
    BY <1>1
  <2>2. (\A i \in DOMAIN writers :
           /\ local[writers[i]].op \in {"write", "syncWrite", "flush"}
           /\ local[writers[i]].id \in 1..calls
           /\ local[writers[i]].op # "flush" => local[writers[i]].n \in Sizes)'
    BY <2>1 DEF Core, BatchInv, SameCall
  <2>3. (\A i, j \in DOMAIN writers : i < j => local[writers[i]].id < local[writers[j]].id)'
    BY <2>1 DEF Core, BatchInv, SameCall
  <2>4. (\A e \in acked : e.id <= calls /\ \A i \in DOMAIN writers : e.id < local[writers[i]].id)'
    BY <2>1 DEF Core, BatchInv, SameCall
  <2>5. pc'[t] # "compacting" /\ (pc'[t] = "flushing" => local[t].op = "flush")
    BY DEF LeadsOn, StartsToLead, Goes, Leads
  <2>6. \A u \in Threads : /\ pc'[u] = "flushing" => local'[u].op = "flush"
                           /\ pc'[u] = "compacting" => local'[u].op = "compact"
    BY <2>5 DEF Core, BatchInv, SameCall
  <2> QED BY <2>2, <2>3, <2>4, <2>6 DEF BatchInv
<1> QED BY <1>7, <1>8

(* While the leader does not write, the memtable holds acknowledged entries
   only, and a failed sync is known to all. *)
LEMMA NobodyWrites ==
  ASSUME TypeOK, Core, NEW t \in Threads, writers[1] = t, 1 \in 1..Len(writers), pc[t] \notin Logs
  PROVE  /\ \A u \in Threads : pc[u] \notin Logs /\ ~HasWritten(u)
         /\ mem \subseteq acked
         /\ (\E i \in DOMAIN faults : faults[i] = "sync") => bg_error
<1>1. \A u \in Threads : pc[u] \notin Logs
  <2> SUFFICES ASSUME NEW u \in Threads, pc[u] \in Logs PROVE FALSE
    OBVIOUS
  <2>1. writers[1] = u
    BY OneLeads DEF Core, Leads, Logs
  <2> QED BY <2>1
<1>2. \A u \in Threads : ~HasWritten(u) /\ pc[u] # "logged"
  BY <1>1 DEF HasWritten, Logs
<1>3. mem \subseteq acked
  BY <1>2 DEF Core, MemInv
<1>4. (\E i \in DOMAIN faults : faults[i] = "sync") => bg_error
  BY <1>2, Zenon DEF Core, SyncInv
<1> QED BY <1>1, <1>2, <1>3, <1>4

(* A writer that is woken finds its write done, or leads, or waits again. *)
LEMMA WakeKeeps ==
  ASSUME TypeOK, ManualInv, TypeOK', Core, NEW t \in Threads, Wake(t)
  PROVE  Core'
<1>1. /\ UNCHANGED <<writers, done, group, last_sequence, mem, imm, tables, durable, bg_error,
                     acked, calls, faults>>
      /\ pc[t] = "queued" /\ pc \in [Threads -> Places] /\ local \in [Threads -> Local]
  BY DEF Wake, Runs, queue, store, TypeOK, ThreadsOK
<1>2. CASE UNCHANGED pc /\ UNCHANGED local
  BY <1>2, BystanderSteps
(* What the other places leave. *)
<1>3. ASSUME LeadsOn(t) \/ StartsToLead(t) \/ Goes(t), pc'[t] \notin Logs,
             \A u \in Threads : SameCall(local, local', u),
             \A u \in Threads : u # t => pc'[u] = pc[u] /\ local'[u] = local[u],
             pc'[t] = "idle" /\ local[t].op = "syncWrite" /\ local'[t].result = "ok" =>
               local[t].id \in durable
      PROVE  Core'
  <2>0. pc'[t] # "queued" /\ pc'[t] # "logged" /\ pc[t] # "logged" /\ pc[t] \notin Logs
    BY <1>1, <1>3 DEF LeadsOn, StartsToLead, Goes, Leads, Logs
  <2>1. QueueInv' /\ BatchInv'
    BY <1>1, <1>3, QueueStays
  <2>2. GroupEntries' = GroupEntries
    <3>1. \A i \in 1..Len(group) : SameCall(local, local', group[i])
      BY <1>3, QueueIs
    <3> QED BY <1>1, <3>1, EntriesStay
  <2>3. \A u \in Threads : HasWritten(u)' <=> HasWritten(u)
    BY <1>3, <2>0 DEF HasWritten
  <2>4. GroupInv'
    <3> SUFFICES ASSUME NEW u \in Threads, pc'[u] \in Logs
                 PROVE  /\ Len(group') \in 1..Len(writers')
                        /\ \A i \in 1..Len(group') : group'[i] = writers'[i]
                        /\ \A i \in 1..Len(group') :
                             local'[group'[i]].op = "syncWrite" => local'[group'[1]].op = "syncWrite"
      BY Zenon DEF GroupInv
    <3>1. pc[u] \in Logs
      BY <1>3
    <3>2. /\ Len(group) \in 1..Len(writers) /\ \A i \in 1..Len(group) : group[i] = writers[i]
          /\ \A i \in 1..Len(group) :
               local[group[i]].op = "syncWrite" => local[group[1]].op = "syncWrite"
      BY <3>1 DEF Core, GroupInv
    <3>3. 1 \in 1..Len(group) /\ \A i \in 1..Len(group) : group[i] \in Threads
      BY <3>2, QueueIs
    <3> QED BY <1>1, <1>3, <3>2, <3>3 DEF SameCall
  <2>5. MemInv'
    BY <1>1, <2>2, <2>3 DEF Core, MemInv
  <2>6. AckedInv'
    BY <1>1 DEF Core, AckedInv, QueueOrder, AckedVisible
  <2>7. DurableInv'
    <3>1. ASSUME NEW u \in Threads, pc'[u] = "queued", done'[u] = "ok", local'[u].op = "syncWrite"
          PROVE  local'[u].id \in durable'
      BY <1>1, <1>3, <2>0, <3>1 DEF Core, DurableInv, SameCall
    <3>2. ASSUME NEW u \in Threads, HasWritten(u)', NEW i \in DOMAIN group', local'[group'[i]].op = "syncWrite"
          PROVE  local'[group'[i]].id \in durable'
      <4>1. SameCall(local, local', group[i]) /\ i \in DOMAIN group
        BY <1>1, <1>3, <3>2, QueueIs
      <4> QED BY <1>1, <2>3, <3>2, <4>1 DEF Core, DurableInv, SameCall
    <3>3. ASSUME NEW u \in Threads, pc'[u] = "idle", local'[u].op = "syncWrite", local'[u].result = "ok"
          PROVE  local'[u].id \in durable'
      BY <1>1, <1>3, <3>3 DEF Core, DurableInv, SyncedDurable, SameCall
    <3>4. SyncedDurable'
      BY <3>3, Zenon DEF SyncedDurable
    <3> QED BY <3>1, <3>2, <3>4, Zenon DEF DurableInv
  <2>8. SyncInv'
    <3>1. \A u \in Threads :
            /\ pc[u] = "logged" /\ local[u].result = "syncError"
                 => pc'[u] = "logged" /\ local'[u].result = "syncError"
            /\ pc'[u] \in Logs => pc[u] \in Logs
      BY <1>3, <2>0
    <3> QED BY <1>1, <3>1, Zenon DEF Core, SyncInv
  <2> QED BY <2>1, <2>4, <2>5, <2>6, <2>7, <2>8 DEF Core
<1>4. CASE done[t] # "no" /\ Return(t, done[t])
  <2>1. done[t] \in {"ok", "error"}
    BY <1>4 DEF TypeOK, QueueOK
  <2>2. /\ pc'[t] = "idle" \/ (pc'[t] = "flushing" /\ local[t].op = "flush")
        /\ local'[t].result = done[t]
        /\ \A u \in Threads : SameCall(local, local', u)
        /\ \A u \in Threads : u # t => pc'[u] = pc[u] /\ local'[u] = local[u]
    BY <1>4, <2>1, Returns DEF TypeOK
  <2>3. Goes(t) /\ pc'[t] \notin Logs
    BY <1>1, <1>4, <2>2 DEF Goes, Logs
  <2>4. done[t] = "ok" /\ local[t].op = "syncWrite" => local[t].id \in durable
    BY <1>1 DEF Core, DurableInv
  <2> QED BY <1>3, <2>2, <2>3, <2>4
<1>5. CASE done[t] = "no" /\ Head(writers) = t /\ Go(t, "leading") /\ UNCHANGED local
  <2>1. \E i \in DOMAIN writers : writers[i] = t
    BY <1>1, <1>5 DEF Core, QueueInv
  <2>2. writers[1] = t
    BY <1>5, <2>1, QueueIs
  <2>3. pc'[t] = "leading" /\ \A u \in Threads : u # t => pc'[u] = pc[u]
    BY <1>1, <1>5 DEF Go
  <2>4. StartsToLead(t) /\ pc'[t] \notin Logs
    BY <1>1, <1>5, <2>2, <2>3 DEF StartsToLead, Logs
  <2>5. \A u \in Threads : SameCall(local, local', u) /\ local'[u] = local[u]
    BY <1>5 DEF SameCall
  <2> QED BY <1>3, <2>3, <2>4, <2>5
<1> QED BY <1>2, <1>4, <1>5 DEF Wake

(* The leader gets a new memtable. *)
LEMMA SwitchKeeps ==
  ASSUME TypeOK, TypeOK', Core, NEW t \in Threads, SwitchMemTable(t)
  PROVE  Core'
<1>1. /\ UNCHANGED <<pc, writers, done, group, last_sequence, tables, durable, bg_error, acked,
                     calls, faults>>
      /\ pc[t] = "leading" /\ imm = {} /\ imm' = {mem} /\ mem' = {}
      /\ local' = ClearForce(local, t) /\ local \in [Threads -> Local]
  BY DEF SwitchMemTable, Runs, Crowded, queue, ClearForce, TypeOK, ThreadsOK
<1>2. \A u \in Threads : SameCall(local, local', u) /\ local'[u].result = local[u].result
  BY <1>1, FlagsAreSet
<1>3. LeadsOn(t) /\ writers[1] = t /\ 1 \in 1..Len(writers) /\ pc[t] \notin Logs
  BY <1>1, OneLeads DEF LeadsOn, Leads, Logs, Core
<1>4. QueueInv' /\ BatchInv'
  BY <1>1, <1>2, <1>3, QueueStays
<1>5. (\A u \in Threads : pc[u] \notin Logs /\ ~HasWritten(u)) /\ mem \subseteq acked
  BY <1>3, NobodyWrites
<1>6. \A u \in Threads : ~HasWritten(u)' /\ pc'[u] \notin Logs
  BY <1>1, <1>2, <1>5 DEF HasWritten
<1>7. GroupInv' /\ MemInv'
  BY <1>1, <1>6 DEF GroupInv, MemInv
<1>8. AckedInv'
  <2>1. AckedVisible'
    BY <1>1 DEF Core, AckedInv, AckedVisible
  <2> QED BY <1>1, <2>1 DEF Core, AckedInv, QueueOrder
<1>9. DurableInv'
  <2>1. SyncedDurable'
    BY <1>1, <1>2 DEF Core, DurableInv, SyncedDurable, SameCall
  <2>2. \A u \in Threads : pc'[u] = "queued" /\ done'[u] = "ok" /\ local'[u].op = "syncWrite" =>
          local'[u].id \in durable'
    BY <1>1, <1>2 DEF Core, DurableInv, SameCall
  <2> QED BY <1>6, <2>1, <2>2 DEF DurableInv
<1>10. SyncInv'
  <2>1. \A u \in Threads : pc'[u] = pc[u] /\ local'[u].result = local[u].result
    BY <1>1, <1>2
  <2> QED BY <1>1, <2>1, Zenon DEF Core, SyncInv
<1> QED BY <1>4, <1>7, <1>8, <1>9, <1>10 DEF Core

(* The leader has its group and goes to write the log. *)
LEMMA StartKeeps ==
  ASSUME TypeOK, TypeOK', Core, NEW t \in Threads, StartLogging(t)
  PROVE  Core'
<1>1. /\ UNCHANGED <<local, writers, done, last_sequence, mem, imm, tables, durable, bg_error,
                     acked, calls, faults>>
      /\ pc[t] = "leading" /\ Go(t, "logging") /\ group' = BuildBatchGroup
      /\ pc \in [Threads -> Places]
  BY DEF StartLogging, Runs, store, TypeOK, ThreadsOK
<1>2. ~bg_error
  BY DEF StartLogging, HasRoom
<1>3. pc'[t] = "logging" /\ \A u \in Threads : u # t => pc'[u] = pc[u]
  BY <1>1 DEF Go
<1>4. LeadsOn(t) /\ writers[1] = t /\ 1 \in 1..Len(writers) /\ pc[t] \notin Logs
  BY <1>1, <1>3, OneLeads DEF LeadsOn, Leads, Logs, Core
<1>5. \A u \in Threads : SameCall(local, local', u)
  BY <1>1 DEF SameCall
<1>6. QueueInv' /\ BatchInv'
  BY <1>1, <1>3, <1>4, <1>5, QueueStays
<1>7. /\ \A u \in Threads : pc[u] \notin Logs /\ ~HasWritten(u)
      /\ mem \subseteq acked
      /\ ~ \E i \in DOMAIN faults : faults[i] = "sync"
  BY <1>2, <1>4, NobodyWrites
<1>8. \A u \in Threads : ~HasWritten(u)'
  BY <1>1, <1>3, <1>7 DEF HasWritten
<1>9. GroupInv'
  <2>1. 1 <= Len(writers)
    BY <1>4, QueueIs
  <2>2. /\ Len(group') \in 1..Len(writers)
        /\ \A i \in 1..Len(group') :
             /\ group'[i] = writers[i]
             /\ local[writers[i]].op = "syncWrite" => local[writers[1]].op = "syncWrite"
    BY <1>1, <2>1, GroupIsBuilt DEF TypeOK
  <2>3. 1 \in 1..Len(group')
    BY <2>2, QueueIs
  <2> QED BY <1>1, <2>2, <2>3 DEF GroupInv
<1>10. MemInv' /\ AckedInv'
  BY <1>1, <1>7, <1>8 DEF Core, MemInv, AckedInv, QueueOrder, AckedVisible
<1>11. DurableInv'
  <2>1. SyncedDurable'
    BY <1>1, <1>3 DEF Core, DurableInv, SyncedDurable
  <2>2. \A u \in Threads : pc'[u] = "queued" /\ done'[u] = "ok" /\ local'[u].op = "syncWrite" =>
          local'[u].id \in durable'
    BY <1>1, <1>3 DEF Core, DurableInv
  <2> QED BY <1>8, <2>1, <2>2 DEF DurableInv
<1>12. SyncInv'
  BY <1>1, <1>7, Zenon DEF SyncInv
<1> QED BY <1>6, <1>9, <1>10, <1>11, <1>12 DEF Core

(* The group is written, and synced if the leader wants it. *)
LEMMA AddKeeps ==
  ASSUME TypeOK, TypeOK', Core, NEW t \in Threads, AddRecord(t) \/ AddRecordFails(t)
  PROVE  Core'
<1>1. /\ UNCHANGED <<writers, done, group, last_sequence, imm, tables, bg_error, acked, calls>>
      /\ pc[t] = "logging" /\ Go(t, "logged")
      /\ pc \in [Threads -> Places] /\ local \in [Threads -> Local]
      /\ \E v \in {"none", "ok", "error", "syncError"} : local' = SetResult(local, t, v)
  BY DEF AddRecord, AddRecordFails, queue, store, SetResult, TypeOK, ThreadsOK
<1>2. pc'[t] = "logged" /\ \A u \in Threads : u # t => pc'[u] = pc[u]
  BY <1>1 DEF Go
<1>3. PICK v \in {"none", "ok", "error", "syncError"} : local' = SetResult(local, t, v)
  BY <1>1
<1>4. /\ \A u \in Threads : SameCall(local, local', u) /\ (u # t => local'[u] = local[u])
      /\ local'[t].result = v
  BY <1>1, <1>3, ResultIsSet
<1>a. ASSUME AddRecordFails(t) PROVE v # "ok"
  <2>1. PICK w \in {"error", "syncError"} : local' = SetResult(local, t, w)
    BY <1>a DEF AddRecordFails, SetResult
  <2>2. w \in {"none", "ok", "error", "syncError"}
    OBVIOUS
  <2>3. local'[t].result = w
    BY <1>1, <2>1, <2>2, ResultIsSet
  <2> QED BY <1>4, <2>3
<1>5. LeadsOn(t) /\ pc[t] \in Logs /\ pc[t] \in Leads /\ "logged" \in Logs
  BY <1>1, <1>2 DEF LeadsOn, Leads, Logs
<1>6. /\ writers[1] = t /\ 1 \in 1..Len(writers)
      /\ \A u \in Threads : u # t => pc[u] \notin Leads /\ pc'[u] \notin Leads
  BY <1>2, <1>5, OneLeads DEF Core
<1>7. \A u \in Threads : u # t => pc[u] \notin Logs /\ pc'[u] \notin Logs
  BY <1>6 DEF Leads, Logs
<1>8. QueueInv' /\ BatchInv'
  BY <1>1, <1>2, <1>4, <1>5, QueueStays
<1>9. /\ Len(group) \in 1..Len(writers) /\ \A i \in 1..Len(group) : group[i] = writers[i]
      /\ \A i \in 1..Len(group) :
           group[i] \in Threads /\ (local[group[i]].op = "syncWrite" => local[group[1]].op = "syncWrite")
  BY <1>5, QueueIs DEF Core, GroupInv
<1>10. 1 \in 1..Len(group) /\ group[1] = t /\ DOMAIN group = 1..Len(group)
  BY <1>6, <1>9, QueueIs
<1>11. GroupInv'
  BY <1>1, <1>4, <1>9, <1>10 DEF GroupInv, SameCall
<1>12. GroupEntries' = GroupEntries
  BY <1>1, <1>4, <1>9, EntriesStay
<1>13. \A u \in Threads : ~HasWritten(u) /\ (u # t => ~HasWritten(u)')
  BY <1>1, <1>2, <1>4, <1>7 DEF HasWritten, Logs
<1>14. mem \subseteq acked
  BY <1>13 DEF Core, MemInv
<1>15. ~ \E i \in DOMAIN faults : faults[i] = "sync"
  <2>1. \A u \in Threads : pc[u] # "logged"
    BY <1>1, <1>7 DEF Logs
  <2> QED BY <1>5, <2>1, Zenon DEF Core, SyncInv
<1>16. MemInv' /\ mem \subseteq mem'
  <2>1. CASE AddRecord(t)
    <3>1. mem' = mem \cup GroupEntries /\ v = "ok"
      BY <1>4, <2>1 DEF AddRecord, TypeOK, ThreadsOK
    <3>2. HasWritten(t)'
      BY <1>2, <1>4, <3>1 DEF HasWritten
    <3> QED BY <1>1, <1>12, <1>14, <3>1, <3>2 DEF MemInv
  <2>2. CASE AddRecordFails(t)
    <3>1. mem' = mem /\ v # "ok"
      BY <1>a, <2>2 DEF AddRecordFails, store
    <3>2. ~HasWritten(t)'
      BY <1>4, <3>1 DEF HasWritten
    <3> QED BY <1>1, <1>13, <1>14, <3>1, <3>2 DEF MemInv
  <2> QED BY <2>1, <2>2
<1>17. AckedInv'
  <2>1. AckedVisible'
    BY <1>1, <1>16 DEF Core, AckedInv, AckedVisible
  <2> QED BY <1>1, <2>1 DEF Core, AckedInv, QueueOrder
<1>18. durable \subseteq durable'
  BY DEF AddRecord, AddRecordFails, store
<1>19. DurableInv'
  <2>1. SyncedDurable'
    BY <1>2, <1>4, <1>18 DEF Core, DurableInv, SyncedDurable, SameCall
  <2>2. \A u \in Threads : pc'[u] = "queued" /\ done'[u] = "ok" /\ local'[u].op = "syncWrite" =>
          local'[u].id \in durable'
    BY <1>1, <1>2, <1>4, <1>18 DEF Core, DurableInv, SameCall
  <2>3. ASSUME NEW u \in Threads, HasWritten(u)', NEW i \in DOMAIN group', local'[group'[i]].op = "syncWrite"
        PROVE  local'[group'[i]].id \in durable'
    <3>1. v = "ok"
      BY <1>4, <1>13, <2>3 DEF HasWritten
    <3>2. AddRecord(t)
      BY <1>a, <3>1
    <3>3. /\ i \in 1..Len(group) /\ group' = group /\ local[group[i]].op = "syncWrite"
          /\ local'[group[i]].id = local[group[i]].id
      BY <1>1, <1>4, <1>9, <1>10, <2>3 DEF SameCall
    <3>4. local[t].op = "syncWrite"
      BY <1>9, <1>10, <3>3
    <3>5. Ids(GroupEntries) \subseteq durable'
      BY <3>2, <3>4 DEF AddRecord
    <3>6. EntryOf(i) \in GroupEntries /\ EntryOf(i).id = local[group[i]].id
      <4>1. GroupEntries = {EntryOf(j) : j \in {k \in 1..Len(group) : local[group[k]].op # "flush"}}
        BY <1>5, EntriesAre DEF Core
      <4> QED BY <3>3, <4>1 DEF EntryOf
    <3>7. local[group[i]].id \in Ids(GroupEntries)
      BY <3>6 DEF Ids
    <3> QED BY <3>3, <3>5, <3>7
  <2> QED BY <2>1, <2>2, <2>3, Zenon DEF DurableInv
<1>20. SyncInv'
  <2>1. CASE faults' = faults
    BY <1>15, <2>1, Zenon DEF SyncInv
  <2>2. CASE Fault("append")
    <3>1. ~ \E i \in DOMAIN faults' : faults'[i] = "sync"
      BY <1>15, <2>2, FaultIs DEF TypeOK
    <3> QED BY <3>1, Zenon DEF SyncInv
  <2>3. CASE local' = [local EXCEPT ![t].result = "syncError"]
    <3>1. local'[t].result = "syncError"
      BY <1>1, <2>3 DEF Local
    <3> QED BY <1>2, <3>1, Zenon DEF SyncInv
  <2> QED BY <2>1, <2>2, <2>3, Zenon DEF AddRecord, AddRecordFails
<1> QED BY <1>8, <1>11, <1>16, <1>17, <1>19, <1>20 DEF Core

(* The leader is done with the members of its group: the queue without them,
   and nobody that leads. *)
LEMMA CompleteKeeps ==
  ASSUME TypeOK, Core, NEW t \in Threads, pc[t] \in Leads, NEW members \in Seq(Threads),
         Len(members) \in 1..Len(writers), \A i \in 1..Len(members) : members[i] = writers[i],
         NEW status \in {"ok", "error"},
         NEW sleepers \in [Threads -> {"no", "own", "background"}],
         Complete(t, members, status, sleepers), calls' = calls,
         \A e \in acked' : \/ e \in acked
                           \/ \E i \in 1..Len(members) : e.id = local[members[i]].id
  PROVE  /\ QueueInv' /\ BatchInv' /\ GroupInv'
         /\ \A u \in Threads : pc'[u] \notin Leads
         /\ \A u \in Threads : u # t => pc'[u] = pc[u] /\ local'[u] = local[u]
         /\ pc'[t] # "queued"
         /\ local'[t].result = status /\ \A u \in Threads : SameCall(local, local', u)
         /\ \A u \in Threads : done'[u] # done[u] =>
              done'[u] = status /\ u # t /\ \E i \in 1..Len(members) : members[i] = u
<1>1. /\ DOMAIN writers = 1..Len(writers) /\ Len(writers) \in Nat /\ Len(members) \in Nat
      /\ \A i \in 1..Len(writers) : writers[i] \in Threads
  BY QueueIs
<1>2. /\ 1 \in 1..Len(writers) /\ writers[1] = t
      /\ \A u \in Threads : pc[u] \in Leads => u = t
  BY OneLeads DEF Core
<1>3. /\ \A i, j \in 1..Len(writers) : writers[i] = writers[j] => i = j
      /\ \A i \in 1..Len(writers) :
           \/ pc[writers[i]] = "queued" /\ done[writers[i]] = "no"
           \/ i = 1 /\ pc[writers[i]] \in Leads
      /\ \A u \in Threads :
           pc[u] = "queued" /\ done[u] = "no" => \E i \in 1..Len(writers) : writers[i] = u
  BY <1>1 DEF Core, QueueInv
<1> DEFINE k == Len(members)
<1>4. /\ writers' \in Seq(Threads) /\ Len(writers') = Len(writers) - k
      /\ \A i \in 1..Len(writers') : writers'[i] = writers[i + k]
      /\ \A u \in Threads :
           done'[u] = IF u # t /\ \E i \in 1..k : members[i] = u THEN status ELSE done[u]
      /\ Return(t, status)
  <2>1. Len(members) <= Len(writers)
    BY <1>1
  <2> QED BY <2>1, Completes DEF TypeOK
<1>5. /\ pc'[t] = "idle" \/ (pc'[t] = "flushing" /\ local[t].op = "flush")
      /\ local'[t].result = status
      /\ \A u \in Threads : SameCall(local, local', u)
      /\ \A u \in Threads : u # t => pc'[u] = pc[u] /\ local'[u] = local[u]
  BY <1>4, Returns DEF TypeOK
<1> HIDE DEF k
<1>6. k \in Nat /\ k >= 1 /\ k <= Len(writers) /\ k = Len(members) /\ Len(writers') \in Nat
      /\ DOMAIN writers' = 1..Len(writers')
  <2>1. DOMAIN writers' = 1..Len(writers') /\ Len(writers') \in Nat
    BY <1>4
  <2> QED BY <1>1, <2>1 DEF k
<1>7. \A i \in 1..Len(writers') : i + k \in 1..Len(writers) /\ i + k > k /\ i + k # 1
  BY <1>1, <1>4, <1>6
<1>8. ASSUME NEW i \in 1..Len(writers')
      PROVE  /\ writers'[i] = writers[i + k] /\ writers'[i] \in Threads /\ writers'[i] # t
             /\ pc'[writers'[i]] = "queued" /\ done'[writers'[i]] = "no"
  <2>1. i + k \in 1..Len(writers) /\ i + k > k /\ i + k # 1 /\ writers'[i] = writers[i + k]
    BY <1>4, <1>7
  <2>2. writers[i + k] \in Threads /\ writers[i + k] # t
    BY <1>1, <1>2, <1>3, <2>1
  <2>3. pc[writers[i + k]] = "queued" /\ done[writers[i + k]] = "no"
    BY <1>3, <2>1
  <2>4. ~ \E j \in 1..k : members[j] = writers[i + k]
    <3> SUFFICES ASSUME NEW j \in 1..k, members[j] = writers[i + k] PROVE FALSE
      OBVIOUS
    <3>1. j \in 1..Len(writers) /\ members[j] = writers[j] /\ j # i + k
      BY <1>1, <1>6, <2>1
    <3> QED BY <1>3, <2>1, <3>1
  <2>5. done'[writers[i + k]] = "no"
    BY <1>4, <2>2, <2>3, <2>4
  <2> QED BY <1>5, <2>1, <2>2, <2>3, <2>5
<1>9. \A u \in Threads : pc'[u] \notin Leads
  BY <1>2, <1>5 DEF Leads
<1>10. QueueInv'
  <2>1. \A i, j \in 1..Len(writers') : writers'[i] = writers'[j] => i = j
    <3> SUFFICES ASSUME NEW i \in 1..Len(writers'), NEW j \in 1..Len(writers'), writers'[i] = writers'[j]
                 PROVE  i = j
      OBVIOUS
    <3>1. i + k = j + k
      BY <1>3, <1>7, <1>8
    <3> QED BY <1>6, <3>1
  <2>2. ASSUME NEW u \in Threads, pc'[u] = "queued", done'[u] = "no"
        PROVE  \E i \in 1..Len(writers') : writers'[i] = u
    <3>1. u # t
      BY <1>5, <2>2
    <3>2. ~(\E i \in 1..k : members[i] = u) /\ done[u] = "no" /\ pc[u] = "queued"
      BY <1>4, <1>5, <2>2, <3>1
    <3>3. PICK j \in 1..Len(writers) : writers[j] = u
      BY <1>3, <3>2
    <3>4. ~(j <= k)
      <4> SUFFICES ASSUME j <= k PROVE FALSE
        OBVIOUS
      <4>1. j \in 1..k /\ members[j] = writers[j]
        BY <1>1, <1>6
      <4> QED BY <3>2, <3>3, <4>1
    <3>5. j - k \in 1..Len(writers') /\ (j - k) + k = j
      BY <1>1, <1>4, <1>6, <3>4
    <3>6. writers'[j - k] = u
      BY <1>4, <3>3, <3>5
    <3> QED BY <3>5, <3>6
  <2> QED BY <1>6, <1>8, <1>9, <2>1, <2>2 DEF QueueInv
<1>11. \A i \in 1..Len(writers') : SameCall(local, local', writers[i + k])
  BY <1>1, <1>5, <1>7
<1>12. BatchInv'
  <2>1. ASSUME NEW i \in 1..Len(writers')
        PROVE  /\ local'[writers'[i]].op \in {"write", "syncWrite", "flush"}
               /\ local'[writers'[i]].id \in 1..calls'
               /\ local'[writers'[i]].op # "flush" => local'[writers'[i]].n \in Sizes
    <3>1. i + k \in DOMAIN writers
      BY <1>1, <1>7
    <3>2. /\ local[writers[i + k]].op \in {"write", "syncWrite", "flush"}
          /\ local[writers[i + k]].id \in 1..calls
          /\ local[writers[i + k]].op # "flush" => local[writers[i + k]].n \in Sizes
      BY <3>1 DEF Core, BatchInv
    <3>3. SameCall(local, local', writers[i + k]) /\ writers'[i] = writers[i + k]
      BY <1>8, <1>11
    <3> QED BY <3>2, <3>3 DEF SameCall
  <2>2. ASSUME NEW i \in 1..Len(writers'), NEW j \in 1..Len(writers'), i < j
        PROVE  local'[writers'[i]].id < local'[writers'[j]].id
    <3>1. i + k < j + k
      BY <1>6, <2>2
    <3>2. local[writers[i + k]].id < local[writers[j + k]].id
      BY <1>1, <1>7, <3>1 DEF Core, BatchInv
    <3> QED BY <1>8, <1>11, <3>2 DEF SameCall
  <2>3. ASSUME NEW e \in acked'
        PROVE  e.id <= calls' /\ \A i \in 1..Len(writers') : e.id < local'[writers'[i]].id
    <3>1. CASE e \in acked
      <4>1. e.id <= calls /\ \A i \in 1..Len(writers) : e.id < local[writers[i]].id
        BY <1>1, <3>1 DEF Core, BatchInv
      <4> QED BY <1>7, <1>8, <1>11, <4>1 DEF SameCall
    <3>2. CASE \E j \in 1..Len(members) : e.id = local[members[j]].id
      <4>1. PICK j \in 1..Len(members) : e.id = local[members[j]].id
        BY <3>2
      <4>2. j \in 1..Len(writers) /\ members[j] = writers[j]
        BY <1>1, <1>6
      <4>3. e.id \in 1..calls /\ calls \in Nat
        <5>1. local[writers[j]].id \in 1..calls
          BY <1>1, <4>2 DEF Core, BatchInv
        <5>2. calls \in Nat
          BY DEF TypeOK, StateOK
        <5> QED BY <4>1, <4>2, <5>1, <5>2
      <4>4. ASSUME NEW i \in 1..Len(writers') PROVE e.id < local'[writers'[i]].id
        <5>1. j < i + k
          BY <1>6, <1>7
        <5>2. local[writers[j]].id < local[writers[i + k]].id
          BY <1>1, <1>7, <4>2, <5>1 DEF Core, BatchInv
        <5> QED BY <1>8, <1>11, <4>1, <4>2, <5>2 DEF SameCall
      <4> QED BY <4>3, <4>4
    <3> QED BY <3>1, <3>2
  <2>4. \A u \in Threads : /\ pc'[u] = "flushing" => local'[u].op = "flush"
                           /\ pc'[u] = "compacting" => local'[u].op = "compact"
    BY <1>5 DEF Core, BatchInv, SameCall
  <2> QED BY <1>6, <2>1, <2>2, <2>3, <2>4 DEF BatchInv
<1>13. GroupInv'
  BY <1>9 DEF GroupInv, Leads, Logs
<1>14. \A u \in Threads : done'[u] # done[u] =>
         done'[u] = status /\ u # t /\ \E i \in 1..Len(members) : members[i] = u
  BY <1>4, <1>6
<1>15. pc'[t] # "queued"
  BY <1>5
<1> QED BY <1>5, <1>9, <1>10, <1>12, <1>13, <1>14, <1>15

(* A leader that gives up, or has nothing to write, leaves the queue alone. *)
LEMMA EndsAloneKeeps ==
  ASSUME TypeOK, TypeOK', Core, NEW t \in Threads,
         YieldError(t) \/ NewLogFails(t) \/ NothingToWrite(t)
  PROVE  Core'
<1>1. PICK status \in {"ok", "error"} :
        /\ Complete(t, <<t>>, status, waiting) /\ pc[t] = "leading"
        /\ status = "ok" => local[t].op = "flush"
        /\ UNCHANGED <<last_sequence, store, bg_error, acked, calls>>
        /\ faults' = faults \/ Fault("newLog")
  BY Zenon DEF YieldError, NewLogFails, NothingToWrite, Runs
<1>2. UNCHANGED <<mem, imm, tables, durable>>
  BY <1>1 DEF store
<1>3. /\ pc[t] \in Leads /\ pc[t] \notin Logs /\ 1 \in 1..Len(writers) /\ writers[1] = t
      /\ waiting \in [Threads -> {"no", "own", "background"}]
  BY <1>1, OneLeads DEF Core, Leads, Logs, TypeOK, ThreadsOK
<1>4. <<t>> \in Seq(Threads) /\ Len(<<t>>) = 1 /\ \A i \in 1..1 : <<t>>[i] = writers[i] /\ <<t>>[i] = t
  BY <1>3
<1>5. /\ QueueInv' /\ BatchInv' /\ GroupInv'
      /\ \A u \in Threads : pc'[u] \notin Leads
      /\ \A u \in Threads : u # t => pc'[u] = pc[u] /\ local'[u] = local[u]
      /\ pc'[t] # "queued"
      /\ local'[t].result = status /\ \A u \in Threads : SameCall(local, local', u)
      /\ \A u \in Threads : done'[u] # done[u] => u # t /\ \E i \in 1..1 : <<t>>[i] = u
  <2>1. calls' = calls /\ acked' = acked
    BY <1>1
  <2>2. Len(<<t>>) \in 1..Len(writers) /\ \A i \in 1..Len(<<t>>) : <<t>>[i] = writers[i]
    BY <1>3, <1>4
  <2>3. PICK members \in Seq(Threads) : members = <<t>>
    BY <1>4
  <2>4. /\ Complete(t, members, status, waiting)
        /\ Len(members) \in 1..Len(writers) /\ \A i \in 1..Len(members) : members[i] = writers[i]
    BY <1>1, <1>4, <2>2, <2>3
  <2>5. /\ QueueInv' /\ BatchInv' /\ GroupInv'
        /\ \A u \in Threads : pc'[u] \notin Leads
        /\ \A u \in Threads : u # t => pc'[u] = pc[u] /\ local'[u] = local[u]
        /\ pc'[t] # "queued"
        /\ local'[t].result = status /\ \A u \in Threads : SameCall(local, local', u)
        /\ \A u \in Threads : done'[u] # done[u] =>
             done'[u] = status /\ u # t /\ \E i \in 1..Len(members) : members[i] = u
    <3>1. \A e \in acked' : \/ e \in acked
                            \/ \E i \in 1..Len(members) : e.id = local[members[i]].id
      BY <2>1
    <3> QED BY <1>3, <2>1, <2>4, <3>1, CompleteKeeps, SMTT(30)
  <2> QED BY <1>4, <2>3, <2>5
<1>a. \A u \in Threads : ~HasWritten(u)'
  BY <1>5 DEF HasWritten, Leads
<1>6. \A u \in Threads : done'[u] = done[u]
  BY <1>4, <1>5
<1>7. /\ mem \subseteq acked
      /\ (\E i \in DOMAIN faults : faults[i] = "sync") => bg_error
  BY <1>3, NobodyWrites
<1>8. MemInv' /\ AckedInv'
  BY <1>1, <1>2, <1>7, <1>a DEF Core, MemInv, AckedInv, QueueOrder, AckedVisible
<1>9. DurableInv'
  <2>1. \A u \in Threads : pc'[u] = "queued" /\ done'[u] = "ok" /\ local'[u].op = "syncWrite" =>
          local'[u].id \in durable'
    BY <1>2, <1>5, <1>6 DEF Core, DurableInv
  <2>2. ASSUME NEW u \in Threads, pc'[u] = "idle", local'[u].op = "syncWrite", local'[u].result = "ok"
        PROVE  local'[u].id \in durable'
    <3>1. u # t
      BY <1>1, <1>5, <2>2 DEF SameCall
    <3> QED BY <1>2, <1>5, <2>2, <3>1 DEF Core, DurableInv, SyncedDurable
  <2>3. SyncedDurable'
    BY <2>2, Zenon DEF SyncedDurable
  <2> QED BY <1>a, <2>1, <2>3 DEF DurableInv
<1>10. SyncInv'
  <2>1. (\E i \in DOMAIN faults' : faults'[i] = "sync") => \E i \in DOMAIN faults : faults[i] = "sync"
    BY <1>1, FaultIs DEF TypeOK
  <2>2. \A u \in Threads : pc'[u] \notin Logs
    BY <1>5 DEF Leads, Logs
  <2> QED BY <1>1, <1>7, <2>1, <2>2, Zenon DEF SyncInv
<1> QED BY <1>5, <1>8, <1>9, <1>10 DEF Core

(* A group that was written is acknowledged, one that was not is not. *)
LEMMA FinishKeeps ==
  ASSUME TypeOK, TypeOK', Core, NEW t \in Threads, FinishWrite(t)
  PROVE  Core'
<1>1. /\ pc[t] = "logged" /\ UNCHANGED <<store, calls, faults>>
      /\ last_sequence' = last_sequence + SizesOf(group)[Len(group)]
  BY DEF FinishWrite, Runs
<1>2. UNCHANGED <<mem, imm, tables, durable>>
  BY <1>1 DEF store
<1>3. bg_error' = (bg_error \/ local[t].result = "syncError")
  BY Zenon DEF FinishWrite
<1>4. pc[t] \in Logs /\ pc[t] \in Leads /\ waiting \in [Threads -> {"no", "own", "background"}]
  BY <1>1 DEF Leads, Logs, TypeOK, ThreadsOK
<1>5. /\ writers[1] = t /\ 1 \in 1..Len(writers)
      /\ \A u \in Threads : pc[u] \in Leads => u = t
  BY <1>4, OneLeads DEF Core
<1>6. /\ Len(group) \in 1..Len(writers) /\ \A i \in 1..Len(group) : group[i] = writers[i]
      /\ group \in Seq(Threads) /\ DOMAIN group = 1..Len(group) /\ Len(group) \in Nat
      /\ \A i \in 1..Len(group) : group[i] \in Threads
  BY <1>4, QueueIs DEF Core, GroupInv
<1>7. 1 \in 1..Len(group) /\ group[1] = t
  BY <1>5, <1>6, QueueIs
<1>8. \A u \in Threads : u # t => ~HasWritten(u) /\ pc[u] # "logged"
  BY <1>5 DEF HasWritten, Leads
<1>9. PICK status \in {"ok", "error"}, sleepers \in [Threads -> {"no", "own", "background"}] :
        /\ Complete(t, group, status, sleepers)
        /\ \/ status = "ok" /\ local[t].result = "ok" /\ acked' = acked \cup GroupEntries
           \/ status = "error" /\ local[t].result # "ok" /\ acked' = acked
  <2>1. (IF bg_error' # bg_error THEN Signalled ELSE waiting) \in [Threads -> {"no", "own", "background"}]
    BY <1>4, SignalledIs DEF TypeOK
  <2> QED BY <1>4, <2>1, Zenon DEF FinishWrite
<1>10. acked \subseteq acked' /\ acked' \subseteq acked \cup GroupEntries
  BY <1>9
<1>11. /\ GroupEntries = {EntryOf(i) : i \in {j \in 1..Len(group) : local[group[j]].op # "flush"}}
       /\ GroupEntries \subseteq Entry
  BY <1>4, EntriesAre DEF Core
<1>12. /\ QueueInv' /\ BatchInv' /\ GroupInv'
       /\ \A u \in Threads : pc'[u] \notin Leads
       /\ \A u \in Threads : u # t => pc'[u] = pc[u] /\ local'[u] = local[u]
       /\ pc'[t] # "queued"
       /\ local'[t].result = status /\ \A u \in Threads : SameCall(local, local', u)
       /\ \A u \in Threads : done'[u] # done[u] =>
            done'[u] = status /\ u # t /\ \E i \in 1..Len(group) : group[i] = u
  <2>1. ASSUME NEW e \in acked'
        PROVE  e \in acked \/ \E i \in 1..Len(group) : e.id = local[group[i]].id
    <3>1. CASE e \in GroupEntries
      <4>1. PICK i \in 1..Len(group) : e = EntryOf(i)
        BY <1>11, <3>1
      <4> QED BY <4>1 DEF EntryOf
    <3> QED BY <1>10, <3>1
  <2>2. calls' = calls /\ Complete(t, group, status, sleepers)
    BY <1>1, <1>9
  <2> QED BY <1>4, <1>6, <2>1, <2>2, CompleteKeeps
<1>a. \A u \in Threads : ~HasWritten(u)'
  BY <1>12 DEF HasWritten, Leads
<1>13. MemInv'
  <2>1. mem \subseteq acked'
    <3>1. CASE status = "ok"
      BY <1>9, <3>1 DEF Core, MemInv
    <3>2. CASE status = "error"
      <4>1. \A u \in Threads : ~HasWritten(u)
        BY <1>8, <1>9, <3>2 DEF HasWritten
      <4> QED BY <1>10, <4>1 DEF Core, MemInv
    <3> QED BY <3>1, <3>2
  <2> QED BY <1>2, <1>a, <2>1 DEF MemInv
<1>14. AckedInv'
  <2>1. /\ \A d \in acked, e \in GroupEntries : d.id < e.id /\ d.seq + d.n <= e.seq
        /\ \A d, e \in GroupEntries : d.id = e.id => d = e
        /\ \A d, e \in GroupEntries : d.id < e.id => d.seq + d.n <= e.seq
        /\ \A e \in GroupEntries : e.seq + e.n - 1 <= last_sequence + SizesOf(group)[Len(group)]
    BY <1>4, GroupFacts
  <2>2. \A e \in acked \cup GroupEntries : e.id \in Nat /\ e.seq \in Nat /\ e.n \in Nat
    <3>1. acked \cup GroupEntries \subseteq Entry
      BY <1>11 DEF TypeOK, StoreOK
    <3>2. \A e \in Entry : e.id \in Nat /\ e.seq \in Nat /\ e.n \in Nat
      <4>1. Sizes \subseteq Nat /\ 1..MaxCalls \subseteq Nat
        BY DBWriteAssumption
      <4>2. \A e \in Entry : e.id \in 1..MaxCalls /\ e.seq \in Nat /\ e.n \in Sizes
        BY DEF Entry
      <4> QED BY <4>1, <4>2, Zenon
    <3> QED BY <3>1, <3>2
  <2>3. \A d, e \in acked' : d.id = e.id => d = e
    <3> SUFFICES ASSUME NEW d \in acked', NEW e \in acked', d.id = e.id PROVE d = e
      OBVIOUS
    <3>1. d.id \in Nat /\ e.id \in Nat /\ ~(d.id < e.id) /\ ~(e.id < d.id)
      BY <1>10, <2>2
    <3>2. (d \in acked /\ e \in acked) \/ (d \in GroupEntries /\ e \in GroupEntries)
      BY <1>10, <2>1, <3>1
    <3> QED BY <2>1, <3>2 DEF Core, AckedInv
  <2>4. QueueOrder'
    <3> SUFFICES ASSUME NEW d \in acked', NEW e \in acked', d.id < e.id PROVE d.seq + d.n <= e.seq
      BY Zenon DEF QueueOrder
    <3>1. d.id \in Nat /\ e.id \in Nat /\ ~(e.id < d.id)
      BY <1>10, <2>2
    <3>2. d \in acked \/ (d \in GroupEntries /\ e \in GroupEntries)
      BY <1>10, <2>1, <3>1
    <3> QED BY <1>10, <2>1, <3>2 DEF Core, AckedInv, QueueOrder
  <2>5. \A e \in acked' : e.seq + e.n - 1 <= last_sequence'
    <3> SUFFICES ASSUME NEW e \in acked' PROVE e.seq + e.n - 1 <= last_sequence'
      OBVIOUS
    <3>1. CASE e \in GroupEntries
      BY <1>1, <2>1, <3>1
    <3>2. CASE e \in acked
      <4>1. e.seq + e.n - 1 <= last_sequence /\ e.seq \in Nat /\ e.n \in Nat
        BY <2>2, <3>2 DEF Core, AckedInv
      <4>2. SizesOf(group)[Len(group)] \in Nat /\ last_sequence \in Nat
        <5>1. SizesOf(group) \in [0..Len(group) -> Nat]
          BY <1>6, SizesAre DEF TypeOK
        <5>2. Len(group) \in 0..Len(group)
          BY <1>6
        <5> QED BY <5>1, <5>2 DEF TypeOK, QueueOK
      <4> QED BY <1>1, <4>1, <4>2
    <3> QED BY <1>10, <3>1, <3>2
  <2>6. AckedVisible'
    <3>1. CASE status = "ok"
      <4>1. GroupEntries \subseteq mem
        BY <1>1, <1>9, <3>1 DEF Core, MemInv, HasWritten
      <4> QED BY <1>2, <1>10, <4>1 DEF Core, AckedInv, AckedVisible
    <3>2. CASE status = "error"
      BY <1>2, <1>9, <3>2 DEF Core, AckedInv, AckedVisible
    <3> QED BY <3>1, <3>2
  <2> QED BY <2>3, <2>4, <2>5, <2>6 DEF AckedInv
<1>15. DurableInv'
  <2>1. ASSUME status = "ok", NEW i \in 1..Len(group), local[group[i]].op = "syncWrite"
        PROVE  local[group[i]].id \in durable
    <3>1. HasWritten(t) /\ i \in DOMAIN group
      BY <1>1, <1>6, <1>9, <2>1 DEF HasWritten
    <3> QED BY <2>1, <3>1 DEF Core, DurableInv
  <2>2. ASSUME NEW u \in Threads, pc'[u] = "queued", done'[u] = "ok", local'[u].op = "syncWrite"
        PROVE  local'[u].id \in durable'
    <3>1. u # t /\ pc[u] = "queued" /\ local'[u] = local[u]
      BY <1>12, <2>2
    <3>2. CASE done'[u] = done[u]
      BY <1>2, <2>2, <3>1, <3>2 DEF Core, DurableInv
    <3>3. CASE done'[u] # done[u]
      BY <1>2, <1>12, <2>1, <2>2, <3>1, <3>3
    <3> QED BY <3>2, <3>3
  <2>3. ASSUME NEW u \in Threads, pc'[u] = "idle", local'[u].op = "syncWrite", local'[u].result = "ok"
        PROVE  local'[u].id \in durable'
    <3>1. CASE u # t
      BY <1>2, <1>12, <2>3, <3>1 DEF Core, DurableInv, SyncedDurable
    <3>2. CASE u = t
      BY <1>2, <1>7, <1>12, <2>1, <2>3, <3>2 DEF SameCall
    <3> QED BY <3>1, <3>2
  <2>4. SyncedDurable'
    BY <2>3, Zenon DEF SyncedDurable
  <2> QED BY <1>a, <2>2, <2>4 DEF DurableInv
<1>16. SyncInv'
  <2> SUFFICES ASSUME \E i \in DOMAIN faults : faults[i] = "sync" PROVE bg_error'
    <3>1. \A u \in Threads : pc'[u] \notin Logs
      BY <1>12 DEF Leads, Logs
    <3> QED BY <1>1, <3>1, Zenon DEF SyncInv
  <2>1. local[t].result = "syncError"
    <3>1. \E u \in Threads : pc[u] = "logged" /\ local[u].result = "syncError"
      BY <1>4, Zenon DEF Core, SyncInv
    <3> QED BY <1>8, <3>1
  <2> QED BY <1>3, <2>1, Zenon
<1> QED BY <1>12, <1>13, <1>14, <1>15, <1>16 DEF Core

(* A call of Write enters the queue behind all others. *)
LEMMA WriteKeeps ==
  ASSUME TypeOK, TypeOK', Core, NEW t \in Threads, NEW op \in Ops, NEW n \in Sizes, Write(t, op, n)
  PROVE  Core'
<1> DEFINE m == IF op = "flush" THEN 0 ELSE n
<1>1. /\ pc[t] = "idle" /\ calls' = calls + 1 /\ calls \in Nat /\ calls' \in 0..MaxCalls
      /\ writers' = Append(writers, t) /\ done' = [done EXCEPT ![t] = "no"]
      /\ UNCHANGED <<group, last_sequence, mem, imm, tables, durable, bg_error, acked, faults>>
      /\ op \in {"write", "syncWrite", "flush"}
  BY DEF Write, Runs, store, TypeOK, StateOK
<1>2. local' = [local EXCEPT ![t] = NewCall(op, calls', m)]
  BY Zenon DEF Write, NewCall
<1>3. m \in Sizes \cup {0} /\ (op # "flush" => m \in Sizes)
  OBVIOUS
<1> HIDE DEF m
<1>4. /\ local'[t].op = op /\ local'[t].id = calls + 1 /\ local'[t].n = m /\ local'[t].result = "none"
      /\ \A u \in Threads : u # t => local'[u] = local[u]
  BY <1>1, <1>2, <1>3, CallIsSet DEF TypeOK, ThreadsOK
<1>5. /\ DOMAIN writers = 1..Len(writers) /\ Len(writers) \in Nat /\ writers \in Seq(Threads)
      /\ \A i \in 1..Len(writers) : writers[i] \in Threads
  BY QueueIs
<1>6. /\ Len(writers') = Len(writers) + 1 /\ DOMAIN writers' = 1..(Len(writers) + 1)
      /\ \A i \in 1..Len(writers) : writers'[i] = writers[i]
      /\ writers'[Len(writers) + 1] = t
  BY <1>1, <1>5
<1>7. /\ \A i, j \in 1..Len(writers) : writers[i] = writers[j] => i = j
      /\ \A i \in 1..Len(writers) :
           \/ pc[writers[i]] = "queued" /\ done[writers[i]] = "no"
           \/ i = 1 /\ pc[writers[i]] \in Leads
      /\ \A u \in Threads : pc[u] \in Leads => writers # <<>> /\ writers[1] = u
      /\ \A u \in Threads :
           pc[u] = "queued" /\ done[u] = "no" => \E i \in 1..Len(writers) : writers[i] = u
  BY <1>5 DEF Core, QueueInv
<1>8. \A i \in 1..Len(writers) : writers[i] # t
  BY <1>1, <1>7 DEF Leads
<1>9. /\ \A u \in Threads : u # t => pc'[u] = pc[u] /\ done'[u] = done[u]
      /\ done'[t] = "no"
      /\ IF writers = <<>> THEN pc'[t] = "leading" ELSE pc'[t] = "queued"
  BY <1>1 DEF Write, Go, TypeOK, ThreadsOK, QueueOK
<1>10. /\ writers = <<>> <=> Len(writers) = 0
       /\ "leading" \in Leads /\ "queued" \notin Leads /\ "idle" \notin Leads
  BY <1>5 DEF Leads
<1>11. \A i \in 1..(Len(writers) + 1) : i \in 1..Len(writers) \/ i = Len(writers) + 1
  BY <1>5
<1>12. QueueInv'
  <2>1. \A i, j \in 1..(Len(writers) + 1) : writers'[i] = writers'[j] => i = j
    BY <1>6, <1>7, <1>8, <1>11
  <2>2. \A i \in 1..(Len(writers) + 1) :
          \/ pc'[writers'[i]] = "queued" /\ done'[writers'[i]] = "no"
          \/ i = 1 /\ pc'[writers'[i]] \in Leads
    <3> SUFFICES ASSUME NEW i \in 1..(Len(writers) + 1)
                 PROVE  \/ pc'[writers'[i]] = "queued" /\ done'[writers'[i]] = "no"
                        \/ i = 1 /\ pc'[writers'[i]] \in Leads
      OBVIOUS
    <3>1. CASE i \in 1..Len(writers)
      BY <1>5, <1>6, <1>7, <1>8, <1>9, <3>1
    <3>2. CASE i = Len(writers) + 1
      BY <1>5, <1>6, <1>9, <1>10, <3>2
    <3> QED BY <1>11, <3>1, <3>2
  <2>3. \A u \in Threads : pc'[u] \in Leads => writers' # <<>> /\ writers'[1] = u
    <3> SUFFICES ASSUME NEW u \in Threads, pc'[u] \in Leads PROVE writers' # <<>> /\ writers'[1] = u
      OBVIOUS
    <3>1. writers' # <<>>
      BY <1>5, <1>6
    <3>2. CASE u = t
      BY <1>5, <1>6, <1>9, <1>10, <3>1, <3>2
    <3>3. CASE u # t
      <4>1. writers # <<>> /\ writers[1] = u
        BY <1>7, <1>9, <3>3
      <4>2. 1 \in 1..Len(writers)
        BY <1>5, <1>10, <4>1
      <4> QED BY <1>6, <3>1, <4>1, <4>2
    <3> QED BY <3>2, <3>3
  <2>4. ASSUME NEW u \in Threads, pc'[u] = "queued", done'[u] = "no"
        PROVE  \E i \in 1..(Len(writers) + 1) : writers'[i] = u
    <3>1. CASE u = t
      <4>1. Len(writers) + 1 \in 1..(Len(writers) + 1)
        BY <1>5
      <4> QED BY <1>6, <3>1, <4>1
    <3>2. CASE u # t
      <4>1. PICK i \in 1..Len(writers) : writers[i] = u
        BY <1>7, <1>9, <2>4, <3>2
      <4>2. i \in 1..(Len(writers) + 1)
        BY <1>5
      <4> QED BY <1>6, <4>1, <4>2
    <3> QED BY <3>1, <3>2
  <2> QED BY <1>6, <2>1, <2>2, <2>3, <2>4 DEF QueueInv
<1>13. /\ \A i \in 1..Len(writers) : local'[writers'[i]] = local[writers[i]]
       /\ local'[writers'[Len(writers) + 1]] = local'[t]
  BY <1>4, <1>5, <1>6, <1>8
<1>14. /\ \A i \in 1..Len(writers) :
            /\ local[writers[i]].op \in {"write", "syncWrite", "flush"}
            /\ local[writers[i]].id \in 1..calls
            /\ local[writers[i]].op # "flush" => local[writers[i]].n \in Sizes
       /\ \A i, j \in 1..Len(writers) : i < j => local[writers[i]].id < local[writers[j]].id
       /\ \A e \in acked : e.id <= calls /\ \A i \in 1..Len(writers) : e.id < local[writers[i]].id
  BY <1>5 DEF Core, BatchInv
<1>15. BatchInv'
  <2>1. ASSUME NEW i \in 1..(Len(writers) + 1)
        PROVE  /\ local'[writers'[i]].op \in {"write", "syncWrite", "flush"}
               /\ local'[writers'[i]].id \in 1..calls'
               /\ local'[writers'[i]].op # "flush" => local'[writers'[i]].n \in Sizes
    <3>1. CASE i \in 1..Len(writers)
      <4>1. local[writers[i]].id \in 1..calls'
        BY <1>1, <1>14, <3>1
      <4> QED BY <1>13, <1>14, <3>1, <4>1
    <3>2. CASE i = Len(writers) + 1
      <4>1. calls + 1 \in 1..calls'
        BY <1>1
      <4> QED BY <1>1, <1>3, <1>4, <1>13, <3>2, <4>1
    <3> QED BY <1>11, <3>1, <3>2
  <2>2. ASSUME NEW i \in 1..(Len(writers) + 1), NEW j \in 1..(Len(writers) + 1), i < j
        PROVE  local'[writers'[i]].id < local'[writers'[j]].id
    <3>1. i \in 1..Len(writers)
      BY <1>5, <2>2
    <3>2. CASE j \in 1..Len(writers)
      BY <1>13, <1>14, <2>2, <3>1, <3>2
    <3>3. CASE j = Len(writers) + 1
      <4>1. local[writers[i]].id < calls + 1
        BY <1>1, <1>14, <3>1
      <4> QED BY <1>4, <1>13, <3>1, <3>3, <4>1
    <3> QED BY <1>11, <3>2, <3>3
  <2>3. ASSUME NEW e \in acked'
        PROVE  e.id <= calls' /\ \A i \in 1..(Len(writers) + 1) : e.id < local'[writers'[i]].id
    <3>1. e \in acked /\ e \in Entry
      BY <1>1, <2>3 DEF TypeOK, StoreOK
    <3>2. e.id \in 1..MaxCalls
      BY <3>1 DEF Entry
    <3>3. e.id <= calls /\ \A i \in 1..Len(writers) : e.id < local[writers[i]].id
      BY <1>14, <3>1
    <3>4. e.id <= calls' /\ e.id < calls + 1
      BY <1>1, <3>2, <3>3
    <3>5. ASSUME NEW i \in 1..(Len(writers) + 1) PROVE e.id < local'[writers'[i]].id
      <4>1. CASE i \in 1..Len(writers)
        BY <1>13, <3>3, <4>1
      <4>2. CASE i = Len(writers) + 1
        BY <1>4, <1>13, <3>4, <4>2
      <4> QED BY <1>11, <4>1, <4>2
    <3> QED BY <3>4, <3>5
  <2>4. \A u \in Threads : /\ pc'[u] = "flushing" => local'[u].op = "flush"
                           /\ pc'[u] = "compacting" => local'[u].op = "compact"
    BY <1>4, <1>9 DEF Core, BatchInv
  <2> QED BY <1>6, <2>1, <2>2, <2>3, <2>4 DEF BatchInv
<1>16. pc'[t] \notin Logs /\ pc[t] \notin Logs /\ ~HasWritten(t) /\ ~HasWritten(t)'
  BY <1>1, <1>9 DEF Logs, HasWritten
<1>17. \A u \in Threads : u # t => (HasWritten(u)' <=> HasWritten(u))
  BY <1>4, <1>9 DEF HasWritten
<1>18. ASSUME NEW u \in Threads, pc[u] \in Logs
       PROVE  /\ Len(group) \in 1..Len(writers) /\ 1 \in 1..Len(group) /\ DOMAIN group = 1..Len(group)
              /\ \A i \in 1..Len(group) : group[i] = writers[i] /\ writers'[i] = writers[i]
              /\ \A i \in 1..Len(group) : local'[group[i]] = local[group[i]]
              /\ GroupEntries' = GroupEntries
  <2>1. /\ Len(group) \in 1..Len(writers) /\ \A i \in 1..Len(group) : group[i] = writers[i]
        /\ DOMAIN group = 1..Len(group) /\ Len(group) \in Nat
    BY <1>18, QueueIs DEF Core, GroupInv
  <2>2. 1 \in 1..Len(group) /\ \A i \in 1..Len(group) : i \in 1..Len(writers)
    BY <1>5, <2>1
  <2>3. \A i \in 1..Len(group) : local'[group[i]] = local[group[i]]
    BY <1>4, <1>5, <1>8, <2>1, <2>2
  <2>4. \A i \in 1..Len(group) : SameCall(local, local', group[i])
    BY <2>3 DEF SameCall
  <2>5. GroupEntries' = GroupEntries
    BY <1>1, <2>4, EntriesStay
  <2> QED BY <1>6, <2>1, <2>2, <2>3, <2>5
<1>19. GroupInv'
  <2> SUFFICES ASSUME NEW u \in Threads, pc'[u] \in Logs
               PROVE  /\ Len(group') \in 1..Len(writers')
                      /\ \A i \in 1..Len(group') : group'[i] = writers'[i]
                      /\ \A i \in 1..Len(group') :
                           local'[group'[i]].op = "syncWrite" => local'[group'[1]].op = "syncWrite"
    BY Zenon DEF GroupInv
  <2>1. pc[u] \in Logs
    BY <1>9, <1>16
  <2>2. \A i \in 1..Len(group) : local[group[i]].op = "syncWrite" => local[group[1]].op = "syncWrite"
    BY <2>1 DEF Core, GroupInv
  <2>3. Len(group) \in 1..Len(writers')
    BY <1>5, <1>6, <1>18, <2>1
  <2> QED BY <1>1, <1>18, <2>1, <2>2, <2>3
<1>20. MemInv'
  <2>1. ASSUME NEW u \in Threads, HasWritten(u)' PROVE GroupEntries' \subseteq mem'
    <3>1. HasWritten(u) /\ pc[u] \in Logs
      BY <1>16, <1>17, <2>1 DEF HasWritten, Logs
    <3> QED BY <1>1, <1>18, <3>1 DEF Core, MemInv
  <2>2. ASSUME NEW e \in mem'
        PROVE  e \in acked' \/ \E u \in Threads : HasWritten(u)' /\ e \in GroupEntries'
    <3>1. CASE e \in acked
      BY <1>1, <3>1
    <3>2. CASE \E u \in Threads : HasWritten(u) /\ e \in GroupEntries
      <4>1. PICK u \in Threads : HasWritten(u) /\ e \in GroupEntries
        BY <3>2
      <4>2. pc[u] \in Logs /\ u # t
        BY <1>16, <4>1 DEF HasWritten, Logs
      <4> QED BY <1>17, <1>18, <4>1, <4>2
    <3> QED BY <1>1, <2>2, <3>1, <3>2 DEF Core, MemInv
  <2> QED BY <2>1, <2>2, Zenon DEF MemInv
<1>21. AckedInv'
  BY <1>1 DEF Core, AckedInv, QueueOrder, AckedVisible
<1>22. DurableInv'
  <2>1. ASSUME NEW u \in Threads, pc'[u] = "queued", done'[u] = "ok", local'[u].op = "syncWrite"
        PROVE  local'[u].id \in durable'
    BY <1>1, <1>4, <1>9, <2>1 DEF Core, DurableInv
  <2>2. ASSUME NEW u \in Threads, HasWritten(u)', NEW i \in DOMAIN group', local'[group'[i]].op = "syncWrite"
        PROVE  local'[group'[i]].id \in durable'
    <3>1. HasWritten(u) /\ pc[u] \in Logs
      BY <1>16, <1>17, <2>2 DEF HasWritten, Logs
    <3>2. local'[group[i]] = local[group[i]] /\ i \in DOMAIN group
      BY <1>1, <1>18, <2>2, <3>1
    <3> QED BY <1>1, <2>2, <3>1, <3>2 DEF Core, DurableInv
  <2>3. ASSUME NEW u \in Threads, pc'[u] = "idle", local'[u].op = "syncWrite", local'[u].result = "ok"
        PROVE  local'[u].id \in durable'
    BY <1>1, <1>4, <1>9, <2>3 DEF Core, DurableInv, SyncedDurable
  <2>4. SyncedDurable'
    BY <2>3, Zenon DEF SyncedDurable
  <2> QED BY <2>1, <2>2, <2>4, Zenon DEF DurableInv
<1>23. SyncInv'
  <2>1. \A u \in Threads :
          /\ pc[u] = "logged" /\ local[u].result = "syncError"
               => pc'[u] = "logged" /\ local'[u].result = "syncError"
          /\ pc'[u] \in Logs => pc[u] \in Logs
    BY <1>1, <1>4, <1>9, <1>16
  <2> QED BY <1>1, <2>1, Zenon DEF Core, SyncInv
<1> QED BY <1>12, <1>15, <1>19, <1>20, <1>21, <1>22, <1>23 DEF Core

-------------------------------------------------------------------------------
(* Closing. *)

(* CloseInv is kept by a step that neither begins nor ends a close and does not
   set the background thread going after one has begun. *)
LEMMA CloseStays ==
  ASSUME CloseInv, shutting_down' = shutting_down,
         \A u \in Threads : pc'[u] \in {"closing", "closed"} => pc'[u] = pc[u],
         bg' = bg \/ ~shutting_down'
  PROVE  CloseInv'
<1>1. \A u \in Threads : pc'[u] \in {"closing", "closed"} => shutting_down'
  BY DEF CloseInv
<1>2. (\E u \in Threads : pc'[u] = "closed") => bg'.at = "idle"
  <2> SUFFICES ASSUME NEW u \in Threads, pc'[u] = "closed" PROVE bg'.at = "idle"
    OBVIOUS
  <2>1. shutting_down' /\ pc[u] = "closed"
    BY <1>1
  <2>2. bg' = bg
    BY <2>1, Zenon
  <2> QED BY <2>1, <2>2 DEF CloseInv, ClosedAtRest
<1> QED BY <1>1, <1>2, Zenon DEF CloseInv, ClosedAtRest

(* Whoever closes the database announces it first, and no work is scheduled
   from then on. *)
LEMMA CloseKeeps ==
  ASSUME TypeOK, ManualInv, CloseInv, Core, Next
  PROVE  CloseInv'
<1>0. pc \in [Threads -> Places] /\ bg \in BgState
  BY DEF TypeOK, ThreadsOK, StateOK
<1>1. CASE Background
  <2>1. BackgroundFrame
    BY <1>1, BackgroundTypes
  <2>2. pc' = pc /\ shutting_down' = shutting_down
    BY <2>1, Zenon DEF BackgroundFrame, BgLeaves
  <2>3. \A u \in Threads : pc'[u] # "closed"
    BY <2>1, <2>2 DEF BackgroundFrame, CloseInv, ClosedAtRest
  <2> QED BY <2>2, <2>3 DEF CloseInv, ClosedAtRest
<1>2. ASSUME NEW t \in Threads, Called(t) \/ Step(t) PROVE CloseInv'
  <2>1. CASE Close(t)
    <3>1. shutting_down' = TRUE /\ pc'[t] = "closing" /\ bg' = bg
      BY <1>0, <2>1 DEF Close, Go
    <3>2. \A u \in Threads : u # t => pc'[u] = "idle"
      BY <1>0, <2>1 DEF Close, Go
    <3> QED BY <3>1, <3>2 DEF CloseInv, ClosedAtRest
  <2>2. CASE CloseGoesOn(t)
    <3>1. /\ pc[t] = "closing" /\ shutting_down' = shutting_down /\ bg' = bg
          /\ \/ bg.at = "idle" /\ pc' = [pc EXCEPT ![t] = "closed"]
             \/ pc' = pc
      BY <2>2 DEF CloseGoesOn, Runs, Go
    <3>2. \A u \in Threads : /\ pc'[u] \in {"closing", "closed"} => pc[u] \in {"closing", "closed"}
                             /\ pc'[u] = "closed" => pc[u] = "closed" \/ bg.at = "idle"
      BY <1>0, <3>1
    <3> QED BY <3>1, <3>2 DEF CloseInv, ClosedAtRest
  <2>3. CASE (\E op \in Ops, n \in Sizes : Write(t, op, n)) \/ CompactRange(t)
    <3>1. shutting_down' = shutting_down /\ bg' = bg
      BY <2>3 DEF Write, CompactRange
    <3>2. \A u \in Threads : pc'[u] \in {"closing", "closed"} => pc'[u] = pc[u]
      BY <1>0, <2>3 DEF Write, CompactRange, Go
    <3> QED BY <3>1, <3>2, CloseStays
  <2>4. CASE SwitchMemTable(t) \/ RequestCompaction(t)
    <3>1. shutting_down' = shutting_down /\ pc' = pc
      BY <2>4 DEF SwitchMemTable, RequestCompaction
    <3>2. bg' = bg \/ MaybeScheduleCompaction
      BY <2>4 DEF SwitchMemTable, RequestCompaction
    <3>3. bg' = bg \/ ~shutting_down'
      BY <1>0, <3>2, MaybeScheduled, Zenon
    <3> QED BY <3>1, <3>3, CloseStays
  <2>5. CASE \/ Delay(t) \/ Awaken(t) \/ WaitForRoom(t) \/ StartLogging(t) \/ AddRecord(t)
             \/ AddRecordFails(t) \/ CompactMemTableWaits(t) \/ CompactMemTableReturns(t)
             \/ CompactRangeReturns(t)
    <3>1. shutting_down' = shutting_down /\ bg' = bg
      BY <2>5 DEF Delay, Awaken, WaitForRoom, StartLogging, AddRecord, AddRecordFails,
                  CompactMemTableWaits, CompactMemTableReturns, CompactRangeReturns
    <3>2. \/ pc' = pc
          \/ \E place \in {"leading", "sleeping", "logging", "logged", "idle"} :
               pc' = [pc EXCEPT ![t] = place]
      BY <2>5 DEF Delay, Awaken, WaitForRoom, StartLogging, AddRecord, AddRecordFails,
                  CompactMemTableWaits, CompactMemTableReturns, CompactRangeReturns, Go
    <3>3. \A u \in Threads : pc'[u] \in {"closing", "closed"} => pc'[u] = pc[u]
      BY <1>0, <3>2
    <3> QED BY <3>1, <3>3, CloseStays
  <2>6. CASE Wake(t) \/ YieldError(t) \/ NewLogFails(t) \/ NothingToWrite(t) \/ FinishWrite(t)
    <3>1. shutting_down' = shutting_down /\ bg' = bg
      BY <2>6 DEF Wake, YieldError, NewLogFails, NothingToWrite, FinishWrite
    <3>2. (\E status : Return(t, status)) \/ Go(t, "leading") \/ pc' = pc
      BY <2>6, Zenon DEF Wake, YieldError, NewLogFails, NothingToWrite, FinishWrite, Complete
    <3>3. \/ pc' = pc
          \/ \E place \in {"leading", "flushing", "idle"} : pc' = [pc EXCEPT ![t] = place]
      BY <3>2 DEF Return, Go
    <3>4. \A u \in Threads : pc'[u] \in {"closing", "closed"} => pc'[u] = pc[u]
      BY <1>0, <3>3
    <3> QED BY <3>1, <3>4, CloseStays
  <2> QED BY <1>2, <2>1, <2>2, <2>3, <2>4, <2>5, <2>6 DEF Called, Step
<1> QED BY <1>1, <1>2 DEF Next

-------------------------------------------------------------------------------
(* The theorems. *)

WriteInv == TypeOK /\ ManualInv /\ CloseInv /\ Core

(* The invariant holds at first. *)
LEMMA InitWrite == Init => WriteInv
<1> SUFFICES ASSUME Init PROVE WriteInv
  OBVIOUS
<1>0. /\ 0 \in Nat /\ 0 \in 0..MaxCalls /\ 0 \in -1..MaxRounds /\ 0 \in Sizes \cup {0} /\ 0 <= MaxFaults
  BY DBWriteAssumption
<1>1. ThreadsOK
  <2>1. Idle \in Local
    BY <1>0 DEF Idle, Local
  <2> QED BY <2>1 DEF Init, ThreadsOK, Places
<1>2. QueueOK
  <2>1. writers \in Seq(Threads) /\ group \in Seq(Threads)
    BY EmptyIsSeq, Zenon DEF Init
  <2> QED BY <2>1 DEF Init, QueueOK
<1>3. StoreOK
  BY DEF Init, StoreOK
<1>4. StateOK
  <2>1. faults \in Seq(Faults) /\ faults = <<>>
    BY EmptyIsSeq, Zenon DEF Init
  <2>2. Len(faults) <= MaxFaults
    BY <1>0, <2>1
  <2>3. bg \in BgState
    BY BgRecords DEF Init
  <2>4. bg_error \in BOOLEAN /\ shutting_down \in BOOLEAN
    BY Zenon DEF Init
  <2>5. level0 \in Nat /\ calls \in 0..MaxCalls
    BY <1>0 DEF Init
  <2> QED BY <2>1, <2>2, <2>3, <2>4, <2>5, Zenon DEF StateOK
<1>5. ManualInv
  BY BgRecords DEF Init, ManualInv
<1>6. CloseInv
  BY DEF Init, CloseInv, ClosedAtRest
<1>7. DOMAIN writers = {} /\ \A t \in Threads : pc[t] = "idle" /\ local[t].op = "none"
  BY DEF Init, Idle
<1>8. QueueInv /\ BatchInv /\ GroupInv
  BY <1>7 DEF Init, QueueInv, BatchInv, GroupInv, Leads, Logs
<1>9. MemInv /\ AckedInv /\ DurableInv
  BY <1>7 DEF Init, MemInv, AckedInv, DurableInv, HasWritten, QueueOrder, AckedVisible, SyncedDurable
<1>10. SyncInv
  BY DEF Init, SyncInv
<1> QED BY <1>1, <1>2, <1>3, <1>4, <1>5, <1>6, <1>8, <1>9, <1>10 DEF WriteInv, Core, TypeOK

(* Every step keeps it. *)
LEMMA NextWrite == WriteInv /\ [Next]_vars => WriteInv'
<1> SUFFICES ASSUME WriteInv, [Next]_vars PROVE WriteInv'
  OBVIOUS
<1>0. TypeOK /\ ManualInv /\ CloseInv /\ Core /\ QueueInv /\ BatchInv /\ GroupInv
  BY DEF WriteInv, Core
<1>1. CASE Next
  <2>1. TypeOK' /\ ManualInv'
    <3>1. CASE Background
      BY <1>0, <3>1, BackgroundTypes
    <3>2. CASE \E t \in Threads : Called(t) \/ Step(t)
      BY <1>0, <3>2, ThreadTypes
    <3> QED BY <1>1, <3>1, <3>2 DEF Next
  <2>2. CloseInv'
    BY <1>0, <1>1, CloseKeeps
  <2>3. Core'
    <3>1. CASE Background
      BY <1>0, <2>1, <3>1, BystanderSteps
    <3>2. ASSUME NEW t \in Threads, Called(t) PROVE Core'
      BY <1>0, <2>1, <3>2, WriteKeeps, BystanderSteps DEF Called
    <3>3. ASSUME NEW t \in Threads, Step(t) PROVE Core'
      <4>1. CASE Wake(t)
        BY <1>0, <2>1, <4>1, WakeKeeps
      <4>2. CASE YieldError(t) \/ NewLogFails(t) \/ NothingToWrite(t)
        BY <1>0, <2>1, <4>2, EndsAloneKeeps
      <4>3. CASE SwitchMemTable(t)
        BY <1>0, <2>1, <4>3, SwitchKeeps
      <4>4. CASE StartLogging(t)
        BY <1>0, <2>1, <4>4, StartKeeps
      <4>5. CASE AddRecord(t) \/ AddRecordFails(t)
        BY <1>0, <2>1, <4>5, AddKeeps
      <4>6. CASE FinishWrite(t)
        BY <1>0, <2>1, <4>6, FinishKeeps
      <4>7. CASE \/ Delay(t) \/ Awaken(t) \/ WaitForRoom(t)
                 \/ CompactMemTableWaits(t) \/ CompactMemTableReturns(t)
                 \/ RequestCompaction(t) \/ CompactRangeReturns(t) \/ CloseGoesOn(t)
        BY <1>0, <2>1, <4>7, BystanderSteps
      <4> QED BY <3>3, <4>1, <4>2, <4>3, <4>4, <4>5, <4>6, <4>7 DEF Step
    <3> QED BY <1>1, <3>1, <3>2, <3>3 DEF Next
  <2> QED BY <2>1, <2>2, <2>3 DEF WriteInv
<1>2. CASE UNCHANGED vars
  <2>1. UNCHANGED <<pc, local, waiting, mutex, writers, done, group, last_sequence, mem, imm,
                    tables, unsynced, durable, level0, bg_error, manual, bg, shutting_down,
                    acked, calls, faults>>
    BY <1>2 DEF vars
  <2>2. TypeOK'
    BY <1>0, <2>1 DEF TypeOK, ThreadsOK, QueueOK, StoreOK, StateOK
  <2>3. ManualInv' /\ CloseInv'
    BY <1>0, <2>1 DEF ManualInv, CloseInv, ClosedAtRest
  <2>4. Bystander
    <3>1. \A u \in Threads : Keeps(u)
      BY <2>1 DEF Keeps, SameCall
    <3>2. calls <= calls'
      BY <1>0, <2>1 DEF TypeOK, StateOK
    <3> QED BY <2>1, <3>1, <3>2 DEF Bystander
  <2>5. Core'
    BY <1>0, <2>2, <2>4, BystanderKeeps
  <2> QED BY <2>2, <2>3, <2>5 DEF WriteInv
<1> QED BY <1>1, <1>2

(* So it always holds. *)
LEMMA AlwaysWriteInv == Spec => []WriteInv
  BY InitWrite, NextWrite, PTL DEF Spec

(* The variables of the write path (DBImpl and its Writer, Version and
   background thread) keep their types; level 0 never has fewer than no
   files. *)
THEOREM WriteTypes == Spec => []TypeOK
<1>1. WriteInv => TypeOK
  BY DEF WriteInv
<1> QED BY <1>1, AlwaysWriteInv, PTL

(* A write that DBImpl::Write acknowledged is in mem_, imm_ or a table in
   every state. *)
THEOREM WritesStayVisible == Spec => []AckedVisible
<1>1. WriteInv => AckedVisible
  BY DEF WriteInv, Core, AckedInv
<1> QED BY <1>1, AlwaysWriteInv, PTL

(* A write with sync that returned OK is on the disk, whoever led its group
   in BuildBatchGroup. *)
THEOREM SyncsAreDurable == Spec => []SyncedDurable
<1>1. WriteInv => SyncedDurable
  BY DEF WriteInv, Core, DurableInv
<1> QED BY <1>1, AlwaysWriteInv, PTL

(* The groups that DBImpl::Write writes without the mutex: one thread at most
   writes, it heads the queue, and no batch gets in twice. *)
THEOREM GroupsAreExclusive == Spec => []OneLogger
<1>1. ASSUME WriteInv PROVE OneLogger
  <2>0. TypeOK /\ Core /\ QueueInv /\ GroupInv /\ MemInv /\ AckedInv
    BY <1>1 DEF WriteInv, Core
  <2>1. ASSUME NEW t \in Threads, pc[t] \in {"logging", "logged"}
        PROVE  writers # <<>> /\ Head(writers) = t /\ IsPrefix(group, writers) /\ Head(group) = t
    <3>1. pc[t] \in Logs /\ pc[t] \in Leads
      BY <2>1 DEF Logs, Leads
    <3>2. 1 \in 1..Len(writers) /\ writers[1] = t /\ writers # <<>>
      BY <2>0, <3>1, OneLeads DEF QueueInv
    <3>3. /\ Len(group) \in 1..Len(writers) /\ \A i \in 1..Len(group) : group[i] = writers[i]
          /\ group \in Seq(Threads) /\ writers \in Seq(Threads) /\ Len(writers) \in Nat
      BY <2>0, <3>1, QueueIs DEF GroupInv
    <3>4. Head(writers) = t /\ Head(group) = t /\ Len(group) <= Len(writers)
      BY <3>2, <3>3
    <3>5. SubSeq(group, 1, Len(group)) = SubSeq(writers, 1, Len(group))
      BY <3>3
    <3> QED BY <3>2, <3>4, <3>5 DEF IsPrefix
  <2>2. ASSUME NEW d \in mem \cup acked, NEW e \in mem \cup acked, d.id = e.id PROVE d = e
    <3>1. \A x \in mem \cup acked : x.id \in Nat
      <4>1. mem \cup acked \subseteq Entry
        BY <2>0 DEF TypeOK, StoreOK
      <4>2. \A x \in Entry : x.id \in Nat
        BY DEF Entry
      <4> QED BY <4>1, <4>2
    <3>2. CASE d \in acked /\ e \in acked
      BY <2>0, <2>2, <3>2 DEF AckedInv
    <3>3. CASE ~(d \in acked /\ e \in acked)
      <4>1. PICK t \in Threads : HasWritten(t)
        BY <2>0, <3>3 DEF MemInv
      <4>2. pc[t] \in Logs
        BY <4>1 DEF HasWritten, Logs
      <4>3. (d \in acked \/ d \in GroupEntries) /\ (e \in acked \/ e \in GroupEntries)
        BY <2>0 DEF MemInv
      <4>4. /\ \A x \in acked, y \in GroupEntries : x.id < y.id
            /\ \A x, y \in GroupEntries : x.id = y.id => x = y
        BY <2>0, <4>2, GroupFacts
      <4> QED BY <2>2, <3>1, <3>3, <4>3, <4>4
    <3> QED BY <3>2, <3>3
  <2> QED BY <2>1, <2>2, Zenon DEF OneLogger
<1> QED BY <1>1, AlwaysWriteInv, PTL

(* Acknowledged writes have the order of the queue, and each a range of
   sequence numbers of its own (last_sequence in DBImpl::Write). *)
THEOREM QueueIsOrder == Spec => []QueueOrder
<1>1. WriteInv => QueueOrder
  BY DEF WriteInv, Core, AckedInv
<1> QED BY <1>1, AlwaysWriteInv, PTL

(* A reader at the last sequence number sees whole groups: SetLastSequence
   comes after the memtable. *)
THEOREM GroupsAreAtomic == Spec => []GroupIsAtomic
<1>1. ASSUME WriteInv PROVE GroupIsAtomic
  <2>0. TypeOK /\ Core /\ MemInv /\ AckedInv
    BY <1>1 DEF WriteInv, Core
  <2>1. ASSUME NEW e \in mem \ acked PROVE e.seq > last_sequence
    <3>1. PICK t \in Threads : HasWritten(t) /\ e \in GroupEntries
      BY <2>0 DEF MemInv
    <3>2. pc[t] \in Logs
      BY <3>1 DEF HasWritten, Logs
    <3> QED BY <2>0, <3>1, <3>2, GroupFacts
  <2> QED BY <2>0, <2>1 DEF GroupIsAtomic, AckedInv
<1> QED BY <1>1, AlwaysWriteInv, PTL

(* ~DBImpl returns only when background_compaction_scheduled_ is false, and
   nothing is scheduled afterwards. *)
THEOREM CloseIsLast == Spec => []ClosedAtRest
<1>1. WriteInv => ClosedAtRest
  BY DEF WriteInv, CloseInv
<1> QED BY <1>1, AlwaysWriteInv, PTL

(* What the threads rely on (DBImpl::Write, BackgroundCall, ~DBImpl), for as
   long as no manual compaction brought the process down. *)
THEOREM ThreadsSafeWhileAlive == Spec => [](SafeForThreads => ThreadsAreSafe)
<1>1. TypeOK /\ OneLogger /\ QueueOrder /\ GroupIsAtomic /\ ClosedAtRest =>
        (SafeForThreads => ThreadsAreSafe)
  BY DEF ThreadsAreSafe
<1> QED BY <1>1, WriteTypes, GroupsAreExclusive, QueueIsOrder, GroupsAreAtomic, CloseIsLast, PTL

(* After a log file could not be synced (RecordBackgroundError), nothing is
   acknowledged any more. *)
THEOREM SyncErrorIsFinal == Spec => NoWriteAfterSyncError
<1>1. ASSUME WriteInv, [Next]_vars, \E i \in DOMAIN faults : faults[i] = "sync"
      PROVE  acked' = acked
  <2>0. TypeOK /\ Core /\ QueueInv /\ SyncInv
    BY <1>1 DEF WriteInv, Core
  <2>1. ASSUME NEW t \in Threads, FinishWrite(t) PROVE acked' = acked
    <3>1. pc[t] = "logged" /\ pc[t] \in Logs /\ pc[t] \in Leads
      BY <2>1 DEF FinishWrite, Runs, Logs, Leads
    <3>2. PICK u \in Threads : pc[u] = "logged" /\ local[u].result = "syncError"
      BY <1>1, <2>0, <3>1, Zenon DEF SyncInv
    <3>3. u = t
      BY <2>0, <3>1, <3>2, OneLeads DEF Leads
    <3> QED BY <2>1, <3>2, <3>3 DEF FinishWrite
  <2>2. ASSUME NEW t \in Threads, Step(t), ~FinishWrite(t) PROVE acked' = acked
    BY <2>2 DEF Step, Wake, YieldError, Delay, Awaken, WaitForRoom, SwitchMemTable, NewLogFails,
       NothingToWrite, StartLogging, AddRecord, AddRecordFails, CompactMemTableWaits,
       CompactMemTableReturns, RequestCompaction, CompactRangeReturns, CloseGoesOn
  <2>3. ASSUME NEW t \in Threads, Called(t) PROVE acked' = acked
    BY <2>3 DEF Called, Write, CompactRange, Close
  <2>4. CASE Background
    <3>1. BackgroundFrame
      BY <1>1, <2>4, BackgroundTypes DEF WriteInv
    <3> QED BY <3>1, Zenon DEF BackgroundFrame, BgLeaves
  <2>5. CASE UNCHANGED vars
    BY <2>5 DEF vars
  <2> QED BY <1>1, <2>1, <2>2, <2>3, <2>4, <2>5 DEF Next
<1>2. WriteInv /\ [Next]_vars =>
        [(\E i \in DOMAIN faults : faults[i] = "sync") => acked' = acked]_vars
  BY <1>1
<1> QED BY <1>2, AlwaysWriteInv, PTL DEF Spec, NoWriteAfterSyncError

-------------------------------------------------------------------------------
(* Without manual compactions, as the Realtime Database uses LevelDB, no call
   brings the process down. *)

NoManual ==
  /\ manual = None /\ ~bg.manual /\ bg.at # "dead"
  /\ \A t \in Threads : pc[t] # "compacting"

(* A background thread that goes on does so with the compaction it has. *)
LEMMA BgManual ==
  ASSUME bg \in BgState
  PROVE  /\ \A a \in {"building", "installing", "working", "committing"} :
              [bg EXCEPT !.at = a].manual = bg.manual /\ [bg EXCEPT !.at = a].at = a
         /\ \A a \in {"working", "committing"}, n \in Nat :
              /\ [bg EXCEPT !.at = a, !.inputs = n].manual = bg.manual
              /\ [bg EXCEPT !.at = a, !.inputs = n].at = a
         /\ \A a \in {"building", "working"}, b \in BOOLEAN :
              /\ [bg EXCEPT !.at = a, !.nested = b].manual = bg.manual
              /\ [bg EXCEPT !.at = a, !.nested = b].at = a
  BY DEF BgState

(* A background thread that starts anew has no manual compaction. *)
LEMMA RestingManual ==
  ~Resting.manual /\ ~[Resting EXCEPT !.at = "scheduled"].manual
<1>1. Resting.manual = FALSE /\ [Resting EXCEPT !.at = "scheduled"].manual = FALSE
  BY DEF Resting
<1> QED BY <1>1, Zenon

(* Without "compact" among the operations there never is one. *)
LEMMA NoManualStays ==
  ASSUME "compact" \notin Ops, WriteInv, NoManual, [Next]_vars
  PROVE  NoManual'
<1>0. /\ bg \in BgState /\ pc \in [Threads -> Places] /\ TypeOK /\ ManualInv /\ level0 \in Nat
      /\ local \in [Threads -> Local]
  BY DEF WriteInv, TypeOK, StateOK, ThreadsOK
<1>1. ASSUME EndBackgroundCall PROVE ~bg'.manual /\ bg'.at # "dead"
  <2>1. bg' = Resting \/ bg' = [Resting EXCEPT !.at = "scheduled"]
    BY <1>1, Zenon DEF EndBackgroundCall
  <2>2. bg'.at # "dead"
    BY <2>1, BgRecords
  <2> QED BY <2>1, <2>2, RestingManual, Zenon
<1>2. CASE Background
  <2>1. pc' = pc
    BY <1>0, <1>2, BackgroundTypes, Zenon DEF BackgroundFrame, BgLeaves
  <2>2. ASSUME manual' = manual, bg'.manual = bg.manual, bg'.at # "dead" PROVE NoManual'
    BY <2>1, <2>2, Zenon DEF NoManual
  <2>3. ASSUME EndBackgroundCall, manual' = manual PROVE NoManual'
    BY <1>1, <2>1, <2>3, Zenon DEF NoManual
  <2>4. CASE BackgroundCall
    <3>1. CASE EndBackgroundCall /\ UNCHANGED <<local, manual>>
      BY <2>3, <3>1
    <3>2. CASE bg' = [bg EXCEPT !.at = "building"] /\ UNCHANGED <<local, manual, waiting>>
      BY <1>0, <2>2, <3>2, BgManual
    <3>3. CASE /\ \E n \in 1..level0, trivial \in BOOLEAN :
                    bg' = [bg EXCEPT !.at = IF trivial THEN "committing" ELSE "working", !.inputs = n]
               /\ UNCHANGED <<local, manual>>
      <4>1. PICK n \in 1..level0, a \in {"working", "committing"} :
              bg' = [bg EXCEPT !.at = a, !.inputs = n]
        BY <3>3, Zenon
      <4>2. n \in Nat
        BY <1>0
      <4> QED BY <1>0, <2>2, <3>3, <4>1, <4>2, BgManual
    <3>4. manual = None
      BY DEF NoManual
    <3> QED BY <2>4, <3>1, <3>2, <3>3, <3>4, Zenon DEF BackgroundCall
  <2>5. CASE TableBuilt \/ MakeWay \/ CompactionWorked
    <3>1. TRUE \in BOOLEAN
      OBVIOUS
    <3>2. /\ manual' = manual
          /\ \/ bg' = [bg EXCEPT !.at = "installing"] \/ bg' = [bg EXCEPT !.at = "committing"]
             \/ bg' = [bg EXCEPT !.at = "building", !.nested = TRUE]
      BY <2>5, Zenon DEF TableBuilt, MakeWay, CompactionWorked
    <3>3. CASE bg' = [bg EXCEPT !.at = "installing"] \/ bg' = [bg EXCEPT !.at = "committing"]
      <4>1. bg'.manual = bg.manual /\ bg'.at \in {"installing", "committing"}
        <5>1. \A a \in {"building", "installing", "working", "committing"} :
                [bg EXCEPT !.at = a].manual = bg.manual /\ [bg EXCEPT !.at = a].at = a
          BY <1>0, BgManual, Zenon
        <5>2. CASE bg' = [bg EXCEPT !.at = "installing"]
          BY <5>1, <5>2, Zenon
        <5>3. CASE bg' = [bg EXCEPT !.at = "committing"]
          BY <5>1, <5>3, Zenon
        <5> QED BY <3>3, <5>2, <5>3
      <4>2. bg'.at # "dead" /\ manual' = manual
        BY <3>2, <4>1
      <4> QED BY <2>2, <4>1, <4>2, Zenon
    <3>4. CASE bg' = [bg EXCEPT !.at = "building", !.nested = TRUE]
      <4>1. bg'.manual = bg.manual /\ bg'.at = "building"
        BY <1>0, <3>1, <3>4, BgManual, Zenon
      <4> QED BY <2>2, <3>2, <4>1
    <3> QED BY <3>2, <3>3, <3>4
  <2>6. CASE TableNotBuilt \/ TableInstalled \/ TableNotInstalled
    <3>1. FlushReturns /\ manual' = manual
      BY <2>6, Zenon DEF TableNotBuilt, TableInstalled, TableNotInstalled, FlushFails
    <3>2. EndBackgroundCall \/ bg' = [bg EXCEPT !.at = "working", !.nested = FALSE]
      BY <3>1, Zenon DEF FlushReturns
    <3>3. FALSE \in BOOLEAN
      OBVIOUS
    <3> QED BY <1>0, <2>2, <2>3, <3>1, <3>2, <3>3, BgManual, Zenon
  <2>7. CASE CompactionFails \/ CompactionCommitted \/ CompactionNotCommitted
    <3>1. \E failed \in BOOLEAN : EndCompaction(failed)
      BY <2>7, Zenon DEF CompactionFails, CompactionCommitted, CompactionNotCommitted
    <3>2. ~bg.manual
      BY Zenon DEF NoManual
    <3>3. EndBackgroundCall /\ manual' = manual
      BY <3>1, <3>2, Zenon DEF EndCompaction
    <3> QED BY <2>3, <3>3
  <2> QED BY <1>2, <2>4, <2>5, <2>6, <2>7 DEF Background
<1>3. ASSUME NEW t \in Threads, Called(t) \/ Step(t) PROVE NoManual'
  <2>1. ~CompactRange(t) /\ ~RequestCompaction(t) /\ ~CompactRangeReturns(t)
    BY DEF CompactRange, RequestCompaction, CompactRangeReturns, Runs, NoManual
  <2>2. manual' = manual
    BY <1>3, <2>1 DEF Called, Step, Write, Close, Wake, YieldError, Delay, Awaken, WaitForRoom,
       SwitchMemTable, NewLogFails, NothingToWrite, StartLogging, AddRecord, AddRecordFails,
       FinishWrite, CompactMemTableWaits, CompactMemTableReturns, CloseGoesOn
  <2>3. bg' = bg \/ MaybeScheduleCompaction
    BY <1>3, <2>1 DEF Called, Step, Write, Close, Wake, YieldError, Delay, Awaken, WaitForRoom,
       SwitchMemTable, NewLogFails, NothingToWrite, StartLogging, AddRecord, AddRecordFails,
       FinishWrite, CompactMemTableWaits, CompactMemTableReturns, CloseGoesOn
  <2>4. ~bg'.manual /\ bg'.at # "dead"
    <3>1. CASE bg' = bg
      BY <3>1, Zenon DEF NoManual
    <3>2. CASE bg' = [Resting EXCEPT !.at = "scheduled"]
      <4>1. bg'.at # "dead"
        BY <3>2, BgRecords
      <4> QED BY <3>2, <4>1, RestingManual, Zenon
    <3> QED BY <2>3, <3>1, <3>2, Zenon DEF MaybeScheduleCompaction
  <2>5. \A u \in Threads : pc'[u] # "compacting"
    <3>1. \/ pc' = pc
          \/ \E place \in Places \ {"compacting"} : pc' = [pc EXCEPT ![t] = place]
      <4>1. CASE \/ (\E op \in Ops, n \in Sizes : Write(t, op, n)) \/ Close(t) \/ Delay(t)
                 \/ Awaken(t) \/ WaitForRoom(t) \/ SwitchMemTable(t) \/ StartLogging(t)
                 \/ AddRecord(t) \/ AddRecordFails(t) \/ CompactMemTableWaits(t)
                 \/ CompactMemTableReturns(t) \/ CloseGoesOn(t)
        BY <4>1 DEF Write, Close, Delay, Awaken, WaitForRoom, SwitchMemTable, StartLogging,
           AddRecord, AddRecordFails, CompactMemTableWaits, CompactMemTableReturns, CloseGoesOn,
           Go, Places
      <4>2. CASE Wake(t) \/ YieldError(t) \/ NewLogFails(t) \/ NothingToWrite(t) \/ FinishWrite(t)
        <5>1. (\E status : Return(t, status)) \/ Go(t, "leading") \/ pc' = pc
          BY <4>2, Zenon DEF Wake, YieldError, NewLogFails, NothingToWrite, FinishWrite, Complete
        <5> QED BY <5>1 DEF Return, Go, Places
      <4> QED BY <1>3, <2>1, <4>1, <4>2 DEF Called, Step
    <3> QED BY <1>0, <3>1 DEF NoManual
  <2> QED BY <2>2, <2>4, <2>5, Zenon DEF NoManual
<1>4. CASE UNCHANGED vars
  BY <1>4, Zenon DEF vars, NoManual
<1> QED BY <1>2, <1>3, <1>4 DEF Next

(* What the threads rely on (DBImpl::Write, BackgroundCall, ~DBImpl), where
   TEST_CompactRange is not called: nobody in the application and in the
   Realtime Database calls it. *)
THEOREM ThreadsAreSafeHere ==
  ASSUME "compact" \notin Ops
  PROVE  Spec => []ThreadsAreSafe
<1>1. Init => NoManual
  BY RestingManual, BgRecords, Zenon DEF Init, NoManual
<1>2. WriteInv /\ NoManual /\ [Next]_vars => NoManual'
  BY NoManualStays
<1>3. NoManual => SafeForThreads
  BY DEF NoManual, SafeForThreads
<1> QED BY <1>1, <1>2, <1>3, AlwaysWriteInv, ThreadsSafeWhileAlive, PTL DEF Spec
================================================================================
