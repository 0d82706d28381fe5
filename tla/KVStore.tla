-------------------------------- MODULE KVStore --------------------------------
(***************************************************************************)
(* What a LevelDB database promises about its writes when the process or   *)
(* the machine fails (include/leveldb/options.h, WriteOptions::sync): a    *)
(* write that was acknowledged is there until the machine fails, and for   *)
(* good if it was made with sync.  A write that was neither acknowledged   *)
(* nor refused before a crash, or that failed, may or may not be there     *)
(* after it; once the database is open again that is settled.  Behind a    *)
(* write that failed another one may be acknowledged that is in doubt too: *)
(* readers find it, but perhaps no longer after a crash.                   *)
(***************************************************************************)
CONSTANT Write    \* the writes ever made, each of them once

VARIABLES
  contents,       \* what a reader finds, now or when the database is open again
  durable,        \* the writes acknowledged with sync
  doubtful        \* the writes under way or failed, or acknowledged behind a failed one

vars == <<contents, durable, doubtful>>

Init == contents = {} /\ durable = {} /\ doubtful = {}

Begin(w) ==
  /\ doubtful' = doubtful \cup {w}
  /\ UNCHANGED <<contents, durable>>

Acknowledge(w, sync) ==
  /\ w \in doubtful
  /\ doubtful' = doubtful \ {w}
  /\ contents' = contents \cup {w}
  /\ durable' = IF sync THEN durable \cup {w} ELSE durable

AcknowledgeInDoubt(w) ==
  /\ w \in doubtful
  /\ doubtful # {w}
  /\ contents' = contents \cup {w}
  /\ UNCHANGED <<durable, doubtful>>

ProcessCrash ==
  /\ \E d \in SUBSET doubtful : contents' = (contents \ doubtful) \cup d
  /\ UNCHANGED <<durable, doubtful>>

MachineCrash ==
  /\ \E s \in SUBSET (contents \cup doubtful) : durable \subseteq s /\ contents' = s
  /\ doubtful' = {}
  /\ UNCHANGED durable

Open ==
  /\ doubtful' = {}
  /\ UNCHANGED <<contents, durable>>

Next ==
  \/ \E w \in Write : Begin(w)
  \/ \E w \in Write, sync \in BOOLEAN : Acknowledge(w, sync)
  \/ \E w \in Write : AcknowledgeInDoubt(w)
  \/ ProcessCrash \/ MachineCrash \/ Open

Spec == Init /\ [][Next]_vars
===============================================================================
