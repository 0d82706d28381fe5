------------------------------ MODULE WritableFile ------------------------------
(***************************************************************************)
(* PosixWritableFile (util/env_posix.cc): appends go into a buffer, from   *)
(* the buffer into the operating system's file, from there to the disk,    *)
(* when it is synced or earlier.  Writes may stop half way and any call    *)
(* may fail.  The bytes of a file are numbered as they are given.          *)
(*                                                                         *)
(* In a manifest byte n stands for the mention of table n, which was       *)
(* created before; a table's directory entry reaches the disk with the     *)
(* directory.                                                              *)
(***************************************************************************)
EXTENDS Integers, Sequences, SequencesExt, FiniteSets, FiniteSetsExt

CONSTANTS
  is_manifest_,
  BufferSize,   \* kWritableFileBufferSize
  MaxAppend,    \* bound: bytes of an append
  MaxBytes,     \* bound: bytes of the file
  Failing       \* whether calls of the operating system may fail

WritableFileAssumption ==
  /\ {is_manifest_, Failing} \subseteq BOOLEAN
  /\ {BufferSize, MaxAppend, MaxBytes} \subseteq Nat \ {0}

VARIABLES
  given,     \* the number of bytes given to Append
  buf,       \* buf_[0, pos_ - 1]
  file,      \* what the operating system has
  durable,   \* how much of it is on disk
  dir,       \* tables whose directory entry is on disk
  open,      \* fd_ >= 0
  failed,    \* some call has returned an error
  acked      \* bytes given before the last Sync that returned OK

vars == <<given, buf, file, durable, dir, open, failed, acked>>

Bytes(from, to) == [i \in 1..to - from + 1 |-> from + i - 1]

(* WriteUnbuffered: write may write less than asked for, and is called again;
   when it fails, what was written stays.  An outcome is what was written and
   whether all was. *)
Outcomes(data) ==
  {[written |-> data, ok |-> TRUE]} \cup
  IF Failing THEN {[written |-> SubSeq(data, 1, n), ok |-> FALSE] : n \in 0..Len(data) - 1}
  ELSE {}
WriteUnbuffered(data) == IF data = <<>> THEN {[written |-> <<>>, ok |-> TRUE]} ELSE Outcomes(data)

SystemCall == IF Failing THEN BOOLEAN ELSE {TRUE}

Init ==
  /\ given = 0
  /\ buf = <<>>
  /\ file = <<>>
  /\ durable = 0
  /\ dir = 0
  /\ open = TRUE
  /\ failed = FALSE
  /\ acked = 0

-------------------------------------------------------------------------------
(* The bytes that still fit. *)
CopySize(n) == Min({n, BufferSize - Len(buf)})

(* As much as fits goes into the buffer; if that is not all the buffer is
   written, and the rest goes into it, or straight to the file. *)
AppendData(n) ==
  /\ open
  /\ given + n <= MaxBytes
  /\ given' = given + n
  /\ LET copy == CopySize(n)
         full == buf \o Bytes(given + 1, given + copy)
         rest == Bytes(given + copy + 1, given + n)
     IN IF rest = <<>> THEN buf' = full /\ UNCHANGED <<file, failed>>
        ELSE \E f \in WriteUnbuffered(full), r \in WriteUnbuffered(rest) :
               IF ~f.ok THEN /\ file' = file \o f.written
                             /\ buf' = <<>> /\ failed' = TRUE
               ELSE IF Len(rest) < BufferSize
                    THEN file' = file \o f.written /\ buf' = rest /\ UNCHANGED failed
               ELSE /\ file' = file \o f.written \o r.written
                    /\ buf' = <<>> /\ failed' = (failed \/ ~r.ok)
  /\ UNCHANGED <<durable, dir, open, acked>>

(* FlushBuffer empties the buffer whether it could be written or not.  A slip
   to rule out is to leave it, and to write it twice. *)
FlushBufferTwice(f) == file' = file \o f.written /\ buf' = buf
FlushBuffer(f) == file' = file \o f.written /\ buf' = <<>>

Flush ==
  /\ open
  /\ \E f \in WriteUnbuffered(buf) : FlushBuffer(f) /\ failed' = (failed \/ ~f.ok)
  /\ UNCHANGED <<given, durable, dir, open, acked>>

(* The directory of a manifest, the buffer, the file. *)
Sync ==
  /\ open
  /\ \E d \in SystemCall, f \in WriteUnbuffered(buf), s \in SystemCall :
       IF is_manifest_ /\ ~d THEN failed' = TRUE /\ UNCHANGED <<buf, file, durable, dir, acked>>
       ELSE /\ dir' = IF is_manifest_ THEN given ELSE dir
            /\ FlushBuffer(f)
            /\ failed' = (failed \/ ~f.ok \/ ~s)
            /\ durable' = IF f.ok /\ s THEN Len(file') ELSE durable
            /\ acked' = IF f.ok /\ s THEN given ELSE acked
  /\ UNCHANGED <<given, open>>

(* Close, also by the destructor, which does not look at the status. *)
Close ==
  /\ open
  /\ \E f \in WriteUnbuffered(buf), c \in SystemCall :
       FlushBuffer(f) /\ failed' = (failed \/ ~f.ok \/ ~c)
  /\ open' = FALSE
  /\ UNCHANGED <<given, durable, dir, acked>>

-------------------------------------------------------------------------------
(* The operating system writes to the disk when it likes. *)
WriteBack ==
  /\ durable < Len(file)
  /\ durable' = durable + 1
  /\ UNCHANGED <<given, buf, file, dir, open, failed, acked>>
WriteBackDirectory ==
  /\ is_manifest_ /\ dir < given
  /\ dir' = given
  /\ UNCHANGED <<given, buf, file, durable, open, failed, acked>>

Next ==
  \/ \E n \in 1..MaxAppend : AppendData(n)
  \/ Flush \/ Sync \/ Close \/ WriteBack \/ WriteBackDirectory

Spec == Init /\ [][Next]_vars

-------------------------------------------------------------------------------
(* Properties. *)

(* The buffer never overflows. *)
TypeOK == Len(buf) <= BufferSize /\ durable <= Len(file) /\ acked <= given

(* While no call fails every byte is in the file or the buffer, in order, and
   in the file once it is closed: across partial writes, appends larger than
   the buffer, and destructors. *)
NothingLost ==
  ~failed => file \o buf = Bytes(1, given) /\ (~open => buf = <<>>)

(* What was given before a Sync that succeeded is on disk, and so are the
   directory entries of the tables a manifest mentions there. *)
SyncedIsDurable == ~failed => durable >= acked /\ (is_manifest_ => dir >= acked)

(* Failures lose bytes, but never write one twice or out of order. *)
StillInOrder == \A i, j \in DOMAIN (file \o buf) : i < j => (file \o buf)[i] < (file \o buf)[j]

(* All three. *)
FilesAreRight == NothingLost /\ SyncedIsDurable /\ StillInOrder
===============================================================================
