------------------------------ MODULE LogFormat -------------------------------
(***************************************************************************)
(* LevelDB's log files (db/log_writer.cc, db/log_reader.cc): records are   *)
(* cut into fragments that fit into blocks, and a reader puts them         *)
(* together again after a crash.  The same format holds the write-ahead    *)
(* logs and the manifests.  A file is a sequence of bytes; a byte knows    *)
(* which header or payload it belongs to, so that a reader that is out of  *)
(* step with the writer sees what it really sees: bytes of other records.  *)
(***************************************************************************)
EXTENDS Integers, Sequences, SequencesExt

CONSTANTS
  kBlockSize,  \* bytes of a block
  kHeaderSize, \* bytes of the header of a fragment
  Sizes,       \* sizes of the records written
  MaxRecords,  \* bound: records written
  Offsets,     \* values of the reader's initial_offset
  Faults,      \* among "kill", "powerFail", "writeError" and "readError"
  MaxFaults,   \* bound: faults in a behaviour
  reuse_logs,  \* Options: a recovered log is appended to
  None         \* nothing

LogAssumption ==
  /\ kHeaderSize \in Nat /\ kHeaderSize > 1
  /\ kBlockSize \in Nat /\ kBlockSize > kHeaderSize
  /\ Sizes \subseteq Nat /\ Offsets \subseteq Nat
  /\ MaxRecords \in Nat /\ MaxFaults \in Nat
  /\ Faults \subseteq {"kill", "powerFail", "writeError", "readError"}
  /\ reuse_logs \in BOOLEAN

Types == {"full", "first", "middle", "last"}

(* Bytes: zero padding, the i-th byte of a fragment's header, the k-th byte
   of a record's payload.  A header names its fragment: the len bytes after
   the first k of record id. *)
Zero == [kind |-> "zero"]
Header == [kind : {"header"}, i : 1..kHeaderSize, type : Types,
           id : 1..MaxRecords, k : Nat, len : Nat]
Payload == [kind : {"payload"}, id : 1..MaxRecords, k : Nat]
Byte == {Zero} \cup Header \cup Payload

VARIABLES
  file,          \* the bytes the operating system has
  durable,       \* how many of them survive a power failure
  written,       \* sizes of the records given to AddRecord, by id
  acked,         \* the records for which AddRecord returned OK, in order, with
                 \* the part of the file they take; not those a power failure cut
  adding,        \* the call of AddRecord under way: its first byte, what is left
  blockOffset,   \* Writer::block_offset_
  phase,         \* "writing", "reading" or "read"
  initialOffset, \* Reader::initial_offset_
  buffer,        \* Reader::buffer_: the bytes from .from up to .to are unread
  eof,           \* Reader::eof_
  resyncing,     \* Reader::resyncing_
  scratch,       \* payload of a fragmented record, or None
  returned,      \* what ReadRecord has returned
  drops,         \* corruptions reported
  faults         \* the faults so far

writer == <<written, acked, adding, blockOffset>>
disk == <<file, durable>>
reader == <<initialOffset, buffer, eof, resyncing, scratch, returned, drops>>
vars == <<file, durable, written, acked, adding, blockOffset, phase,
          initialOffset, buffer, eof, resyncing, scratch, returned, drops, faults>>

Whole(id) == [k \in 1..written[id] |-> [kind |-> "payload", id |-> id, k |-> k]]

TypeOK ==
  /\ file \in Seq(Byte)
  /\ durable \in 0..Len(file)
  /\ written \in Seq(Sizes) /\ Len(written) <= MaxRecords
  /\ acked \in Seq([id : 1..MaxRecords, from : Nat, to : Nat])
  /\ adding = None \/ adding \in [from : Nat, left : Nat, begin : BOOLEAN]
  /\ blockOffset \in 0..kBlockSize
  /\ phase \in {"writing", "reading", "read"}
  /\ initialOffset \in Nat
  /\ buffer \in [from : Nat, to : Nat]
  /\ eof \in BOOLEAN /\ resyncing \in BOOLEAN
  /\ scratch = None \/ scratch \in Seq(Payload)
  /\ returned \in Seq(Seq(Payload))
  /\ drops \in Nat
  /\ faults \in Seq(Faults) /\ Len(faults) <= MaxFaults

Init ==
  /\ file = <<>> /\ durable = 0
  /\ written = <<>> /\ acked = <<>>
  /\ adding = None /\ blockOffset = 0
  /\ phase = "writing"
  /\ initialOffset = 0 /\ buffer = [from |-> 0, to |-> 0]
  /\ eof = FALSE /\ resyncing = FALSE
  /\ scratch = None /\ returned = <<>> /\ drops = 0
  /\ faults = <<>>

Fault(kind) ==
  kind \in Faults /\ Len(faults) < MaxFaults /\ faults' = Append(faults, kind)

-------------------------------------------------------------------------------
(* The writer. *)

(* A block with no room for a header is filled with zeros. *)
Leftover == kBlockSize - blockOffset
Padding == IF Leftover < kHeaderSize THEN Leftover ELSE 0

(* AddRecord is called with a record of n bytes. *)
AddRecord(n) ==
  /\ phase = "writing" /\ adding = None
  /\ Len(written) < MaxRecords
  /\ written' = Append(written, n)
  /\ adding' = [from |-> Len(file) + Padding, left |-> n, begin |-> TRUE]
  /\ UNCHANGED <<disk, acked, blockOffset, phase, reader, faults>>

(* One turn of AddRecord's loop.  The padding, the header and the payload go
   through one buffer, so that a write that fails leaves any prefix of them.
   block_offset_ moves on all the same. *)
Fragment ==
  LET start == IF Leftover < kHeaderSize THEN 0 ELSE blockOffset
      avail == kBlockSize - start - kHeaderSize
      len   == IF adding.left < avail THEN adding.left ELSE avail
      k     == written[Len(written)] - adding.left
      end   == adding.left = len
  IN [start |-> start,
      k     |-> k,
      len   |-> len,
      type  |-> IF adding.begin /\ end THEN "full" ELSE IF adding.begin THEN "first"
                ELSE IF end THEN "last" ELSE "middle"]

BytesOf(f) ==
  [i \in 1..Padding |-> Zero]
  \o [i \in 1..kHeaderSize |->
        [kind |-> "header", i |-> i, type |-> f.type, id |-> Len(written),
         k |-> f.k, len |-> f.len]]
  \o SubSeq(Whole(Len(written)), f.k + 1, f.k + f.len)

EmitPhysicalRecord ==
  /\ phase = "writing" /\ adding # None
  /\ LET f == Fragment IN
     /\ file' = file \o BytesOf(f)
     /\ blockOffset' = f.start + kHeaderSize + f.len
     /\ IF f.type \in {"full", "last"}
        THEN /\ adding' = None
             /\ acked' = Append(acked, [id |-> Len(written), from |-> adding.from,
                                        to |-> Len(file')])
        ELSE adding' = [adding EXCEPT !.left = @ - f.len, !.begin = FALSE] /\ UNCHANGED acked
  /\ UNCHANGED <<durable, written, phase, reader, faults>>

EmitFails ==
  /\ phase = "writing" /\ adding # None
  /\ Fault("writeError")
  /\ LET f == Fragment IN
     /\ \E n \in 0..(Len(BytesOf(f)) - 1) : file' = file \o SubSeq(BytesOf(f), 1, n)
     /\ blockOffset' = f.start + kHeaderSize + f.len
  /\ adding' = None
  /\ UNCHANGED <<durable, written, acked, phase, reader>>

(* The caller syncs the file after a record. *)
Sync ==
  /\ phase = "writing" /\ adding = None /\ durable < Len(file)
  /\ durable' = Len(file)
  /\ UNCHANGED <<file, written, acked, adding, blockOffset, phase, reader, faults>>

-------------------------------------------------------------------------------
(* A crash.  The process may die between two fragments; a power failure also
   loses any part of the file that was not synced. *)

Stop(n) ==
  /\ phase = "writing"
  /\ file' = SubSeq(file, 1, n)
  /\ durable' = n
  /\ adding' = None
  /\ acked' = SelectSeq(acked, LAMBDA a : a.to <= n)
  /\ \E offset \in Offsets :
       /\ initialOffset' = offset
       /\ resyncing' = (offset > 0)
       \* SkipToInitialBlock
       /\ LET inBlock == offset % kBlockSize
              block   == offset - inBlock
                         + IF inBlock > kBlockSize - (kHeaderSize - 1) THEN kBlockSize ELSE 0
          IN buffer' = [from |-> block, to |-> block]
  /\ phase' = "reading"
  /\ eof' = FALSE /\ scratch' = None /\ returned' = <<>> /\ drops' = 0
  /\ UNCHANGED <<written, blockOffset>>

Close == adding = None /\ Stop(Len(file)) /\ UNCHANGED faults
Kill == Fault("kill") /\ Stop(Len(file))
PowerFail ==
  Fault("powerFail") /\ \E n \in durable..Len(file) : Stop(n)

-------------------------------------------------------------------------------
(* The reader. *)

Size(b) == b.to - b.from

(* ReportDrop, with the unsigned wrap-around of its comparison. *)
Reported(b, bytes) ==
  IF b.from - bytes < 0 \/ b.from - bytes >= initialOffset THEN 1 ELSE 0

(* ReadPhysicalRecord fetches the next block; a short one is the last. *)
ReadBlock ==
  /\ phase = "reading" /\ Size(buffer) < kHeaderSize /\ ~eof
  /\ LET available == IF buffer.to > Len(file) THEN 0 ELSE Len(file) - buffer.to
         n == IF available < kBlockSize THEN available ELSE kBlockSize
     IN /\ buffer' = [from |-> buffer.to, to |-> buffer.to + n]
        /\ eof' = (n < kBlockSize)
  /\ UNCHANGED <<disk, writer, phase, initialOffset, resyncing, scratch, returned,
                 drops, faults>>

(* What ReadPhysicalRecord returns from a buffer with a header in it: the
   type, the fragment, what is left of the buffer, the bytes reported as
   dropped.  A header is trusted as far as its checksum goes: one that is not
   followed by its own payload is caught, and one that was not written as a
   header says anything. *)
At(i) == file[buffer.from + i]
Genuine == \A i \in 1..kHeaderSize :
             At(i).kind = "header" /\ At(i) = [At(1) EXCEPT !.i = i]
Empty == \A i \in 1..kHeaderSize : At(i) = Zero
Drained == [from |-> buffer.to, to |-> buffer.to]

Outcome(type, fragment, rest, dropped) ==
  [type |-> type, fragment |-> fragment, buffer |-> rest, dropped |-> dropped]

TooLong ==
  IF eof THEN Outcome("eof", <<>>, Drained, 0)
  ELSE Outcome("bad", <<>>, Drained, Size(buffer))
Mismatch == Outcome("bad", <<>>, Drained, Size(buffer))
Skipped == Outcome("bad", <<>>, Drained, 0)

PhysicalRecord ==
  LET h       == At(1)
      payload == SubSeq(file, buffer.from + kHeaderSize + 1,
                        buffer.from + kHeaderSize + h.len)
      rest    == [buffer EXCEPT !.from = @ + kHeaderSize + h.len]
  IN IF kHeaderSize + h.len > Size(buffer) THEN TooLong
     ELSE IF payload # [i \in 1..h.len |->
                          [kind |-> "payload", id |-> h.id, k |-> h.k + i]]
          THEN Mismatch
     ELSE IF buffer.from < initialOffset THEN Outcome("bad", <<>>, rest, 0)
     ELSE Outcome(h.type, payload, rest, 0)

ReadPhysicalRecord ==
  IF Size(buffer) < kHeaderSize THEN {Outcome("eof", <<>>, Drained, 0)}
  ELSE IF Genuine THEN {PhysicalRecord}
  ELSE IF Empty THEN {Skipped}
  ELSE {TooLong, Mismatch, Skipped}

(* ReadRecord's reaction to a physical record o: what it has collected of a
   fragmented record, what it returns and what it reports. *)
Partial == IF scratch \in {None, <<>>} THEN 0 ELSE Reported(buffer', Len(scratch))

FullRecord(o) ==
  /\ o.type = "full"
  /\ returned' = Append(returned, o.fragment)
  /\ scratch' = None
  /\ drops' = drops + Partial
  /\ UNCHANGED phase

(* A slip to rule out: the fragments of an unfinished record are kept. *)
FirstFragmentAdded(o) ==
  /\ o.type = "first"
  /\ scratch' = IF scratch = None THEN o.fragment ELSE scratch \o o.fragment
  /\ UNCHANGED <<returned, drops, phase>>

FirstFragment(o) ==
  /\ o.type = "first"
  /\ scratch' = o.fragment
  /\ drops' = drops + Partial
  /\ UNCHANGED <<returned, phase>>

NextFragment(o) ==
  /\ o.type \in {"middle", "last"}
  /\ IF scratch = None
     THEN /\ drops' = drops + Reported(buffer', Len(o.fragment))
          /\ UNCHANGED <<scratch, returned>>
     ELSE /\ IF o.type = "last"
             THEN returned' = Append(returned, scratch \o o.fragment) /\ scratch' = None
             ELSE scratch' = scratch \o o.fragment /\ UNCHANGED returned
          /\ UNCHANGED drops
  /\ UNCHANGED phase

BadRecord(o) ==
  /\ o.type = "bad"
  /\ scratch' = None
  /\ drops' = drops
       + (IF o.dropped > 0 THEN Reported(buffer', o.dropped) ELSE 0)
       + (IF scratch # None THEN Reported(buffer', Len(scratch)) ELSE 0)
  /\ UNCHANGED <<returned, phase>>

(* The end of the file, perhaps in the middle of a record. *)
EndOfFile(o) ==
  /\ o.type = "eof"
  /\ scratch' = None
  /\ phase' = "read"
  /\ UNCHANGED <<returned, drops>>

(* After a skip, the rest of a record that began earlier is passed over. *)
Resync(o) ==
  /\ UNCHANGED <<scratch, returned, drops, phase>>

ReadRecord ==
  /\ phase = "reading"
  /\ Size(buffer) >= kHeaderSize \/ eof
  /\ \E o \in ReadPhysicalRecord :
       /\ buffer' = o.buffer
       /\ resyncing' = (resyncing /\ o.type = "middle")
       /\ IF resyncing /\ o.type \in {"middle", "last"}
          THEN Resync(o)
          ELSE \/ FullRecord(o)
               \/ FirstFragment(o)
               \/ NextFragment(o)
               \/ BadRecord(o)
               \/ EndOfFile(o)
  /\ UNCHANGED <<disk, writer, initialOffset, eof, faults>>

(* The file cannot be read: what is left of it is dropped. *)
ReadFails ==
  /\ phase = "reading" /\ Size(buffer) < kHeaderSize /\ ~eof
  /\ Fault("readError")
  /\ buffer' = Drained
  /\ eof' = TRUE
  /\ drops' = drops + Reported(Drained, kBlockSize)
  /\ scratch' = None
  /\ phase' = "read"
  /\ UNCHANGED <<disk, writer, initialOffset, resyncing, returned>>

(* RecoverLogFile keeps the log and appends to it: a Writer that is told the
   file's length. *)
Reuse ==
  /\ reuse_logs /\ phase = "read" /\ initialOffset = 0
  /\ blockOffset' = Len(file) % kBlockSize
  /\ phase' = "writing"
  /\ UNCHANGED <<disk, written, acked, adding, reader, faults>>

Next ==
  \/ \E n \in Sizes : AddRecord(n)
  \/ EmitPhysicalRecord \/ EmitFails \/ Sync
  \/ Close \/ Kill \/ PowerFail
  \/ ReadBlock \/ ReadRecord \/ ReadFails
  \/ Reuse

Spec == Init /\ [][Next]_vars

-------------------------------------------------------------------------------
(* Properties. *)

(* What is on the disk, from the reader's initial offset on. *)
Expected ==
  LET within == SelectSeq(acked, LAMBDA a : a.from >= initialOffset)
  IN [i \in 1..Len(within) |-> Whole(within[i].id)]

(* After a crash between or inside the fragments of a record, ReadRecord has
   returned exactly the complete records at or after the initial offset; if
   the file could not be read, the first of them, and the loss is reported to
   a reader from the start. *)
CompleteRecords ==
  phase = "read" =>
    \/ returned = Expected
    \/ /\ "readError" \in Range(faults) /\ IsPrefix(returned, Expected)
       /\ initialOffset = 0 => drops > 0

(* A log that ends in the middle of a record is no corruption. *)
TornTailIsSilent ==
  drops > 0 /\ initialOffset = 0 => "readError" \in Range(faults)

(* Whatever write errors leave in the file, ReadRecord returns only records
   that were written, whole, in their order. *)
NoInvention ==
  \A i \in DOMAIN returned : \E id \in DOMAIN written :
    /\ returned[i] = Whole(id)
    /\ \A j \in 1..(i - 1) : \E d \in 1..(id - 1) : returned[j] = Whole(d)

(* No acknowledged record is lost, as long as the machine does not crash. *)
AcknowledgedAreRead ==
  phase = "read" => \A i \in DOMAIN acked : Whole(acked[i].id) \in Range(returned)

===============================================================================
