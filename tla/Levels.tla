-------------------------------- MODULE Levels --------------------------------
(***************************************************************************)
(* The tables of a LevelDB database (db/version_set.cc and the compactions *)
(* of db/db_impl.cc): which files make up a version, where a lookup finds  *)
(* a key in them, where a flushed memtable goes, which files a compaction  *)
(* takes, and which entries it drops.  Entries are (user key, sequence     *)
(* number, type); a file is known by its number and its entries, and its   *)
(* size is their number.  The single background thread flushes memtables   *)
(* also while a compaction is under way.                                   *)
(***************************************************************************)
EXTENDS Integers, Sequences, SequencesExt, FiniteSets, FiniteSetsExt

CONSTANTS
  Keys,                 \* user keys, numbers in their order
  Types,                \* types of the entries written: "put" and "del"
  MaxWrites,            \* bound: entries written
  write_buffer_size,    \* entries of a memtable at most
  MaxSnapshots,         \* bound: snapshots taken
  MaxSeeks,             \* bound: lookups that are charged to a file
  Ranges,               \* what manual compactions are asked for: <<level, begin, end>>
  MaxManual,            \* bound: manual compactions
  FlushDuring,          \* compactions that meet a full memtable: "auto", "manual"
  kNumLevels, kL0_CompactionTrigger, kMaxMemCompactLevel,
  max_file_size,        \* entries after which an output file is closed
  kLevel1Size, kGrowth, \* MaxBytesForLevel
  kGrandParentOverlap,  \* MaxGrandParentOverlapBytes
  kExpandedCompaction,  \* ExpandedCompactionByteSizeLimit
  kAllowedSeeks,        \* lookups before a file is compacted
  None

LevelsAssumption ==
  /\ Keys \subseteq Nat \ {0} /\ Types \subseteq {"put", "del"}
  /\ FlushDuring \subseteq {"auto", "manual"}
  /\ {MaxWrites, write_buffer_size, MaxSnapshots, MaxSeeks, MaxManual, kGrandParentOverlap,
      kExpandedCompaction} \subseteq Nat
  /\ {kL0_CompactionTrigger, max_file_size, kLevel1Size, kGrowth, kAllowedSeeks}
       \subseteq Nat \ {0}
  /\ kNumLevels \in Nat /\ kMaxMemCompactLevel \in 0..(kNumLevels - 2)

VARIABLES
  last_sequence,    \* VersionSet::last_sequence_
  history,          \* every entry ever written
  mem,              \* the entries that are not yet in a table
  snapshots,        \* sequence numbers of the live snapshots
  files,            \* Version::files_ of the current version, a set for each level
  file_to_compact,  \* of the current version: [file, level], or None
  seeks,            \* lookups charged to a file, by its number
  compact_pointer,  \* VersionSet::compact_pointer_, a key or None for each level
  next_file_number,
  compaction,       \* the compaction under way, or None
  manual,           \* manual_compaction_: level, begin and end, with the files that
                    \* were there when it was asked for; or None
  taken             \* numbers of snapshots and of manual compactions so far

vars == <<last_sequence, history, mem, snapshots, files, file_to_compact, seeks,
          compact_pointer, next_file_number, compaction, manual, taken>>

Levels == 0..(kNumLevels - 1)
MaxKey == Max(Keys)
Entry == [key : Keys, seq : 1..MaxWrites, type : Types]
IsFile(f) == f.number \in Nat /\ f.entries # {} /\ f.entries \subseteq Entry

-------------------------------------------------------------------------------
(* Internal keys: ascending user keys, descending sequence numbers. *)

Precedes(a, b) == a.key < b.key \/ (a.key = b.key /\ a.seq > b.seq)
Sorted(entries) == SetToSortSeq(entries, Precedes)
Smallest(f) == CHOOSE e \in f.entries : \A d \in f.entries \ {e} : Precedes(e, d)
Largest(f) == CHOOSE e \in f.entries : \A d \in f.entries \ {e} : Precedes(d, e)

BySmallestKey(f, g) ==
  \/ Precedes(Smallest(f), Smallest(g))
  \/ Smallest(f) = Smallest(g) /\ f.number < g.number
InOrder(fs) == SetToSortSeq(fs, BySmallestKey)

TotalFileSize(fs) == MapThenSumSet(LAMBDA f : Cardinality(f.entries), fs)

(* AfterFile, BeforeFile: the user keys from begin to end meet the file. *)
Overlaps(f, begin, end) == begin <= Largest(f).key /\ Smallest(f).key <= end

OverlapInLevel(version, level, begin, end) ==
  \E f \in version[level] : Overlaps(f, begin, end)

MetInLevel(version, level, begin, end) == {f \in version[level] : Overlaps(f, begin, end)}

(* At level 0 the files overlap, and one that sticks out of the range widens
   it: the least range that holds every file it meets. *)
GetOverlappingInputs(version, level, begin, end) ==
  IF level > 0 THEN MetInLevel(version, level, begin, end)
  ELSE LET Met(b, e) == {f \in version[0] : Overlaps(f, b, e)}
           Holds(b, e) == \A f \in Met(b, e) : b <= Smallest(f).key /\ Largest(f).key <= e
           Starts == {begin} \cup {Smallest(f).key : f \in version[0]}
           Ends == {end} \cup {Largest(f).key : f \in version[0]}
           r == CHOOSE r \in Starts \X Ends :
                  /\ r[1] <= begin /\ end <= r[2] /\ Holds(r[1], r[2])
                  /\ \A q \in Starts \X Ends :
                       q[1] <= begin /\ end <= q[2] /\ Holds(q[1], q[2]) =>
                         q[1] <= r[1] /\ r[2] <= q[2]
       IN Met(r[1], r[2])

-------------------------------------------------------------------------------
(* Lookups. *)

(* The newest entry of a key that a snapshot sees. *)
Find(entries, key, snapshot) ==
  LET seen == {e \in entries : e.key = key /\ e.seq <= snapshot} IN
  IF seen = {} THEN None ELSE CHOOSE e \in seen : \A d \in seen : d.seq <= e.seq

(* FindFile: the first file whose largest key is not before the one sought. *)
FindFile(fs, key, snapshot) ==
  LET later == {f \in fs : ~Precedes(Largest(f), [key |-> key, seq |-> snapshot])} IN
  IF later = {} THEN None ELSE InOrder(later)[1]

(* The files that a lookup reads, with their levels, in its order: at level 0
   the newest first, deeper the one that FindFile names. *)
ForEachOverlapping(version, key, snapshot) ==
  LET level0 == SetToSortSeq({f \in version[0] : Overlaps(f, key, key)},
                             LAMBDA f, g : f.number > g.number)
      Deeper(level) ==
        LET f == FindFile(version[level], key, snapshot) IN
        IF f = None \/ key < Smallest(f).key THEN <<>> ELSE <<[file |-> f, level |-> level]>>
  IN [i \in DOMAIN level0 |-> [file |-> level0[i], level |-> 0]]
     \o FlattenSeq([level \in 1..(kNumLevels - 1) |-> Deeper(level)])

(* The place where the key is found, 0 if it is not. *)
FoundAt(places, key, snapshot) ==
  SelectInSeq(places, LAMBDA p : Find(p.file.entries, key, snapshot) # None)

VersionGet(version, key, snapshot) ==
  LET places == ForEachOverlapping(version, key, snapshot)
      i == FoundAt(places, key, snapshot)
  IN IF i = 0 THEN None ELSE Find(places[i].file.entries, key, snapshot)

Get(key, snapshot) ==
  LET e == Find(mem, key, snapshot) IN
  IF e # None THEN e ELSE VersionGet(files, key, snapshot)

(* What the caller sees of an entry. *)
Value(e) == IF e = None THEN None ELSE IF e.type = "del" THEN None ELSE e.seq

-------------------------------------------------------------------------------
TypeOK ==
  /\ last_sequence \in 0..MaxWrites
  /\ history \subseteq Entry /\ mem \subseteq history
  /\ snapshots \subseteq 0..MaxWrites
  /\ DOMAIN files = Levels /\ \A l \in Levels : \A f \in files[l] : IsFile(f)
  /\ file_to_compact = None
     \/ file_to_compact.file \in files[file_to_compact.level]
  /\ \A n \in DOMAIN seeks : n < next_file_number
  /\ DOMAIN compact_pointer = Levels
  /\ next_file_number \in Nat
  /\ compaction = None
     \/ \A i \in {0, 1} : compaction.inputs[i] \subseteq files[compaction.level + i]
  /\ manual = None \/ manual.level + 1 \in Levels
  /\ taken.snapshots \in 0..MaxSnapshots /\ taken.manual \in 0..MaxManual
  /\ taken.seeks \in 0..MaxSeeks

Init ==
  /\ last_sequence = 0 /\ history = {} /\ mem = {} /\ snapshots = {}
  /\ files = [l \in Levels |-> {}]
  /\ file_to_compact = None /\ seeks = <<>>
  /\ compact_pointer = [l \in Levels |-> None]
  /\ next_file_number = 1
  /\ compaction = None /\ manual = None
  /\ taken = [snapshots |-> 0, manual |-> 0, seeks |-> 0]

Write(key, type) ==
  /\ last_sequence < MaxWrites /\ Cardinality(mem) < write_buffer_size
  /\ last_sequence' = last_sequence + 1
  /\ LET e == [key |-> key, seq |-> last_sequence + 1, type |-> type] IN
     history' = history \cup {e} /\ mem' = mem \cup {e}
  /\ UNCHANGED <<snapshots, files, file_to_compact, seeks, compact_pointer,
                 next_file_number, compaction, manual, taken>>

GetSnapshot ==
  /\ taken.snapshots < MaxSnapshots
  /\ taken' = [taken EXCEPT !.snapshots = @ + 1]
  /\ snapshots' = snapshots \cup {last_sequence}
  /\ UNCHANGED <<last_sequence, history, mem, files, file_to_compact, seeks,
                 compact_pointer, next_file_number, compaction, manual>>

ReleaseSnapshot(s) ==
  /\ s \in snapshots
  /\ snapshots' = snapshots \ {s}
  /\ UNCHANGED <<last_sequence, history, mem, files, file_to_compact, seeks,
                 compact_pointer, next_file_number, compaction, manual, taken>>

-------------------------------------------------------------------------------
(* Lookups that read more than one file are charged to the first of them;
   a file with too many charges is compacted. *)

UpdateStats(place) ==
  LET n == place.file.number
      count == IF n \in DOMAIN seeks THEN seeks[n] + 1 ELSE 1
  IN /\ seeks' = [m \in DOMAIN seeks \cup {n} |-> IF m = n THEN count ELSE seeks[m]]
     /\ file_to_compact' = IF count >= kAllowedSeeks /\ file_to_compact = None
                           THEN place ELSE file_to_compact

Charge(place) ==
  /\ taken.seeks < MaxSeeks
  /\ taken' = [taken EXCEPT !.seeks = @ + 1]
  /\ UpdateStats(place)
  /\ UNCHANGED <<last_sequence, history, mem, snapshots, files, compact_pointer,
                 next_file_number, compaction, manual>>

(* A Get that reads on after a miss. *)
GetCharges(key) ==
  LET places == ForEachOverlapping(files, key, last_sequence) IN
  /\ Find(mem, key, last_sequence) = None
  /\ Len(places) >= 2 /\ FoundAt(places, key, last_sequence) # 1
  /\ Charge(places[1])

(* An iterator at a key that two files may hold. *)
RecordReadSample(key) ==
  LET places == ForEachOverlapping(files, key, last_sequence) IN
  /\ Len(places) >= 2
  /\ Charge(places[1])

-------------------------------------------------------------------------------
(* LogAndApply: a new version, without the deleted files and with the new. *)
Apply(version, deleted, level, added) ==
  [l \in Levels |-> (version[l] \ deleted) \cup (IF l = level THEN added ELSE {})]

(* A new version starts with no file to compact. *)
NoFileToCompact == file_to_compact' = None

(* A memtable that meets no file of a level goes below it, unless it would
   meet too much two levels further down. *)
PickLevelForMemTableOutput(version, begin, end) ==
  LET Passes(level) ==
        /\ ~OverlapInLevel(version, level + 1, begin, end)
        /\ level + 2 < kNumLevels =>
             TotalFileSize(GetOverlappingInputs(version, level + 2, begin, end))
               <= kGrandParentOverlap
  IN IF OverlapInLevel(version, 0, begin, end) THEN 0
     ELSE Max({l \in 0..kMaxMemCompactLevel : \A m \in 0..(l - 1) : Passes(m)})

(* CompactMemTable: the memtable becomes a file. *)
CompactMemTable ==
  /\ mem # {}
  /\ compaction # None =>
       (IF compaction.manual THEN "manual" ELSE "auto") \in FlushDuring
  /\ LET f == [number |-> next_file_number, entries |-> mem]
         level == PickLevelForMemTableOutput(files, Smallest(f).key, Largest(f).key)
     IN files' = Apply(files, {}, level, {f})
  /\ mem' = {}
  /\ next_file_number' = next_file_number + 1
  /\ NoFileToCompact
  /\ UNCHANGED <<last_sequence, history, snapshots, seeks, compact_pointer,
                 compaction, manual, taken>>

-------------------------------------------------------------------------------
(* The inputs of a compaction. *)

Begin(fs) == Min({Smallest(f).key : f \in fs})
End(fs) == Max({Largest(f).key : f \in fs})
LastKey(fs) == CHOOSE e \in {Largest(f) : f \in fs} :
                 \A f \in fs : Largest(f) = e \/ Precedes(Largest(f), e)

(* A slip to rule out: files that share a user key are parted. *)
AddNoBoundaryInputs(level_files, fs) == fs

(* Files that go on with the user key where the inputs end, one after the
   other: they follow each other in the level without a gap between keys. *)
AddBoundaryInputs(level_files, fs) ==
  IF fs = {} THEN fs
  ELSE LET Boundary(last, f) == Precedes(last, Smallest(f)) /\ Smallest(f).key = last.key
           Chain(k) == \* the files reached in at most k steps
             LET reach[i \in 0..k] ==
                   IF i = 0 THEN [files |-> fs, last |-> LastKey(fs)]
                   ELSE LET next == {f \in level_files : Boundary(reach[i - 1].last, f)} IN
                        IF next = {} THEN reach[i - 1]
                        ELSE LET b == InOrder(next)[1] IN
                             [files |-> reach[i - 1].files \cup {b}, last |-> Largest(b)]
             IN reach[k].files
       IN Chain(Cardinality(level_files))

(* The files, those that share a user key with them, and what all these meet at
   the next level. *)
InputsFrom(version, level, fs) ==
  LET first == AddBoundaryInputs(version[level], fs) IN
  [i \in {0, 1} |-> IF i = 0 THEN first
                    ELSE GetOverlappingInputs(version, level + 1, Begin(first), End(first))]

(* More files of the level are taken if that costs nothing at the next one. *)
Expand(inputs, more) ==
  IF /\ inputs[1] # {}
     /\ Cardinality(more[0]) > Cardinality(inputs[0])
     /\ TotalFileSize(inputs[1]) + TotalFileSize(more[0]) < kExpandedCompaction
     /\ Cardinality(more[1]) = Cardinality(inputs[1])
  THEN more ELSE inputs

ExpandedInputs(version, level, inputs) ==
  LET all == inputs[0] \cup inputs[1]
      met == GetOverlappingInputs(version, level, Begin(all), End(all))
  IN Expand(inputs, InputsFrom(version, level, met))

Grandparents(version, level, all) ==
  IF level + 2 < kNumLevels
  THEN GetOverlappingInputs(version, level + 2, Begin(all), End(all)) ELSE {}

NewCompaction(version, level, inputs) ==
  [level        |-> level,
   inputs       |-> inputs,
   grandparents |-> Grandparents(version, level, inputs[0] \cup inputs[1]),
   deeper       |-> UNION {version[l] : l \in (level + 2)..(kNumLevels - 1)},
   oldest       |-> IF snapshots = {} THEN last_sequence ELSE Min(snapshots),
   manual       |-> FALSE]

SetupOtherInputs(version, level, picked) ==
  NewCompaction(version, level,
                ExpandedInputs(version, level, InputsFrom(version, level, picked)))

(* Finalize: the level that is most in need, as a ratio. *)
Limit(level) == IF level = 0 THEN kL0_CompactionTrigger ELSE kLevel1Size * kGrowth^(level - 1)
Load(version, level) ==
  IF level = 0 THEN Cardinality(version[0]) ELSE TotalFileSize(version[level])
Better(version, l, m) == Load(version, l) * Limit(m) > Load(version, m) * Limit(l)
BestLevel(version) ==
  CHOOSE l \in 0..(kNumLevels - 2) :
    /\ \A m \in 0..(kNumLevels - 2) : ~Better(version, m, l)
    /\ \A m \in 0..(l - 1) : Better(version, l, m)

(* PickCompaction: the file after the compaction pointer of the best level, or
   the one that lookups are charged to; at level 0 with all it overlaps. *)
PickedFile ==
  LET level == BestLevel(files)
      after == {f \in files[level] : \/ compact_pointer[level] = None
                                     \/ Precedes(compact_pointer[level], Largest(f))}
  IN IF Load(files, level) >= Limit(level)
     THEN [file  |-> InOrder(IF after = {} THEN files[level] ELSE after)[1],
           level |-> level]
     ELSE file_to_compact

PickCompaction(p) ==
  SetupOtherInputs(files, p.level,
    IF p.level > 0 THEN {p.file}
    ELSE GetOverlappingInputs(files, 0, Smallest(p.file).key, Largest(p.file).key))

IsTrivialMove(c) ==
  /\ Cardinality(c.inputs[0]) = 1 /\ c.inputs[1] = {}
  /\ TotalFileSize(c.grandparents) <= kGrandParentOverlap

(* BackgroundCompaction without a manual one: a single file that meets
   nothing just moves. *)
StartCompaction ==
  /\ compaction = None /\ manual = None
  /\ \E p \in {PickedFile} \ {None} : \E c \in {PickCompaction(p)} :
     /\ compact_pointer' = [compact_pointer EXCEPT ![c.level] = LastKey(c.inputs[0])]
     /\ IF IsTrivialMove(c)
        THEN /\ files' = Apply(files, c.inputs[0], c.level + 1, c.inputs[0])
             /\ NoFileToCompact
             /\ UNCHANGED compaction
        ELSE compaction' = c /\ UNCHANGED <<files, file_to_compact>>
  /\ UNCHANGED <<last_sequence, history, mem, snapshots, seeks, next_file_number,
                 manual, taken>>

-------------------------------------------------------------------------------
(* Manual compactions. *)

RequestCompaction(r) ==
  /\ taken.manual < MaxManual /\ manual = None
  /\ taken' = [taken EXCEPT !.manual = @ + 1]
  /\ manual' = [level |-> r[1], begin |-> r[2], end |-> r[3],
                wanted |-> GetOverlappingInputs(files, r[1], r[2], r[3])]
  /\ UNCHANGED <<last_sequence, history, mem, snapshots, files, file_to_compact, seeks,
                 compact_pointer, next_file_number, compaction>>

(* VersionSet::CompactRange: below level 0 no more files than one output file
   takes.  The range that is left begins at the last of them. *)
FirstFiles(fs) ==
  LET s == InOrder(fs)
      Upto(i) == {s[j] : j \in 1..i}
      enough == {i \in DOMAIN s : TotalFileSize(Upto(i)) >= max_file_size}
  IN IF enough = {} THEN fs ELSE Upto(Min(enough))

(* A slip to rule out: one round has to do. *)
RestIsNothing(c) == MaxKey + 1
RestBegins(c) == Largest(Last(InOrder(c.inputs[0]))).key

StartManualCompaction ==
  /\ compaction = None /\ manual # None
  /\ LET inputs == GetOverlappingInputs(files, manual.level, manual.begin, manual.end) IN
     IF inputs = {}
     THEN manual' = None /\ UNCHANGED <<compaction, compact_pointer>>
     ELSE LET c == SetupOtherInputs(files, manual.level,
                     IF manual.level = 0 THEN inputs ELSE FirstFiles(inputs))
          IN /\ compaction' = [c EXCEPT !.manual = TRUE]
             /\ compact_pointer' = [compact_pointer EXCEPT ![c.level] = LastKey(c.inputs[0])]
             /\ manual' = [manual EXCEPT !.begin = RestBegins(c)]
  /\ UNCHANGED <<last_sequence, history, mem, snapshots, files, file_to_compact, seeks,
                 next_file_number, taken>>

-------------------------------------------------------------------------------
(* DoCompactionWork goes through the entries of the inputs in order. *)

IsBaseLevelForKey(c, key) == \A f \in c.deeper : ~Overlaps(f, key, key)

(* A slip to rule out: a tombstone goes although there is data below it. *)
DropsTombstones(c, last, e) ==
  \/ last # None /\ last.key = e.key /\ last.seq <= c.oldest
  \/ e.type = "del" /\ e.seq <= c.oldest

(* The entry is hidden by the one before it from every snapshot, or is a
   tombstone with nothing to hide. *)
Drops(c, last, e) ==
  \/ last # None /\ last.key = e.key /\ last.seq <= c.oldest
  \/ e.type = "del" /\ e.seq <= c.oldest /\ IsBaseLevelForKey(c, e.key)

(* ShouldStopBefore: how much of the level below the output would overlap. *)
Passed(c, e) == {g \in c.grandparents : Precedes(Largest(g), e)}

Finish(s) == [s EXCEPT !.outputs = IF s.builder = {} THEN @ ELSE Append(@, s.builder),
                       !.builder = {}]

Process(c, s, e) ==
  LET passed  == Passed(c, e)
      overlap == s.overlap + IF s.last = None THEN 0 ELSE TotalFileSize(passed \ s.passed)
      stop    == overlap > kGrandParentOverlap
      t       == [(IF stop THEN Finish(s) ELSE s)
                    EXCEPT !.overlap = IF stop THEN 0 ELSE overlap,
                           !.passed = passed, !.last = e]
      kept    == [t EXCEPT !.builder = @ \cup {e}]
  IN IF Drops(c, s.last, e) THEN t
     ELSE IF Cardinality(kept.builder) >= max_file_size THEN Finish(kept) ELSE kept

Outputs(c) ==
  Finish(FoldLeft(LAMBDA s, e : Process(c, s, e),
                  [outputs |-> <<>>, builder |-> {}, overlap |-> 0, passed |-> {},
                   last |-> None],
                  Sorted(UNION {f.entries : f \in c.inputs[0] \cup c.inputs[1]}))).outputs

(* InstallCompactionResults. *)
FinishCompaction ==
  /\ compaction # None
  /\ LET outputs == Outputs(compaction)
         new == {[number |-> next_file_number + i - 1, entries |-> outputs[i]] :
                 i \in DOMAIN outputs}
     IN /\ files' = Apply(files, compaction.inputs[0] \cup compaction.inputs[1],
                          compaction.level + 1, new)
        /\ next_file_number' = next_file_number + Len(outputs)
  /\ compaction' = None
  /\ NoFileToCompact
  /\ UNCHANGED <<last_sequence, history, mem, snapshots, seeks, compact_pointer, manual,
                 taken>>

-------------------------------------------------------------------------------
Next ==
  \/ \E key \in Keys, type \in Types : Write(key, type)
  \/ GetSnapshot \/ \E s \in snapshots : ReleaseSnapshot(s)
  \/ \E key \in Keys : GetCharges(key) \/ RecordReadSample(key)
  \/ CompactMemTable
  \/ StartCompaction \/ FinishCompaction
  \/ \E r \in Ranges : RequestCompaction(r)
  \/ StartManualCompaction

Spec == Init /\ [][Next]_vars

-------------------------------------------------------------------------------
(* Properties. *)

(* A lookup, at the latest state or at any live snapshot, finds what was
   written last: through flushes that skip levels, compactions that drop
   entries, trivial moves, and files that share a user key. *)
ReadsAreRight ==
  \A s \in snapshots \cup {last_sequence} : \A key \in Keys :
    Value(Get(key, s)) = Value(Find(history, key, s))

(* Below level 0 the files of a level do not overlap, as MaybeAddFile and
   SaveTo assert. *)
LevelsDisjoint ==
  \A l \in Levels \ {0} : \A f, g \in files[l] :
    f = g \/ Precedes(Largest(f), Smallest(g)) \/ Precedes(Largest(g), Smallest(f))

(* Entries never hop across levels: of one user key, a smaller level holds
   the newer ones, and so does the newer of two files at level 0. *)
NewerAbove ==
  LET Older(d, e) == d.key = e.key => e.seq < d.seq IN
  /\ \A l, m \in Levels : l < m =>
       \A f \in files[l], g \in files[m] : \A d \in f.entries, e \in g.entries : Older(d, e)
  /\ \A f, g \in files[0] : f.number > g.number =>
       \A d \in f.entries, e \in g.entries : Older(d, e)

(* A manual compaction that is done has taken every file of its level and its
   range that was there when it was asked for, in however many rounds. *)
ManualIsComplete ==
  manual # None /\ manual' = None => manual.wanted \cap files[manual.level] = {}

===============================================================================
